------------------------------- MODULE Exports --------------------------------
(***************************************************************************)
(* Export shipments, their products and generated documents (routers/      *)
(* export_shipments_router.py, services/export_documents.py), and the      *)
(* library of documents that shows these beside the uploaded ones          *)
(* (routers/llp_router.py).                                                *)
(*                                                                         *)
(* Replacing the products, or the documents, of a shipment deletes the     *)
(* rows a statement finds and inserts new ones: what another request has   *)
(* inserted and not committed is not found.  A DELETE of rows that another *)
(* request is deleting waits for it.  The products a request writes are    *)
(* one edition; one document stands for the six that are generated.        *)
(***************************************************************************)
EXTENDS Naturals, FiniteSets

CONSTANTS
    Shipments,   \* rows of export_shipments
    Folders,     \* folders of the library
    ExportsFolder,
    NoFolder,
    NoShipment,
    Writers,     \* requests handled at a time
    MaxEditions, \* bound: times products are written
    MaxDocuments \* bound: rows ever inserted in documents

ASSUME ExportsAssumption ==
    /\ ExportsFolder \in Folders /\ NoFolder \notin Folders /\ NoShipment \notin Shipments
    /\ MaxEditions \in Nat /\ MaxDocuments \in Nat

VARIABLES
    export,    \* per shipment: the editions of its products, those its totals sum, its status
    papers,    \* export_shipment_documents: number, shipment, the editions shown, the library row
    library,   \* documents: the folder, the shipment it belongs to, whether anybody has read it
    folders,   \* folders that are there
    writing,   \* per writer: what the handler has read and deleted, or NoWriting
    editions   \* editions written so far

exportVars == <<export, papers, library, folders, writing, editions>>

ExportStatuses == {"Draft", "Ready", "Sent", "Delivered"}
DocumentIds == 1 .. MaxDocuments
Unused == [folder |-> NoFolder, of |-> NoShipment, read |-> FALSE, state |-> "unused"]
NoWriting == [op |-> "none"]
NoLibraryRow == 0

ExportsInit ==
    /\ export = [e \in Shipments |-> [items |-> {}, totals |-> {}, status |-> "absent"]]
    /\ papers = {}
    /\ library = [d \in DocumentIds |-> Unused]
    /\ folders = {}
    /\ writing = [w \in Writers |-> NoWriting]
    /\ editions = 0

IsShipment(e) == export[e].status # "absent"
Filed == {d \in DocumentIds : library[d].state = "filed"}
Fresh == {d \in DocumentIds : library[d].state = "unused"}
FirstFresh == CHOOSE d \in Fresh : \A x \in Fresh : d <= x
File(f, e) == [folder |-> f, of |-> e, read |-> FALSE, state |-> "filed"]
Removed(docs) == [d \in DocumentIds |-> IF d \in docs THEN [Unused EXCEPT !.state = "removed"] ELSE library[d]]

\* The papers whose library row is gone: llp_document_id is set to null.
Unlinked(rows, docs) == {IF r.doc \in docs THEN [r EXCEPT !.doc = NoLibraryRow] ELSE r : r \in rows}

-----------------------------------------------------------------------------
(* Shipments.                                                              *)

\* create, with its products or from an order.  The number counts the shipments and is unique:
\* of two requests that have counted the same, the second fails.
CreateShipment(e) ==
    /\ ~IsShipment(e) /\ editions < MaxEditions
    /\ export' = [export EXCEPT ![e] =
            [items |-> {editions + 1}, totals |-> {editions + 1}, status |-> "Draft"]]
    /\ editions' = editions + 1
    /\ UNCHANGED <<papers, library, folders, writing>>

SetStatus(e) ==
    /\ IsShipment(e)
    /\ \E s \in ExportStatuses : export' = [export EXCEPT ![e].status = s]
    /\ UNCHANGED <<papers, library, folders, writing, editions>>

Start(w, v) ==
    /\ writing[w] = NoWriting
    /\ writing' = [writing EXCEPT ![w] = v]
    /\ UNCHANGED <<export, papers, library, folders>>

\* update_export_shipment with products.
LoadForUpdate(w, e) ==
    /\ IsShipment(e) /\ editions < MaxEditions
    /\ Start(w, [op |-> "update", at |-> "loaded", e |-> e, edition |-> editions + 1, disturbed |-> FALSE])
    /\ editions' = editions + 1

\* generate_export_documents writes what the shipment holds when it is loaded.
LoadForGenerate(w, e) ==
    /\ IsShipment(e) /\ export[e].items # {}
    /\ Start(w, [op |-> "generate", at |-> "loaded", e |-> e, shows |-> export[e].items, disturbed |-> FALSE])
    /\ UNCHANGED editions

PapersOf(e) == {r \in papers : r.e = e}

\* Mutant: what is there is not deleted.
RowsKept(v) == {}

\* The rows of the DELETE at the head of _replace_items and of generate_documents.
DeletedRows(v) == IF v.op = "update" THEN export[v.e].items ELSE {r.n : r \in PapersOf(v.e)}

Others(w, v) == {x \in Writers \ {w} : writing[x].op = v.op /\ writing[x].e = v.e}

\* The statement waits for whoever is deleting one of its rows.
Erase(w) ==
    LET v == writing[w]
        rows == DeletedRows(v)
        busy == {x \in Others(w, v) : writing[x].at # "loaded" /\ writing[x].rows \cap rows # {}}
    IN
    /\ v.op \in {"update", "generate"} /\ v.at = "loaded"
    /\ writing' = [writing EXCEPT ![w] =
            [a \in DOMAIN v \cup {"rows", "waits"} |->
                CASE a = "at" -> "erased" [] a = "rows" -> rows [] a = "waits" -> busy [] OTHER -> v[a]]]
    /\ UNCHANGED <<export, papers, library, folders, editions>>

\* Inserted, refreshed and summed: the totals of what is there but not committed yet.
Sum(w) ==
    LET v == writing[w] IN
    /\ v.op = "update" /\ v.at = "erased" /\ v.waits = {}
    /\ writing' = [writing EXCEPT ![w] =
            [a \in DOMAIN v \cup {"sum", "seen"} |->
                CASE a = "at" -> "summed" [] a = "seen" -> export[v.e].totals
                  [] a = "sum" -> (export[v.e].items \ v.rows) \cup {v.edition} [] OTHER -> v[a]]]
    /\ UNCHANGED <<export, papers, library, folders, editions>>

\* The library rows of the shipment go first, by their description, which an upload or an edit may
\* give to any document; here only generated ones have it.  One that somebody has marked as read is
\* referred to by document_read_status, and the request fails.
Purge(w) ==
    LET v == writing[w]
        docs == {d \in Filed : library[d].of = v.e}
    IN
    /\ v.op = "generate" /\ v.at = "erased" /\ v.waits = {}
    /\ \A d \in docs : ~library[d].read
    /\ writing' = [writing EXCEPT ![w] =
            [a \in DOMAIN v \cup {"docs"} |-> CASE a = "at" -> "purged" [] a = "docs" -> docs [] OTHER -> v[a]]]
    /\ UNCHANGED <<export, papers, library, folders, editions>>

\* The end of a request: whoever waited for it goes on, and whoever works on the same is disturbed.
Done(w) ==
    [x \in Writers |->
        IF x = w THEN NoWriting
        ELSE LET v == writing[x]
             IN [a \in DOMAIN v |->
                    CASE a = "waits" -> v.waits \ {w}
                      [] a = "disturbed" -> v.disturbed \/ (writing[w].op \in {"update", "generate"} /\ v.e = writing[w].e)
                      [] OTHER -> v[a]]]

\* A document comes into a folder that is about to be deleted.
Into(f, ws) == [w \in Writers |-> IF ws[w].op = "delete" /\ ws[w].f = f THEN [ws[w] EXCEPT !.joined = TRUE] ELSE ws[w]]

CommitUpdate(w) ==
    LET v == writing[w] IN
    /\ v.op = "update" /\ v.at = "summed"
    /\ export' = [export EXCEPT ![v.e].items = (@ \ v.rows) \cup {v.edition},
                                ![v.e].totals = IF v.sum = v.seen THEN @ ELSE v.sum]
    /\ writing' = Done(w)
    /\ UNCHANGED <<papers, library, folders, editions>>

\* ensure_export_llp_folder creates the folder when it is not there.
CommitGenerate(w) ==
    LET v == writing[w] IN
    /\ v.op = "generate" /\ v.at = "purged" /\ Fresh # {}
    /\ LET d == FirstFresh IN
        /\ papers' = Unlinked({r \in papers : r.n \notin v.rows}, v.docs) \cup {[n |-> d, e |-> v.e, shows |-> v.shows, doc |-> d]}
        /\ library' = [Removed(v.docs) EXCEPT ![d] = File(ExportsFolder, v.e)]
    /\ folders' = folders \cup {ExportsFolder}
    /\ export' = [export EXCEPT ![v.e].status = "Ready"]
    /\ writing' = Into(ExportsFolder, Done(w))
    /\ UNCHANGED editions

Abort(w) ==
    /\ writing[w] # NoWriting
    /\ writing' = Done(w)
    /\ UNCHANGED <<export, papers, library, folders, editions>>

-----------------------------------------------------------------------------
(* The library.  A document that a request is purging is locked, and so is  *)
(* the link to it from a paper that is being erased.                        *)

Locked(d) == \E w \in Writers : writing[w].op = "generate" /\ writing[w].at = "purged" /\ d \in writing[w].docs
LinkLocked(d) ==
    \E w \in Writers : /\ writing[w].op = "generate" /\ writing[w].at # "loaded"
                       /\ \E r \in papers : r.doc = d /\ r.n \in writing[w].rows

CreateFolder(f) ==
    /\ f \notin folders /\ folders' = folders \cup {f}
    /\ UNCHANGED <<export, papers, library, writing, editions>>

\* upload_document checks the folder and then awaits the file; a folder that has gone fails it.
CheckUpload(w, f) ==
    /\ f \in folders \cup {NoFolder}
    /\ Start(w, [op |-> "upload", f |-> f])
    /\ UNCHANGED editions

SaveUpload(w) ==
    LET f == writing[w].f IN
    /\ writing[w].op = "upload" /\ Fresh # {}
    /\ f \in folders \cup {NoFolder}
    /\ library' = [library EXCEPT ![FirstFresh] = File(f, NoShipment)]
    /\ writing' = Into(f, [writing EXCEPT ![w] = NoWriting])
    /\ UNCHANGED <<export, papers, folders, editions>>

MoveDocument(d, f) ==
    /\ d \in Filed /\ ~Locked(d) /\ f \in folders /\ f # library[d].folder
    /\ library' = [library EXCEPT ![d].folder = f]
    /\ writing' = Into(f, writing)
    /\ UNCHANGED <<export, papers, folders, editions>>

DeleteDocument(d) ==
    /\ d \in Filed /\ ~Locked(d) /\ ~LinkLocked(d)
    /\ library' = Removed({d})
    /\ papers' = Unlinked(papers, {d})
    /\ UNCHANGED <<export, folders, writing, editions>>

MarkRead(d) ==
    /\ d \in Filed /\ ~Locked(d)
    /\ library' = [library EXCEPT ![d].read = TRUE]
    /\ UNCHANGED <<export, papers, folders, writing, editions>>

Empty(f) == \A d \in Filed : library[d].folder # f

CountFolder(w, f) ==
    /\ f \in folders /\ Empty(f)
    /\ Start(w, [op |-> "delete", f |-> f, joined |-> FALSE])
    /\ UNCHANGED editions

\* The documents that have come meanwhile are deleted with their folder.
DeleteFolder(w) ==
    LET f == writing[w].f
        inside == {d \in Filed : library[d].folder = f}
    IN
    /\ writing[w].op = "delete" /\ \A d \in inside : ~Locked(d) /\ ~LinkLocked(d)
    /\ folders' = folders \ {f}
    /\ library' = Removed(inside)
    /\ papers' = Unlinked(papers, inside)
    /\ writing' = [writing EXCEPT ![w] = NoWriting]
    /\ UNCHANGED <<export, editions>>

ExportsNext ==
    \/ \E e \in Shipments : CreateShipment(e) \/ SetStatus(e)
    \/ \E w \in Writers :
        \/ \E e \in Shipments : LoadForUpdate(w, e) \/ LoadForGenerate(w, e)
        \/ Erase(w) \/ Sum(w) \/ Purge(w) \/ CommitUpdate(w) \/ CommitGenerate(w) \/ Abort(w)
        \/ \E f \in Folders \cup {NoFolder} : CheckUpload(w, f)
        \/ \E f \in Folders : CountFolder(w, f)
        \/ SaveUpload(w) \/ DeleteFolder(w)
    \/ \E f \in Folders : CreateFolder(f)
    \/ \E d \in DocumentIds : DeleteDocument(d) \/ MarkRead(d) \/ \E f \in Folders : MoveDocument(d, f)

ExportsSpec == ExportsInit /\ [][ExportsNext]_exportVars

-----------------------------------------------------------------------------
(* Properties.                                                             *)

Mixed(e) ==
    \/ export[e].totals # export[e].items \/ Cardinality(export[e].items) > 1
    \/ Cardinality(PapersOf(e)) > 1
Outdated(e) == \E r \in PapersOf(e) : r.shows # export[e].items
Orphaned(d) == d \in Filed /\ d \notin Filed'

\* A shipment holds the products of one request, totals that are theirs, and one set of documents;
\* it mixes two, and generates documents of other products, only when requests for it overlap; and
\* a document leaves the library only when it is deleted, replaced by a new one of its shipment, or
\* came into its folder while that was being deleted (_replace_items, generate_documents,
\* delete_folder).
OnlyOverlapsMix ==
    [][/\ \A e \in Shipments :
            /\ Mixed(e)' /\ ~Mixed(e) =>
                 \E w \in Writers : (CommitUpdate(w) \/ CommitGenerate(w)) /\ writing[w].e = e /\ writing[w].disturbed
            /\ Outdated(e)' /\ ~Outdated(e) =>
                 \E w \in Writers : CommitUpdate(w) \/ (CommitGenerate(w) /\ writing[w].disturbed)
       /\ \A d \in DocumentIds : Orphaned(d) =>
            \/ DeleteDocument(d)
            \/ \E w \in Writers : CommitGenerate(w) /\ writing[w].e = library[d].of
            \/ \E w \in Writers : DeleteFolder(w) /\ writing[w].joined]_exportVars
===============================================================================
