--------------------------- MODULE ProductCatalogue ---------------------------
(***************************************************************************)
(* The catalogue around the product templates (routers/mes_router.py):     *)
(* the tree of categories, the parts and the stages that templates refer   *)
(* to, and the lines of a template, those of its BOM and those assembled   *)
(* (yig'ish).  Nothing is erased: what is deleted is marked, and may still *)
(* be referred to.                                                         *)
(*                                                                         *)
(* A handler that checks rows it does not write is two steps, Check and    *)
(* Commit, with nothing locked between; the others are one.  Quantities,   *)
(* names and the order of lines are left out.                              *)
(***************************************************************************)
EXTENDS FiniteSets

CONSTANTS
    Categories, \* rows of MesProductCategory
    Products,   \* rows of MesProductTemplate
    PartRows,   \* rows of MesProductPart
    Stocked,    \* materials: whether they are active is the warehouse's
    StageRows,  \* rows of MesProductionStage
    Clerks,     \* sessions of the database
    NoCategory

ASSUME CatalogueAssumption == NoCategory \notin Categories /\ PartRows \cap Stocked = {}

VARIABLES
    category, \* per category: state and parent
    product,  \* per template: state and category
    part,     \* per part: "absent", "active", "inactive" or "deleted"
    stage,    \* per stage: "absent", "active" or "inactive"
    planned,  \* stages of the steps of routes
    listing,  \* per template, list ("bom", "yigish") and item: "none", "active" or "removed"
    request   \* per session: the request whose checks have passed, or NoRequest

catalogueVars == <<category, product, part, stage, planned, listing, request>>

NoRequest == [op |-> "none"]
Lists == {"bom", "yigish"}

CatalogueInit ==
    /\ category = [c \in Categories |-> [state |-> "absent", parent |-> NoCategory]]
    /\ product = [p \in Products |-> [state |-> "absent", category |-> NoCategory]]
    /\ part = [i \in PartRows |-> "absent"]
    /\ stage = [s \in StageRows |-> "absent"]
    /\ planned = {}
    /\ listing = [p \in Products |-> [l \in Lists |-> [i \in PartRows \cup Stocked |-> "none"]]]
    /\ request = [k \in Clerks |-> NoRequest]

InUse(c) == c # NoCategory => category[c].state = "active"
Undeleted(p) == product[p].state \in {"active", "inactive"}

-----------------------------------------------------------------------------
(* Requests that check other rows.                                         *)

Requests ==
    [op : {"create_category"}, c : Categories, parent : Categories \cup {NoCategory}]
    \cup [op : {"delete_category"}, c : Categories]
    \cup [op : {"create_template"}, p : Products, c : Categories \cup {NoCategory}, state : {"active", "inactive"}]
    \cup [op : {"move_template"}, p : Products, c : Categories]
    \cup [op : {"delete_stage"}, s : StageRows]
    \cup [op : {"add_step"}, s : StageRows]
    \cup [op : {"add_line"}, p : Products, l : Lists, i : PartRows \cup Stocked]
    \cup [op : {"copy_template"}, p : Products, q : Products, c : Categories \cup {NoCategory},
          parts : SUBSET PartRows, steps : SUBSET StageRows]

CategoryCreatable(c, parent) == category[c].state = "absent" /\ InUse(parent)

\* Mutant: the subcategories are forgotten.
ChildlessIgnored(c) == category[c].state = "active"

Childless(c) ==
    /\ category[c].state = "active"
    /\ \A d \in Categories : category[d].parent = c => category[d].state # "active"

Unfilled(c) == \A p \in Products : product[p].category = c => product[p].state # "active"

StageUnplanned(s) == stage[s] = "active" /\ s \notin planned

PartActive(i) == i \in PartRows /\ part[i] = "active"

\* A removed line is taken up again; there is one line per item and list.
BomAddable(p, i) == Undeleted(p) /\ PartActive(i) /\ listing[p]["bom"][i] # "active"

YigishAddable(p, i) == Undeleted(p) /\ (PartActive(i) \/ i \in Stocked) /\ listing[p]["yigish"][i] # "active"

\* Every line of the BOM is read, a removed one and one of a deleted part too; the category is not
\* looked at.  Which stages are planned for which template is left open.
Copyable(r) ==
    /\ Undeleted(r.p) /\ product[r.q].state = "absent" /\ r.c = product[r.p].category
    /\ r.parts = {i \in PartRows : listing[r.p]["bom"][i] # "none"} /\ r.steps \subseteq planned

Checks(r) ==
    \/ r.op = "create_category" /\ CategoryCreatable(r.c, r.parent)
    \/ r.op = "delete_category" /\ Childless(r.c) /\ Unfilled(r.c)
    \/ r.op = "create_template" /\ product[r.p].state = "absent" /\ InUse(r.c)
    \/ r.op = "move_template" /\ Undeleted(r.p) /\ InUse(r.c)
    \/ r.op = "delete_stage" /\ StageUnplanned(r.s)
    \/ r.op = "add_step" /\ stage[r.s] = "active"
    \/ r.op = "add_line" /\ IF r.l = "bom" THEN BomAddable(r.p, r.i) ELSE YigishAddable(r.p, r.i)
    \/ r.op = "copy_template" /\ Copyable(r)

Check(k) ==
    /\ request[k] = NoRequest
    /\ \E r \in Requests : Checks(r) /\ request' = [request EXCEPT ![k] = r]
    /\ UNCHANGED <<category, product, part, stage, planned, listing>>

CreateCategory(r) ==
    /\ category[r.c].state = "absent"
    /\ category' = [category EXCEPT ![r.c] = [state |-> "active", parent |-> r.parent]]
    /\ UNCHANGED <<product, part, stage, planned, listing>>

DeleteCategory(r) ==
    /\ category' = [category EXCEPT ![r.c].state = "inactive"]
    /\ UNCHANGED <<product, part, stage, planned, listing>>

\* The code of a template is unique: the second insert fails.
CreateProduct(r) ==
    /\ product[r.p].state = "absent"
    /\ product' = [product EXCEPT ![r.p] = [state |-> r.state, category |-> r.c]]
    /\ UNCHANGED <<category, part, stage, planned, listing>>

MoveProduct(r) ==
    /\ product' = [product EXCEPT ![r.p].category = r.c]
    /\ UNCHANGED <<category, part, stage, planned, listing>>

DeleteStage(r) ==
    /\ stage' = [stage EXCEPT ![r.s] = "inactive"]
    /\ UNCHANGED <<category, product, part, planned, listing>>

\* A step is added, or gets another stage.
PlanStage(r) ==
    /\ planned' = planned \cup {r.s}
    /\ UNCHANGED <<category, product, part, stage, listing>>

\* Of two sessions that insert the same line the second fails.
AddLine(r) ==
    /\ listing[r.p][r.l][r.i] # "active"
    /\ listing' = [listing EXCEPT ![r.p][r.l][r.i] = "active"]
    /\ UNCHANGED <<category, product, part, stage, planned>>

\* A copy is in use, and so is every line in it; what is assembled is not copied.
CopyProduct(r) ==
    /\ product[r.q].state = "absent"
    /\ product' = [product EXCEPT ![r.q] = [state |-> "active", category |-> r.c]]
    /\ listing' = [listing EXCEPT ![r.q]["bom"] =
                     [i \in PartRows \cup Stocked |-> IF i \in r.parts THEN "active" ELSE listing[r.q]["bom"][i]]]
    /\ planned' = planned \cup r.steps
    /\ UNCHANGED <<category, part, stage>>

CommitRequest(k) ==
    LET r == request[k]
    IN /\ \/ r.op = "create_category" /\ CreateCategory(r)
          \/ r.op = "delete_category" /\ DeleteCategory(r)
          \/ r.op = "create_template" /\ CreateProduct(r)
          \/ r.op = "move_template" /\ MoveProduct(r)
          \/ r.op = "delete_stage" /\ DeleteStage(r)
          \/ r.op = "add_step" /\ PlanStage(r)
          \/ r.op = "add_line" /\ AddLine(r)
          \/ r.op = "copy_template" /\ CopyProduct(r)
       /\ request' = [request EXCEPT ![k] = NoRequest]

DropRequest(k) ==
    /\ request[k] # NoRequest
    /\ request' = [request EXCEPT ![k] = NoRequest]
    /\ UNCHANGED <<category, product, part, stage, planned, listing>>

-----------------------------------------------------------------------------
(* Requests that check only the row they write.                            *)

\* The new parent must exist, in use or not; a category may come back into use.
UpdateCategory(c) ==
    /\ category[c].state # "absent"
    /\ \E active \in {"active", "inactive"}, d \in Categories \cup {category[c].parent} :
        /\ d # c /\ (d \in Categories => category[d].state # "absent")
        /\ category' = [category EXCEPT ![c] = [state |-> active, parent |-> d]]
    /\ UNCHANGED <<product, part, stage, planned, listing, request>>

UpdateProduct(p) ==
    /\ Undeleted(p)
    /\ \E s \in {"active", "inactive"} : product' = [product EXCEPT ![p].state = s]
    /\ UNCHANGED <<category, part, stage, planned, listing, request>>

DeleteProduct(p) ==
    /\ Undeleted(p)
    /\ product' = [product EXCEPT ![p].state = "deleted"]
    /\ UNCHANGED <<category, part, stage, planned, listing, request>>

PartChange(i, from, to) ==
    /\ part[i] \in from
    /\ \E s \in to : part' = [part EXCEPT ![i] = s]
    /\ UNCHANGED <<category, product, stage, planned, listing, request>>

CreatePart(i) == PartChange(i, {"absent"}, {"active"})

\* A deleted part is not found, and its number stays taken.
UpdatePart(i) == PartChange(i, {"active", "inactive"}, {"active", "inactive"})

\* Lines that refer to the part are not looked at.
DeletePart(i) == PartChange(i, {"active"}, {"deleted"})

StageChange(s, from, to) ==
    /\ stage[s] \in from
    /\ \E new \in to : stage' = [stage EXCEPT ![s] = new]
    /\ UNCHANGED <<category, product, part, planned, listing, request>>

CreateStage(s) == StageChange(s, {"absent"}, {"active"})

UpdateStage(s) == StageChange(s, {"active", "inactive"}, {"active", "inactive"})

\* The last step with this stage is deleted, or gets another one.
ForgetStep(s) ==
    /\ s \in planned
    /\ planned' = planned \ {s}
    /\ UNCHANGED <<category, product, part, stage, listing, request>>

RemoveLine(p, l) ==
    /\ Undeleted(p)
    /\ \E i \in PartRows \cup Stocked :
        listing[p][l][i] = "active" /\ listing' = [listing EXCEPT ![p][l][i] = "removed"]
    /\ UNCHANGED <<category, product, part, stage, planned, request>>

RemoveBomLine(p) == RemoveLine(p, "bom")
RemoveYigishLine(p) == RemoveLine(p, "yigish")

-----------------------------------------------------------------------------
EditCategory == \E c \in Categories : UpdateCategory(c)
EditProduct == \E p \in Products : UpdateProduct(p)
EditStage == \E s \in StageRows : UpdateStage(s)
EditPart == \E i \in PartRows : UpdatePart(i) \/ DeletePart(i)

CatalogueNext ==
    \/ \E k \in Clerks : Check(k) \/ CommitRequest(k) \/ DropRequest(k)
    \/ EditCategory \/ EditProduct \/ EditStage \/ EditPart
    \/ \E p \in Products :
        \/ DeleteProduct(p) \/ RemoveBomLine(p) \/ RemoveYigishLine(p)
    \/ \E i \in PartRows : CreatePart(i)
    \/ \E s \in StageRows : CreateStage(s) \/ ForgetStep(s)

CatalogueSpec == CatalogueInit /\ [][CatalogueNext]_catalogueVars

-----------------------------------------------------------------------------
(* Properties.                                                             *)

\* What is in use and refers to something that is not.
Stranded ==
    {p \in Products : product[p].state = "active" /\ ~InUse(product[p].category)}
    \cup {c \in Categories : category[c].state = "active" /\ ~InUse(category[c].parent)}
    \cup {s \in planned : stage[s] # "active"}
    \cup {e \in Products \X Lists \X PartRows : listing[e[1]][e[2]][e[3]] = "active" /\ part[e[3]] # "active"}

\* Something in use comes to refer to something out of use only by an edit, which checks none of
\* it, by the deletion of a part, by a copy of a template, which takes removed lines and lines of
\* deleted parts back into use and does not look at the category, or when a handler commits after
\* another one has taken away what its checks were about (a category deleted while a template is
\* created in it).  A creation, a move, an addition or a deletion by itself leaves everything in use.
OnlyUncheckedStrand ==
    [][~(Stranded' \subseteq Stranded) =>
          \/ EditCategory \/ EditProduct \/ EditStage \/ EditPart
          \/ \E k \in Clerks :
                /\ request[k] # NoRequest /\ request'[k] = NoRequest
                /\ request[k].op = "copy_template" \/ ~Checks(request[k])]_catalogueVars
===============================================================================
