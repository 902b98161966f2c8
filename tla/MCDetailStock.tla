---------------------------- MODULE MCDetailStock -----------------------------
(* What production is prepared from, for TLC: the stock of details, for one *)
(* project of two jobs beside jobs of their own, the templates of products  *)
(* and the catalogue they refer to.  They share no state here: a behaviour  *)
(* is about one of them.                                                    *)
EXTENDS DetailStock, ProductTemplates, ProductCatalogue, TLC

CONSTANTS
    p1, first, second, \* a project and its jobs, one line each
    Alone,             \* jobs of no project
    AloneNeed,         \* pieces each of those asks for
    original           \* the template that is there before a second one

VARIABLE subject \* "stock", "templates" or "catalogue"

MCJobs == {first, second} \cup Alone
MCJobsOf == [p \in {p1} |-> <<first, second>>]
MCNeed == [j \in MCJobs |-> IF j \in Alone THEN AloneNeed ELSE 1]
MCInitialRows == <<3, 1>>

PreparationInit == StockInit /\ TemplatesInit /\ CatalogueInit /\ subject \in {"stock", "templates", "catalogue"}

PreparationNext ==
    /\ \/ subject = "stock" /\ StockNext /\ UNCHANGED <<templateVars, catalogueVars>>
       \/ subject = "templates" /\ TemplatesNext /\ UNCHANGED <<stockVars, catalogueVars>>
       \/ subject = "catalogue" /\ CatalogueNext /\ UNCHANGED <<stockVars, templateVars>>
    /\ UNCHANGED subject

PreparationSpec == PreparationInit /\ [][PreparationNext]_<<stockVars, templateVars, catalogueVars, subject>>

Symmetry == 
    Permutations(Sessions) \cup Permutations(Templates) \cup Permutations(Categories) \cup Permutations(Clerks)

\* Bounds on what comes together.  Routes are designed while there are no drawings, and drawings
\* while there are no routes; steps are planned in two routes, and in one while requests are
\* handled; jobs exist beside one route; a template is out of use with one row of its own.
\* Two requests overlap on two routes, and on one template; a fourth route is one that was copied.
Scope ==
    /\ routes = <<>> \/ drawings = <<>>
    /\ (\E i \in DOMAIN routes : routes[i].steps # <<>>) =>
          Len(routes) <= IF \A s \in Sessions : reading[s] = Idle THEN 2 ELSE 1
    /\ (\E j \in Drafts : work[j].status # "absent") => Len(routes) <= 1
    /\ (\E t \in Templates : template[t] \in {"inactive", "deleted"}) => Len(routes) + Len(drawings) <= 1
    /\ (\A s \in Sessions : reading[s] # Idle) => Len(routes) <= 2
    /\ (\A t \in Templates : template[t] # "absent") => \A s \in Sessions : reading[s] = Idle
    /\ Len(routes) > 3 => \A t \in Templates : RoutesOf(Routes(t), t) # {}

\* Parts are looked at without categories, and stages by themselves.
Aspects ==
    LET filed == \E c \in Categories : category[c].state # "absent"
        numbered == \E i \in PartRows : part[i] # "absent"
        staged == \E s \in StageRows : stage[s] # "absent"
    IN /\ ~(filed /\ numbered) /\ ~(filed /\ staged) /\ ~(numbered /\ staged)
       /\ staged => \A p \in Products : product[p].state = "absent"

\* A second template is looked at with one category and without requests; a copy is made beside
\* requests for nothing but lines.
Copies ==
    LET pending == {request[k].op : k \in Clerks} IN
    /\ \A p \in Products \ {original} : product[p].state # "absent" =>
         pending = {"none"} /\ \E c \in Categories : category[c].state = "absent"
    /\ "copy_template" \in pending => pending \subseteq {"none", "copy_template", "add_line"}
===============================================================================
