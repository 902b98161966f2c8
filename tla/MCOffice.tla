------------------------------- MODULE MCOffice -------------------------------
(* The offices, for TLC: the warehouse of a material, the orders of         *)
(* customers, loading plans, export shipments with the library of           *)
(* documents, the accounts of users, and the finance pages.  They share no  *)
(* state here: a behaviour is about one of them.                            *)
EXTENDS Materials, Orders, Loading, Exports, Accounts, Finance, TLC

VARIABLE subject \* "materials", "orders", "loading", "exports", "accounts" or "finance"

allVars == <<materialVars, orderVars, loadingVars, exportVars, accountVars, financeVars, subject>>

OfficeInit ==
    /\ Init /\ OrdersInit /\ LoadingInit /\ ExportsInit /\ AccountsInit /\ FinanceInit
    /\ subject \in {"materials", "orders", "loading", "exports", "accounts", "finance"}

OfficeNext ==
    /\ \/ subject = "materials" /\ Next
          /\ UNCHANGED <<orderVars, loadingVars, exportVars, accountVars, financeVars>>
       \/ subject = "orders" /\ OrdersNext
          /\ UNCHANGED <<materialVars, loadingVars, exportVars, accountVars, financeVars>>
       \/ subject = "loading" /\ LoadingNext
          /\ UNCHANGED <<materialVars, orderVars, exportVars, accountVars, financeVars>>
       \/ subject = "exports" /\ ExportsNext
          /\ UNCHANGED <<materialVars, orderVars, loadingVars, accountVars, financeVars>>
       \/ subject = "accounts" /\ AccountsNext
          /\ UNCHANGED <<materialVars, orderVars, loadingVars, exportVars, financeVars>>
       \/ subject = "finance" /\ FinanceNext
          /\ UNCHANGED <<materialVars, orderVars, loadingVars, exportVars, accountVars>>
    /\ UNCHANGED subject

OfficeSpec == OfficeInit /\ [][OfficeNext]_allVars

\* Every account is opened with one unit.
MCOpening == [a \in Wallets |-> 1]

\* The same two names stand for receipts and issues, and for the requests of every office: one
\* permutation exchanges them all.  The properties are about states and single steps.
Symmetry == Permutations(Counters)

-----------------------------------------------------------------------------
(* Bounds on what comes together.                                          *)

\* The trash and the archive only label an order and a shipment: they are used between requests.
Labels ==
    subject = "orders" /\ (\E c \in Counters : serving[c] # NoService) =>
        (\A o \in Orders : ~order[o].trashed) /\ (\A g \in DOMAIN groups : ~groups[g].archived)

\* Loading plans are looked at without transports.
Apart == subject = "loading" => (\A s \in Loads : ~IsLoad(s)) \/ (\A t \in Lorries : ~IsLorry(t))

\* A status that only labels the shipment is set between requests; the third edition of its
\* products, and the third document, meet no document of the library.
Papers ==
    LET using == {w \in Writers : writing[w] # NoWriting}
        keeping == {w \in using : writing[w].op \in {"upload", "delete"}}
    IN subject = "exports" =>
       /\ \A e \in Shipments : export[e].status \in {"Sent", "Delivered"} => using = {}
       /\ editions > 2 => keeping = {} /\ \A d \in Filed : library[d].of # NoShipment
       /\ Cardinality({d \in DocumentIds : library[d].state # "unused"}) > 2 =>
              keeping = {} /\ \A d \in Filed : library[d].of # NoShipment

\* Departments change while all are active administrators and one of them manages; roles and
\* states of users change within one department, whose users have all signed in.  Two requests overlap on one of: the roles with
\* the permissions as they were at first, the states of administrators, a role of their own.  The root
\* role does not need the permissions it has.
Personnel ==
    LET ops == {asking[c].op : c \in Clerks}
        rows == {account[u] : u \in {x \in Users : IsUser(x)}}
                  \cup {asking[c].new : c \in {x \in Clerks : asking[x].op = "user"}}
        two == \A c \in Clerks : asking[c] # NoAsking
        oneList == /\ departments = Configured /\ ops \cap {"add", "rename", "remove"} = {}
                   /\ \A r \in rows : r.dept = AdminDepartment
                   /\ cached = NoList <=> ops \subseteq {"none"}
        twoRoles == ops \cap {"role", "drop"} = {} /\ roles = BuiltIn
        allGranted == grants[AdminRole] /\ "deny" \notin ops
        allActive == \A r \in rows : r.state = "active"
        unnamed == \A r \in rows : r.own = "none"
        admins == \A r \in rows : r.role = AdminRole
    IN subject = "accounts" =>
       /\ grants[RootRole] /\ (two => "login" \notin ops)
       /\ \/ /\ twoRoles /\ allGranted /\ unnamed /\ admins /\ allActive
             /\ account[Seeded].dept = AdminDepartment /\ signed \subseteq {Seeded}
             /\ \A c \in Clerks : asking[c].op = "user" => asking[c].user # Seeded
          \/ /\ oneList /\ signed = {u \in Users : IsUser(u)}
             /\ \/ twoRoles /\ unnamed /\ (two => (allGranted /\ admins) \/ allActive)
                \/ twoRoles /\ ~two /\ allActive
                \/ allGranted /\ unnamed /\ allActive /\ account[Seeded].role = AdminRole

\* The balance is changed in bulk before the job is released; its stage takes from it afterwards.
Bulk == subject = "materials" => bulk = 0 \/ \A j \in Jobs : jobs[j].status = "draft"

\* Two requests of the finance pages overlap on rows they both touch, while debts are in so'm.
Books ==
    subject = "finance" =>
        \A c, e \in Cashiers :
            c # e /\ IsPaying(c) /\ IsPaying(e) =>
                /\ Touched(paying[c].doc) \cap Touched(paying[e].doc) # {}
                /\ \A o \in Debts : IsDebt(o) => ~debt[o].foreign
===============================================================================
