--------------------------- MODULE ProductTemplates ---------------------------
(***************************************************************************)
(* Product templates (routers/mes_router.py): their production routes with *)
(* the steps of each and one default, their drawings with one primary,     *)
(* copies of whole templates, and the production jobs that take a snapshot *)
(* of the default route when they are released (services/mes_jobs.py).     *)
(*                                                                         *)
(* No handler here locks anything, and the session of each writes at its   *)
(* commit the attributes that it changed, compared with what it read.  The *)
(* handlers that change several rows by what they read are two steps, Read *)
(* and Commit; the others are one.  The lines of a template are those of   *)
(* ProductCatalogue: here a release may fail for want of them.             *)
(***************************************************************************)
EXTENDS Integers, Sequences, FiniteSets

CONSTANTS
    Templates,   \* rows of MesProductTemplate
    Drafts,      \* production jobs
    Sessions,    \* sessions of the database, one per request being handled
    MaxVersion,  \* bound: version of a route
    MaxRoutes,   \* bound: routes ever created
    MaxSteps,    \* bound: orders of the steps of a route
    MaxDrawings, \* bound: drawings ever uploaded
    MaxCopies    \* bound: snapshots a job may hold

ASSUME TemplatesAssumption ==
    /\ MaxVersion \in Nat \ {0} /\ MaxRoutes \in Nat /\ MaxSteps \in Nat
    /\ MaxDrawings \in Nat /\ MaxCopies \in Nat

VARIABLES
    template,     \* per template: "absent", "active", "inactive" or "deleted"
    routes,       \* MesProductionRoute in order of creation: its template, version, whether it
                  \* is active, flag (is_default), and its steps: order to "planned", or "copied"
                  \* once a job has a snapshot of the step
    defaultRoute, \* per template: default_route_id, or 0
    drawings,     \* MesProductDrawing in order of upload: its template, active, primary
    work,         \* per job: template, status, the routes of the snapshots it holds, and whether
                  \* it holds stock or material reserved
    reading       \* per session: the command it has read for, with what it read, or Idle

templateVars == <<template, routes, defaultRoute, drawings, work, reading>>

Idle == [op |-> "none"]
NoWork == [template |-> "none", status |-> "absent", snapshots |-> <<>>, reserved |-> FALSE]

TemplatesInit ==
    /\ template = [t \in Templates |-> "absent"]
    /\ routes = <<>>
    /\ defaultRoute = [t \in Templates |-> 0]
    /\ drawings = <<>>
    /\ work = [j \in Drafts |-> NoWork]
    /\ reading = [s \in Sessions |-> Idle]

Live(t) == template[t] \in {"active", "inactive"}

-----------------------------------------------------------------------------
(* A design: routes and drawings as a session sees them.                   *)

Flags(r) == [template |-> r.template, version |-> r.version, active |-> r.active, flag |-> r.flag]

Routes(t) == [routes |-> [i \in DOMAIN routes |-> Flags(routes[i])], default |-> defaultRoute[t], drawings |-> <<>>]
Drawings == [routes |-> <<>>, default |-> 0, drawings |-> drawings]

RoutesOf(d, t) == {i \in DOMAIN d.routes : d.routes[i].template = t /\ d.routes[i].active}
DrawingsOf(d, t) == {i \in DOMAIN d.drawings : d.drawings[i].template = t /\ d.drawings[i].active}

\* The first of active_routes: the highest version, then the oldest.
FirstRoute(d, t) ==
    CHOOSE i \in RoutesOf(d, t) : \A k \in RoutesOf(d, t) :
        \/ d.routes[i].version > d.routes[k].version
        \/ d.routes[i].version = d.routes[k].version /\ i <= k

\* The first of active_drawings: a primary one, then the oldest.
FirstDrawing(d, t) ==
    CHOOSE i \in DrawingsOf(d, t) : \A k \in DrawingsOf(d, t) :
        \/ d.drawings[i].primary /\ ~d.drawings[k].primary
        \/ d.drawings[i].primary = d.drawings[k].primary /\ i <= k

MarkDefault(d, t, r) ==
    [d EXCEPT !.default = r,
              !.routes = [i \in DOMAIN @ |->
                  IF i \in RoutesOf(d, t) \cup {r} THEN [@[i] EXCEPT !.flag = (i = r)] ELSE @[i]]]

AddRoute(d, t, version, wanted) ==
    LET e == [d EXCEPT !.routes = Append(@, [template |-> t, version |-> version, active |-> TRUE, flag |-> FALSE,
                                            steps |-> <<>>])]
    IN IF wanted \/ RoutesOf(d, t) = {} THEN MarkDefault(e, t, Len(e.routes)) ELSE e

\* Mutant: the template keeps pointing to the route.
RemoveRouteOnly(d, t, r) == [d EXCEPT !.routes[r].active = FALSE, !.routes[r].flag = FALSE]

RemoveRoute(d, t, r) ==
    LET e == [d EXCEPT !.routes[r].active = FALSE, !.routes[r].flag = FALSE]
    IN IF d.default # r THEN e
       ELSE IF RoutesOf(e, t) = {} THEN [e EXCEPT !.default = 0]
       ELSE MarkDefault(e, t, FirstRoute(e, t))

ClearPrimary(d, t) ==
    [d EXCEPT !.drawings = [i \in DOMAIN @ |->
        IF i \in DrawingsOf(d, t) THEN [@[i] EXCEPT !.primary = FALSE] ELSE @[i]]]

AddDrawing(d, t, wanted) ==
    LET primary == wanted \/ DrawingsOf(d, t) = {}
        e == IF primary THEN ClearPrimary(d, t) ELSE d
    IN [e EXCEPT !.drawings = Append(@, [template |-> t, active |-> TRUE, primary |-> primary])]

SetPrimary(d, t, x, wanted) ==
    LET e == IF wanted THEN ClearPrimary(d, t) ELSE d
    IN [e EXCEPT !.drawings[x].primary = wanted]

RemoveDrawing(d, t, x) ==
    LET e == [d EXCEPT !.drawings[x].active = FALSE, !.drawings[x].primary = FALSE]
    IN IF d.drawings[x].primary /\ DrawingsOf(e, t) # {}
       THEN [e EXCEPT !.drawings[FirstDrawing(e, t)].primary = TRUE]
       ELSE e

-----------------------------------------------------------------------------
(* The handlers that change several rows of a design.                      *)

RouteOps == {"create_route", "delete_route", "set_default"}
DrawingOps == {"upload", "set_primary", "remove"}
DesignOps == RouteOps \cup DrawingOps

\* A handler loads the whole template; what it uses of that is its routes or its drawings.
Loaded(op, t) == IF op \in RouteOps THEN Routes(t) ELSE Drawings

\* The requests a template takes: x is the version of the new route, or the route or drawing meant,
\* and on is the flag asked for.
Commands(t) ==
    [op : {"create_route"}, t : {t}, x : 1 .. MaxVersion, on : BOOLEAN]
    \cup [op : {"delete_route", "set_default"}, t : {t}, x : RoutesOf(Routes(t), t), on : {TRUE}]
    \cup [op : {"upload"}, t : {t}, x : {0}, on : BOOLEAN]
    \cup [op : {"set_primary"}, t : {t}, x : DrawingsOf(Drawings, t), on : BOOLEAN]
    \cup [op : {"remove"}, t : {t}, x : DrawingsOf(Drawings, t), on : {TRUE}]

Handled(d, c) ==
    CASE c.op = "create_route" -> AddRoute(d, c.t, c.x, c.on)
      [] c.op = "delete_route" -> RemoveRoute(d, c.t, c.x)
      [] c.op = "set_default" -> MarkDefault(d, c.t, c.x)
      [] c.op = "upload" -> AddDrawing(d, c.t, c.on)
      [] c.op = "set_primary" -> SetPrimary(d, c.t, c.x, c.on)
      [] c.op = "remove" -> RemoveDrawing(d, c.t, c.x)

\* An upload awaits the body of its file between the two steps.
ReadDesign(s, t) ==
    /\ reading[s] = Idle /\ Live(t)
    /\ \E c \in Commands(t) : reading' = [reading EXCEPT ![s] = [op |-> c.op, cmd |-> c, was |-> Loaded(c.op, c.t)]]
    /\ UNCHANGED <<template, routes, defaultRoute, drawings, work>>

Written(was, becomes, now) == IF was = becomes THEN now ELSE becomes

\* The rows a session has changed, and after the rows there are now those it has added.
RowsWritten(was, becomes, now) ==
    [i \in DOMAIN now |->
        IF i \in DOMAIN was
        THEN [f \in DOMAIN now[i] |->
                 IF f \in DOMAIN was[i] THEN Written(was[i][f], becomes[i][f], now[i][f]) ELSE now[i][f]]
        ELSE now[i]]
    \o SubSeq(becomes, Len(was) + 1, Len(becomes))

CommitDesign(s) ==
    LET c == reading[s].cmd
        was == reading[s].was
        becomes == Handled(was, c)
    IN /\ reading[s].op \in DesignOps
       /\ Len(routes) + Len(becomes.routes) - Len(was.routes) <= MaxRoutes
       /\ Len(drawings) + Len(becomes.drawings) - Len(was.drawings) <= MaxDrawings
       /\ routes' = RowsWritten(was.routes, becomes.routes, routes)
       /\ defaultRoute' = [defaultRoute EXCEPT ![c.t] =
              Written(was.default,
                      IF becomes.default > Len(was.routes) THEN Len(routes) + 1 ELSE becomes.default,
                      @)]
       /\ drawings' = RowsWritten(was.drawings, becomes.drawings, drawings)
       /\ reading' = [reading EXCEPT ![s] = Idle]
       /\ UNCHANGED <<template, work>>

-----------------------------------------------------------------------------
(* The handlers that change a template or a route by itself.               *)

CreateTemplate(t) ==
    /\ template[t] = "absent"
    /\ \E s \in {"active", "inactive"} : template' = [template EXCEPT ![t] = s]
    /\ UNCHANGED <<routes, defaultRoute, drawings, work, reading>>

UpdateTemplate(t) ==
    /\ Live(t)
    /\ \E s \in {"active", "inactive"} : template' = [template EXCEPT ![t] = s]
    /\ UNCHANGED <<routes, defaultRoute, drawings, work, reading>>

DeleteTemplate(t) ==
    /\ Live(t)
    /\ template' = [template EXCEPT ![t] = "deleted"]
    /\ UNCHANGED <<routes, defaultRoute, drawings, work, reading>>

Planned(steps) == [k \in DOMAIN steps |-> "planned"]

\* A version above those of the same name: all routes of a template have one name here.
NewVersion(t, r) ==
    LET highest == CHOOSE v \in 1 .. MaxVersion :
            /\ \E i \in RoutesOf(Routes(t), t) : routes[i].version = v
            /\ \A i \in RoutesOf(Routes(t), t) : routes[i].version <= v
    IN /\ Live(t) /\ r \in RoutesOf(Routes(t), t)
       /\ Len(routes) < MaxRoutes /\ highest < MaxVersion
       /\ routes' = Append(routes, [template |-> t, version |-> highest + 1, active |-> TRUE, flag |-> FALSE,
                                    steps |-> Planned(routes[r].steps)])
       /\ UNCHANGED <<template, defaultRoute, drawings, work, reading>>

Orders == 0 .. MaxSteps - 1
StepsChange(t, r, steps) ==
    /\ Live(t) /\ r \in RoutesOf(Routes(t), t)
    /\ routes' = [routes EXCEPT ![r].steps = steps]
    /\ UNCHANGED <<template, defaultRoute, drawings, work, reading>>

\* (route_id, step_order) is unique.
AddStep(t, r) ==
    \E n \in Orders \ DOMAIN routes[r].steps :
        StepsChange(t, r, [k \in DOMAIN routes[r].steps \cup {n} |->
                              IF k = n THEN "planned" ELSE routes[r].steps[k]])

\* A job that has copied the step refers to it.
DeleteStep(t, r) ==
    \E n \in DOMAIN routes[r].steps :
        /\ routes[r].steps[n] = "planned"
        /\ StepsChange(t, r, [k \in DOMAIN routes[r].steps \ {n} |-> routes[r].steps[k]])

\* Some steps get other orders, the rest keep theirs.
ReorderSteps(t, r) ==
    LET old == DOMAIN routes[r].steps
    IN \E order \in [old -> Orders] :
        /\ \A m, n \in old : order[m] = order[n] => m = n
        /\ \E n \in old : order[n] # n
        /\ StepsChange(t, r, [k \in {order[n] : n \in old} |->
                                 routes[r].steps[CHOOSE n \in old : order[n] = k]])

\* Positions of the active routes, oldest first, and of the active drawings.
InOrder(S) == [k \in 1 .. Cardinality(S) |-> CHOOSE i \in S : Cardinality({n \in S : n <= i}) = k]

\* Mutant: a copy does not say which of its routes is the default.
CopiedUnmarked(r, u) == [template |-> u, version |-> r.version, active |-> TRUE, flag |-> FALSE, steps |-> Planned(r.steps)]

Copied(r, u) == [template |-> u, version |-> r.version, active |-> TRUE, flag |-> r.flag, steps |-> Planned(r.steps)]

\* A drawing whose file is missing is not copied.
Duplicate(t, u) ==
    LET of == InOrder(RoutesOf(Routes(t), t))
        copies == [k \in DOMAIN of |-> Copied(routes[of[k]], u)]
        marked == {k \in DOMAIN copies : copies[k].flag}
    IN /\ Live(t) /\ template[u] = "absent"
       /\ Len(routes) + Len(of) <= MaxRoutes
       /\ template' = [template EXCEPT ![u] = "active"]
       /\ routes' = routes \o copies
       /\ defaultRoute' = [defaultRoute EXCEPT ![u] =
              IF marked = {} THEN 0 ELSE Len(routes) + CHOOSE k \in marked : \A m \in marked : m <= k]
       /\ \E found \in SUBSET DrawingsOf(Drawings, t) :
              /\ Len(drawings) + Cardinality(found) <= MaxDrawings
              /\ drawings' = drawings \o [k \in 1 .. Cardinality(found) |->
                     [drawings[InOrder(found)[k]] EXCEPT !.template = u]]
       /\ UNCHANGED <<work, reading>>

-----------------------------------------------------------------------------
(* Production jobs.                                                        *)

\* get_default_route: the one pointed to, else one that is flagged, else the first.
DefaultOf(t) ==
    LET R == RoutesOf(Routes(t), t)
        flagged == {i \in R : routes[i].flag}
    IN IF defaultRoute[t] \in R THEN defaultRoute[t]
       ELSE IF flagged # {}
       THEN CHOOSE i \in flagged : \A k \in flagged :
                \/ routes[i].version > routes[k].version
                \/ routes[i].version = routes[k].version /\ i <= k
       ELSE FirstRoute(Routes(t), t)

CreateJob(j, t) ==
    /\ work[j].status = "absent" /\ template[t] = "active"
    /\ work' = [work EXCEPT ![j].status = "draft", ![j].template = t]
    /\ UNCHANGED <<template, routes, defaultRoute, drawings, reading>>

UpdateJob(j, t) ==
    /\ work[j].status = "draft" /\ template[t] = "active"
    /\ work' = [work EXCEPT ![j].template = t]
    /\ UNCHANGED <<template, routes, defaultRoute, drawings, reading>>

Releasable(status) == status = "draft"

ReadRelease(s, j) ==
    LET t == work[j].template
    IN /\ reading[s] = Idle /\ Releasable(work[j].status)
       /\ Live(t) /\ RoutesOf(Routes(t), t) # {} /\ routes[DefaultOf(t)].steps # <<>>
       /\ reading' = [reading EXCEPT ![s] = [op |-> "release", job |-> j, was |-> work[j], route |-> DefaultOf(t),
                                             steps |-> DOMAIN routes[DefaultOf(t)].steps]]
       /\ UNCHANGED <<template, routes, defaultRoute, drawings, work>>

\* Its snapshot refers to the steps; a step that is gone fails it (Abandon).
CommitRelease(s) ==
    LET c == reading[s]
    IN /\ c.op = "release" /\ c.steps \subseteq DOMAIN routes[c.route].steps
       /\ Len(work[c.job].snapshots) < MaxCopies
       /\ work' = [work EXCEPT ![c.job].status = "released", ![c.job].reserved = TRUE,
                               ![c.job].snapshots = Append(@, c.route)]
       /\ routes' = [routes EXCEPT ![c.route].steps =
              [k \in DOMAIN @ |-> IF k \in c.steps THEN "copied" ELSE @[k]]]
       /\ reading' = [reading EXCEPT ![s] = Idle]
       /\ UNCHANGED <<template, defaultRoute, drawings>>

Follows(status) ==
    CASE status = "draft" -> {"cancelled"}
      [] status = "released" -> {"in_progress", "on_hold", "cancelled"}
      [] status = "in_progress" -> {"on_hold", "completed", "cancelled"}
      [] status = "on_hold" -> {"in_progress", "cancelled"}
      [] OTHER -> {}

ReadStatus(s, j) ==
    /\ reading[s] = Idle
    /\ \E new \in Follows(work[j].status) :
        reading' = [reading EXCEPT ![s] = [op |-> "status", job |-> j, was |-> work[j], new |-> new]]
    /\ UNCHANGED <<template, routes, defaultRoute, drawings, work>>

\* A cancellation gives back the reservations it finds.
CommitStatus(s) ==
    LET c == reading[s]
    IN /\ c.op = "status"
       /\ work' = [work EXCEPT ![c.job].status = c.new,
                               ![c.job].reserved = @ /\ ~(c.new = "cancelled" /\ c.was.reserved)]
       /\ reading' = [reading EXCEPT ![s] = Idle]
       /\ UNCHANGED <<template, routes, defaultRoute, drawings>>

\* A refusal further on (the type of a file, an empty BOM), or a lost connection.
Abandon(s) ==
    /\ reading[s] # Idle
    /\ reading' = [reading EXCEPT ![s] = Idle]
    /\ UNCHANGED <<template, routes, defaultRoute, drawings, work>>

-----------------------------------------------------------------------------
TemplatesNext ==
    \/ \E t \in Templates :
        \/ CreateTemplate(t) \/ UpdateTemplate(t) \/ DeleteTemplate(t)
        \/ \E u \in Templates : Duplicate(t, u)
        \/ \E r \in DOMAIN routes : NewVersion(t, r) \/ AddStep(t, r) \/ DeleteStep(t, r) \/ ReorderSteps(t, r)
        \/ \E j \in Drafts : CreateJob(j, t) \/ UpdateJob(j, t)
        \/ \E s \in Sessions : ReadDesign(s, t)
    \/ \E s \in Sessions : CommitDesign(s)
    \/ \E s \in Sessions :
        \/ \E j \in Drafts : ReadRelease(s, j) \/ ReadStatus(s, j)
        \/ CommitRelease(s) \/ CommitStatus(s)
    \/ \E s \in Sessions : Abandon(s)

TemplatesSpec == TemplatesInit /\ [][TemplatesNext]_templateVars

-----------------------------------------------------------------------------
(* Properties.                                                             *)

\* A template points to the only active route that is flagged, as soon as it has an active route,
\* and at most one of its drawings is primary.
Agrees(t) ==
    LET R == RoutesOf(Routes(t), t)
    IN /\ {i \in R : routes[i].flag} = R \cap {defaultRoute[t]}
       /\ R # {} => defaultRoute[t] \in R
       /\ Cardinality({i \in DrawingsOf(Drawings, t) : drawings[i].primary}) <= 1

\* Another request has changed what the session has read.
Overlapped(s, t) == reading[s].cmd.t = t /\ reading[s].was # Loaded(reading[s].op, t)

\* A copy is produced along the same steps as the template it was copied from: its default route
\* is the copy of that template's, unless that one's was split.
CopyReleasesAlike ==
    [][\A t, u \in Templates : Duplicate(t, u) /\ Agrees(t) /\ RoutesOf(Routes(t), t) # {} =>
          /\ Agrees(u)'
          /\ DOMAIN routes'[DefaultOf(u)'].steps = DOMAIN routes[DefaultOf(t)].steps]_templateVars

\* A job has one snapshot of a route, and none reserved once it is cancelled.
Whole(j) == Len(work[j].snapshots) <= 1 /\ (work[j].status = "cancelled" => ~work[j].reserved)

\* The default route kept twice (default_route_id and is_default) and the primary drawing fall
\* out of step only when a handler commits what it read before another one changed it, and in a
\* copy of what is out of step; the lines of a job double, or its reservations outlive it, only
\* when its release overlaps another command on it.
OnlyOverlapsSplit ==
    [][/\ \A t \in Templates : Agrees(t) /\ ~Agrees(t)' =>
            \/ \E s \in Sessions : reading[s].op \in DesignOps /\ reading'[s] = Idle /\ Overlapped(s, t)
            \/ template[t] = "absent" /\ \E u \in Templates : ~Agrees(u)
       /\ \A j \in Drafts : Whole(j) /\ ~Whole(j)' =>
            \E s \in Sessions : /\ reading[s].op \in {"release", "status"} /\ reading[s].job = j
                               /\ reading[s].was # work[j] /\ reading'[s] = Idle]_templateVars
===============================================================================
