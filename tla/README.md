# Verification of VelcoreERP

TLA+ modules of the parts of VelcoreERP that carry its own logic under concurrency and
failure, the TLC runs that check them on small instances, and TLAPS proofs of what matters
most for any number of trips, vehicles, packages and details. Paths below are relative to the
repository.

## 1. Inventory

VelcoreERP is one FastAPI process (`backend/`) over PostgreSQL, a web client (`frontend/`), two driver
applications (`velcore_driver/`, `driver-app/`), a Windows print agent (`print-agent/`) and TCP servers
for GPS trackers inside the backend. All state is in the database; handlers of the API
run concurrently in worker threads, each in one transaction (read committed, no autoflush).

| Component | State | Operations | Hard behaviour | What makes it correct |
|---|---|---|---|---|
| Trips and vehicles (`services/trip_lifecycle.py`, `finished_logistics.py`, `logistics_planning.py`) | status, vehicle and driver of a trip; state of a vehicle | create, assign, transition, arrival, GPS promotion, vehicle state | checks of rows that are not locked; three different lists of "active" statuses; `delivery_exception` leads back to the road | a vehicle and a driver are on one trip at a time; a trip that loads has a usable vehicle; a departed trip does not come back |
| Shipment execution (`services/shipment_execution.py`) | shipment items, placements, inventory, plan, evidence, ledger | assign, remove, consolidate, plan, confirm loading, dispatch, deliver, accept | one command changes five tables; totals are summed over other trips; partial deliveries and acceptances by project | a package is claimed once; what is loaded is planned, fits and is evidenced; the ledger agrees with the items |
| Load corrections (`services/load_corrections.py`) | the same rows, and a journal | unload, return, reload, transfer, replace | long sequences of legal commands; rows read before they are locked | corrections keep trips, plan and warehouse in agreement and do not reach departed trips |
| Shop floor (`services/mes_*_terminal.py`, `mes_jobs.py`, `stage_corrections.py`, `project_execution.py`) | job, route steps, quantity columns, append-only operations, reworks, packages | accept, start, complete, enter quantities, rework, pack, place, return, reopen, manual status | the same piece is counted in columns, in operations and in rework records that change apart; corrections run against the direction of production | no station has more on record than the one before; rework is on record; what is packed is approved |
| Detail stock (`services/warehouse_stock.py`, `production_projects.py`) | rows of pieces, reservations of jobs, allocations of projects | reserve at release, issue at welding, cancel, change by hand | lists that are stale when used; a job's release takes what it can, a project's fails | no row below zero; what is reserved for somebody is there for him |
| Product templates (`routers/mes_router.py`, `services/mes_jobs.py`) | templates, routes with their steps and one default, drawings with one primary, snapshots of jobs | design, set the default, copy, delete, release | the default is kept twice, as a reference and as a flag; a release reads what an overlapping one reads | a template has one default; a job is released along one route, once |
| Product catalogue (`routers/mes_router.py`) | categories, parts, stages, lines of templates | create, move, edit, delete | nothing is erased, and checks are about rows the handler does not write | what is in use refers to what is in use |
| Materials (`services/materials_warehouse.py`, `material_cutting.py`, `material_auto_consumption.py`) | balance in metres, lots, bars, issue documents | receive, reverse, reserve, issue, cut, bulk changes, automatic consumption | three counts of the same steel; a receipt reversed beside documents that use its bars | no bar is used twice; counters agree with bars; every metre is accounted for |
| Print queue and agent (`services/print_jobs.py`, `routers/printing_router.py`, `print-agent/agent.py`) | print jobs, `printed_at` | label, reprint, retry, start, complete, fail, poll | lost answers, agent crashes, late commits, several agents | what is called printed was printed; once per request; every job ends |
| GPS immobilizer (`services/gps_immobilizer_dispatcher.py`, `sinotrack_tcp_server.py`) | command queue, standstill streak of a connection | request, evaluate, mark ready, claim, send, acknowledge | connections and servers lost between any two of these; answers that name no command | commands are obeyed in order and once; a blocked vehicle can be released |
| Trip tracking (`services/trip_tracking.py`, `physical_tracker_ingestion.py`, `logistics_master_data.py`) | sessions, points, latest positions, devices | start, resume, append, stop, revoke, rebind | duplicated, late, reordered points from several senders; trips that go on meanwhile | the latest is the newest; a point after departure moves the trip; sessions stay of their trip |
| Location feed (`velcore_driver/`, `driver-app/`, `services/gps_fleet.py`) | offline queue of a phone, stored positions of a vehicle | take, post, queue, synchronise, store | a queue that two processes read and write back; positions stamped when they come in | a position is lost only when the queue is full; a true movement is stored |
| Driver tasks (`routers/driver_router.py`, `routers/gps_router.py`) | task, status of drivers, events | book, edit, pick up, deliver, track, report | a delivery awaits its photo between its check and its commit | a delivery is recorded once; nobody stays on a trip for nothing |
| GPS alerts (`services/gps_alerts.py`) | alarms sent, per vehicle | a run every minute | what was sent is not rolled back with the run | an alarm is sent once |
| Orders (`routers/orders_router.py`, `shipping_router.py`) | stage of an order, its warehouse row, shipments | complete, verify, store, ship, edit, delete | a handler commits what it read before another one | the flag and the row agree; a row is shipped once; an order does not fall back |
| Loading plans, transports (`routers/logistics_router.py`, `transport_router.py`) | products in stock, items of shipments, time line | add, scan, depart, deliver | quantities are read and written back | no piece is made or lost |
| Export shipments (`routers/export_shipments_router.py`, `llp_router.py`) | products, totals, generated documents, library | replace, generate, upload, move, delete | a request deletes the rows it finds, beside another's that it does not | a shipment holds the products of one request, and their documents |
| Accounts (`routers/admin_router.py`, `enterprise_users_router.py`, `platform_admin_router.py`, `super_admin_router.py`, `auth/`, `services/settings_cache.py`) | users, roles, permissions, departments with their cache, sessions | sign in, create, edit, delete, rename, grant | a list cached before the commit and written as a whole | somebody can administer; users are in departments and roles that exist |
| Finance (`routers/finance_router.py`) | balances of accounts, debts with what is paid of them, documents | income, expense, transfer, debt, payment | balances are computed from what was read and written back; rows are locked one after another | a balance is its documents; no debt is paid twice |
| Task board (`routers/tasks_router.py`) | tasks, assignments of operators, comments | create, update the list, move, comment, archive, delete | the list is compared with assignments read before, and nothing keeps them unique | an operator is assigned once; the status is what he last said |
| Brigades (`routers/mes_brigades_router.py`, `mes_yigish_terminal_router.py`, `services/production_brigades.py`) | brigades, members, station; who took a job on; participants of operations | create, edit, switch; accept, start, enter, complete | a job is taken on, and its crew credited, by what was read before | a job stays with its brigade; its own crew is credited, for all of it |
| Scheduler, backups (`scheduler.py`, `auto_backup.py`) | last runs | run | missed runs | one run at a time |
| The rest (CRM, chat, dashboards, displays, imports) | plain records | one row per request | none of its own | access rules |

How the parts interact: the trip commands call one another inside one transaction
(`create_consolidated_trip` calls `create_trip`, `assign_placement` and `transition_trip`); shipment
execution and the terminals write to the ledger of project execution; the start of a stage at a terminal issues detail
stock and consumes material; packages that quality control approved and the warehouse placed are what trips claim; a stored tracking
point promotes a trip; a tracker's connection carries both its points and the immobilizer's commands; the print
agent polls the API and reports with one call per step. Components otherwise meet in shared tables only.

`PROJECT.json` lists every component with its sources, and the hazards with their lines.

## 2. Modules

| Module | Models | Code |
|---|---|---|
| `TripLifecycle` | the abstract lifecycle: what each handler does to a trip's status, vehicle and driver | `trip_lifecycle.py`, the trip half of `finished_logistics.py`, `logistics_planning.py` |
| `TripTransactions` | the same as the database runs it: checks and commit in two steps, row locks, advisory locks, rollbacks, corrections that read before they lock | the transactions of `finished_logistics_router.py` |
| `ShipmentExecution` | the cargo: items, placements, inventory, plan, evidence, ledger | `shipment_execution.py`, the trip operations of `project_execution.py` |
| `LoadCorrections` | the five corrections, and the specification of the whole logistics execution | `load_corrections.py` |
| `PackageClaims` | who claims a package, as the database runs it: assignments and corrections that look at unlocked rows, repeated calls and their journal, the legacy dispatch of a job | `assign_placement`, the transactions of `load_corrections.py`, `mes_dispatch_terminal.py`, `attach_dispatch` |
| `TripTracking` | sessions, devices, batches of points, over the steps of `TripLifecycle` | `trip_tracking.py`, `physical_tracker_ingestion.py`, devices of `logistics_master_data.py` |
| `LocationFeed` | a phone's positions, its offline queue and the filter of the server | the tracking services and queues of the two applications, `gps_fleet.py` |
| `DriverTasks` | transport tasks and the status of drivers | `gps_router.py`, `driver_router.py` |
| `GpsAlerts` | the job that sends alarms, its memory and its rollbacks | `gps_alerts.py` |
| `Immobilizer` | the command queue, the thread of a connection, tracker and vehicle | `gps_immobilizer_dispatcher.py`, `sinotrack_tcp_server.py`, the request in `gps_router.py` |
| `Conveyor` | the abstract promise of a production line: pieces pass the stations in order | (what `project_execution.py` calls stage dependencies) |
| `ShopFloor` | one job at its seven terminals, its evidence, corrections, manual status | the terminals, `project_execution.py`, `stage_corrections.py`, `mes_jobs.py` |
| `DetailStock` | the rows of one reusable detail, and who they are reserved for | `warehouse_stock.py`, `production_projects.py`, the issue in `project_execution.py` |
| `ProductTemplates` | templates with routes, defaults, drawings, copies; the release of jobs from them | `mes_router.py`, `mes_templates.py`, `mes_jobs.py` |
| `ProductCatalogue` | categories, stages, parts and lines of templates, and copies of templates | `mes_router.py`, `mes_templates.py` |
| `Materials` | one profile material: balance, lots, bars, issue documents | `materials_warehouse.py`, `material_cutting.py`, `material_auto_consumption.py`, `material_consumption.py` |
| `Orders` | customer orders through their stages into the warehouse and out | `orders_router.py`, `workflow.py`, `shipping_router.py`, `admin_router.py` |
| `Loading` | loading plans and transports | `logistics_router.py`, `transport_router.py` |
| `Exports` | export shipments, generated documents, the library | `export_shipments_router.py`, `export_documents.py`, `llp_router.py` |
| `Finance` | accounts, debts, documents, and what two pages show of the receivables | `finance_router.py` |
| `Tasks` | the task board | `tasks_router.py` |
| `Brigades` | brigades of the assembly station and what they are credited with | `mes_brigades_router.py`, `production_brigades.py`, `mes_yigish_terminal_router.py` |
| `Accounts` | users, roles, departments and their cache, sessions | `admin_router.py`, `enterprise_users_router.py`, `platform_admin_router.py`, `super_admin_router.py`, `auth/deps.py`, `permissions.py`, `settings_cache.py` |
| `PrintQueue` | print jobs, the requests of clerks, the agents | `print_jobs.py`, `printing_router.py`, `agent.py` |
| `Amounts` | the total of a quantity over a set, as a cardinality | the sums of the code (`sum(...)`, `func.sum`) |
| `AmountProofs` | lemmas about `Amount` | |
| `TripTransactionsProofs` (with the lifecycle's and the driver tasks'), `LoadCorrectionsProofs`, `ClaimsProofs` (claims of packages, stock of details), `GpsProofs` (tracking, immobilizer, alerts, location feed), `ProductionProofs` (shop floor, templates, catalogue, task board, brigades), `OfficeProofs` (materials, accounts, loading, orders, exports, finance), `PrintQueueProofs` | theorems | |
| `MC...` | symmetry, constant functions, compositions and their constraints for TLC | |

`MCDetailStock` composes stock, templates and catalogue; `MCTripLifecycle` the lifecycle, driver tasks and alerts; `MCTripTracking` tracking and
the location feed; `MCOffice` materials, orders, loading, exports, accounts and finance; `MCShopFloor` the shop floor, the task board and the brigades. The parts of one composition share no variable, so a behaviour of it is one of its
`subject` while the others rest in their initial states: the run explores the sum of their state spaces and not the product, which would show nothing more.

### Correspondence

*Trips and cargo.* Variables are columns: `status`, `vehicle`, `driver` of `mes_trips`; `vehicleState` is
`operational_state` (its value INACTIVE is `is_active = false`); `item[t][p]` is the
row of `mes_shipment_items` for trip `t` and package `p`, unique in the schema, whose status `active` is `assigned` or
`loaded` here by its loaded quantity; `placement` and `inventory` are the statuses of the package in
the warehouse tables; `plan[t]` the packages with a row in the loading plan; `evidence[t]` the stages
whose photo or document was uploaded; `ledger` the sums of `project_production_operations`.
Actions have the names of the handlers and stand for the whole handler: an action of
`ShipmentExecution` is the lifecycle action of the same name (`L!ConfirmLoading(t)`) together with the
guards and effects on cargo. `resumed` is a history variable: the trips that have been in
`delivery_exception`.

`TripTransactions` splits a command into its checks (`Begin`) and its commit. Most handlers lock the trip in their first query;
the endpoints of the corrections read it first, for permissions, and SQLAlchemy does not refresh a loaded object when a later
query locks its row: `seen` is the status a correction under way has read (`ReadForCorrection`), and
`CommitCorrection` writes the status it computes from it only when the two differ, since an unchanged attribute
is not in the UPDATE. The versions of the trip and of the item are checked against the same stale row, except that
a delivery changes the item, which the correction does lock afresh.

`PackageClaims` splits the commands that ask about rows they have not locked. `order[c]` is the command client `c` wants done under one idempotency key,
`call[<<c, "first">>]` and `call[<<c, "again">>]` the requests that carry it: one may be running when the next arrives. A request is `read` once it has looked
its key up in the journal and, for a correction, read its trip (`seen`, as above); `held` when it has the lock of its trip; `ready` when it has that of the placement or of
the target trip too and has passed all its checks; `Commit` writes. `done[c]` counts the rows of the key in `mes_trip_commands` or
`mes_load_corrections`, where it is unique. `dispatch` and `boarded` are the `MesDispatch` of the job and its `MesDispatchPackage`s. `accept_dispatch` reads the placements and
writes them later (`AcceptRead`, `AcceptCommit`); `reclaimed` is a history variable.

What `LoadCorrections` does to the five variables of the lifecycle it does by the actions of `TripLifecycle`, so that it implements that module by construction.

*Production.* `line[l]` are the quantity columns of a `MesJobBomLine`, `led[l]` its
`project_production_operations` summed by type, `jobLed` those of the job, `step` the `MesJobRouteStep`s, `reworks` and
`pkgs` the rows in order of creation. `project` says whether the job belongs to a project: only then are
quantities recorded and held to ceilings; the same terminals serve jobs that have no project with columns alone, and `KraskaQuantities`
and `QcQuantity` use other columns for them. `Recordable` is `record_absolute_operation`, `QcPredecessor` is
`qc_predecessor_quantity`. A completed rework (`CompleteRework`) records the sum of the records completed before it, since the sum is queried
before the status of the one at hand is flushed (autoflush is off): its evidence lags one record behind. `Enter` the recalculation that closes a step by itself once every piece is through. In `DetailStock` a release
lists rows (`ListRows`) and takes from them later (`ReleaseJob`, `ReleaseProject`): `CanTake` is the condition of the UPDATE
in `change_stock`. `jobs[j].covered` is `stock_reserved_quantity`, the number the release promises to welding.
In `Materials` a `MaterialStockPiece` keeps its place in `pieces` when it is deleted with its receipt; `links` are the rows of
`MaterialIssuePiece`. In `ProductTemplates` the default of a template is kept as the code keeps it, in `defaultRoute` (`default_route_id`) and in the
`flag` of a route (`is_default`); `work[j].snapshots` are the routes copied to the job. `CopyProduct` in `ProductCatalogue` is `duplicate_template`: every line of
the original, removed ones and those of deleted parts included, is an active line of the copy, whose category nobody looks at.

*Tracking.* `thread.at` in `Immobilizer` is the place in the loop of `SinoTrackRequestHandler`: each step there commits
by itself. `claimed` orders commands by `sent_at`, `old` are those sent more than 120 seconds ago, which
`ack_latest_sent_command` ignores. The tracker, the vehicle and the connection are the environment (marked external in the map):
the server relies on `S20` switching the relay and being answered by `V4`. In `TripTracking` times are small integers, `live`
says that a session's authorization has not expired, and the trips go on by the actions of `TripLifecycle` (`L!...`). A start of a session locks its trip and reads the device unlocked, a rebinding
locks its device and reads the sessions unlocked: each is taken apart into what it reads (`ReadDevice`, kept in `starting`; `UpdateDevice` and `UnbindDevice`, kept in `changing`) and its commit
(`OpenSession`, `ResumeSession`; `CommitDevice`). What needs the lock of a trip waits for its start (`Free`). In `LocationFeed` a tick is the time in which
a vehicle may move by one place at the greatest speed the filter believes; `post` is the request of one of the two that take positions (`Live`: the timer of the page and the callback in the background) or of one synchronisation. The two are isolates without common memory: each appends to the queue
as it knows it (`view`, refreshed by `ReadQueue` or not) and writes the whole list back (`Enqueue`).

*Printing.* `PrintQueue` splits every API call into the read (`CreateLabel`, `ReprintLabel`, `AdminRetry`, `Post`) and the commit
(`CommitInsert`, `Commit`), since no row is locked. A call whose client timed out or died stays in
`calls` with nobody waiting, and may commit late. The printer is the one the settings name when a job is added: a LAN printer is
driven by the request that labels the package, the cloud one by the agents. In the agent, `pc` is the place in `process_job`: an
exception in the start call abandons the poll, one inside the `try` is reported as a failure. `todo` is what the poll listed and
is still to do; the list is in the order of creation, so the job at hand (`Current`) is the oldest of it.

*Money.* In `Finance` a request locks the rows it touches one after another (`LockRow` is the `with_for_update` of a query) and holds them until its commit or its failure, so `paying[c].seen` is what the rows
say as long as they are held, which is what the mutant `Anyway` takes away. `funds` is `current_balance`; `booked` and `settled` are histories, the sums of the documents the code adds beside it.
A commission is any number, since nothing refuses a negative one.

*Requests that read first.* `ProductTemplates`, `ProductCatalogue`, `DriverTasks`, `Orders`, `Loading`, `Exports`, `Accounts`, `Tasks` and `Brigades` model handlers that lock nothing: one step reads
and checks, one commits (`Exports` takes its DELETE, its sums and its commit apart). What a handler has read is kept in `reading`, `request`, `visit`,
`serving`, `entering`, `writing`, `asking`, `working` or `acting`, per request under way. A shipment of `Orders` reads the rows it names one by one (`Dispatch`, then `Look`), as often as the request names them: the deletion of a row
is not flushed, so a row named twice is found and shipped twice. The session writes only the attributes that differ from what it read (`Written`, `Changed`, `Updated`), so an overtaken
request may leave half of what another one wrote. What the properties of these modules say is which of the harms need such an overlap, and
which steps can do harm by themselves: an edit by the office, a deletion, a cache that was filled too early.

### Abstractions

* Handlers run one at a time in `TripLifecycle`, `ShipmentExecution`, `LoadCorrections`, `ShopFloor` and `Materials`; everywhere else they are interrupted where they
  read what they do not lock. In `TripTracking` this holds of the start of a session and of changes of a device, and uploads and commands of trips are single steps. In particular `LoadCorrections` has corrections that see the trip as it is; that they may not is in `TripTransactions`, for the trip rows, and in `PackageClaims`, for the claims.
* Versions quoted by clients are left out: the accepted command quotes the current one. Idempotency keys are in `PackageClaims` only, for the
  commands that have a window between the look into the journal and the commit; keys are not reused for other commands.
* `PackageClaims` has the packages of one job, whose one dispatch is all the legacy terminal knows; `Rest` packages of the line are on the dispatches of
  other jobs. It leaves out holds and the replacement of a package, and what only refuses more (capacity, plan, evidence, versions). Drafts count as planned.
* The cargo floor fits whatever the payload does: geometry and volume only refuse more. A project has one line and
  one job in `ShipmentExecution`, so "project" in an acceptance is a line. A package whose weight is unknown weighs nothing, and
  its acknowledgement is given. The legacy dispatch is in `PackageClaims` only; the audit logs do not feed back.
* Quantities are whole pieces, and a product needs one piece of each detail. A request that enters several fields is as many steps, except at
  painting, where the last field closes the step.
* `DetailStock` is one detail and `Materials` one profile material with one bar length per run: rows of different details never meet in a condition.
* Amounts of money are whole numbers, and every account in so'm or not; exchange rates are left out. The rows of `Tasks` are numbered per task and operator, deleted ones included. `Brigades` has one station,
  and an operation there has no quantity: those are in `ShopFloor`.
* A point is its id and the time it was captured; two payloads of one id differ in that time.
* In `Exports` the products one request writes are one edition, and one document stands for the six that are generated. In `Accounts` the permissions of the
  administration stand or fall together, and passwords and tokens are left out. Deletions of old documents go by their description, which is `of` here: a description that an upload or an edit makes look like that of a generated document is left out.
  In `LocationFeed` the vehicle moves on a line, and the empty queue that the Android service writes back when it finds nothing to synchronise is left out. In `GpsAlerts` the fence and the speed are the alarms; the others
  are repeated by every run, see below.

## 3. Runs

All passing runs explore their whole state space (within the constraints named below). Deadlock is not checked: every one of these systems may
come to rest (all trips accepted or cancelled, all jobs finished, bounds used up).

| Run | Instance | Asks |
|---|---|---|
| `lifecycle_safety` | 3 trips, 2 vehicles, 2 drivers; a task under 2 requests; the alarms of a vehicle and of a tracker that is no vehicle's | `Roadworthy`, `OnlyRollbacksRepeat`; the steps `DepartedStaysDeparted`, `OnlyOverlapsLeaveLoose` |
| `transactions_races` | 2 trips, 2 vehicles, 2 drivers, all handlers interleaved, one stale correction per trip | `RoadHolds` (`ExclusiveOnRoad`, `DispatchCheckHolds`) |
| `transactions_stale` | 1 trip, 1 vehicle, 1 driver | finds `DepartedStaysDeparted` violated, see below |
| `corrections_cargo` | 2 trips, one of them with both policies on, 1 vehicle, 2 packages of one line | `CargoAsPlanned` (`LoadedTripFullyLoaded`, `PlanOnActive`), `LinesAccounted`, `EvidenceBeforeStage`; the steps `OnlyReloadDiverges`, `DepartedCargoFrozen` |
| `claims_races` | 2 trips, 2 clients of whom one repeats, 1 package of a line of 2, the dispatch of its job | `ClaimsAreSole`, `AppliedOnce` |
| `claims_sole` | the same, no repetition | finds `OneActiveClaim` violated, see below |
| `floor_pieces` | 2 products of 1 detail, 1 piece in stock, all seven stations, with and without a project; 2 reworks, 2 packages, 2 returns; a task, 2 operators and 2 requests; 2 brigades of 2 people, a job and 2 requests | `DispositionsWithinPredecessor`, `ReworkOnRecord`, `PackedIsApproved`; the refinement `EvidenceFlows`; the steps `OnlyOverlapsMisassign`, `OnlyOverlapsMiscredit` |
| `stock_races` | a project of two jobs and a job of its own over rows of 3 and 1 pieces, one surplus row, one manual change; 2 templates with up to 4 routes, 1 job, 2 requests; 2 categories, a product and its copy, a part, a material and a stage, 2 clerks | `StockHolds`; the steps `OnlyOverridesShorten`, `OnlyOverlapsSplit`, `CopyReleasesAlike`, `OnlyUncheckedStrand` |
| `office_races` | 2 receipts of up to 2 bars of 3 units, 2 issue documents, 1 job, 1 bulk change; 1 order with 2 rows and 2 shipments in its time, a shipment naming up to 2 rows; 1 loading plan, 1 transport; 1 export shipment, a folder, 3 documents; 2 users, 3 departments, 3 roles; 2 accounts and a debt; 2 requests at each | `SteelAccounted` (`HeldByOneIssue`, `BarsAccounted`), `BooksBalance`; the steps `OnlyBulkDiverges`, `OnlyOverlapsMisplace`, `OnlyOverlapsMiscount`, `OnlyOverlapsMix`, `OnlySupersededStrand` |
| `immobilizer_commands` | 3 commands, 2 lost connections or restarts, 1 late point | `ObeyedInOrder`, `AllAckedInForce`; liveness `ReleaseIsSent` |
| `tracking_late` | 1 trip, 1 vehicle, 2 drivers, 1 device, 2 clients, 2 points at 3 moments, 2 sessions; a phone with 3 positions, 2 takers of them, a queue of 2, 2 synchronisations | `PositionsTell`; the steps `OnlyOverlapsUnbind`, `OnlyOverlapsLose` |
| `print_agent` | 1 agent, 2 clerks, 1 label, 3 jobs, a cloud and a LAN printer; one loss, crash, retry of each job; fair | `PrintedAsRecorded`; liveness `PrintingIsReported`, `PendingIsTaken` |

Bounds. Conflicts, transfers and double claims need two trips; three let a third take what the other
two dispute. One vehicle and one driver for cargo make every trip compete. Two packages distinguish the
corrected one from the rest of its load. A quantity of 1 per package still tells a delivery from none and
accepted from damaged; partial deliveries arise from two packages. Two products let one piece be approved while the other is in
rework, returned or still at the laser; two packages of two pieces let one be packed, cancelled and asked for
again; the stock of one piece makes the laser's ceiling differ from the order. Two rows and three jobs that need 4 pieces of the 4 in stock, with 2 more
cut, let every release find less than it listed. Three pieces are two bars and one offcut, or bars of two receipts. Three commands are BLOCK, UNBLOCK, BLOCK; two
breaks lose a command and then the answer to the next. Two sessions, two points and three capture times let points of an old session
arrive after those of a new one. In `PrintQueue` a single loss, crash
and retry already combine with each other and with a reprint. Where requests read first, two of them are a race, and what the first of three leaves behind is
a state that two can start from. A queue of 2 beside 3 positions overflows. Bounds in guards are the constants `Max...`, and
one pending correction per trip in `TripTransactions` and vehicle commands only before the first session in `TripTracking`.

State constraints of the MC modules. Each excludes combinations of things that no condition of the code relates, or repeats of a race with one more thing beside it.
`FleetFirst` (`corrections_cargo`, which asks about cargo) keeps vehicles AVAILABLE once there are trips. `Handling` keeps the office from editing a task while it is handled, but for its state,
and lets nothing overlap on a task whose state the office has set. `Foreign` fixes what the job does not look at. `Scope` and `Aspects` take routes, drawings, jobs and requests of templates,
and parts, stages and categories of the catalogue, a few at a time. `Copies` makes a copy beside nothing but additions of lines. `Syncing` lets two of the takers and synchronisations of a phone be at work together until the first tick, with two positions taken (two synchronisations before it),
`Binding` starts and rebindings be in progress before the first point, `Labels` uses the trash and the archive, which are labels, between requests; `Apart` takes
loading plans and transports one at a time, `Papers` and `Personnel` the documents and the administration a few kinds of change at a time. `Bulk` changes a balance in bulk before the job is released, `Books` lets requests of the finance pages overlap on rows both touch, `Board` and `Scope` follow a few statuses of a task and a few kinds of edit of a brigade. What is cut off is explored by no run; a theorem, where there is one, has no such limit.

In `PackageClaims`, `Impatient` are the clients
that repeat a command: two calls of one key beside a call of another are all that can meet at one package and two trips; and with one package of `Rest` the line lets
a package be claimed twice (`Claimed + 1 <= Eligible`), which a line of that package alone would not, so that the claims are not sole for want of quantity.
Trips are interchangeable, and so are vehicles, drivers, packages of one line, receipts, documents, clients, requests and points, except where the instance gives one of them
a policy or a client its impatience: the safety runs use their permutations as symmetry, which is sound for invariants and for properties of single steps. The
liveness runs use none. The two labels of a printer meet nowhere but in its queue of jobs, which one label fills as well.

Fairness. In `PrintQueue`, in `FairSpec` only: weak fairness of the server's commits, since uvicorn runs each accepted
request to its end, and of each agent's steps, since `main` loops for ever and catches every exception.
Clerks are not fair. No fairness is assumed where calls are lost: a job left in `printing` by a crash
of its agent is never printed again, so `PrintingIsReported` speaks of behaviours as long as nothing was lost (`Undisturbed`). In
`Immobilizer`: the thread of a connection runs on (`Handle`), the tracker reports at intervals whether or not the vehicle moves (`Report`) and
connects again when it is cut off (`Connect`), and a vehicle whose fuel is cut comes to a halt (`relay = "BLOCK" /\ Halt`). Nothing makes the tracker
obey, answers arrive, connections break or the office ask: `ReleaseIsSent` promises the sending of a release, given
that live sending is switched on.

The violations. `transactions_stale` states what the code says of corrections, "Dispatched cargo requires the controlled
logistics-exception workflow" (`load_corrections.py:172`), as the step property that a departed trip stays departed. An unload whose
endpoint read the trip while it was `loaded` waits for the lock that `final_dispatch` holds, then checks the status and
the version it had read, and commits the dispatched trip back to `loading`. `ExclusiveOnRoad` still holds (the run `transactions_races`, and proved).

`claims_sole` states "Shipment items remain the authoritative package-to-trip claims" (`load_corrections.py:3`), in the sense in which the corrections enforce it ("Package belongs to
another active trip", line 401): no two trips have an active item of one package. A trip claims a package; the legacy terminal boards every package of its job that is in
stock, that one too (`mes_dispatch_terminal.py:328`); the dispatch is attached to a second trip; and an assignment to that trip which names the dispatch takes the placement,
`assigned` by the first trip, for the dispatch's own claim (`legacy_dispatch_claim`, `shipment_execution.py:194`). `ClaimsAreSole` of `claims_races` says what is
left: but for this way, and the reload of a returned package, claims are sole however the calls race.

### Where the code does not do what it says

Observed while modelling, by properties that TLC found violated; no run is kept for them, and the properties of the
passing runs allow for them.

* `delivery_exception` is not among the statuses of `finished_logistics.py:267`/`shipment_execution.py:585`: a trip in it lets another depart with its
  vehicle ("Vehicle already has another active trip", `shipment_execution.py:591`) and may itself return to the road.
* `Roadworthy` holds when handlers run one at a time (`lifecycle_safety`, and proved) and fails when they
  interleave: service (`logistics_planning.py:126`) and planning of one vehicle commit without seeing each other.
* A package returned from one trip, then assigned to, loaded on and unloaded from a second, may be reloaded to the first, since the second's claim is not
  active (`load_corrections.py:395`); the second returns it, which offers it as `placed`, and a third trip may claim what the first has on board.
* A reload checks the payload, and rebuilds the plan, without the package it reloads (`load_corrections.py:414`, autoflush is off). It alone leaves a loaded trip with a package
  outside its plan, and the warehouse in disagreement with the trips (`OnlyReloadDiverges`).
* A delivery recorded again after the acceptance of its project shrinks what was delivered (`shipment_execution.py:671`), and the trip is
  accepted all the same ("All selected project cargo must be delivered before acceptance", line 722).
* After an unload the rest of a job's load cannot be confirmed: the append-only ledger refuses a smaller total (`project_execution.py:159`).
* The dispatched total of a job leaves out trips in `arrived` or `delivery_exception`, so delivered may exceed dispatched in the ledger.
* A draft holds no vehicle: two drafts of one vehicle may both be planned and loaded. Only one departs.
* The key of an operation is its absolute value: a second rework that brings the sum back to a value once recorded is "existing"
  (`project_execution.py:159-166`) and is not recorded, so that what quality control disposed of may exceed what it was handed, by the columns; in the evidence it does not (`DispositionsWithinPredecessor`).
* A return or a reopened stage sets a job the manager has cancelled in progress again (`stage_corrections.py:104`, `:129`), for which `mes_jobs.py:340` has no way.
* The cancellation of a job releases the row of its first transaction for all of them, whatever the row has reserved for others
  (`warehouse_stock.py:139`); a project whose allocation a manual adjustment has cut cannot be cancelled (`change_stock` raises a plain ValueError).
  Pieces reserved for a job of no project are never issued, and stay reserved when it ends.
* A piece reserved for an issue document that was then issued and completed without it stays `RESERVED`: the reservation of an
  issued document cannot be released. Automatic consumption takes what others have reserved.
* BLOCK is sent on the streak of three points without speed, of which some may be late; BLOCK, UNBLOCK, BLOCK requested in a row while the first waits
  is answered with the first, and ends unblocked.
* A point captured up to five minutes in the future is accepted, and hides the device's later speeds from the immobilizer until then.
  A driver cannot stop the session of a trip once it is delivered. Several loading trips of one vehicle make its tracker's points ambiguous, and refused. The clean-up of history is never called.
* A reprint, or a retry, of a label whose printer is on the LAN queues a job that no agent polls.
* Two agents of one printer both start a job that both have listed, when each reads it before the other's start commits (`print_jobs.py:148`): it comes out twice (`PrintedAsRecorded` is checked, and proved, for one agent).
* The alarms of a vehicle that went silent, reached its destination or crossed the border are sent again by every run of the job: `if await _notify(...)`
  (`gps_alerts.py:87`, `:105`, `:116`) never holds, since `_notify` returns nothing (line 43), so that what was sent is not remembered. One tracker whose vehicle has no row in `vehicles` keeps every run from being committed.
* A position queued while the phone was offline is stamped when it is synchronised, so that the next one may look like a jump and is not stored; a synchronisation
  writes back what it could not post over what was queued meanwhile (`offline_queue_service.dart:37`), and the page and the background callback each write the queue over what the other has added.
* A device may be bound to another vehicle while a session with it starts (`trip_tracking.py:62`, `logistics_master_data.py:228`): the two requests lock different rows, and the session's tracker is not listened to.
* A completed rework is recorded by the next one (`mes_qc_terminal.py:641`, `:660`), so that the evidence lags behind the column, the last rework is never on record, and a completion is refused only when the records before it exceed what was sent to rework.
* A delivery sent again while its photo is being stored is recorded twice. A driver stays `on_trip` when a task is held by another user than its driver, or after a report of his location.
* Two shipments of one warehouse row, whose requests overlap, both ship it; the deletion of the second only warns. One shipment that names a row twice ships it twice (`shipping_router.py:79`).
* A loading shipment that is delivered marks its products delivered, however much of them is left in stock.
* The older administration page checks departments against the constant list, and roles not at all; the last user who manages the platform may make himself a plain `admin` after
  the permissions of that role were taken away. The configuration pages replace the permissions of any role, one's own too
  (`super_admin_router.py:379`), which the platform page refuses. The cache of departments is emptied before the commit, and a reader in between fills it with the old list.
* Categories, stages, parts and templates are edited in and out of use without a look at what refers to them; only the deletions of categories, stages and templates ask.
  The copy of a template takes removed lines, and lines of deleted parts, back into use (`mes_templates.py:160`).

## 4. Proofs

All theorems hold for any sets of trips, vehicles, drivers, packages, clients, details, devices, receipts, issue documents, orders, shipments, users and requests, for any
quantity and length, and any route the assumptions allow. They assume what `LifecycleAssumption`, `ShipmentAssumption`,
`ClaimsAssumption`, `ShopFloorAssumption`, `MaterialsAssumption`, `PrintAssumption`, `DriverTasksAssumption`, `AlertsAssumption`, `FeedAssumption`, `AccountsAssumption`, `LoadingAssumption`, `OrdersAssumption`, `ExportsAssumption`, `TemplatesAssumption`, `CatalogueAssumption`, `FinanceAssumption`, `TasksAssumption` and `BrigadesAssumption` name: `None` is no vehicle or driver,
the constant functions and bounds have their types, trips, packages and loading shipments are finitely many, the departments of the configuration are departments and one of them is the administrators', a route welds or paints, nobody is an agent and a clerk, the bounds of templates are numbers and a version is at least 1, a part is no stocked material, and the queue of a phone keeps at least one position (500 in the code). Of the stock of a detail `DetailStockAssumption` says that jobs, projects and the lines of a project are finitely many and that a job is on one line of one project at most, as a release creates a job for each line. The bounds of the runs are constants, so a theorem holds whatever they are.

*Totals* (`AmountProofs`). The code adds up quantities over rows. A fold over a set is defined by recursion, about which nothing can be proved here, since
induction takes an operator as its parameter. `Amounts` defines the total without it: `Amount(f, S)` is the number of the `Pieces`, pairs of a member of `S` and one of
its `1 .. f[x]`. The lemmas follow from the library's theorems on cardinality: a member more (`AmountAdds`) or a different value of one (`AmountChanged`), the union of two sets (`AmountUnion`), what is left (`AmountLess`),
larger values (`AmountGrows`). `ShipmentExecution`, `Materials` and `DetailStock` take their sums from it, and `ProductionProofs` the pieces in rework.

*Trips* (`TripTransactionsProofs`)

* `TypeCorrect`, `AlwaysRoadworthy` (`TripLifecycle`): `TypeOK` is inductive, and so is
  `TypeOK /\ Roadworthy`: each command that takes a vehicle out of AVAILABLE looks at trips in
  the statuses that `Roadworthy` names, and only a draft or planned trip changes its vehicle.
* `NoWayBack`: where each command is one step, none takes a trip that has departed back to the yard, nor gives it another vehicle or driver. By the table alone (`TransitionsStayOut`) a departed trip
  stays departed or is cancelled, and the commands outside the table look at its status first.
* `TxTypeCorrect`, `RoadExclusive`, `DispatchSafe`, and the last two together as `RoadHeld` (`TripTransactions`). The invariant is
  `RoadInv`: types; `LockedRows` (while a command of a trip is open its row is what the command
  checked); `ExceptionResumed` (a trip in `delivery_exception` is in `resumed`); `DispatchCheckHolds`; and
  `ExclusiveOnRoad`. The argument: a dispatch under way is of a `loaded` trip, and `loaded` is itself one of the conflicting
  statuses, so of two trips with one vehicle both cannot pass the check; nothing else puts
  a trip on the road that was not on it, save the return from `delivery_exception`: a stale correction only takes a
  trip off the road (`RoadInvCorrection`). Without the lock on its own
  row the dispatch's assignment could change before the commit: the mutant `NeverLocked` shows it.
* `OverlapsAlone` (`DriverTasks`): `OnlyOverlapsLeaveLoose`. `ErrandInv` says of a handler that it read a task that was there with the driver of its holder (`VisitsOK`), and of the journal that a task picked up has
  a pickup ahead of its deliveries (`TallyOK`). A handler whose rows are still as it read them leaves nothing loose (`AnswersTidy`). The proof showed an earlier form of the property to be false with three requests: two of them may each have read the
  task before a delivery that a third one records, so a delivery is recorded again although the last one overlapped nothing. The history `resent` notes this.

*Cargo* (`LoadCorrectionsProofs`)

* `NothingLeftToLoad`, `CargoFrozen`: the invariant is `CargoInv`, the types of the
  rows with `LoadedTripFullyLoaded`. `CargoStep` says what one command may do to the rows of any trip; each command
  has a lemma, since assignments, corrections and deliveries change rows of one trip (a transfer, of two).
* `PlanFollowsCargo`, with `NothingLeftToLoad` also as `LoadedAsPlanned`, and `EvidenceComesFirst`: the invariant is `PaperInv`. `PlanOnActive` is inductive with the types;
  `EvidenceBeforeStage` is not, since `reload_package` and `replace_package` set a trip to `loaded` again without asking for evidence.
  `HandledWithEvidence` is what makes it so: a package with any status but `assigned` was loaded once, and only
  `confirm_loading`, which asks, loads the first package of a trip. Evidence only grows (`EvidenceGrows`).
* `ReloadAloneDiverges`: every step but a reload keeps each package held by one trip at most, the warehouse in agreement with it, and a loaded trip wholly planned. What the
  property says of one step depends on what trips can have come to: `StockInv` adds to `CargoInv` the types of the warehouse and `History`, that nothing is handled before the loading of a trip starts and
  nothing delivered before it departs. Each command is then shown to be one of a few `Moves` of rows (`RowChange`), of the warehouse (`AgreedStep`) and of the plan (`PlanStep`).
* `OrdersAreTold`: `LinesAccounted`, that the ledger covers what the rows say was delivered, and that a trip under the completeness policy carries its lines whole once it has departed. The invariant is
  `AccountInv`. Only `RecordDelivery` adds to the deliveries of rows, and it writes their total to the ledger in the same step; a ledger only grows (`LedgerWrites`). Only `FinalDispatch` departs, and it checks
  completeness; after that the cargo of the trip is frozen, and what earlier trips brought only grows. The totals are sums over trips and packages, whence `Amount` and the finite sets.

*Claims* (`ClaimsProofs`)

* `SoleClaims`: the invariant is `ClaimInv`. `ClaimsAreSole` is not inductive, since an unloaded package is nobody's claim and still on its way back:
  `HoldersAreSole` counts it for the trip it was unloaded from. A call relies on what it found until it commits (`RowsStay`): the rows are under its locks, which exclude each other
  (`LocksExclude`), and every command of one step waits for them. A correction knows its trip only as it was read before the lock; that it is not planned any more (`TripsGoOn`)
  is all the proof needs of it, with `PlannedIsFresh`: a planned trip has nothing unloaded that a removal could offer. Only two commits claim a package that has a holder, and
  they put it into `reclaimed`.
* `CommandsAreOnce`: the row of a key in the journal is unique and written in the transaction of its command, so `done[c] <= 1` whichever of its calls commits, and a call that finds the row answers with it.
* `StockAlwaysHolds` (`DetailStock`): `StockHolds` is not inductive, since it says nothing of the rows that claims and lists are about, nor of what a project is yet to be allocated. `StockInv` adds the types of rows, jobs, claims, allocations and lists (a claim or an
  allocation is on a row that is there, a list is no longer than the rows), and that a planned project has no allocations and only drafts (`PlannedIsNew`). What a release takes, one row after another, is a recursive function: that it exists is shown step by step (`StepsExist`), and
  what holds of all its values is shown of the least number for which it would not (`StepsKeep`), which needs no induction over an operator. So a release takes of each row no more than is free of it and together what it covers (`LeftFalls`). Pieces given to several in turn are
  together as many as there are, or as were asked for (`AmountShared`, `ShareSums`): this is what a release hands to the lines of a project, and what an issue takes from its allocations. An issue moves the same pieces out of the allocations, the rows and what its job counts on
  (`SumsMove`, `LineChanges`), so what is promised to the other lines is still there.
* `OverridesAlone` (`DetailStock`): under `StockInv` on both sides of a step, what a row owes, less what it has reserved, does not grow (`NotShorter`). It is shown for each action with the sums that move by the same pieces: a release claims what it reserves, an issue and a
  cancelled project give up what they take from the reservation, a surplus is a row that owes nothing. What is left are the three overrides that the property names.

*Tracking and commands* (`GpsProofs`)

* `ScopeKept` (`TripTracking`): the invariant is `ScopeInv`, the types of rows, that every active session is of the vehicle and driver of its trip (`OfItsTrip`), and `Started`: a trip that was ever tracked
  has left draft and planned, the only statuses in which its assignment changes, and the table leads nowhere back. That its device stays bound is a statement about steps: a start whose device is still in scope binds it,
  and a rebinding under an active session is one whose check was overtaken.
* `PositionsFollow` (`TripTracking`): the last position of a trip is that of the point captured last, and a point captured after its departure moves it. The invariant `TellInv` adds the types of points and that none was received in the future. A batch adds the points that were not there (`FreshPoints`); of the points of a trip there is one captured last,
  the later stored of two alike (`NewestIs`), and the batch either holds it or leaves it what it was (`AppendTells`).
* `Obedient` (`Immobilizer`): the invariant is `OrderInv`. `InQueueOrder` says that a command is claimed only after those queued before it, and
  made ready only when none before it waits; `OnTheWay` that what was obeyed, what is on the wire and what the thread holds
  follow each other in the queue, all of it claimed. A connection that breaks or a server that restarts only takes commands away from the wire.
* `AckedInForce` (`Immobilizer`): once every command queued is acked the relay is as the last of them said, although an answer names no command and may be put down to a later one. `AckInv` counts: acked commands and answers on their
  way are together no more than the commands obeyed. When all are acked, as many were obeyed as were queued, in the order of the queue (`Obedient`) and so the last one last.
* `AlarmsAreOnce` (`GpsAlerts`): an alarm is sent once while its condition lasts, except by a run that rolled back after sending. The invariant `AlertInv`: what was sent is remembered by the run until it commits, and by the row afterwards.
* `WritersAlone` (`LocationFeed`): a position leaves the queue of a phone unsent only when the queue is full, or when one who takes positions, or a synchronisation, writes over a queue that has changed since it was read. `FeedInv`: of every position it read a synchronisation knows that it is
  still queued or with the server (`NothingDropped`), and all positions anywhere were taken on one route, clock to odometer (`FeedTypes`), so that the latest of two is the farther.

*Printing* (`PrintQueueProofs`)

* `CalledPrintedWasPrinted`: a completed job and a label with `printed_at` have a label that came out, for any number of agents that share a printer. The invariant is `QueueInv`: an agent waits for one call at
  most, about the job at hand (`CallsOK`), whose list is not empty then; and a `complete` call is about a job that has paper (`PaperOK`), also when nobody waits for it any more. What a step of an agent does to its calls is shown once
  (`AgentCalls`), for a post, a refusal, a timeout and a crash alike.
* `PrintedIsRecorded`: with one agent a job comes out once, and once more for each retry. "Once" is not inductive, since a job that is listed may be pending again by a retry: `OnceInv` counts a job that is at the printer
  (`AtPrinter`), and one that is due (`Due`: pending, or on the list ahead of the agent), as one of the times it may still come out. A start takes a job from due to the printer, printing takes it from there to paper, and only a retry makes one
  due that was not. With two agents a job may be on two lists and come out twice, see above: the theorem assumes that there is one.

*Production* (`ProductionProofs`, but for `Materials`)

* `EvidenceBacked`, `EvidenceInOrder`, `FlowsLikeConveyor` (`ShopFloor`): the evidence of a job whose route welds and paints implements `Conveyor`.
  The order of the evidence is not inductive by itself, since the ceilings of quality control read the columns as well as the
  evidence and take the larger: `IInv` adds that a column never exceeds its evidence (`Backed`). A step either leaves the evidence alone
  and lets no column grow beyond it, or records a larger sum of one operation within its ceiling (`EvidenceStep`,
  `ColumnsStep`): `StepKeeps` shows once that this preserves `IInv`, and each terminal and correction has a lemma that it does no more. Painting,
  which records up to three sums at once, is taken apart into the record and the columns.
* `DispositionsBounded`: what quality control approves, rejects and keeps in rework is at most what the station before it has on record (`Handed`). Under `IInv` the ceiling the code computes from columns and
  sums is exactly that record (`PredecessorHanded`), and the record only grows.
* `PackedInvariant`, `ReworkAlwaysRecorded`, `PackedStaysApproved`: a piece in rework is in a column, in an operation and in a record, which change apart. `PackInv` relates the three: of a
  project job the columns of rework are covered by its open records (`ReworkOnRecord`); what was approved and not taken back is in its column (`ColumnsOK`);
  a quality control that is complete has nothing in rework, and what is packed was approved by then (`PackedOK`, `PackagesFull`). Packages come to be only when quality control is complete, and a return or reopening that undoes it finds none.
* `TemplatesHold`, `SplitsAlone`, `CopiesAlike` (`ProductTemplates`): the invariant `TemplatesInv` says that a session which is under way has read a part of what there is now (`ReadOf`): rows are only ever added and never change their template (`RowsGrow`), so that what it writes back belongs to the template it was
  asked about. Besides, rows belong to templates that are there, pointers are in range, and a job has no snapshot before its release. Agreement is not an invariant, since overlaps break it; what is shown is that a handler makes an agreed design of an agreed design (`HandledChange`, for the six kinds of
  request), that its changes are written to the rows alone that it changed (`RoutesWritten`, `DrawingsWritten`), and so that a commit of what is still as it was read keeps the agreement. A copy numbers its rows by the order of what it copies (`InOrderCounts`), and of rows that agree
  exactly one copy is marked.
* `MisassignedAlone` (`Tasks`): an operator is assigned twice, his status parts from his last comment, or the list is not the one sent, only by a request that was overtaken. What a handler under way has read is compared with the rows by the property itself, so
  that the types are all the invariant needs (`BoardTypes`); what a commit does to the list of one operator is shown once (an addition where there was none, a deletion of the row the handler knows, a row restated), and each harm is excluded for each.
* `MiscreditedAlone` (`Brigades`): beside the types (`CrewTypes`) the invariant `BrigadesInv` has `Own`: a request that accepts a job found it free or with its own brigade, so that unless the step of the job changed meanwhile it does not take it from another one.
  A completion that read all the operations there are leaves none without participants.
* `UncheckedAlone` (`ProductCatalogue`): the types alone are inductive (`CatalogueTyped`). What a commit whose checks still hold may strand is shown for products, categories, stages and lines apart;
  edits, deletions of parts and copies of templates, which check nothing, are the exceptions the property names.
* `HeldByOne` (`Materials`): `HeldByOneIssue` is inductive with the types of pieces and documents, and without anything about lots or the
  balance: only a piece whose status is AVAILABLE or OFFCUT is reserved, and no document lists such a piece.
* `AllAccounted`, which states both as `SteelAccounted`, and `BalanceFollowsBars` (`Materials`): `MetalInv` adds to it what bars, lots and documents look like (`BarsOK`) and `BarsAccounted` itself. A step either restates pieces (`RestatedKeeps`), so that the lengths are the same and only
  the lots follow, or takes a piece apart into what was cut, what was lost and an offcut, or receives or reverses a receipt: each adds to one total what it takes from another (`Booked`). The balance moves by the same metres, except
  for bulk changes and the consumption at a stage's start.

*Offices* (`OfficeProofs`, which also holds `HeldByOne`, `AllAccounted` and `BalanceFollowsBars`)

But for the last, these theorems have one form: a handler reads rows, and later commits what it has computed from them. The invariant says what a handler that is under way knows still, or would know if its request were not overtaken; a step of another
one keeps that, or overtakes it; so a commit that is not overtaken keeps the rows in agreement.

* `SupersededAlone` (`Accounts`): `AccountInv`. Every user is in a department and a role, and somebody manages, unless a step of the kind the property names (the older page, the configuration pages, which check nothing) took that away, which is a statement about steps; what the states have to
  show is that the users a request moves with their department are there until it commits (`MovesOK`), that the department it gives a user is on the list it has read and that nobody leaves himself less than an administrator's role (`UserAskOK`), and that a cache which is not empty was filled after the last list that is still to be committed emptied it (`CacheOK`).
* `CountedAlone` (`Loading`): `LoadingInv`. What a request loads was in the warehouse when it read the product. If the product is as it was, the commit takes from the warehouse what it adds to the shipment, and the total over all shipments, an `Amount`, stays.
* `PlacedAlone` (`Orders`): `OrderInv`. The rows of an order are numbered as they come, and one that was shipped is not on the shelf; so a row a dispatch has read that is still there was never shipped, and is shipped once if the request names it once. The last stage of the route is the greatest (`StagesInOrder`), so passing on never leads back.
* `MixedAlone` (`Exports`): `ExportInv`. An undisturbed update has found all the products there are, and its sum is that of its own (`UpdateOK`); an undisturbed generation has found all the papers of its shipment and shows the products there are
  (`GenerateOK`); a deletion of a folder that nothing has joined finds the folder empty (`DeleteOK`). What a step leaves of shipments, papers and library (`Steady`) is shown once for each, and that a request goes on under it once for all (`GoesOn`).
* `BooksKept` (`Finance`): `FinanceInv`. Of the rows a request holds it knows what they say (`Holding`), and no two requests hold a row (`Exclusive`), so a balance is computed from what it is. A debt's status says whether it is paid (`Stated`), which is what makes the dashboard, that goes
  by the status, and the summary, that goes by the amounts, agree. A balance does not go below zero although a commission may be negative, since the check includes it.

Every invariant and every action property that a passing run checks is stated by one of these theorems. The three liveness properties (`PrintingIsReported`, `PendingIsTaken`, `ReleaseIsSent`) are only model-checked: fairness
and what is enabled are out of the prover's reach.

## 5. Not modelled

`PROJECT.json` lists every component with what is left out of it. The reasons are of four kinds.

* Planned: the events and locations of package traceability, and the scheduler with its last runs.
* Not checkable by these means: the decoding of H02 and AVL frames, the geometry of the cargo floor, the drawing of labels and documents, and calls to
  external services (geocoding, Telegram, mail).
* Records nothing reacts to: trip routes and documents, CRM, the old lists of expenses and incomes, chat and notifications, appearance and feature flags, prices and categories of materials, passwords and keys.
* Derived views and scripts: dashboards, display and control centers, listings, migrations and imports, the pages of the clients, deployment.

Most of the repository's lines are of the last two kinds: models and serializers of records, pages of the clients, generators of documents.

## 6. Plan

In this order:

1. `Traceability`: the events and locations of a package (`package_traceability.py`), beside its label.
2. `Scheduler`: jobs of one process and their last runs, beside a second process.
