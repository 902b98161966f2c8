----------------------------- MODULE LocationFeed -----------------------------
(***************************************************************************)
(* The positions of a driver's phone on their way to gps_locations: the    *)
(* app posts each as it is taken and keeps in a queue what it could not    *)
(* post, to be posted later (velcore_driver and driver-app: the tracking   *)
(* services and the offline queue); the server stores a position unless it *)
(* looks like a repetition or a jump (services/gps_fleet.py).              *)
(*                                                                         *)
(* The timer of the page and the callback in the background take positions *)
(* beside each other, in isolates that share no memory.  Each writes the   *)
(* whole queue, with its own position after what it has read of it; the    *)
(* preferences of an isolate are read when it starts and remembered, those *)
(* of the Android service when they are asked for: `view` may be of any    *)
(* earlier time.                                                           *)
(*                                                                         *)
(* A position carries no time of its own: the server stamps it when it     *)
(* comes in.  A tick of the clock is the time in which the vehicle may     *)
(* move by one place, which is also the fastest that is taken for real.    *)
(***************************************************************************)
EXTENDS Integers, Sequences, FiniteSets

CONSTANTS
    Syncs,      \* runs of the queue's synchronisation that may overlap
    Live,       \* what takes positions and posts them: the timer of the page, the callback in the background
    MaxFixes,   \* bound: positions taken
    MaxClock,   \* bound: ticks
    MaxQueue,   \* positions the queue keeps (500)
    Window,     \* ticks within which a jump is refused (300 s)
    Heartbeat   \* ticks after which a position is stored though the vehicle stands (30 s)

ASSUME FeedAssumption ==
    /\ Live \cap Syncs = {}
    /\ {MaxFixes, MaxClock, MaxQueue, Window, Heartbeat} \subseteq Nat
    /\ MaxQueue > 0

VARIABLES
    clock,   \* of the server
    odometer, \* where the vehicle is, on a line
    taken,   \* positions taken so far
    backlog,   \* offline queue in the preferences of the app
    view,    \* per taker of positions: the queue as it knows it
    sync,    \* per run: the queue as it was read, what is left of it to post, what could not be posted
    post,    \* per poster: the request under way, or NoPost
    stored,  \* gps_locations of the vehicle in order of id
    heard    \* history: positions a handler of the server has dealt with

feedVars == <<clock, odometer, taken, backlog, view, sync, post, stored, heard>>

Posters == Syncs \cup Live
NoPost == [step |-> "none"]
NoSync == [read |-> <<>>, left |-> <<>>, kept |-> <<>>]

FeedInit ==
    /\ clock = 0 /\ odometer = 0 /\ taken = 0
    /\ backlog = <<>> /\ view = [p \in Live |-> <<>>]
    /\ sync = [s \in Syncs |-> NoSync]
    /\ post = [p \in Posters |-> NoPost]
    /\ stored = <<>>
    /\ heard = {}

SetPost(p, r) == post' = [post EXCEPT ![p] = r]

-----------------------------------------------------------------------------
(* The app.                                                                *)

Drive ==
    /\ clock < MaxClock
    /\ clock' = clock + 1
    /\ odometer' \in {odometer, odometer + 1}
    /\ UNCHANGED <<taken, backlog, view, sync, post, stored, heard>>

\* _sendCurrentPosition and the background callback.
TakeFix(p) ==
    /\ post[p] = NoPost /\ taken < MaxFixes
    /\ taken' = taken + 1
    /\ SetPost(p, [step |-> "sent", fix |-> [n |-> taken + 1, at |-> odometer, when |-> clock]])
    /\ UNCHANGED <<clock, odometer, backlog, view, sync, stored, heard>>

ReadQueue(p) ==
    /\ view[p] # backlog
    /\ view' = [view EXCEPT ![p] = backlog]
    /\ UNCHANGED <<clock, odometer, taken, backlog, sync, post, stored, heard>>

\* The oldest are dropped when there are too many.
Queued(q, fix) ==
    LET longer == Append(q, fix)
    IN IF Len(longer) > MaxQueue THEN Tail(longer) ELSE longer

\* The post has failed, or its answer was lost: the whole queue is written.
Enqueue(p) ==
    /\ post[p].step \in {"sent", "done"}
    /\ backlog' = Queued(view[p], post[p].fix)
    /\ view' = [view EXCEPT ![p] = backlog']
    /\ SetPost(p, NoPost)
    /\ UNCHANGED <<clock, odometer, taken, sync, stored, heard>>

Posted(p) ==
    /\ post[p].step = "done"
    /\ SetPost(p, NoPost)
    /\ UNCHANGED <<clock, odometer, taken, backlog, view, sync, stored, heard>>

\* The Android service also writes back an empty queue, at once: left out.
StartSync(s) ==
    /\ sync[s] = NoSync /\ backlog # <<>>
    /\ sync' = [sync EXCEPT ![s] = [read |-> backlog, left |-> backlog, kept |-> <<>>]]
    /\ UNCHANGED <<clock, odometer, taken, backlog, view, post, stored, heard>>

SyncOne(s) ==
    /\ post[s] = NoPost /\ sync[s].left # <<>>
    /\ SetPost(s, [step |-> "sent", fix |-> Head(sync[s].left)])
    /\ sync' = [sync EXCEPT ![s].left = Tail(@)]
    /\ UNCHANGED <<clock, odometer, taken, backlog, view, stored, heard>>

\* Mutant: a position that could not be posted is not kept.
KeptOnlyPosted(kept, fix, ok) == kept

KeptAfter(kept, fix, ok) == IF ok THEN kept ELSE Append(kept, fix)

SyncAnswered(s) ==
    /\ post[s].step \in {"sent", "done"}
    /\ \E ok \in BOOLEAN :
        /\ ok => post[s].step = "done"
        /\ sync' = [sync EXCEPT ![s].kept = KeptAfter(@, post[s].fix, ok)]
    /\ SetPost(s, NoPost)
    /\ UNCHANGED <<clock, odometer, taken, backlog, view, stored, heard>>

\* What could not be posted becomes the queue, whatever the queue is now.
EndSync(s) ==
    /\ sync[s].read # <<>> /\ sync[s].left = <<>> /\ post[s] = NoPost
    /\ backlog' = sync[s].kept
    /\ sync' = [sync EXCEPT ![s] = NoSync]
    /\ UNCHANGED <<clock, odometer, taken, view, post, stored, heard>>

-----------------------------------------------------------------------------
(* The server.                                                             *)

\* save_location reads the last row, then takes the time.
Latest == CHOOSE i \in DOMAIN stored : \A k \in DOMAIN stored :
    \/ stored[i].stamp > stored[k].stamp
    \/ stored[i].stamp = stored[k].stamp /\ i >= k

ReadLatest(p) ==
    /\ post[p].step = "sent"
    /\ SetPost(p, [step |-> "read", fix |-> post[p].fix, stamp |-> clock,
                   prev |-> IF stored = <<>> THEN <<>> ELSE <<stored[Latest]>>])
    /\ UNCHANGED <<clock, odometer, taken, backlog, view, sync, stored, heard>>

Distance(a, b) == IF a > b THEN a - b ELSE b - a

Jumps(dist, elapsed) == elapsed <= Window /\ dist > elapsed

\* should_save_location: a repetition within the same place, or a jump, is not stored.
ShouldSave(prev, fix, stamp) ==
    \/ prev = <<>>
    \/ LET dist == Distance(prev[1].at, fix.at)
           elapsed == stamp - prev[1].stamp
       IN /\ elapsed > 0
          /\ ~Jumps(dist, elapsed)
          /\ dist > 0 \/ elapsed >= Heartbeat

SaveLocation(p) ==
    LET r == post[p]
    IN /\ r.step = "read"
       /\ stored' = IF ShouldSave(r.prev, r.fix, r.stamp)
                    THEN Append(stored, [at |-> r.fix.at, when |-> r.fix.when, stamp |-> r.stamp])
                    ELSE stored
       /\ heard' = heard \cup {r.fix.n}
       /\ SetPost(p, [step |-> "done", fix |-> r.fix])
       /\ UNCHANGED <<clock, odometer, taken, backlog, view, sync>>

FeedNext ==
    \/ Drive
    \/ \E p \in Live : TakeFix(p) \/ ReadQueue(p) \/ Enqueue(p) \/ Posted(p)
    \/ \E s \in Syncs : StartSync(s) \/ SyncOne(s) \/ SyncAnswered(s) \/ EndSync(s)
    \/ \E p \in Posters : ReadLatest(p) \/ SaveLocation(p)

FeedSpec == FeedInit /\ [][FeedNext]_feedVars

-----------------------------------------------------------------------------
(* Properties.                                                             *)

FixNumbers(q) == {q[i].n : i \in DOMAIN q}

\* Positions that are still somewhere: queued, in a synchronisation, under way or dealt with.
Held ==
    heard \cup FixNumbers(backlog)
    \cup (UNION {FixNumbers(sync[s].left) \cup FixNumbers(sync[s].kept) : s \in Syncs})
    \cup {post[p].fix.n : p \in {q \in Posters : post[q] # NoPost}}

\* Who takes positions writes over a queue that is not the one it knows.
WritesOver(p) ==
    /\ view[p] # backlog
    /\ post[p] # NoPost /\ post'[p] = NoPost /\ view'[p] = backlog'

\* A position is lost only when the queue is full, or when who takes positions, or a synchronisation,
\* writes over a queue that has changed since it was read: one of them alone loses none.  A position
\* that is received of a vehicle that has moved on is stored, unless it, or the one before it, came in
\* later than it was taken, or two came in at a time: what is queued is judged by the time of its
\* synchronisation, and refused as a jump.
OnlyOverlapsLose ==
    [][/\ ~(Held \subseteq Held') =>
            \/ Len(backlog) = MaxQueue /\ backlog' # <<>> /\ Len(backlog') = MaxQueue
            \/ \E p \in Live : WritesOver(p)
            \/ \E s \in Syncs : sync[s].read # backlog /\ sync[s] # NoSync /\ sync'[s] = NoSync
       /\ \A p \in Posters :
            LET r == post[p]
            IN r.step = "read" /\ post'[p].step = "done" /\ stored' = stored
               => \/ r.prev[1].at = r.fix.at
                  \/ r.stamp # r.fix.when \/ r.prev[1].stamp # r.prev[1].when]_feedVars
===============================================================================
