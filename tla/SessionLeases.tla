----------------------------- MODULE SessionLeases -----------------------------
(******************************************************************************)
(* Which sessions the controller keeps a projection of, and for whom:         *)
(* session_manager.go, with its callers in session_lifecycle.go,              *)
(* session_events.go, session_operations.go and handler.go, of                *)
(* pixie/internal/controller, and the page's session-leases.ts.               *)
(*                                                                            *)
(* A page tells the controller which sessions its tabs show.  Each change     *)
(* makes a snapshot with a revision of its own, and each is handled by a      *)
(* goroutine of its own, so that they may arrive in any order.  A projection  *)
(* that nobody leases, works on or waits for may be evicted; the next         *)
(* operation makes another one from the session's association.  Sessions are  *)
(* created, opened, worked on and archived meanwhile.                         *)
(*                                                                            *)
(* Abstractions.  All sessions are of one project.  Evict chooses what to     *)
(* drop: how old and how large a projection is decides in the code.  Nobody   *)
(* asks for a session before its creation was announced.  Stores can be read. *)
(* Loading a session from Pi succeeds or fails at once.  Prompts, streams     *)
(* and scheduled drains are one kind of work.                                 *)
(******************************************************************************)
EXTENDS Integers, FiniteSets

CONSTANTS
    Sessions, Clients,
    Operations,    \* goroutines of requests
    MaxIdle,       \* inactiveProjectionMaxCount
    MaxRevision,   \* bound on a page's snapshots
    MaxProjections \* bound on the projections of one session in use at once

ASSUME ConstantsAssumption ==
    /\ \A S \in {Sessions, Clients, Operations} : IsFiniteSet(S)
    /\ {MaxIdle, MaxRevision} \subseteq Nat /\ MaxProjections \in Nat \ {0}
    /\ "none" \notin Sessions

VARIABLES
    \* SessionManager
    current,      \* sessions: which of its projections a session has, or 0
    projection,   \* what each of them is
    leases,       \* by client
    lifecycle,
    pending,      \* pendingCommands
    \* stores
    recorded,     \* sessions with an association
    closed,       \* the project is closed
    releasing,    \* its closing has yet to release its sessions
    disk,         \* sessions whose queue is not empty
    \* Pi
    exists, archived, notified,
    \* pages
    revision, sent, asks,
    \* goroutines
    op,
    \* history
    placed,       \* sessions whose creation was completed
    touched,      \* clients whose leases the project's closing concerns
    reaped        \* clients reaped since their last snapshot

manager == <<current, projection, leases, lifecycle, pending>>
store   == <<recorded, closed, releasing, disk>>
pi      == <<exists, archived, notified>>
pages   == <<revision, sent, asks>>
history == <<placed, touched, reaped>>
vars    == <<manager, store, pi, pages, op, history>>

Revisions == 1..MaxRevision

\* sessionEntry: gate is the operation that holds op; busy covers what keeps an
\* entry from eviction; queued is a durable queue that does not run by itself.
Projection == [refs : Nat, gate : Operations \cup {"free"}, busy : {"no", "work", "stream"},
               queued : BOOLEAN, commands : BOOLEAN]
Fresh == [refs |-> 0, gate |-> "free", busy |-> "no", queued |-> FALSE, commands |-> FALSE]

Operation == [kind : {"none", "open", "work", "archive", "create"},
              step : {"idle", "install", "gate", "attached", "reserved", "archived", "use", "new", "record", "place"},
              client : Clients \cup {"none"}, session : Sessions \cup {"none"}, on : 0..MaxProjections, queued : BOOLEAN]

NoLeases == [revision |-> 0, sessions |-> {}]

TypeOK ==
    /\ current \in [Sessions -> 0..MaxProjections] 
    /\ projection \in [Sessions -> [1..MaxProjections -> Projection]]
    /\ leases \in [Clients -> [revision : 0..MaxRevision, sessions : SUBSET Sessions]]
    /\ UNION {lifecycle, pending, recorded, disk, exists, archived, notified, placed} \subseteq Sessions
    /\ closed \in BOOLEAN /\ releasing \in BOOLEAN
    /\ revision \in [Clients -> 0..MaxRevision]
    /\ sent \in [Clients -> [Revisions -> SUBSET Sessions]]
    /\ asks \in [Clients -> SUBSET Revisions]
    /\ op \in [Operations -> Operation]
    /\ touched \subseteq Clients /\ reaped \subseteq Clients

-----------------------------------------------------------------------------
(* evictLocked: of sessions as they would be, with the leases given.     *)

\* Mutant: only the leases of clients that have declared theirs count.
LeasedDeclared(ls) == UNION {ls[c].sessions : c \in {d \in Clients : ls[d].revision > 0}}
Leased(ls) == UNION {ls[c].sessions : c \in Clients}

\* Mutant: an operation that waits for the gate does not count.
IdleUngated(p) == p.gate = "free" /\ p.busy = "no"
Idle(p) == p.refs = 0 /\ p.busy = "no"

Evictable(cur, pr, ls) == {s \in Sessions : cur[s] # 0 /\ Idle(pr[s][cur[s]])} \ Leased(ls)

\* Mutant: what one eviction may leave is one too many.
KeepsOneMore(idle, drop) == Cardinality(idle \ drop) <= MaxIdle + 1
Keeps(idle, drop) == Cardinality(idle \ drop) <= MaxIdle

\* What nobody can reach any more is as if it had never been.
Reached(s, p, n, cur) == n = cur[s] \/ p.refs > 0 \/ p.busy # "no"
Kept(pr, cur) ==
    [s \in Sessions |-> [n \in 1..MaxProjections |-> IF Reached(s, pr[s][n], n, cur) THEN pr[s][n] ELSE Fresh]]

Evict(cur, pr, ls) ==
    \E drop \in SUBSET Evictable(cur, pr, ls) :
        /\ Keeps(Evictable(cur, pr, ls), drop)
        /\ current' = [s \in Sessions |-> IF s \in drop THEN 0 ELSE cur[s]]
        /\ projection' = Kept(pr, current')
        /\ leases' = ls

\* newSessionEntry from the association.  What it lacks, loading it tells.
Slots(s) == {n \in 1..MaxProjections : ~Reached(s, projection[s][n], n, current)}
Slot(s) == CHOOSE n \in Slots(s) : TRUE
Restored(queued) == [Fresh EXCEPT !.queued = queued, !.commands = TRUE]

-----------------------------------------------------------------------------
(* Pages.                                                                *)

\* A page's tabs change, or it has connected again: both make a snapshot.
Flush(c) ==
    /\ revision[c] < MaxRevision
    /\ revision' = [revision EXCEPT ![c] = @ + 1]
    /\ \E show \in SUBSET placed :
        sent' = [sent EXCEPT ![c][revision[c] + 1] = show]
    /\ asks' = [asks EXCEPT ![c] = @ \cup {revision[c] + 1}]
    /\ UNCHANGED <<manager, store, pi, op, history>>

\* Mutant: a snapshot that comes late is not told apart.
AnyRevision(c, r) == FALSE
Late(c, r) == r <= leases[c].revision

\* Mutant: the project is not looked at under the lock.
ClaimedAnyway(S) == S \cap recorded
Claimed(S) == IF closed THEN {} ELSE S \cap recorded

\* The snapshots that one supersedes are not looked at again.
SetLeases(c, r) ==
    LET granted == Claimed(sent[c][r])
        missing == {s \in granted : current[s] = 0} \ lifecycle
    IN
    /\ r \in asks[c]
    /\ asks' = [asks EXCEPT ![c] = @ \ {r}]
    /\ IF Late(c, r)
       THEN UNCHANGED <<manager, sent, touched, reaped>>
       ELSE /\ \A s \in missing : Slots(s) # {}
            /\ Evict([s \in Sessions |-> IF s \in missing THEN Slot(s) ELSE current[s]],
                     [s \in Sessions |-> IF s \in missing
                        THEN [projection[s] EXCEPT ![Slot(s)] = Restored(s \in disk)]
                        ELSE projection[s]],
                     [leases EXCEPT ![c] = [revision |-> r, sessions |-> granted]])
            /\ sent' = [sent EXCEPT ![c] = [q \in Revisions |-> IF q < r THEN {} ELSE @[q]]]
            /\ touched' = IF closed THEN touched \cup {c} ELSE touched \ {c}
            /\ reaped' = reaped \ {c}
            /\ UNCHANGED <<lifecycle, pending>>
    /\ UNCHANGED <<store, pi, revision, op, placed>>

\* The page has been gone for a minute, and nothing that it asked is under way.
ReleaseClient(c) ==
    /\ asks[c] = {} /\ \A t \in Operations : op[t].step = "idle" \/ op[t].client # c
    /\ leases[c] # NoLeases
    /\ Evict(current, projection, [leases EXCEPT ![c] = NoLeases])
    /\ reaped' = reaped \cup {c}
    /\ UNCHANGED <<lifecycle, pending, store, pi, pages, op, placed, touched>>

-----------------------------------------------------------------------------
(* The project.                                                          *)

CloseProject ==
    /\ ~closed /\ ~releasing
    /\ closed' = TRUE /\ releasing' = TRUE
    /\ touched' = Clients
    /\ UNCHANGED <<manager, recorded, disk, pi, pages, op, placed, reaped>>

OpenProject ==
    /\ closed /\ closed' = FALSE
    /\ UNCHANGED <<manager, recorded, releasing, disk, pi, pages, op, history>>

\* Mutant: whether the project was opened again is not looked at.
Always == TRUE
StillClosed == closed

ReleaseProject ==
    /\ releasing /\ releasing' = FALSE
    /\ IF StillClosed
       THEN Evict(current, projection, [c \in Clients |-> [leases[c] EXCEPT !.sessions = {}]])
       ELSE UNCHANGED <<current, projection, leases>>
    /\ UNCHANGED <<lifecycle, pending, recorded, closed, disk, pi, pages, op, history>>

-----------------------------------------------------------------------------
(* Operations on a session that exists.                                  *)

At(t) == projection[op[t].session][op[t].on]
With(t, p) == [projection EXCEPT ![op[t].session][op[t].on] = p]
Step(t, step) == op' = [op EXCEPT ![t].step = step]
Nobody == [kind |-> "none", step |-> "idle", client |-> "none", session |-> "none", on |-> 0, queued |-> FALSE]
End(t) == op' = [op EXCEPT ![t] = Nobody]

Use(s, n) == projection' = [projection EXCEPT ![s][n].refs = @ + 1]

\* entry, and the reading of records and queues when there is none.
Begin(t) ==
    /\ op[t].step = "idle"
    /\ \E k \in {"open", "work", "archive"}, c \in Clients, s \in placed :
        LET o == [Nobody EXCEPT !.kind = k, !.client = c, !.session = s] IN
        IF current[s] # 0 /\ s \notin lifecycle
        THEN /\ Use(s, current[s])
             /\ op' = [op EXCEPT ![t] = [o EXCEPT !.step = "gate", !.on = current[s]]]
        ELSE /\ op' = [op EXCEPT ![t] = [o EXCEPT !.step = "install", !.queued = s \in disk]]
             /\ UNCHANGED projection
    /\ UNCHANGED <<current, leases, lifecycle, pending, store, pi, pages, history>>

Install(t) ==
    LET s == op[t].session IN
    /\ op[t].step = "install"
    /\ \/ /\ s \in lifecycle
          /\ End(t) /\ UNCHANGED <<current, projection>>
       \/ /\ s \notin lifecycle /\ current[s] # 0
          /\ Use(s, current[s])
          /\ op' = [op EXCEPT ![t].step = "gate", ![t].on = current[s], ![t].queued = FALSE]
          /\ UNCHANGED current
       \/ /\ s \notin lifecycle /\ current[s] = 0 /\ Slots(s) # {}
          /\ current' = [current EXCEPT ![s] = Slot(s)]
          /\ projection' = [projection EXCEPT ![s][Slot(s)] = [Restored(op[t].queued) EXCEPT !.refs = 1]]
          /\ op' = [op EXCEPT ![t].step = "gate", ![t].on = Slot(s), ![t].queued = FALSE]
    /\ UNCHANGED <<leases, lifecycle, pending, store, pi, pages, history>>

\* releaseEntry, of a projection that may have been replaced.
Release(t, p, ls) ==
    /\ Evict(current, With(t, [p EXCEPT !.refs = @ - 1]), ls)
    /\ End(t)

Held(t) == current[op[t].session] = op[t].on /\ op[t].session \notin lifecycle

\* lockEntryContext.
Lock(t) ==
    /\ op[t].step = "gate"
    /\ \/ /\ At(t).gate = "free" /\ Held(t)
          /\ projection' = With(t, [At(t) EXCEPT !.gate = t])
          /\ Step(t, "attached")
          /\ UNCHANGED <<current, leases>>
       \/ /\ At(t).gate = "free" /\ ~Held(t)
          /\ Release(t, At(t), leases)
       \/ /\ At(t).gate # "free"   \* thirty seconds have passed
          /\ Release(t, At(t), leases)
    /\ UNCHANGED <<lifecycle, pending, store, pi, pages, history>>

Freed(t) == [At(t) EXCEPT !.gate = "free"]

\* Loading failed, at Pi or for the connection.
AttachFails(t) ==
    /\ op[t].step = "attached" /\ op[t].kind # "archive"
    /\ Release(t, Freed(t), leases)
    /\ UNCHANGED <<lifecycle, pending, store, pi, pages, history>>

\* retainSessionLocked.  Mutant: also for a client that has declared its tabs.
RetainsAll(c, s) == [leases EXCEPT ![c].sessions = @ \cup {s}]
Retained(c, s) == IF leases[c].revision = 0 THEN [leases EXCEPT ![c].sessions = @ \cup {s}] ELSE leases

\* messageSnapshot: the gate is given up, the projection is still in use.
Opened(t) ==
    /\ op[t].step = "attached" /\ op[t].kind = "open"
    /\ projection' = With(t, Freed(t))
    /\ leases' = Retained(op[t].client, op[t].session)
    /\ Step(t, "use")
    /\ UNCHANGED <<current, lifecycle, pending, store, pi, pages, history>>

Answered(t) ==
    /\ op[t].step = "use"
    /\ Release(t, At(t), leases)
    /\ UNCHANGED <<lifecycle, pending, store, pi, pages, history>>

\* retainWork.  Mutant: the goroutine has no reference of its own.
WorkingOnly(p) == [p EXCEPT !.busy = "work"]
Working(p) == [p EXCEPT !.busy = "work", !.refs = @ + 1]

\* A prompt, or a change of the queue.
Work(t) ==
    /\ op[t].step = "attached" /\ op[t].kind = "work"
    /\ \/ /\ At(t).busy = "no"
          /\ Release(t, Working(Freed(t)), leases)
          /\ UNCHANGED disk
       \/ /\ Release(t, [Freed(t) EXCEPT !.queued = ~@], leases)
          /\ disk' = IF At(t).queued THEN disk \ {op[t].session} ELSE disk \cup {op[t].session}
    /\ UNCHANGED <<lifecycle, pending, recorded, closed, releasing, pi, pages, history>>

WorkEnds(s, n) ==
    LET p == projection[s][n] IN
    /\ p.busy = "work"
    /\ Evict(current, [projection EXCEPT ![s][n].busy = "no", ![s][n].refs = @ - 1], leases)
    /\ UNCHANGED <<lifecycle, pending, store, pi, pages, op, history>>

\* applyUpdate: a run that no request of this controller waits for.
Streams(s) ==
    /\ current[s] # 0 /\ projection[s][current[s]].busy # "work"
    /\ IF projection[s][current[s]].busy = "no"
       THEN /\ projection' = [projection EXCEPT ![s][current[s]].busy = "stream"]
            /\ UNCHANGED <<current, leases>>
       ELSE Evict(current, [projection EXCEPT ![s][current[s]].busy = "no"], leases)
    /\ UNCHANGED <<lifecycle, pending, store, pi, pages, op, history>>

-----------------------------------------------------------------------------
(* Archive.                                                              *)

\* beginLifecycle.  Mutant: whoever else uses the projection does not count.
Alone(t) == TRUE
OnlyUser(t) == At(t).refs <= 1

Reserve(t) ==
    /\ op[t].step = "attached" /\ op[t].kind = "archive"
    /\ IF ~At(t).queued /\ OnlyUser(t) /\ At(t).busy = "no"
       THEN /\ lifecycle' = lifecycle \cup {op[t].session}
            /\ Step(t, "reserved")
            /\ UNCHANGED <<current, projection, leases>>
       ELSE Release(t, Freed(t), leases) /\ UNCHANGED lifecycle
    /\ UNCHANGED <<pending, store, pi, pages, history>>

\* Pi has archived the session, or has not.
Archive(t) ==
    LET s == op[t].session IN
    /\ op[t].step = "reserved"
    /\ \/ archived' = archived \cup {s} /\ current' = [current EXCEPT ![s] = 0]
       \/ UNCHANGED <<archived, current>>
    /\ Step(t, "archived")
    /\ UNCHANGED <<projection, leases, lifecycle, pending, store, exists, notified, pages, history>>

Finish(t) ==
    /\ op[t].step = "archived"
    /\ lifecycle' = lifecycle \ {op[t].session}
    /\ Release(t, Freed(t), leases)
    /\ UNCHANGED <<pending, store, pi, pages, history>>

-----------------------------------------------------------------------------
(* create.                                                               *)

Creating(o) == o.kind = "create" /\ o.step \in {"new", "record", "place"}

\* pendingCommands go when the last creation under way has ended.
\* Mutant: when any has.
NoneLeft(t) == {}
Left(t) == IF \E u \in Operations \ {t} : Creating(op[u]) THEN pending \ {op[t].session} ELSE {}

BeginCreate(t) ==
    /\ op[t].step = "idle"
    /\ \E c \in Clients :
        op' = [op EXCEPT ![t] = [Nobody EXCEPT !.kind = "create", !.client = c, !.step = "new"]]
    /\ UNCHANGED <<manager, store, pi, pages, history>>

NewSession(t) ==
    /\ op[t].step = "new"
    /\ \E s \in Sessions \ exists :
        /\ exists' = exists \cup {s}
        /\ op' = [op EXCEPT ![t].step = "record", ![t].session = s]
    /\ UNCHANGED <<manager, store, archived, notified, pages, history>>

\* Pi has refused, the connection has changed, or the association cannot be written.
CreateFails(t) ==
    /\ op[t].step \in {"new", "record"}
    /\ End(t) /\ pending' = Left(t)
    /\ UNCHANGED <<current, projection, leases, lifecycle, store, pi, pages, history>>

Record(t) ==
    /\ op[t].step = "record"
    /\ recorded' = recorded \cup {op[t].session}
    /\ Step(t, "place")
    /\ UNCHANGED <<manager, closed, releasing, disk, pi, pages, history>>

Place(t) ==
    LET s == op[t].session IN
    /\ op[t].step = "place"
    /\ current' = [current EXCEPT ![s] = 1]
    /\ projection' = [projection EXCEPT ![s][1] = [Fresh EXCEPT !.refs = 1, !.commands = s \in pending]]
    /\ leases' = Retained(op[t].client, s)
    /\ pending' = Left(t)
    /\ op' = [op EXCEPT ![t].kind = "open", ![t].step = "use", ![t].on = 1]
    /\ placed' = placed \cup {s}
    /\ UNCHANGED <<lifecycle, store, pi, pages, touched, reaped>>

\* The commands of a new session may be told before the answer that names it.
Notify(s) ==
    /\ s \in exists \ notified
    /\ notified' = notified \cup {s}
    /\ IF current[s] # 0
       THEN projection' = [projection EXCEPT ![s][current[s]].commands = TRUE] /\ UNCHANGED pending
       ELSE /\ pending' = IF \E t \in Operations : Creating(op[t]) THEN pending \cup {s} ELSE pending
            /\ UNCHANGED projection
    /\ UNCHANGED <<current, leases, lifecycle, store, exists, archived, pages, op, history>>

-----------------------------------------------------------------------------
Init ==
    /\ current = [s \in Sessions |-> 0]
    /\ projection = [s \in Sessions |-> [n \in 1..MaxProjections |-> Fresh]]
    /\ leases = [c \in Clients |-> NoLeases]
    /\ lifecycle = {} /\ pending = {} /\ disk = {} /\ archived = {}
    /\ closed = FALSE /\ releasing = FALSE
    \* Some sessions are there from before, without a projection.
    /\ \E old \in SUBSET Sessions :
        recorded = old /\ exists = old /\ notified = old /\ placed = old
    /\ revision = [c \in Clients |-> 0]
    /\ sent = [c \in Clients |-> [r \in Revisions |-> {}]] /\ asks = [c \in Clients |-> {}]
    /\ op = [t \in Operations |-> Nobody]
    /\ touched = {} /\ reaped = {}

OperationStep(t) ==
    \/ Begin(t) \/ Install(t) \/ Lock(t) \/ AttachFails(t) \/ Opened(t) \/ Answered(t) \/ Work(t)
    \/ Reserve(t) \/ Archive(t) \/ Finish(t)
    \/ BeginCreate(t) \/ NewSession(t) \/ CreateFails(t) \/ Record(t) \/ Place(t)

Next ==
    \/ \E c \in Clients : Flush(c) \/ ReleaseClient(c) \/ \E r \in Revisions : SetLeases(c, r)
    \/ \E t \in Operations : OperationStep(t)
    \/ \E s \in Sessions : Streams(s) \/ Notify(s) \/ \E n \in 1..MaxProjections : WorkEnds(s, n)
    \/ CloseProject \/ OpenProject \/ ReleaseProject

Spec == Init /\ [][Next]_vars

-----------------------------------------------------------------------------
(* Properties.                                                           *)

\* A session that a client shows has a projection, whatever was evicted or
\* released for others, unless it was archived (session_manager.go:945-958).
LeasedIsProjected ==
    \A c \in Clients : \A s \in leases[c].sessions : current[s] # 0 \/ s \in lifecycle \cup archived

\* In whatever order its snapshots arrive, a client holds what its latest one
\* says; the answer of a request for a tab it has closed adds nothing to it
\* (session_manager.go:846-851, 873).
LatestSnapshot ==
    \A c \in Clients :
        /\ leases[c].revision > 0 => leases[c].sessions \subseteq sent[c][leases[c].revision]
        /\ asks[c] = {} /\ c \notin reaped => leases[c].revision = revision[c]

\* When a project's closing has released its sessions, no snapshot that was
\* under way holds any (session_manager.go:919-921).
ClosedIsReleased ==
    closed /\ ~releasing => \A c \in Clients : leases[c].revision > 0 => leases[c].sessions = {}

\* A closing that is overtaken by a reopening takes nothing from a client that
\* has claimed its sessions since (session_manager.go:1002-1007).
ReopenedIsKept ==
    \A c \in Clients \ touched :
        leases[c].revision > 0 => leases[c].sessions = sent[c][leases[c].revision]

\* A projection that an operation waits for, works on or reads is neither
\* evicted nor archived by another one (session_manager.go:1046, session_operations.go:111).
InUseIsProjected ==
    \A t \in Operations : op[t].step \in {"gate", "attached", "reserved", "use"} => current[op[t].session] = op[t].on

\* What nobody uses stays within the budget (session_manager.go:1087-1092).
WithinBudget == Cardinality(Evictable(current, projection, leases)) <= MaxIdle

\* A session's commands reach its first projection, when they come before its
\* name does and when they come after (session_manager.go:243-246).
CommandsArrive ==
    \A s \in notified : current[s] # 0 => projection[s][current[s]].commands

\* Durable queues prevent eviction (docs/architecture.md:35).
DurableQueuesStay ==
    [][\A s \in Sessions :
        current[s] # 0 /\ projection[s][current[s]].queued /\ current'[s] = 0 => s \in lifecycle]_vars

\* What the manager promises of leases, and of the projections behind them.
LeasesAreKept      == TypeOK /\ LeasedIsProjected /\ LatestSnapshot /\ ClosedIsReleased /\ ReopenedIsKept
ProjectionsAreKept == InUseIsProjected /\ WithinBudget /\ CommandsArrive
================================================================================
