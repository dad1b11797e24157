---------------------------- MODULE FollowUpQueue ----------------------------
(****************************************************************************)
(* The durable follow-up queue of one session: session_queues.go and        *)
(* session_actions.go of pixie/internal/controller, with attachLocked.      *)
(*                                                                          *)
(* A client queues messages while Pi works.  A background drain takes the   *)
(* head, saves it as the Dispatch, saves that it was Attempted, and only    *)
(* then prompts Pi; the prompt's goroutine settles it.  Whatever cannot be  *)
(* proved to have reached Pi is blocked until the client retries or removes *)
(* it.  Around this: the session's operation gate (op), which is held over  *)
(* calls to Pi; the state mutex, which is not, so that each action here is  *)
(* one of its critical sections; a connection that drops and comes back;    *)
(* writes that fail; notifications that come at any time; and restarts.     *)
(*                                                                          *)
(* Abstractions.  A queued item is named by the request that queued it: two *)
(* items of one name are one request executed twice.  A connection's        *)
(* generation is "current", "stale" or "none" (0).  Steering, images and    *)
(* attachments are left out, as are eviction, lifecycle reservations and    *)
(* the agent's identity, whose refusals change nothing here.                *)
(****************************************************************************)
EXTENDS Integers, Sequences, FiniteSets

CONSTANTS
    Items,         \* requests that queue a message, and the items they queue
    RetryKeys,     \* requests that retry the blocked item
    Texts,         \* what a message says
    TextOf,        \* the text that an item is queued with
    Edits,         \* texts that an edit may put in its place
    MaxManual,     \* bound: prompts sent past the queue
    MaxFaults,     \* bound: failed writes, calls and loads, timeouts, drops and crashes
    MaxQueued,     \* messages a session may hold (20)
    MaxHandled,    \* request identities kept (512)
    Manual,        \* names the turn of a prompt sent past the queue
    None

Item     == [id : Items, text : Texts]
Dispatch == [id : Items, text : Texts, previous : Nat, attempted : BOOLEAN]
Message  == [id : Items \cup {Manual}, text : Texts \cup {Manual}, live : BOOLEAN]
Turn     == [id : Items \cup {Manual}, text : Texts \cup {Manual}]

ASSUME ConstantsAssumption ==
    /\ Manual \notin Items /\ Manual \notin Texts /\ Items \cap RetryKeys = {}
    /\ None \notin Items \cup Item \cup Dispatch
    /\ TextOf \in [Items -> Texts] /\ Edits \subseteq Texts
    /\ MaxManual \in Nat /\ MaxFaults \in Nat
    /\ MaxQueued \in Nat \ {0} /\ MaxHandled \in Nat \ {0}

VARIABLES
    \* the process
    up,
    queue,         \* entry.queue
    streaming,     \* entry.streaming
    promptActive,  \* entry.promptActive
    acknowledged,  \* entry.promptAcknowledged
    users,         \* how many user messages the projection has
    attached,      \* entry.attached
    drain,         \* the drain: "idle", "waiting" for op, "working"; drainScheduled is drain # "idle"
    timer,         \* entry.drainRetry: "none", "armed", or "fired" and still set
    retrying,      \* a drain failed and is about to call retryFollowUp
    op,            \* who holds the gate, and what it does next
    prompt,        \* the goroutine of the prompt
    \* outside the process
    online,        \* the connection to Pi
    disk,          \* the session's record in pi-session-queues.json
    wire,          \* prompts that Pi has not seen yet
    agent,         \* the prompt that Pi works on, or None
    transcript,    \* Pi's transcript: its user turns
    faults,        \* faults left
    \* history, read by the properties only
    sent,          \* how often each item was given to Pi
    accepted,      \* items whose request was answered with success
    removed,       \* items that a client removed
    authorized,    \* <<retry request, item>>: the retries carried out
    mistaken       \* items that a replay took for delivered by another turn of the same text

pixie   == <<up, queue, streaming, promptActive, acknowledged, users, attached,
             drain, timer, retrying, op, prompt>>
pi      == <<wire, agent, transcript>>
history == <<sent, accepted, removed, authorized, mistaken>>
vars    == <<pixie, online, disk, pi, faults, history>>

Queue == [followUp : Seq(Item), dispatch : Dispatch \cup {None}, blocked : Item \cup {None},
          handled : Seq(Items \cup RetryKeys)]

Empty  == [followUp |-> <<>>, dispatch |-> None, blocked |-> None, handled |-> <<>>]
NoOp   == [who |-> "none", step |-> "none", next |-> "none", retry |-> None]
NoCall == [pc |-> "idle", id |-> None, text |-> None, ok |-> FALSE]

Ids(seq)  == {seq[k].id : k \in DOMAIN seq}
Held(q)   == Ids(q.followUp) \cup {x.id : x \in {q.dispatch, q.blocked} \ {None}}
Count(q)  == Len(q.followUp) + Cardinality({q.dispatch, q.blocked} \ {None})
\* Mutant: the item keeps what belongs to its dispatch.
PlainCopy(d) == d

Plain(d)  == [id |-> d.id, text |-> d.text]

\* validateStoredQueues: a start refuses a file with any other record.
Accepted(q) ==
    /\ q.dispatch = None \/ q.blocked = None
    /\ Cardinality(Held(q)) = Count(q) /\ Count(q) <= MaxQueued
    /\ Len(q.handled) <= MaxHandled

InSeq(x, seq) == \E k \in DOMAIN seq : seq[k] = x
Without(seq, k) == SubSeq(seq, 1, k - 1) \o SubSeq(seq, k + 1, Len(seq))
Last(s, n) == SubSeq(s, IF Len(s) > n THEN Len(s) - n + 1 ELSE 1, Len(s))

TypeOK ==
    /\ up \in BOOLEAN /\ queue \in Queue /\ disk \in Queue
    /\ streaming \in BOOLEAN /\ promptActive \in BOOLEAN /\ acknowledged \in BOOLEAN
    /\ users \in Nat /\ attached \in {"none", "stale", "current"} /\ online \in BOOLEAN
    /\ drain \in {"idle", "waiting", "working"}
    /\ timer \in {"none", "armed", "fired"} /\ retrying \in BOOLEAN
    /\ op.who \in {"none", "drain", "retry", "open", "prompt"}
    /\ op.step \in {"none", "attach", "load", "restore", "take", "attempt", "undo",
                    "retry", "submit", "done", "error"}
    /\ prompt.pc \in {"idle", "call", "flight", "returned"}
    /\ wire \in Seq(Message) /\ transcript \in Seq(Turn)
    /\ agent \in [id : Items \cup {Manual}, live : BOOLEAN] \cup {None}
    /\ faults \in 0..MaxFaults
    /\ sent \in [Items \cup {Manual} -> Nat]
    /\ accepted \subseteq Items /\ removed \subseteq Items
    /\ authorized \subseteq RetryKeys \X Items /\ mistaken \subseteq Items

-----------------------------------------------------------------------------
(* The building blocks. *)

Outcomes == {"ok", "lost", "late"}

Spend(outcome) == /\ outcome # "ok" => faults > 0
                  /\ faults' = IF outcome = "ok" THEN faults ELSE faults - 1

\* saveQueueLocked.  The file is replaced as a whole; a failed write may have
\* replaced it ("late") or not ("lost"), and the memory keeps the old queue.
Save(next, outcome) ==
    /\ Spend(outcome)
    /\ queue' = IF outcome = "ok" THEN next ELSE queue
    /\ disk' = IF outcome = "lost" THEN disk ELSE next

\* A saved queue that leaves the drain nothing to retry stops its timer.
TimerAfter(next, outcome) ==
    IF outcome = "ok" /\ (next.followUp = <<>> \/ next.dispatch # None \/ next.blocked # None)
    THEN "none" ELSE timer

\* runnableFollowUpLocked
Runnable(q, busy, at) ==
    /\ ~busy /\ q.blocked = None
    /\ IF q.dispatch = None THEN q.followUp # <<>> ELSE ~q.dispatch.attempted \/ at = "none"

\* scheduleFollowUp and admitFollowUp: one drain at a time, which stops the timer.
Schedule(q, busy, at, t) ==
    IF drain = "idle" /\ Runnable(q, busy, at)
    THEN drain' = "waiting" /\ timer' = "none"
    ELSE timer' = t /\ UNCHANGED drain

Busy == streaming \/ promptActive

\* Mutant: the request is not remembered.
RememberNothing(q, key) == q.handled

Remember(q, key) == Last(Append(q.handled, key), MaxHandled)
\* Mutant: it goes back to the end.
PutBackLast(q, item) == [q EXCEPT !.dispatch = None, !.blocked = None, !.followUp = Append(@, item)]

PutBack(q, item) == [q EXCEPT !.dispatch = None, !.blocked = None, !.followUp = <<item>> \o @]

Free == up /\ op = NoOp

\* The operation that holds the gate failed: a drain still has to end.
Failure == IF op.who = "drain" THEN [op EXCEPT !.step = "error"] ELSE NoOp
Success == IF op.who = "open" THEN NoOp ELSE [op EXCEPT !.step = op.next]

-----------------------------------------------------------------------------
(* Queue, EditQueue, RemoveQueue.                                        *)

Enqueue(i) ==
    /\ Free /\ ~InSeq(i, queue.handled) /\ Count(queue) < MaxQueued
    /\ LET next == [queue EXCEPT !.handled = Remember(queue, i),
                                 !.followUp = Append(@, [id |-> i, text |-> TextOf[i]])]
       IN \E outcome \in Outcomes :
            /\ Save(next, outcome)
            /\ IF outcome = "ok"
               THEN /\ accepted' = accepted \cup {i}
                    /\ Schedule(next, Busy, attached, TimerAfter(next, outcome))
               ELSE UNCHANGED <<accepted, drain, timer>>
    /\ UNCHANGED <<up, streaming, promptActive, acknowledged, users, attached, retrying, op, prompt,
                   online, pi, sent, removed, authorized, mistaken>>

\* The answer to a request was lost, and the client repeats it.
EnqueueAgain(i) ==
    /\ Free /\ InSeq(i, queue.handled)
    /\ accepted' = accepted \cup {i}
    /\ UNCHANGED <<pixie, online, disk, pi, faults, sent, removed, authorized, mistaken>>

\* A client names a message by its place in the list that it is shown, and the
\* list by its revision: place 0 is a dispatch or a blocked item.
Stuck  == ~promptActive /\ queue.dispatch # None
First  == IF Stuck THEN queue.dispatch ELSE queue.blocked
Places == (IF First = None THEN {} ELSE {0}) \cup DOMAIN queue.followUp

Named(place) == IF place = 0 THEN First.id ELSE queue.followUp[place].id

RemovedAt(place) ==
    IF place # 0 THEN [queue EXCEPT !.followUp = Without(@, place)]
    ELSE IF Stuck THEN [queue EXCEPT !.dispatch = None] ELSE [queue EXCEPT !.blocked = None]

EditedAt(place, text) ==
    IF place # 0 THEN [queue EXCEPT !.followUp[place].text = text]
    ELSE IF Stuck THEN [queue EXCEPT !.dispatch.text = text]
    ELSE [queue EXCEPT !.blocked.text = text]

RemoveQueue ==
    /\ Free
    /\ \E place \in Places : \E outcome \in Outcomes :
        /\ LET next == RemovedAt(place)
           IN /\ Save(next, outcome)
              /\ IF outcome = "ok" /\ place = 0
                 THEN Schedule(next, Busy, attached, TimerAfter(next, outcome))
                 ELSE timer' = TimerAfter(next, outcome) /\ UNCHANGED drain
        /\ removed' = IF outcome = "lost" THEN removed ELSE removed \cup {Named(place)}
    /\ UNCHANGED <<up, streaming, promptActive, acknowledged, users, attached, retrying, op, prompt,
                   online, pi, sent, accepted, authorized, mistaken>>

EditQueue ==
    /\ Free
    /\ \E text \in Edits : \E place \in Places : \E outcome \in Outcomes :
        LET next == EditedAt(place, text)
        IN Save(next, outcome) /\ timer' = TimerAfter(next, outcome)
    /\ UNCHANGED <<up, streaming, promptActive, acknowledged, users, attached, drain, retrying, op, prompt,
                   online, pi, sent, accepted, removed, authorized, mistaken>>

-----------------------------------------------------------------------------
(* attachLocked: op is held, the state mutex is not.                     *)

OnlyOp == UNCHANGED <<up, queue, streaming, promptActive, acknowledged, users, attached, retrying, prompt,
                      online, disk, pi, faults, history>>

Open ==
    /\ Free
    /\ op' = [who |-> "open", step |-> "attach", next |-> "none", retry |-> None]
    /\ OnlyOp /\ UNCHANGED <<drain, timer>>

AlreadyAttached ==
    /\ up /\ op.step = "attach" /\ online /\ attached = "current"
    /\ op' = Success
    /\ Schedule(queue, Busy, attached, timer)
    /\ OnlyOp

BeginLoad ==
    /\ up /\ op.step = "attach" /\ online /\ attached # "current"
    /\ op' = [op EXCEPT !.step = "load"]
    /\ OnlyOp /\ UNCHANGED <<drain, timer>>

\* No connection in time.
AttachFails ==
    /\ up /\ op.step = "attach" /\ ~online
    /\ op' = Failure
    /\ OnlyOp /\ UNCHANGED <<drain, timer>>

LoadFails ==
    /\ up /\ op.step = "load" /\ faults > 0 /\ faults' = faults - 1
    /\ op' = Failure
    /\ UNCHANGED <<up, queue, streaming, promptActive, acknowledged, users, attached, drain, timer, retrying,
                   prompt, online, disk, pi, history>>

\* recoverQueuedDispatchLocked: a dispatch is compared with the turn that Pi has
\* in its place.  Only the texts are compared: the turn may be another's.
Admitted(d) == d.previous < Len(transcript) /\ transcript[d.previous + 1].text = d.text

\* Mutant: what Pi does not have is sent again, attempted or not.
RecoveredRetries(q) ==
    LET d == q.dispatch
    IN IF Admitted(d) THEN [q EXCEPT !.dispatch = None]
       ELSE [q EXCEPT !.dispatch = None, !.followUp = <<Plain(d)>> \o @]

\* Mutant: every attempt counts as delivered.
RecoveredForgets(q) ==
    IF q.dispatch.attempted THEN [q EXCEPT !.dispatch = None]
    ELSE [q EXCEPT !.dispatch = None, !.followUp = <<Plain(q.dispatch)>> \o @]

\* Mutant: the blocked item is left dispatched.
RecoveredBoth(q) ==
    IF q.dispatch.attempted THEN [q EXCEPT !.blocked = Plain(q.dispatch)]
    ELSE [q EXCEPT !.dispatch = None, !.followUp = <<Plain(q.dispatch)>> \o @]

Recovered(q) ==
    LET d == q.dispatch
    IN CASE Admitted(d)
              -> [q EXCEPT !.dispatch = None]
         [] d.previous = Len(transcript) /\ ~d.attempted
              -> [q EXCEPT !.dispatch = None, !.followUp = <<Plain(d)>> \o @]
         [] OTHER
              -> [q EXCEPT !.dispatch = None, !.blocked = Plain(d)]

\* The turn in that place is another's.
Mistakes(d) == Admitted(d) /\ transcript[d.previous + 1].id # d.id

Load ==
    /\ up /\ op.step = "load"
    /\ \E outcome \in Outcomes :
        LET recover == queue.dispatch # None
            next    == IF recover THEN Recovered(queue) ELSE queue
        IN /\ ~recover => outcome = "ok"
           /\ IF recover THEN Save(next, outcome) ELSE UNCHANGED <<queue, disk, faults>>
           /\ mistaken' = IF outcome # "lost" /\ recover /\ Mistakes(queue.dispatch)
                          THEN mistaken \cup {queue.dispatch.id} ELSE mistaken
           /\ IF outcome = "ok"
              THEN /\ attached' = "current" /\ users' = Len(transcript) /\ streaming' = FALSE
                   /\ op' = IF op.who = "retry" /\ recover
                            THEN [Success EXCEPT !.retry.changed = TRUE] ELSE Success
                   /\ Schedule(next, promptActive, "current", timer)
              ELSE /\ op' = Failure
                   /\ UNCHANGED <<attached, users, streaming, drain, timer>>
    /\ UNCHANGED <<up, promptActive, acknowledged, retrying, prompt, online, pi,
                   sent, accepted, removed, authorized>>

-----------------------------------------------------------------------------
(* RetryQueue, and a prompt sent past the queue.                         *)

RetryStart(key) ==
    /\ Free /\ ~InSeq(key, queue.handled)
    /\ LET uncertain == queue.dispatch # None /\ queue.dispatch.attempted /\ ~promptActive
           target == IF uncertain THEN queue.dispatch ELSE queue.blocked
       IN /\ target # None /\ (~uncertain => queue.blocked # None)
          /\ attached' = IF uncertain THEN "none" ELSE attached
          /\ op' = [who |-> "retry", step |-> "attach", next |-> "retry",
                    retry |-> [key |-> key, id |-> target.id, changed |-> FALSE]]
    /\ UNCHANGED <<up, queue, streaming, promptActive, acknowledged, users, drain, timer, retrying, prompt,
                   online, disk, pi, faults, history>>

\* The replay proved that Pi has the turn: the request is remembered as done.
RetryResolved ==
    op.retry.changed /\ (queue.blocked = None \/ queue.blocked.id # op.retry.id)

Retry ==
    /\ up /\ op.step = "retry"
    /\ LET uncertain == queue.dispatch # None /\ queue.dispatch.attempted /\ ~promptActive
           item == IF uncertain THEN Plain(queue.dispatch) ELSE queue.blocked
           next == IF RetryResolved THEN [queue EXCEPT !.handled = Remember(queue, op.retry.key)]
                   ELSE [PutBack(queue, item) EXCEPT !.handled = Remember(queue, op.retry.key)]
       IN IF ~RetryResolved /\ item = None
          THEN UNCHANGED <<queue, disk, faults, authorized, drain, timer>>
          ELSE \E outcome \in Outcomes :
                 /\ Save(next, outcome)
                 /\ IF RetryResolved
                    THEN timer' = TimerAfter(next, outcome) /\ UNCHANGED <<authorized, drain>>
                    ELSE /\ authorized' = IF outcome = "lost" THEN authorized
                                          ELSE authorized \cup {<<op.retry.key, item.id>>}
                         /\ IF outcome = "ok"
                            THEN Schedule(next, Busy, attached, TimerAfter(next, outcome))
                            ELSE UNCHANGED <<drain, timer>>
    /\ op' = NoOp
    /\ UNCHANGED <<up, streaming, promptActive, acknowledged, users, attached, retrying, prompt,
                   online, pi, sent, accepted, removed, mistaken>>

PromptStart ==
    /\ Free /\ sent[Manual] < MaxManual
    /\ op' = [who |-> "prompt", step |-> "attach", next |-> "submit", retry |-> None]
    /\ OnlyOp /\ UNCHANGED <<drain, timer>>

\* startPromptLocked.  The goroutine is bound to the connection of its session.
Submit(id, text) ==
    /\ users' = users + 1
    /\ streaming' = TRUE /\ promptActive' = TRUE /\ acknowledged' = FALSE
    /\ prompt' = [pc |-> IF attached = "current" THEN "call" ELSE "returned", id |-> id, text |-> text, ok |-> FALSE]

PromptSubmit ==
    /\ up /\ op.step = "submit"
    /\ IF Busy \/ Count(queue) > 0
       THEN UNCHANGED <<users, streaming, promptActive, acknowledged, prompt>>
       ELSE Submit(Manual, Manual)
    /\ op' = NoOp
    /\ UNCHANGED <<up, queue, attached, drain, timer, retrying, online, disk, pi, faults, history>>

-----------------------------------------------------------------------------
(* The drain: runFollowUp and drainFollowUp.                             *)

DrainTakesOp ==
    /\ Free /\ drain = "waiting"
    /\ drain' = "working"
    /\ op' = [who |-> "drain", retry |-> None, next |-> "restore",
              step |-> IF ~Runnable(queue, Busy, attached) THEN "done"
                       ELSE IF queue.dispatch # None /\ queue.dispatch.attempted THEN "attach"
                       ELSE "restore"]
    /\ OnlyOp /\ UNCHANGED timer

Ready(q) == ~Busy /\ q.dispatch = None /\ q.blocked = None /\ q.followUp # <<>>

\* A dispatch that was prepared and never attempted goes back to the head.
DrainRestores ==
    /\ up /\ op.step = "restore"
    /\ LET prepared == queue.dispatch # None /\ ~queue.dispatch.attempted
           next == IF prepared THEN PutBack(queue, Plain(queue.dispatch)) ELSE queue
           ready == [op EXCEPT !.step = IF Ready(next) THEN "attach" ELSE "done", !.next = "take"]
       IN IF prepared
          THEN \E outcome \in Outcomes :
                 /\ Save(next, outcome)
                 /\ timer' = TimerAfter(next, outcome)
                 /\ op' = IF outcome = "ok" THEN ready ELSE Failure
          ELSE op' = ready /\ UNCHANGED <<queue, disk, faults, timer>>
    /\ UNCHANGED <<up, streaming, promptActive, acknowledged, users, attached, drain, retrying, prompt,
                   online, pi, sent, accepted, removed, authorized, mistaken>>

DrainTakesItem ==
    /\ up /\ op.step = "take"
    /\ IF ~Ready(queue)
       THEN op' = [op EXCEPT !.step = "done"] /\ UNCHANGED <<queue, disk, faults, timer>>
       ELSE LET item == Head(queue.followUp)
                next == [queue EXCEPT !.followUp = Tail(@),
                            !.dispatch = [id |-> item.id, text |-> item.text,
                                          previous |-> users, attempted |-> FALSE]]
            IN \E outcome \in Outcomes :
                 /\ Save(next, outcome)
                 /\ timer' = TimerAfter(next, outcome)
                 /\ op' = IF outcome = "ok" THEN [op EXCEPT !.step = "attempt"] ELSE Failure
    /\ UNCHANGED <<up, streaming, promptActive, acknowledged, users, attached, drain, retrying, prompt,
                   online, pi, sent, accepted, removed, authorized, mistaken>>

\* The attempt is saved before Pi is called.
DrainAttempts ==
    /\ up /\ op.step = "attempt"
    /\ LET next == [queue EXCEPT !.dispatch.attempted = TRUE]
       IN \E outcome \in Outcomes :
            /\ Save(next, outcome)
            /\ timer' = TimerAfter(next, outcome)
            /\ IF outcome = "ok"
               THEN /\ Submit(next.dispatch.id, next.dispatch.text)
                    /\ op' = [op EXCEPT !.step = "done"]
               ELSE /\ op' = [op EXCEPT !.step = "undo"]
                    /\ UNCHANGED <<users, streaming, promptActive, acknowledged, prompt>>
    /\ UNCHANGED <<up, attached, drain, retrying, online, pi, sent, accepted, removed, authorized, mistaken>>

\* restoreQueuedDispatch
DrainUndoes ==
    /\ up /\ op.step = "undo"
    /\ LET next == PutBack(queue, Plain(queue.dispatch))
       IN \E outcome \in Outcomes :
            /\ Save(next, outcome)
            /\ timer' = TimerAfter(next, outcome)
    /\ op' = Failure
    /\ UNCHANGED <<up, streaming, promptActive, acknowledged, users, attached, drain, retrying, prompt,
                   online, pi, sent, accepted, removed, authorized, mistaken>>

\* Mutant: a drain that failed leaves the flag set.
DrainEndsScheduled ==
    /\ up /\ op.who = "drain" /\ op.step \in {"done", "error"}
    /\ drain' = (IF op.step = "error" THEN "working" ELSE "idle") /\ op' = NoOp
    /\ retrying' = (retrying \/ op.step = "error")
    /\ UNCHANGED <<up, queue, streaming, promptActive, acknowledged, users, attached, timer, prompt,
                   online, disk, pi, faults, history>>

\* The flag is cleared while op is still held; the retry is arranged after that.
DrainEnds ==
    /\ up /\ op.who = "drain" /\ op.step \in {"done", "error"}
    /\ drain' = "idle" /\ op' = NoOp
    /\ retrying' = (retrying \/ op.step = "error")
    /\ UNCHANGED <<up, queue, streaming, promptActive, acknowledged, users, attached, timer, prompt,
                   online, disk, pi, faults, history>>

\* Only a holder that waits for Pi keeps the gate for thirty seconds.
HeldLong == op.step \in {"attach", "load"}

DrainTimesOut ==
    /\ up /\ drain = "waiting" /\ HeldLong /\ faults > 0 /\ faults' = faults - 1
    /\ drain' = "idle"
    /\ UNCHANGED <<up, queue, streaming, promptActive, acknowledged, users, attached, timer, retrying, op, prompt,
                   online, disk, pi, history>>

\* retryFollowUp
RetryFollowUp ==
    /\ up /\ retrying
    /\ retrying' = FALSE
    /\ timer' = IF Runnable(queue, Busy, attached) /\ timer = "none" THEN "armed" ELSE timer
    /\ UNCHANGED <<up, queue, streaming, promptActive, acknowledged, users, attached, drain, op, prompt,
                   online, disk, pi, faults, history>>

\* A timer that fires in vain stays set: only an admitted drain clears it.
TimerFires ==
    /\ up /\ timer = "armed"
    /\ Schedule(queue, Busy, attached, "fired")
    /\ OnlyOp /\ UNCHANGED op

-----------------------------------------------------------------------------
(* The prompt's goroutine. *)

CallPrompt ==
    /\ up /\ prompt.pc = "call"
    /\ prompt' = [prompt EXCEPT !.pc = "flight"]
    /\ sent' = [sent EXCEPT ![prompt.id] = @ + 1]
    /\ wire' = Append(wire, [id |-> prompt.id, live |-> TRUE, text |-> prompt.text])
    /\ UNCHANGED <<up, queue, streaming, promptActive, acknowledged, users, attached, drain, timer, retrying, op,
                   online, disk, agent, transcript, faults, accepted, removed, authorized, mistaken>>

\* settleQueuedPromptLocked
Settle ==
    /\ Free /\ prompt.pc = "returned"
    /\ promptActive' = FALSE /\ streaming' = FALSE /\ acknowledged' = FALSE /\ prompt' = NoCall
    /\ IF queue.dispatch = None \/ prompt.id = Manual \/ queue.dispatch.id # prompt.id
       THEN Schedule(queue, FALSE, attached, timer) /\ UNCHANGED <<queue, disk, faults>>
       ELSE LET delivered == prompt.ok \/ acknowledged
                next == [queue EXCEPT !.dispatch = None,
                            !.blocked = IF delivered THEN @ ELSE Plain(queue.dispatch)]
            IN \E outcome \in Outcomes :
                 /\ Save(next, outcome)
                 /\ Schedule(IF outcome = "ok" THEN next ELSE queue, FALSE, attached,
                             TimerAfter(next, outcome))
    /\ UNCHANGED <<up, users, attached, retrying, op, online, pi, sent, accepted, removed, authorized, mistaken>>

\* Thirty seconds passed without op: the goroutine gives up.
SettleTimesOut ==
    /\ up /\ prompt.pc = "returned" /\ HeldLong /\ faults > 0 /\ faults' = faults - 1
    /\ prompt' = NoCall
    /\ UNCHANGED <<up, queue, streaming, promptActive, acknowledged, users, attached, drain, timer, retrying, op,
                   online, disk, pi, history>>

-----------------------------------------------------------------------------
(* Pi, and the connection to it.                                         *)

\* A notification reaches the projection, and not a replay that is under way.
Notified == up /\ online /\ attached = "current" /\ op.step # "load"
Returned(ok) == [prompt EXCEPT !.pc = "returned", !.ok = ok]

\* Pi takes a prompt up: the turn is in its transcript.  One that an earlier
\* connection sent is news to the projection.
Deliver(k) ==
    /\ agent = None
    /\ wire' = Without(wire, k)
    /\ agent' = [id |-> wire[k].id, live |-> wire[k].live]
    /\ transcript' = Append(transcript, [id |-> wire[k].id, text |-> wire[k].text])
    /\ IF Notified /\ ~wire[k].live
       THEN users' = users + 1 /\ streaming' = TRUE
       ELSE UNCHANGED <<users, streaming>>
    /\ UNCHANGED <<up, queue, promptActive, acknowledged, attached, drain, timer, retrying, op, prompt,
                   online, disk, faults, history>>

\* Pi refuses a prompt: it works on another, or it cannot start this one.
Refuse(k) ==
    /\ IF agent # None THEN UNCHANGED faults ELSE faults > 0 /\ faults' = faults - 1
    /\ wire' = Without(wire, k)
    /\ prompt' = IF wire[k].live THEN Returned(FALSE) ELSE prompt
    /\ UNCHANGED <<up, queue, streaming, promptActive, acknowledged, users, attached, drain, timer, retrying, op,
                   online, disk, agent, transcript, history>>

\* A prompt is lost with its connection.
Lose(k) ==
    /\ ~wire[k].live
    /\ wire' = Without(wire, k)
    /\ UNCHANGED <<pixie, online, disk, agent, transcript, faults, history>>

\* The echo of the prompt's text.
Echo ==
    /\ Notified /\ agent # None /\ agent.live /\ ~acknowledged
    /\ acknowledged' = TRUE
    /\ UNCHANGED <<up, queue, streaming, promptActive, users, attached, drain, timer, retrying, op, prompt,
                   online, disk, pi, faults, history>>

\* Output of a run that an earlier connection started.
Chunk ==
    /\ Notified /\ agent # None /\ ~agent.live /\ ~streaming
    /\ streaming' = TRUE
    /\ UNCHANGED <<up, queue, promptActive, acknowledged, users, attached, drain, timer, retrying, op, prompt,
                   online, disk, pi, faults, history>>

\* The run ends: its prompt is answered, or a terminal status is all there is.
AgentEnds ==
    /\ agent # None
    /\ agent' = None
    /\ IF agent.live
       THEN /\ \E ok \in BOOLEAN : prompt' = Returned(ok)
            /\ UNCHANGED <<streaming, drain, timer>>
       ELSE IF Notified /\ ~promptActive
            THEN streaming' = FALSE /\ Schedule(queue, FALSE, attached, timer) /\ UNCHANGED prompt
            ELSE UNCHANGED <<streaming, drain, timer, prompt>>
    /\ UNCHANGED <<up, queue, promptActive, acknowledged, users, attached, retrying, op,
                   online, disk, wire, transcript, faults, history>>

Orphaned == [k \in DOMAIN wire |-> [wire[k] EXCEPT !.live = FALSE]]
Orphan   == IF agent = None THEN None ELSE [agent EXCEPT !.live = FALSE]

Connect ==
    /\ up /\ ~online /\ online' = TRUE
    /\ UNCHANGED <<pixie, disk, pi, faults, history>>

Drop ==
    /\ online /\ faults > 0 /\ faults' = faults - 1
    /\ online' = FALSE
    /\ attached' = IF attached = "current" THEN "stale" ELSE attached
    /\ wire' = Orphaned /\ agent' = Orphan
    /\ prompt' = IF prompt.pc \in {"call", "flight"} THEN Returned(FALSE) ELSE prompt
    /\ op' = IF op.step = "load" THEN Failure ELSE op
    /\ UNCHANGED <<up, queue, streaming, promptActive, acknowledged, users, drain, timer, retrying,
                   disk, transcript, history>>

Crash ==
    /\ up /\ faults > 0 /\ faults' = faults - 1
    /\ up' = FALSE /\ online' = FALSE
    /\ queue' = disk
    /\ streaming' = FALSE /\ promptActive' = FALSE /\ acknowledged' = FALSE
    /\ users' = 0 /\ attached' = "none"
    /\ drain' = "idle" /\ timer' = "none" /\ retrying' = FALSE /\ op' = NoOp /\ prompt' = NoCall
    /\ wire' = Orphaned /\ agent' = Orphan
    /\ UNCHANGED <<disk, transcript, sent, accepted, removed, authorized, mistaken>>

\* prepareQueueResume and resumeQueues
Restart ==
    /\ ~up /\ Accepted(queue) /\ up' = TRUE
    /\ drain' = IF Runnable(queue, FALSE, "none") THEN "waiting" ELSE "idle"
    /\ UNCHANGED <<queue, streaming, promptActive, acknowledged, users, attached, timer, retrying, op, prompt,
                   online, disk, pi, faults, history>>

-----------------------------------------------------------------------------

Init ==
    /\ up = TRUE /\ queue = Empty /\ disk = Empty
    /\ streaming = FALSE /\ promptActive = FALSE /\ acknowledged = FALSE
    /\ users = 0 /\ attached = "none" /\ online = FALSE
    /\ drain = "idle" /\ timer = "none" /\ retrying = FALSE /\ op = NoOp /\ prompt = NoCall
    /\ wire = <<>> /\ agent = None /\ transcript = <<>>
    /\ faults = MaxFaults
    /\ sent = [i \in Items \cup {Manual} |-> 0]
    /\ accepted = {} /\ removed = {} /\ authorized = {} /\ mistaken = {}

Client == \/ \E i \in Items : Enqueue(i) \/ EnqueueAgain(i)
          \/ RemoveQueue \/ EditQueue
          \/ \E key \in RetryKeys : RetryStart(key)
          \/ PromptStart

Attach == AlreadyAttached \/ BeginLoad \/ AttachFails \/ Load

DrainStep == DrainTakesOp \/ DrainRestores \/ DrainTakesItem \/ DrainAttempts \/ DrainUndoes \/ DrainEnds

Operation == Attach \/ Retry \/ PromptSubmit

Background == RetryFollowUp \/ TimerFires \/ CallPrompt \/ Settle

Pi == \/ \E k \in DOMAIN wire : Deliver(k) \/ Refuse(k) \/ Lose(k)
      \/ Echo \/ Chunk \/ AgentEnds

Next == \/ Client \/ Open \/ Operation \/ DrainStep \/ Background \/ Pi
        \/ LoadFails \/ DrainTimesOut \/ SettleTimesOut
        \/ Connect \/ Drop \/ Crash \/ Restart

Spec == Init /\ [][Next]_vars

\* What the process has begun it goes on with; the gate's waiters are served in
\* their order; the connection is made again, and Pi ends what it started.  No
\* client has to do anything.
Fairness ==
    /\ WF_vars(Operation) /\ SF_vars(DrainTakesOp) /\ WF_vars(DrainStep)
    /\ WF_vars(RetryFollowUp) /\ WF_vars(TimerFires) /\ WF_vars(CallPrompt) /\ SF_vars(Settle)
    /\ WF_vars(Connect) /\ WF_vars(Restart)
    /\ WF_vars(AgentEnds) /\ WF_vars(\E k \in DOMAIN wire : Deliver(k) \/ Refuse(k) \/ Lose(k))

FairSpec == Spec /\ Fairness

\* Clients, moreover, open the chat again and again.
ReopenedSpec == FairSpec /\ SF_vars(Open)
-----------------------------------------------------------------------------
(* Properties. *)

InTranscript(i) == \E k \in DOMAIN transcript : transcript[k].id = i

\* A message is given to Pi once, and once more for each retry that a client
\* asked for: neither a crash between the saved attempt and the call, nor a
\* write that failed late, nor a repeated request gives it twice.
AtMostOnce ==
    \A i \in Items : sent[i] <= 1 + Cardinality({r \in authorized : r[2] = i})

\* A message whose request was answered, and that nobody removed, is in the file
\* or in Pi's transcript, whatever failed in between.  The one exception is a
\* replay that finds another turn of the same text where it looks for this one.
NothingLost ==
    \A i \in accepted \ removed : i \in Held(disk) \/ InTranscript(i) \/ i \in mistaken

\* "Pi replayed the exact next user turn, so the durable attempt was admitted": the
\* turn that a replay takes for a message is that message's (session_actions.go:858).
ReplaysItsOwn == mistaken = {}

\* The file is one that the next start accepts, at every point where a crash may
\* find it: a refused file keeps the whole program from starting.
RestartAccepts == Accepted(disk)

\* Messages are given to Pi in the order their requests were carried out.
Before(i, j, seq) == \E m, n \in DOMAIN seq : m < n /\ seq[m] = i /\ seq[n] = j
InOrder ==
    [][\A i, j \in Items : sent'[j] > sent[j] /\ Before(i, j, queue.handled) => i \notin Held(queue)]_vars

\* A message whose request was answered reaches Pi, unless a client has to decide,
\* or a prompt's goroutine waited thirty seconds for the gate and gave up, which
\* leaves its session busy until a restart (drainFollowUp, runPrompt, retryFollowUp).
Abandoned  == promptActive /\ prompt = NoCall
Settled(i) == \/ InTranscript(i) \/ i \in removed \cup mistaken \/ queue.blocked # None
              \/ queue.dispatch # None /\ queue.dispatch.attempted /\ ~promptActive
              \/ Abandoned
Delivered == \A i \in Items : i \in accepted ~> Settled(i)

\* What a client was promised is kept, in a form that the next start accepts.
QueueIsKept == NothingLost /\ RestartAccepts
=============================================================================
