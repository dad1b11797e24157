---------------------------- MODULE ProviderLogins ----------------------------
(*****************************************************************************)
(* Connecting a model provider: provider_login.go of pixie/internal/         *)
(* controller, over the logins that the Pi host keeps.                       *)
(*                                                                           *)
(* A browser starts a login.  The controller registers it, asks Pi to start  *)
(* it, answers the browser, and only then lets Pi begin.  From there on Pi's *)
(* frames are cached for the browser that started it, until one of them, a   *)
(* failed call, the browser or a timer of ten minutes ends the login.  Pi    *)
(* keeps a timer of its own and gives a provider to one login at a time.     *)
(*                                                                           *)
(* Abstractions.  A login is named by its request, which fixes its browser   *)
(* and its provider.  Frames that neither end a login nor ask for anything   *)
(* are "progress".  The calls of one connection reach Pi in order, as do its *)
(* frames; the answer to a call is taken by the goroutine that waits for it, *)
(* whenever that runs.  A dropped connection is dialled again by the next    *)
(* call (PiClient).  A browser learns a login's name from the answer to its  *)
(* start, or from the snapshot that is cached just before it.                *)
(*****************************************************************************)
EXTENDS Naturals, Sequences

CONSTANTS
    ClientOf,    \* the browser that each login is started by, in their order
    ProviderOf,  \* and the provider that it is for
    MaxFrames,   \* bound: frames that Pi publishes
    MaxFaults    \* bound: calls that time out, connections that drop

ASSUME ConstantsAssumption ==
    /\ DOMAIN ClientOf = 1..Len(ClientOf) /\ DOMAIN ProviderOf = DOMAIN ClientOf
    /\ MaxFrames \in Nat /\ MaxFaults \in Nat

\* The requests that start a login, numbered as they are carried out.
Logins  == DOMAIN ClientOf
Clients == {ClientOf[l] : l \in Logins}

VARIABLES
    \* ProviderLogins
    closed,
    pending,     \* p.pending
    snapshot,    \* p.snapshots: the login and the kind of its frame, or NoFrame
    starter,     \* the goroutine that answers loginStart and calls loginBegin
    leaving,     \* logins whose loginCancel is about to be called
    \* the connection
    calls,       \* calls that Pi has not seen yet
    answer,      \* the answer to the call that a starter waits for
    frames,      \* frames that the reader has not seen yet
    \* Pi
    held,        \* what Pi does for a login
    published, faults,
    \* history
    told,        \* how often a browser was told that its login is over
    cancelled    \* logins that their browser ended

controller == <<closed, pending, snapshot, starter, leaving>>
onTheWire  == <<calls, answer, frames>>
pi         == <<held, published>>
vars       == <<controller, onTheWire, pi, faults, told, cancelled>>

Kinds   == {"progress", "prompt", "success", "error"}
Ends    == {"success", "error"}
NoFrame == [login |-> 0, kind |-> "none"]
Frame(l, kind) == [login |-> l, kind |-> kind]
Call(what, l)  == [what |-> what, login |-> l]

TypeOK ==
    /\ closed \in BOOLEAN /\ pending \subseteq Logins
    /\ snapshot \in [Clients -> [login : Logins, kind : Kinds] \cup {NoFrame}]
    /\ starter \in [Logins -> {"none", "start", "answered", "begin", "over", "failed"}]
    /\ leaving \subseteq Logins
    /\ calls \in Seq([what : {"start", "begin", "reply", "cancel"}, login : Logins])
    /\ answer \in [Logins -> {"none", "ok", "failed"}]
    /\ frames \in Seq([login : Logins, kind : Kinds])
    /\ held \in [Logins -> {"none", "started", "running", "asking", "over"}]
    /\ published \in 0..MaxFrames /\ faults \in 0..MaxFaults
    /\ told \in [Logins -> Nat] /\ cancelled \subseteq Logins

-----------------------------------------------------------------------------
(* The controller. *)

\* Whether the browser has been answered, so that it knows its login.
Known(l) == starter[l] \in {"answered", "begin", "over"}

\* cacheLocked: the newest frame is all that is kept for a browser.
Cache(l, kind) == snapshot' = [snapshot EXCEPT ![ClientOf[l]] = Frame(l, kind)]

\* The login ends, and its browser is told how.
End(l, kind) ==
    /\ Cache(l, kind) /\ pending' = pending \ {l}
    /\ told' = [told EXCEPT ![l] = @ + 1]

\* A browser and a provider take part in one login at a time.
FreeFor(l) == \A m \in pending : ClientOf[m] # ClientOf[l] /\ ProviderOf[m] # ProviderOf[l]

\* Start
Start(l) ==
    /\ ~closed /\ FreeFor(l)
    /\ starter[l] = "none" /\ \A m \in 1..l - 1 : starter[m] # "none"
    /\ pending' = pending \cup {l}
    /\ starter' = [starter EXCEPT ![l] = "start"]
    /\ calls' = Append(calls, Call("start", l))
    /\ UNCHANGED <<closed, snapshot, leaving, answer, frames, pi, faults, told, cancelled>>

\* The frame is cached whatever has become of the login meanwhile.
StartAnswered(l) ==
    /\ starter[l] = "start" /\ answer[l] = "ok"
    /\ Cache(l, "progress")
    /\ starter' = [starter EXCEPT ![l] = "answered"]
    /\ answer' = [answer EXCEPT ![l] = "none"]
    /\ UNCHANGED <<closed, pending, leaving, calls, frames, pi, faults, told, cancelled>>

StartGivenUp(l) ==
    /\ pending' = pending \ {l}
    /\ starter' = [starter EXCEPT ![l] = "failed"]
    /\ answer' = [answer EXCEPT ![l] = "none"]
    /\ UNCHANGED <<closed, snapshot, leaving, calls, frames, pi, told, cancelled>>

StartRefused(l) ==
    starter[l] = "start" /\ answer[l] = "failed" /\ StartGivenUp(l) /\ UNCHANGED faults

\* The call takes too long; Pi may still carry it out.
StartTimesOut(l) ==
    starter[l] = "start" /\ faults > 0 /\ faults' = faults - 1 /\ StartGivenUp(l)

\* The browser has its answer.  A login that is over by then has no context to
\* call with.
Begin(l) ==
    /\ starter[l] = "answered"
    /\ starter' = [starter EXCEPT ![l] = IF l \in pending THEN "begin" ELSE "over"]
    /\ calls' = IF l \in pending THEN Append(calls, Call("begin", l)) ELSE calls
    /\ UNCHANGED <<closed, pending, snapshot, leaving, answer, frames, pi, faults, told, cancelled>>

\* Mutant: it does not look whether the login is still there.
FinishAnyway(l) == End(l, "error")

\* finish, of a login that could not begin
Finish(l) ==
    IF l \in pending THEN End(l, "error") ELSE UNCHANGED <<pending, snapshot, told>>

BeginAnswered(l) ==
    /\ starter[l] = "begin" /\ (answer[l] # "none" \/ l \notin pending)
    /\ IF answer[l] = "ok" THEN UNCHANGED <<pending, snapshot, told>> ELSE Finish(l)
    /\ starter' = [starter EXCEPT ![l] = "over"]
    /\ answer' = [answer EXCEPT ![l] = "none"]
    /\ UNCHANGED <<closed, leaving, calls, frames, pi, faults, cancelled>>

\* Reply: the call is all it does.
Reply(l) ==
    /\ l \in pending /\ Known(l) /\ \A k \in DOMAIN calls : calls[k] # Call("reply", l)
    /\ calls' = Append(calls, Call("reply", l))
    /\ UNCHANGED <<controller, answer, frames, pi, faults, told, cancelled>>

\* DeviceCode.  A frame with an address that a browser must not open is an error.
DeviceCode ==
    /\ frames # <<>> /\ frames' = Tail(frames)
    /\ LET l == Head(frames).login
       IN IF l \notin pending THEN UNCHANGED <<pending, snapshot, told>>
          ELSE \E kind \in {Head(frames).kind}
                           \cup (IF Head(frames).kind = "progress" THEN {"error"} ELSE {}) :
                 IF kind \in Ends THEN End(l, kind)
                 ELSE Cache(l, kind) /\ UNCHANGED <<pending, told>>
    /\ UNCHANGED <<closed, starter, leaving, calls, answer, pi, faults, cancelled>>

\* Mutant: a cancelled login leaves its last frame behind.
ForgottenNever(l) == snapshot

Forgotten(l) == [snapshot EXCEPT ![ClientOf[l]] = IF @.login = l THEN NoFrame ELSE @]

\* Cancel, by the browser that started the login; one that is over loses its
\* snapshot only.
Cancel(l) ==
    /\ Known(l) /\ (l \in pending \/ snapshot[ClientOf[l]].login = l)
    /\ pending' = pending \ {l}
    /\ snapshot' = Forgotten(l)
    /\ IF l \in pending
       THEN leaving' = leaving \cup {l} /\ cancelled' = cancelled \cup {l}
       ELSE UNCHANGED <<leaving, cancelled>>
    /\ UNCHANGED <<closed, starter, onTheWire, pi, faults, told>>

\* Mutant: a login that has begun is left to Pi.
ExpireUnbegun(l) ==
    /\ l \in pending /\ starter[l] \notin {"start", "over"}
    /\ End(l, "error")
    /\ leaving' = leaving \cup {l}
    /\ UNCHANGED <<closed, starter, onTheWire, pi, faults, cancelled>>

\* The timer of ten minutes, long after the call that starts a login has ended.
Expire(l) ==
    /\ l \in pending /\ starter[l] # "start"
    /\ End(l, "error")
    /\ leaving' = leaving \cup {l}
    /\ UNCHANGED <<closed, starter, onTheWire, pi, faults, cancelled>>

CallCancel(l) ==
    /\ l \in leaving /\ leaving' = leaving \ {l}
    /\ calls' = Append(calls, Call("cancel", l))
    /\ UNCHANGED <<closed, pending, snapshot, starter, answer, frames, pi, faults, told, cancelled>>

\* The timer of a minute that a snapshot has.
SnapshotExpires(c) ==
    /\ snapshot[c] # NoFrame
    /\ snapshot' = [snapshot EXCEPT ![c] = NoFrame]
    /\ UNCHANGED <<closed, pending, starter, leaving, onTheWire, pi, faults, told, cancelled>>

Close ==
    /\ ~closed /\ closed' = TRUE
    /\ pending' = {} /\ snapshot' = [c \in Clients |-> NoFrame]
    /\ UNCHANGED <<starter, leaving, onTheWire, pi, faults, told, cancelled>>

-----------------------------------------------------------------------------
(* Pi: start, reply and cancel of providers.ts, and its runtime.         *)

Held(l) == held[l] \in {"started", "running", "asking"}
Begun(l) == held[l] \in {"running", "asking"}

\* An answer that nobody waits for is dropped.
Answer(l, waiting, result) ==
    answer' = IF starter[l] = waiting THEN [answer EXCEPT ![l] = result] ELSE answer

\* Pi ends a login; one that had begun says so.
Stopped(l) ==
    /\ held' = IF Held(l) THEN [held EXCEPT ![l] = "over"] ELSE held
    /\ frames' = IF Begun(l) THEN Append(frames, Frame(l, "error")) ELSE frames

Handles(what, l) == calls # <<>> /\ Head(calls) = Call(what, l) /\ calls' = Tail(calls)

HandleStart(l) ==
    /\ Handles("start", l)
    /\ IF \E m \in Logins : Held(m) /\ ProviderOf[m] = ProviderOf[l]
       THEN Answer(l, "start", "failed") /\ UNCHANGED held
       ELSE Answer(l, "start", "ok") /\ held' = [held EXCEPT ![l] = "started"]
    /\ UNCHANGED <<controller, frames, published, faults, told, cancelled>>

HandleBegin(l) ==
    /\ Handles("begin", l)
    /\ IF held[l] = "started"
       THEN Answer(l, "begin", "ok") /\ held' = [held EXCEPT ![l] = "running"]
       ELSE Answer(l, "begin", "failed") /\ UNCHANGED held
    /\ UNCHANGED <<controller, frames, published, faults, told, cancelled>>

HandleReply(l) ==
    /\ Handles("reply", l)
    /\ held' = IF held[l] = "asking" THEN [held EXCEPT ![l] = "running"] ELSE held
    /\ UNCHANGED <<controller, answer, frames, published, faults, told, cancelled>>

HandleCancel(l) ==
    /\ Handles("cancel", l) /\ Stopped(l)
    /\ UNCHANGED <<controller, answer, published, faults, told, cancelled>>

Publish(l) ==
    /\ held[l] = "running" /\ published < MaxFrames /\ published' = published + 1
    /\ \E kind \in {"progress", "prompt"} :
         /\ frames' = Append(frames, Frame(l, kind))
         /\ held' = IF kind = "prompt" THEN [held EXCEPT ![l] = "asking"] ELSE held
    /\ UNCHANGED <<controller, calls, answer, faults, told, cancelled>>

Conclude(l) ==
    /\ held[l] = "running" /\ held' = [held EXCEPT ![l] = "over"]
    /\ \E kind \in Ends : frames' = Append(frames, Frame(l, kind))
    /\ UNCHANGED <<controller, calls, answer, published, faults, told, cancelled>>

HostExpire(l) ==
    /\ Held(l) /\ Stopped(l)
    /\ UNCHANGED <<controller, calls, answer, published, faults, told, cancelled>>

\* Pi cancels the logins of a connection that is gone; whoever waits is told.
Drop ==
    /\ faults > 0 /\ faults' = faults - 1
    /\ calls' = <<>> /\ frames' = <<>>
    /\ held' = [l \in Logins |-> IF Held(l) THEN "over" ELSE held[l]]
    /\ answer' = [l \in Logins |-> IF starter[l] \in {"start", "begin"} /\ answer[l] = "none"
                                   THEN "failed" ELSE answer[l]]
    /\ UNCHANGED <<controller, published, told, cancelled>>

-----------------------------------------------------------------------------

Init ==
    /\ closed = FALSE /\ pending = {} /\ snapshot = [c \in Clients |-> NoFrame]
    /\ starter = [l \in Logins |-> "none"] /\ leaving = {}
    /\ calls = <<>> /\ answer = [l \in Logins |-> "none"] /\ frames = <<>>
    /\ held = [l \in Logins |-> "none"] /\ published = 0 /\ faults = MaxFaults
    /\ told = [l \in Logins |-> 0] /\ cancelled = {}

Browser(l)    == Start(l) \/ Reply(l) \/ Cancel(l)
Goroutine(l)  == StartAnswered(l) \/ StartRefused(l) \/ Begin(l) \/ BeginAnswered(l) \/ CallCancel(l)
HandleCall(l) == HandleStart(l) \/ HandleBegin(l) \/ HandleReply(l) \/ HandleCancel(l)

Next == \/ \E l \in Logins : \/ Browser(l) \/ Goroutine(l) \/ HandleCall(l)
                             \/ StartTimesOut(l) \/ Expire(l) \/ HostExpire(l)
                             \/ Publish(l) \/ Conclude(l)
        \/ DeviceCode \/ Close \/ Drop
        \/ \E c \in Clients : SnapshotExpires(c)

Spec == Init /\ [][Next]_vars

\* Goroutines go on, calls and frames arrive, timers fire.  Neither a browser nor
\* a provider has to do anything.
Fairness ==
    /\ \A l \in Logins : WF_vars(Goroutine(l)) /\ WF_vars(Expire(l)) /\ WF_vars(HostExpire(l))
    /\ WF_vars(\E l \in Logins : HandleCall(l)) /\ WF_vars(DeviceCode)
    /\ \A c \in Clients : WF_vars(SnapshotExpires(c))

FairSpec == Spec /\ Fairness

-----------------------------------------------------------------------------
(* Properties. *)

OneEach ==
    \A l, m \in pending : l # m => ClientOf[l] # ClientOf[m] /\ ProviderOf[l] # ProviderOf[m]

\* However a frame of Pi, a failed call, the timer and the browser meet, a login
\* whose start was answered ends once: its browser is told so, unless it ended the
\* login itself or the process is shutting down (DeviceCode, finish, expire, Cancel).
ToldOnce ==
    \A l \in Logins :
        IF l \in pending \cup cancelled \/ ~Known(l) THEN told[l] = 0
        ELSE told[l] = 1 \/ (closed /\ told[l] = 0)

\* Once the start of a login was answered, its browser is shown, when it comes back,
\* frames of that login and of no earlier one.  While the start is in flight it is
\* still shown what the login before left (cacheLocked, finish, Snapshot).
SnapshotIsCurrent ==
    \A l \in pending : Known(l) => snapshot[ClientOf[l]].login \in {l, 0}

\* A login that its browser ended is not shown to it again: its last frame goes with
\* it, and no frame, failed call or timer that was under way brings one back (Cancel,
\* DeviceCode, finish, expire).
CancelledIsForgotten ==
    \A l \in cancelled : snapshot[ClientOf[l]].login # l

\* The promises that a browser relies on, as one.
LoginsAreSafe == TypeOK /\ OneEach /\ ToldOnce /\ SnapshotIsCurrent /\ CancelledIsForgotten

\* A login never holds on to its browser, or Pi to a provider, for ever: lost
\* frames, calls carried out after their caller gave up and unanswered questions
\* are all ended by a timer, on one side or on both (expire; start of providers.ts).
LoginsEnd ==
    \A l \in Logins : (l \in pending ~> l \notin pending) /\ (Held(l) ~> ~Held(l))
=============================================================================
