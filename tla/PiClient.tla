-------------------------------- MODULE PiClient --------------------------------
(*****************************************************************************)
(* The controller's one connection to the Pi host: pi_client.go in           *)
(* pixie/internal/controller.                                                *)
(*                                                                           *)
(* Callers share a connection.  The first that finds none starts an attempt, *)
(* in a goroutine of its own, and those that come meanwhile wait for it.  An *)
(* attempt dials, greets the host, is installed, and publishes the profile   *)
(* of the agent it found.  Reset and Close retire whatever is there.         *)
(*                                                                           *)
(* Abstractions.  Attempts and connections are named by their generation.    *)
(* Methods differ in what happens when they fail: Administrators drop a      *)
(* connection that has ended.  What travels over a connection is left to the *)
(* module PiHost: here a call ends, well or badly, and a reader's connection *)
(* may be lost at any time, to a closed peer or a failed projection.         *)
(*****************************************************************************)
EXTENDS Integers, Sequences, FiniteSets

CONSTANTS
    Callers,          \* operations that use the client
    Administrators,   \* those that go through CallPiUntilDone
    MaxGeneration     \* bound on connection attempts

ASSUME ConstantsAssumption ==
    /\ IsFiniteSet(Callers) /\ Administrators \subseteq Callers
    /\ MaxGeneration \in Nat

VARIABLES
    \* PiClient
    closed,       \* Close was called
    connection,   \* generation of the installed connection, or 0
    connecting,   \* generation of the attempt under way, or 0
    generation,   \* the last one given to an attempt
    notified,     \* notifiedGeneration
    \* attempts and connections, by generation
    attempt,      \* where an attempt's goroutine is
    done,         \* what an attempt's waiters are told
    cancelled,    \* attempts whose context has ended and is still heeded
    conn,         \* the socket and its reader
    \* the callers
    caller,
    \* history
    shown         \* generation of the profile shown last

client  == <<closed, connection, connecting, generation>>
tries   == <<attempt, done, cancelled>>
vars    == <<client, notified, tries, conn, caller, shown>>

Generations == 1..MaxGeneration

\* pin: the generation that the caller's context is bound to, or 0; on: the
\* attempt it waits for, or the connection it uses or closes; also: an attempt it cancels.
Caller == [step : {"idle", "ready", "wait", "holding", "drop", "retire"},
           pin : 0..MaxGeneration, on : 0..MaxGeneration, waited : BOOLEAN,
           also : 0..MaxGeneration]
Idle == [step |-> "idle", pin |-> 0, on |-> 0, waited |-> FALSE, also |-> 0]

TypeOK ==
    /\ closed \in BOOLEAN
    /\ connection \in 0..MaxGeneration /\ connecting \in 0..MaxGeneration
    /\ generation \in 0..MaxGeneration
    /\ notified \in 0..MaxGeneration /\ shown \in 0..MaxGeneration
    /\ attempt \in [Generations -> {"none", "dial", "hello", "install", "fails", "discard", "publish", "ended"}]
    /\ done \in [Generations -> {"open", "ok", "error"}]
    /\ cancelled \subseteq Generations
    /\ conn \in [Generations -> {"none", "open", "closing", "done"}]
    /\ caller \in [Callers -> Caller]

-----------------------------------------------------------------------------
(* Closing a socket.  The reader notices, and then closes its `done'.    *)

IsDone(g) == conn[g] = "done"
Shut(g) == [conn EXCEPT ![g] = IF @ = "open" THEN "closing" ELSE @]

To(t, step) == caller' = [caller EXCEPT ![t].step = step]
Return(t) == caller' = [caller EXCEPT ![t] = Idle]

-----------------------------------------------------------------------------
(* ready                                                                 *)

\* A caller may be bound to the connection that its session was attached over.
Call(t) ==
    /\ caller[t].step = "idle"
    /\ \E pin \in {0, connection} : caller' = [caller EXCEPT ![t] = [Idle EXCEPT !.step = "ready", !.pin = pin]]
    /\ UNCHANGED <<client, notified, tries, conn, shown>>

Usable == connection # 0 /\ ~IsDone(connection)

\* Mutant: the generation is not compared.
ChangedUsable(t) == caller[t].pin # 0 /\ ~Usable

Changed(t) == caller[t].pin # 0 /\ ~(Usable /\ generation = caller[t].pin)

Refuse(t) ==
    /\ caller[t].step = "ready" /\ (closed \/ Changed(t))
    /\ Return(t)
    /\ UNCHANGED <<client, notified, tries, conn, shown>>

Reuse(t) ==
    /\ caller[t].step = "ready" /\ ~closed /\ ~Changed(t) /\ Usable
    /\ caller' = [caller EXCEPT ![t].step = "holding", ![t].on = connection]
    /\ UNCHANGED <<client, notified, tries, conn, shown>>

\* The attempt that the caller waited for succeeded, and its connection is gone.
GiveUp(t) ==
    /\ caller[t].step = "ready" /\ ~closed /\ ~Changed(t) /\ ~Usable
    /\ caller[t].waited
    /\ IF connection = 0
       THEN Return(t)
       ELSE caller' = [caller EXCEPT ![t].step = "drop", ![t].on = connection]
    /\ UNCHANGED <<client, notified, tries, conn, shown>>

\* The attempt to join, if one is under way.
Joined == connecting

Connect(t) ==
    /\ caller[t].step = "ready" /\ ~closed /\ ~Changed(t) /\ ~Usable
    /\ ~caller[t].waited
    /\ connection' = 0
    /\ LET g == IF Joined = 0 THEN generation + 1 ELSE Joined
       IN /\ g \in Generations
          /\ generation' = IF Joined = 0 THEN g ELSE generation
          /\ attempt' = IF Joined = 0 THEN [attempt EXCEPT ![g] = "dial"] ELSE attempt
          /\ connecting' = g
          /\ caller' = [caller EXCEPT ![t].step = "wait", ![t].on = g]
    /\ UNCHANGED <<closed, notified, done, cancelled, conn, shown>>

Woken(t) ==
    /\ caller[t].step = "wait" /\ done[caller[t].on] # "open"
    /\ IF done[caller[t].on] = "ok"
       THEN caller' = [caller EXCEPT ![t].step = "ready", ![t].on = 0, ![t].waited = TRUE]
       ELSE Return(t)
    /\ UNCHANGED <<client, notified, tries, conn, shown>>

-----------------------------------------------------------------------------
(* connect                                                               *)

\* The time-out of an attempt, or its cancellation, makes the dial or the
\* greeting fail; so may the host.
Dial(g, ok) ==
    /\ attempt[g] = "dial" /\ (ok => g \notin cancelled)
    /\ attempt' = [attempt EXCEPT ![g] = IF ok THEN "hello" ELSE "fails"]
    /\ conn' = IF ok THEN [conn EXCEPT ![g] = "open"] ELSE conn
    /\ cancelled' = cancelled \ {g}
    /\ UNCHANGED <<client, notified, done, caller, shown>>

Greet(g, ok) ==
    /\ attempt[g] = "hello" /\ (ok => g \notin cancelled /\ conn[g] = "open")
    /\ attempt' = [attempt EXCEPT ![g] = IF ok THEN "install" ELSE "fails"]
    /\ cancelled' = cancelled \ {g}
    /\ UNCHANGED <<client, notified, done, conn, caller, shown>>

\* context.AfterFunc: an ended context closes the socket of the greeting.
Interrupt(g) ==
    /\ attempt[g] = "hello" /\ g \in cancelled /\ conn[g] = "open"
    /\ conn' = Shut(g)
    /\ UNCHANGED <<client, notified, tries, caller, shown>>

\* Mutant: a retired attempt installs its connection unless another is under way.
CurrentUnlessOther(g) == connecting \in {0, g}

\* Whether the attempt was retired by Reset or Close.
Current(g) == connecting = g

\* Mutant: what a retired attempt has opened is forgotten.
InstallForgets(g) ==
    /\ attempt[g] \in {"install", "fails"}
    /\ IF Current(g)
       THEN /\ connecting' = 0
            /\ connection' = IF attempt[g] = "install" THEN g ELSE connection
            /\ done' = [done EXCEPT ![g] = IF attempt[g] = "install" THEN "ok" ELSE "error"]
            /\ attempt' = [attempt EXCEPT ![g] = IF @ = "install" THEN "publish" ELSE "discard"]
       ELSE /\ attempt' = [attempt EXCEPT ![g] = "ended"]
            /\ UNCHANGED <<connecting, connection, done>>
    /\ UNCHANGED <<closed, generation, notified, cancelled, conn, caller, shown>>

Install(g) ==
    /\ attempt[g] \in {"install", "fails"}
    /\ IF Current(g)
       THEN /\ connecting' = 0
            /\ connection' = IF attempt[g] = "install" THEN g ELSE connection
            /\ done' = [done EXCEPT ![g] = IF attempt[g] = "install" THEN "ok" ELSE "error"]
            /\ attempt' = [attempt EXCEPT ![g] = IF @ = "install" THEN "publish" ELSE "discard"]
       ELSE /\ attempt' = [attempt EXCEPT ![g] = "discard"]
            /\ UNCHANGED <<connecting, connection, done>>
    /\ UNCHANGED <<closed, generation, notified, cancelled, conn, caller, shown>>

\* Mutant: the socket of a failed attempt stays open.
DiscardOpen(g) ==
    /\ attempt[g] = "discard"
    /\ attempt' = [attempt EXCEPT ![g] = "ended"]
    /\ UNCHANGED <<client, notified, done, cancelled, conn, caller, shown>>

Discard(g) ==
    /\ attempt[g] = "discard"
    /\ attempt' = [attempt EXCEPT ![g] = "ended"]
    /\ conn' = Shut(g)
    /\ UNCHANGED <<client, notified, done, cancelled, caller, shown>>

\* Mutant: whoever comes last shows its profile.
SupersededNever(g) == FALSE

Superseded(g) == g <= notified

PublishProfile(g) ==
    /\ attempt[g] = "publish"
    /\ attempt' = [attempt EXCEPT ![g] = "ended"]
    /\ IF Superseded(g)
       THEN UNCHANGED <<notified, shown>>
       ELSE notified' = g /\ shown' = g
    /\ UNCHANGED <<client, done, cancelled, conn, caller>>

-----------------------------------------------------------------------------
(* disconnect and drop                                                   *)

\* Mutant: the attempt's waiters are not told.
ToldNobody == done

\* The attempt's waiters are told that it was reset.
Told == IF connecting = 0 THEN done ELSE [done EXCEPT ![connecting] = "error"]

\* Reset, and Close with `shutdown'.  The attempt is cancelled and the socket is
\* closed after the mutex was released (Retire).
Disconnect(t, shutdown) ==
    /\ caller[t].step = "idle" /\ ~closed
    /\ closed' = shutdown
    /\ connection' = 0 /\ connecting' = 0
    /\ done' = Told
    /\ caller' = [caller EXCEPT ![t].step = "retire", ![t].on = connection, ![t].also = connecting]
    /\ UNCHANGED <<generation, notified, attempt, cancelled, conn, shown>>

\* An attempt past its greeting does not heed its context any more.
Heeding == {g \in Generations : attempt[g] \in {"dial", "hello"}}

\* Mutant: an attempt that there is not is cancelled.
RetireNone(t) ==
    /\ caller[t].step = "retire"
    /\ cancelled' = cancelled \cup {caller[t].also}
    /\ conn' = IF caller[t].on = 0 THEN conn ELSE Shut(caller[t].on)
    /\ Return(t)
    /\ UNCHANGED <<client, notified, attempt, done, shown>>

Retire(t) ==
    /\ caller[t].step = "retire"
    /\ cancelled' = cancelled \cup ({caller[t].also} \cap Heeding)
    /\ conn' = IF caller[t].on = 0 THEN conn ELSE Shut(caller[t].on)
    /\ Return(t)
    /\ UNCHANGED <<client, notified, attempt, done, shown>>

Drop(t) ==
    /\ caller[t].step = "drop"
    /\ connection' = IF connection = caller[t].on THEN 0 ELSE connection
    /\ conn' = Shut(caller[t].on)
    /\ Return(t)
    /\ UNCHANGED <<closed, connecting, generation, notified, tries, shown>>

-----------------------------------------------------------------------------
(* Calls, readers and the network                                        *)

\* CallPiUntilDone drops a connection that has ended, as Profile does.
Fails(t) ==
    IF t \in Administrators /\ IsDone(caller[t].on) THEN To(t, "drop") ELSE Return(t)

\* A call returns: with an answer, an error, or because its context ended.
Answered(t) ==
    /\ caller[t].step = "holding" /\ conn[caller[t].on] = "open"
    /\ Return(t)
    /\ UNCHANGED <<client, notified, tries, conn, shown>>

Ended(t) ==
    /\ caller[t].step = "holding" /\ IsDone(caller[t].on)
    /\ Fails(t)
    /\ UNCHANGED <<client, notified, tries, conn, shown>>

\* The caller's context ends before the attempt that it waits for.
Expire(t) ==
    /\ caller[t].step = "wait" /\ Return(t)
    /\ UNCHANGED <<client, notified, tries, conn, shown>>

ReaderEnds(g) ==
    /\ conn[g] = "closing"
    /\ conn' = [conn EXCEPT ![g] = "done"]
    /\ UNCHANGED <<client, notified, tries, caller, shown>>

Lose(g) ==
    /\ conn[g] = "open" /\ conn' = Shut(g)
    /\ UNCHANGED <<client, notified, tries, caller, shown>>

-----------------------------------------------------------------------------
Init ==
    /\ closed = FALSE /\ connection = 0 /\ connecting = 0 /\ generation = 0
    /\ notified = 0 /\ shown = 0
    /\ attempt = [g \in Generations |-> "none"] /\ done = [g \in Generations |-> "open"]
    /\ cancelled = {} /\ conn = [g \in Generations |-> "none"]
    /\ caller = [t \in Callers |-> Idle]

Attempt(g) ==
    \/ \E ok \in BOOLEAN : Dial(g, ok) \/ Greet(g, ok)
    \/ Interrupt(g) \/ Install(g) \/ Discard(g) \/ PublishProfile(g)

Connection(g) == ReaderEnds(g) \/ Lose(g)

Proceed(t) ==
    Refuse(t) \/ Reuse(t) \/ GiveUp(t) \/ Connect(t) \/ Woken(t)
    \/ Ended(t) \/ Drop(t) \/ Retire(t)

Operation(t) ==
    \/ Call(t) \/ Answered(t) \/ Expire(t)
    \/ \E shutdown \in BOOLEAN : Disconnect(t, shutdown)
    \/ Proceed(t)

Next ==
    \/ \E t \in Callers : Operation(t)
    \/ \E g \in Generations : Attempt(g) \/ Connection(g)

Spec == Init /\ [][Next]_vars

\* Goroutines run; an attempt's context ends by itself, so that its dial and its
\* greeting return; a closed socket ends its reader.
FairSpec ==
    /\ Spec
    /\ \A t \in Callers : WF_vars(Proceed(t))
    /\ \A g \in Generations : WF_vars(Attempt(g)) /\ WF_vars(ReaderEnds(g))

-----------------------------------------------------------------------------
(* Properties                                                            *)

\* An open socket is the installed connection, or somebody is about to install
\* or to close it: no attempt that was retired, and no connection that was
\* replaced, is left open for the host to keep (pi_client.go:186-206, 415-440).
NoStray ==
    \A g \in Generations : conn[g] = "open" =>
        \/ g = connection
        \/ attempt[g] \in {"hello", "install", "fails", "discard"}
        \/ \E t \in Callers : caller[t].step \in {"drop", "retire"} /\ caller[t].on = g

\* The generation that callers are given names the installed connection, and
\* there is none while an attempt is under way (pi_client.go:124-132, 144).
InstalledIsLatest ==
    connection # 0 => connection = generation /\ connecting = 0

\* A caller that is bound to a connection never uses another one, however many
\* came and went since its session was attached (pi_client.go:121-127).
KeepsToItsConnection ==
    \A t \in Callers :
        caller[t].pin # 0 /\ caller[t].step = "holding" => caller[t].on = caller[t].pin

\* Once its attempt has ended, an installed connection's profile or a later one
\* is what was shown last (publishProfile, pi_client.go:208-216).
ShowsLatestProfile ==
    \A g \in Generations : attempt[g] = "ended" /\ done[g] = "ok" => shown >= g

\* An attempt's waiters are told once: `done' is never closed twice, which would
\* end the process (pi_client.go:194-195, 426).
ToldOnce == [][\A g \in Generations : done[g] # "open" => done'[g] = done[g]]_vars

\* A caller that waits for an attempt is told how it ended, although the attempt
\* may be retired by Reset or Close (pi_client.go:154-164).
WaitersAreTold == \A t \in Callers : caller[t].step = "wait" ~> caller[t].step # "wait"

\* After Close no connection stays open, and no call waits (pi_client.go:411-440).
CloseReleases ==
    /\ closed ~> [](\A g \in Generations : conn[g] # "open")
    /\ \A t \in Callers : closed /\ caller[t].step = "holding" ~> caller[t].step # "holding"

\* What the client promises of its connection, and of those who use it.
ConnectionIsSafe == TypeOK /\ NoStray /\ InstalledIsLatest /\ KeepsToItsConnection /\ ShowsLatestProfile
CallersAreServed == ToldOnce /\ WaitersAreTold /\ CloseReleases
=============================================================================
