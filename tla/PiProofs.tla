------------------------------- MODULE PiProofs -------------------------------
(***************************************************************************)
(* Proofs about the two ends of the connection to Pi, and about the app     *)
(* views whose operations go over it.                                       *)
(*                                                                         *)
(* PiClient, for any callers and any number of connections: no socket is    *)
(* left open unowned, the installed connection is the latest, a caller      *)
(* keeps to the connection it is bound to, the latest profile is shown, and *)
(* an attempt's waiters are told once.  The argument is about the attempt   *)
(* under way: it has the last number, it has told nobody yet, and nothing   *)
(* is installed meanwhile (UnderWay); numbers that were not given have left *)
(* no trace (Ungiven); and only an attempt that was installed told its      *)
(* waiters so (Installed).                                                  *)
(*                                                                         *)
(* PiHost, for any number of requests, connections, entries and events:     *)
(* a session has one entry and one run, its entry stays while the run goes  *)
(* on, a deletion is final and a closed host holds nothing.  The argument   *)
(* is about the requests in their order (Orderly) and the entries that they *)
(* hold (Table).                                                            *)
(*                                                                         *)
(* AppViews, for any views, clients, operations and limits: the accounts of *)
(* the registry agree with what it holds, nothing of a closed view goes on  *)
(* to Pi, leases are watched and early cancels kept.  A place is reserved   *)
(* for each view that is being opened (PlacesFit), an operation of a view   *)
(* that is gone was cancelled (CutOff), no timer outlasts its lease         *)
(* (TimersLead), and a cancel that waits is no farther from the end of its  *)
(* queue than from the end of all that were asked (Early).                  *)
(*                                                                         *)
(* They share a module because PiHost and AppViews keep sequences that      *)
(* elements are taken out of, and rest on the same lemmas about Only.       *)
(***************************************************************************)
EXTENDS PiClient, PiHost, AppViews, FiniteSetTheorems, SequenceTheorems, TLAPS, WellFoundedInduction

UnderWay ==
    connecting # 0 => connecting = generation /\ connection = 0 /\ done[connecting] = "open"

Ungiven ==
    \A g \in Generations : g > generation =>
        attempt[g] = "none" /\ done[g] = "open" /\ conn[g] = "none"

Installed ==
    /\ \A g \in Generations : done[g] = "ok" => attempt[g] \in {"publish", "ended"}
    /\ shown = notified

Inv == ConnectionIsSafe /\ UnderWay /\ Ungiven /\ Installed

-----------------------------------------------------------------------------
(* The helpers of the model. *)

\* A step of one caller leaves the others as they are, and is well typed.
Steps == {"idle", "ready", "wait", "holding", "drop", "retire"}

Others(t) == caller' \in [Callers -> Caller] /\ \A u \in Callers \ {t} : caller'[u] = caller[u]

LEMMA IdleIsCaller == Idle \in Caller
  BY ConstantsAssumption DEF Idle, Caller

\* A caller that returns is idle, and bound to nothing.
LEMMA ReturnIdles ==
    ASSUME TypeOK, NEW t \in Callers, Return(t)
    PROVE  Others(t) /\ caller'[t] = Idle
  BY ConstantsAssumption DEF TypeOK, Return, Others, Idle, Caller

\* A caller that goes on keeps what it has.
LEMMA ToMoves ==
    ASSUME TypeOK, NEW t \in Callers, NEW step \in Steps, To(t, step)
    PROVE  /\ Others(t)
           /\ caller'[t] = [caller[t] EXCEPT !.step = step]
  BY DEF TypeOK, To, Others, Caller, Steps

\* A socket that is closed is not open; nothing else happens to the others.
LEMMA ShutCloses ==
    ASSUME TypeOK, NEW g \in 0..MaxGeneration, conn' = Shut(g)
    PROVE  /\ conn' \in [Generations -> {"none", "open", "closing", "done"}]
           /\ \A h \in Generations : conn'[h] = "open" => conn[h] = "open" /\ h # g
           /\ \A h \in Generations : conn[h] = "none" => conn'[h] = "none"
  BY DEF TypeOK, Shut, Generations

-----------------------------------------------------------------------------
(* Steps of the callers that leave the client alone. *)

\* The callers' part of the invariant, when one caller has moved: it does not
\* forget a socket it was about to close, and holds what it is bound to.
LEMMA CallerMoves ==
    ASSUME Inv, NEW t \in Callers, Others(t),
           UNCHANGED <<client, notified, tries, conn, shown>>,
           caller[t].step \notin {"drop", "retire"},
           caller'[t].pin # 0 /\ caller'[t].step = "holding" => caller'[t].on = caller'[t].pin
    PROVE  Inv'
  <1> USE DEF Inv, ConnectionIsSafe, client, tries
  <1>1. TypeOK'
    BY DEF TypeOK, Others
  <1>2. NoStray'
    BY DEF NoStray, Others
  <1>3. InstalledIsLatest' /\ ShowsLatestProfile' /\ UnderWay' /\ Ungiven' /\ Installed'
    BY DEF InstalledIsLatest, ShowsLatestProfile, UnderWay, Ungiven, Installed
  <1>4. KeepsToItsConnection'
    BY DEF KeepsToItsConnection, Others
  <1> QED BY <1>1, <1>2, <1>3, <1>4

LEMMA CallerSteps ==
    ASSUME Inv, NEW t \in Callers,
           Call(t) \/ Refuse(t) \/ Reuse(t) \/ GiveUp(t) \/ Woken(t)
             \/ Answered(t) \/ Ended(t) \/ Expire(t)
    PROVE  Inv'
  <1> USE DEF Inv, ConnectionIsSafe
  <1>0. /\ TypeOK /\ InstalledIsLatest /\ caller[t] \in Caller
        /\ MaxGeneration \in Nat /\ connection \in 0..MaxGeneration
    BY ConstantsAssumption DEF TypeOK
  <1>1. CASE Call(t)
    <2>1. PICK pin \in {0, connection} :
            caller' = [caller EXCEPT ![t] = [Idle EXCEPT !.step = "ready", !.pin = pin]]
      BY <1>1 DEF Call
    <2>2. [Idle EXCEPT !.step = "ready", !.pin = pin] \in Caller
      <3>1. pin \in 0..MaxGeneration
        BY <1>0
      <3> QED BY <3>1, IdleIsCaller DEF Caller
    <2>3. Others(t)
      BY <1>0, <2>1, <2>2 DEF TypeOK, Others
    <2>4. caller'[t].step = "ready"
      BY <1>0, <2>1 DEF TypeOK, Idle
    <2> QED BY <1>1, <2>3, <2>4, CallerMoves DEF Call
  <1>2. CASE Refuse(t)
    BY <1>0, <1>2, ReturnIdles, CallerMoves DEF Refuse, Idle
  <1>3. CASE Reuse(t)
    <2>1. Others(t) /\ caller'[t].on = connection /\ caller'[t].pin = caller[t].pin
      BY <1>0, <1>3 DEF TypeOK, Reuse, Others, Caller
    <2>2. caller[t].pin # 0 => caller[t].pin = connection
      BY <1>0, <1>3 DEF Reuse, Changed, Usable, InstalledIsLatest
    <2> QED BY <1>3, <2>1, <2>2, CallerMoves DEF Reuse
  <1>4. CASE GiveUp(t)
    <2>1. CASE connection = 0
      BY <1>0, <1>4, <2>1, ReturnIdles, CallerMoves DEF GiveUp, Idle
    <2>2. CASE connection # 0
      <3>1. Others(t) /\ caller'[t].step = "drop"
        BY <1>0, <1>4, <2>2 DEF TypeOK, GiveUp, Others, Caller
      <3> QED BY <1>4, <3>1, CallerMoves DEF GiveUp
    <2> QED BY <2>1, <2>2
  <1>5. CASE Woken(t)
    <2>1. CASE done[caller[t].on] = "ok"
      <3>1. Others(t) /\ caller'[t].step = "ready"
        BY <1>0, <1>5, <2>1 DEF TypeOK, Woken, Others, Caller
      <3> QED BY <1>5, <3>1, CallerMoves DEF Woken
    <2>2. CASE done[caller[t].on] # "ok"
      BY <1>0, <1>5, <2>2, ReturnIdles, CallerMoves DEF Woken, Idle
    <2> QED BY <2>1, <2>2
  <1>6. CASE Answered(t)
    BY <1>0, <1>6, ReturnIdles, CallerMoves DEF Answered, Idle
  <1>7. CASE Ended(t)
    <2>1. CASE To(t, "drop")
      <3>1. Others(t) /\ caller'[t].step = "drop"
        BY <1>0, <2>1, ToMoves DEF Steps, Caller
      <3> QED BY <1>7, <3>1, CallerMoves DEF Ended
    <2>2. CASE Return(t)
      BY <1>0, <1>7, <2>2, ReturnIdles, CallerMoves DEF Ended, Idle
    <2> QED BY <1>7, <2>1, <2>2 DEF Ended, Fails
  <1>8. CASE Expire(t)
    BY <1>0, <1>8, ReturnIdles, CallerMoves DEF Expire, Idle
  <1> QED BY <1>1, <1>2, <1>3, <1>4, <1>5, <1>6, <1>7, <1>8

-----------------------------------------------------------------------------
(* Steps of the callers that change the client or a socket. *)

LEMMA ConnectStep ==
    ASSUME Inv, NEW t \in Callers, Connect(t)
    PROVE  Inv'
  <1> USE DEF Inv, ConnectionIsSafe
  <1> DEFINE g == connecting'
  <1>0. TypeOK /\ MaxGeneration \in Nat /\ caller[t] \in Caller
    BY ConstantsAssumption DEF TypeOK
  <1>1. /\ g \in Generations /\ g = generation' /\ connection' = 0
        /\ connecting = 0 => g = generation + 1 /\ attempt' = [attempt EXCEPT ![g] = "dial"]
        /\ connecting # 0 => g = connecting /\ generation' = generation /\ attempt' = attempt
    BY <1>0 DEF Connect, Joined, UnderWay
  <1>2. UNCHANGED <<closed, notified, done, cancelled, conn, shown>>
    BY DEF Connect
  <1>3. Others(t) /\ caller'[t].step = "wait" /\ caller[t].step = "ready"
    <2>1. caller' = [caller EXCEPT ![t].step = "wait", ![t].on = g]
      BY <1>1 DEF Connect
    <2>2. g \in 0..MaxGeneration
      BY <1>0, <1>1 DEF Generations
    <2> HIDE DEF g
    <2>3. [caller[t] EXCEPT !.step = "wait", !.on = g] \in Caller
      BY <1>0, <2>2 DEF Caller
    <2>4. caller[t].step = "ready"
      BY DEF Connect
    <2> QED BY <1>0, <2>1, <2>3, <2>4 DEF TypeOK, Others, Caller
  <1>4. connecting = 0 => attempt[g] = "none" /\ done[g] = "open" /\ conn[g] = "none"
    BY <1>0, <1>1 DEF Ungiven, TypeOK, Generations
  <1>5. TypeOK'
    BY <1>0, <1>1, <1>2, <1>3 DEF TypeOK, Others, Generations
  <1>6. \A h \in Generations : attempt'[h] = attempt[h] \/ (h = g /\ conn[h] = "none")
    BY <1>0, <1>1, <1>4 DEF TypeOK
  <1>7. connection # 0 => conn[connection] = "done"
    BY DEF Connect, Usable, IsDone
  <1>8. NoStray'
    <2> SUFFICES ASSUME NEW h \in Generations, conn'[h] = "open"
                 PROVE  \/ attempt'[h] \in {"hello", "install", "fails", "discard"}
                        \/ \E u \in Callers : caller'[u].step \in {"drop", "retire"} /\ caller'[u].on = h
      BY DEF NoStray
    <2>1. conn[h] = "open" /\ h # connection /\ attempt'[h] = attempt[h]
      BY <1>2, <1>6, <1>7 DEF Generations
    <2> QED BY <1>3, <2>1 DEF NoStray, Others
  <1>9. InstalledIsLatest' /\ UnderWay'
    BY <1>1, <1>2, <1>4 DEF InstalledIsLatest, UnderWay
  <1>10. KeepsToItsConnection'
    BY <1>3 DEF KeepsToItsConnection, Others
  <1>11. ShowsLatestProfile' /\ Installed'
    <2>1. \A h \in Generations : done'[h] = "ok" => attempt'[h] = attempt[h]
      BY <1>0, <1>1, <1>2, <1>4 DEF TypeOK
    <2> QED BY <1>2, <2>1 DEF ShowsLatestProfile, Installed
  <1>12. Ungiven'
    BY <1>0, <1>1, <1>2 DEF Ungiven, TypeOK, Generations
  <1> QED BY <1>5, <1>8, <1>9, <1>10, <1>11, <1>12

LEMMA DisconnectStep ==
    ASSUME Inv, NEW t \in Callers, NEW shutdown \in BOOLEAN, Disconnect(t, shutdown)
    PROVE  Inv'
  <1> USE DEF Inv, ConnectionIsSafe
  <1>0. TypeOK /\ MaxGeneration \in Nat /\ caller[t] \in Caller
    BY ConstantsAssumption DEF TypeOK
  <1>1. /\ connection' = 0 /\ connecting' = 0
        /\ UNCHANGED <<generation, notified, attempt, cancelled, conn, shown>>
    BY DEF Disconnect
  <1>2. Others(t) /\ caller[t].step = "idle" /\ caller'[t].step = "retire" /\ caller'[t].on = connection
    BY <1>0 DEF Disconnect, TypeOK, Others, Caller
  <1>3. /\ done' \in [Generations -> {"open", "ok", "error"}]
        /\ \A g \in Generations : done'[g] # done[g] => g = connecting /\ g = generation /\ done'[g] = "error"
    BY <1>0 DEF Disconnect, Told, TypeOK, UnderWay
  <1>4. TypeOK'
    BY <1>0, <1>1, <1>2, <1>3 DEF Disconnect, TypeOK, Others
  <1>5. NoStray'
    BY <1>1, <1>2 DEF NoStray, Others
  <1>6. KeepsToItsConnection'
    BY <1>2 DEF KeepsToItsConnection, Others
  <1>7. ShowsLatestProfile' /\ Installed'
    BY <1>1, <1>3 DEF ShowsLatestProfile, Installed
  <1>8. Ungiven'
    BY <1>0, <1>1, <1>3 DEF Ungiven, TypeOK, Generations
  <1> QED BY <1>1, <1>4, <1>5, <1>6, <1>7, <1>8 DEF InstalledIsLatest, UnderWay

\* The socket that was to be closed is closed when its caller forgets it.
LEMMA RetireStep ==
    ASSUME Inv, NEW t \in Callers, Retire(t)
    PROVE  Inv'
  <1> USE DEF Inv, ConnectionIsSafe, client
  <1>0. TypeOK /\ MaxGeneration \in Nat /\ caller[t].on \in 0..MaxGeneration
    BY ConstantsAssumption DEF TypeOK, Caller
  <1>1. Others(t) /\ caller'[t] = Idle
    BY <1>0, ReturnIdles DEF Retire
  <1>2. /\ conn' \in [Generations -> {"none", "open", "closing", "done"}]
        /\ \A h \in Generations : conn'[h] = "open" => conn[h] = "open" /\ h # caller[t].on
        /\ \A h \in Generations : conn[h] = "none" => conn'[h] = "none"
    <2>1. CASE caller[t].on = 0
      BY <1>0, <2>1 DEF Retire, TypeOK, Generations
    <2>2. CASE caller[t].on # 0
      BY <1>0, <2>2, ShutCloses DEF Retire
    <2> QED BY <2>1, <2>2
  <1>3. TypeOK'
    BY <1>0, <1>1, <1>2 DEF Retire, TypeOK, Others, Heeding
  <1>4. NoStray'
    BY <1>1, <1>2 DEF Retire, NoStray, Others
  <1>5. KeepsToItsConnection'
    BY <1>1 DEF KeepsToItsConnection, Others, Idle
  <1>6. InstalledIsLatest' /\ ShowsLatestProfile' /\ UnderWay' /\ Installed'
    BY DEF Retire, InstalledIsLatest, ShowsLatestProfile, UnderWay, Installed
  <1>7. Ungiven'
    BY <1>2 DEF Retire, Ungiven
  <1> QED BY <1>3, <1>4, <1>5, <1>6, <1>7

LEMMA DropStep ==
    ASSUME Inv, NEW t \in Callers, Drop(t)
    PROVE  Inv'
  <1> USE DEF Inv, ConnectionIsSafe, tries
  <1>0. TypeOK /\ MaxGeneration \in Nat /\ caller[t].on \in 0..MaxGeneration
    BY ConstantsAssumption DEF TypeOK, Caller
  <1>1. Others(t) /\ caller'[t] = Idle
    BY <1>0, ReturnIdles DEF Drop
  <1>2. /\ conn' \in [Generations -> {"none", "open", "closing", "done"}]
        /\ \A h \in Generations : conn'[h] = "open" => conn[h] = "open" /\ h # caller[t].on
        /\ \A h \in Generations : conn[h] = "none" => conn'[h] = "none"
    BY <1>0, ShutCloses DEF Drop
  <1>3. connection' = connection \/ (connection = caller[t].on /\ connection' = 0)
    BY DEF Drop
  <1>4. TypeOK'
    BY <1>0, <1>1, <1>2, <1>3 DEF Drop, TypeOK, Others
  <1>5. NoStray'
    BY <1>1, <1>2, <1>3 DEF Drop, NoStray, Others
  <1>6. KeepsToItsConnection'
    BY <1>1 DEF KeepsToItsConnection, Others, Idle
  <1>7. InstalledIsLatest' /\ ShowsLatestProfile' /\ UnderWay' /\ Installed'
    BY <1>3 DEF Drop, InstalledIsLatest, ShowsLatestProfile, UnderWay, Installed
  <1>8. Ungiven'
    BY <1>2 DEF Drop, Ungiven
  <1> QED BY <1>4, <1>5, <1>6, <1>7, <1>8

-----------------------------------------------------------------------------
(* Steps of the attempts and of the connections. *)

\* The callers' part, and the client's, of a step that leaves them alone.
LEMMA AttemptMoves ==
    ASSUME Inv, UNCHANGED <<client, notified, done, caller, shown>>, TypeOK', NoStray',
           NEW g \in Generations, attempt[g] \notin {"none", "publish", "ended"} \/ attempt' = attempt,
           \A h \in Generations \ {g} : attempt'[h] = attempt[h] /\ conn'[h] = conn[h],
           conn[g] = "none" => conn'[g] = "none" \/ attempt[g] # "none"
    PROVE  Inv'
  <1> USE DEF Inv, ConnectionIsSafe, client
  <1>1. InstalledIsLatest' /\ KeepsToItsConnection' /\ UnderWay'
    BY DEF InstalledIsLatest, KeepsToItsConnection, UnderWay
  <1>2. \A h \in Generations : done[h] = "ok" => attempt'[h] = attempt[h]
    BY DEF Installed
  <1>3. ShowsLatestProfile' /\ Installed'
    BY <1>2 DEF ShowsLatestProfile, Installed
  <1>4. Ungiven'
    BY DEF Ungiven
  <1> QED BY <1>1, <1>3, <1>4

LEMMA SocketSteps ==
    ASSUME Inv, NEW g \in Generations,
           (\E ok \in BOOLEAN : Dial(g, ok) \/ Greet(g, ok))
             \/ Interrupt(g) \/ Discard(g) \/ ReaderEnds(g) \/ Lose(g)
    PROVE  Inv'
  <1> USE DEF Inv, ConnectionIsSafe
  <1>0. TypeOK /\ NoStray /\ g \in 0..MaxGeneration
    BY ConstantsAssumption DEF Generations
  <1>1. CASE \E ok \in BOOLEAN : Dial(g, ok)
    <2>1. PICK ok \in BOOLEAN : Dial(g, ok)
      BY <1>1
    <2>2. /\ attempt[g] = "dial" /\ attempt'[g] \in {"hello", "fails"}
          /\ \A h \in Generations \ {g} : attempt'[h] = attempt[h] /\ conn'[h] = conn[h]
      BY <1>0, <2>1 DEF Dial, TypeOK
    <2>3. TypeOK'
      BY <1>0, <2>1 DEF Dial, TypeOK, client
    <2>4. NoStray'
      BY <1>0, <2>1, <2>2 DEF Dial, NoStray, client
    <2> QED BY <2>1, <2>2, <2>3, <2>4, AttemptMoves DEF Dial
  <1>2. CASE \E ok \in BOOLEAN : Greet(g, ok)
    <2>1. PICK ok \in BOOLEAN : Greet(g, ok)
      BY <1>2
    <2>2. /\ attempt[g] = "hello" /\ attempt'[g] \in {"install", "fails"} /\ conn' = conn
          /\ \A h \in Generations \ {g} : attempt'[h] = attempt[h]
      BY <1>0, <2>1 DEF Greet, TypeOK
    <2>3. TypeOK'
      BY <1>0, <2>1 DEF Greet, TypeOK, client
    <2>4. NoStray'
      BY <1>0, <2>1, <2>2 DEF Greet, NoStray, client
    <2> QED BY <2>1, <2>2, <2>3, <2>4, AttemptMoves DEF Greet
  <1>3. CASE Discard(g)
    <2>1. /\ attempt[g] = "discard" /\ conn'[g] # "open"
          /\ \A h \in Generations \ {g} : attempt'[h] = attempt[h] /\ conn'[h] = conn[h]
      BY <1>0, <1>3 DEF Discard, Shut, TypeOK
    <2>2. TypeOK'
      BY <1>0, <1>3, ShutCloses DEF Discard, TypeOK, client
    <2>3. NoStray'
      BY <1>0, <1>3, <2>1 DEF Discard, NoStray, client
    <2> QED BY <1>3, <2>1, <2>2, <2>3, AttemptMoves DEF Discard
  <1>4. CASE Interrupt(g) \/ Lose(g)
    <2>1. conn' = Shut(g) /\ conn[g] = "open" /\ UNCHANGED <<client, notified, tries, caller, shown>>
      BY <1>4 DEF Interrupt, Lose
    <2>2. conn'[g] # "open" /\ \A h \in Generations \ {g} : conn'[h] = conn[h]
      BY <1>0, <2>1 DEF Shut, TypeOK
    <2>3. TypeOK'
      BY <1>0, <2>1, ShutCloses DEF TypeOK, client, tries
    <2>4. NoStray'
      BY <1>0, <2>1, <2>2 DEF NoStray, client, tries
    <2> QED BY <2>1, <2>2, <2>3, <2>4, AttemptMoves DEF tries
  <1>5. CASE ReaderEnds(g)
    <2>1. /\ conn[g] = "closing" /\ conn'[g] = "done"
          /\ \A h \in Generations \ {g} : conn'[h] = conn[h]
      BY <1>0, <1>5 DEF ReaderEnds, TypeOK
    <2>2. TypeOK'
      BY <1>0, <1>5 DEF ReaderEnds, TypeOK, client, tries
    <2>3. NoStray'
      BY <1>0, <1>5, <2>1 DEF ReaderEnds, NoStray, client, tries
    <2> QED BY <1>5, <2>1, <2>2, <2>3, AttemptMoves DEF ReaderEnds, tries
  <1> QED BY <1>1, <1>2, <1>3, <1>4, <1>5

\* An attempt that is still current has the last number and nothing is installed.
LEMMA InstallStep ==
    ASSUME Inv, NEW g \in Generations, Install(g)
    PROVE  Inv'
  <1> USE DEF Inv, ConnectionIsSafe
  <1>0. TypeOK /\ MaxGeneration \in Nat /\ g # 0
    BY ConstantsAssumption DEF Generations
  <1>1. /\ attempt[g] \in {"install", "fails"} /\ attempt'[g] \in {"publish", "discard"}
        /\ \A h \in Generations \ {g} : attempt'[h] = attempt[h] /\ done'[h] = done[h]
        /\ UNCHANGED <<closed, generation, notified, cancelled, conn, caller, shown>>
    BY <1>0 DEF Install, TypeOK
  <1>2. CASE Current(g) /\ attempt[g] = "install"
    <2>1. connecting' = 0 /\ connection' = g /\ attempt'[g] = "publish" /\ done'[g] = "ok"
      BY <1>0, <1>2 DEF Install, TypeOK
    <2>2. g = generation /\ connection = 0
      BY <1>0, <1>2 DEF Current, UnderWay
    <2>3. TypeOK'
      BY <1>0, <1>2 DEF Install, TypeOK, Generations
    <2>4. NoStray'
      BY <1>1, <2>1, <2>2 DEF NoStray, Generations
    <2>5. InstalledIsLatest' /\ KeepsToItsConnection' /\ UnderWay'
      BY <1>1, <2>1, <2>2 DEF InstalledIsLatest, KeepsToItsConnection, UnderWay
    <2>6. ShowsLatestProfile' /\ Installed'
      BY <1>1, <2>1 DEF ShowsLatestProfile, Installed
    <2>7. Ungiven'
      BY <1>0, <1>1, <2>2 DEF Ungiven, TypeOK, Generations
    <2> QED BY <2>3, <2>4, <2>5, <2>6, <2>7
  <1>3. CASE ~(Current(g) /\ attempt[g] = "install")
    <2>1. /\ connection' = connection /\ connecting' \in {0, connecting}
          /\ attempt'[g] = "discard" /\ done'[g] \in {done[g], "error"}
          /\ done'[g] # done[g] => connecting' = 0 /\ g = generation
          /\ done' = done \/ connecting' = 0
      BY <1>0, <1>3 DEF Install, Current, UnderWay, TypeOK
    <2>2. TypeOK'
      BY <1>0, <1>3 DEF Install, TypeOK, Generations
    <2>3. NoStray'
      BY <1>1, <2>1 DEF NoStray
    <2>4. InstalledIsLatest' /\ KeepsToItsConnection' /\ UnderWay'
      BY <1>1, <2>1 DEF InstalledIsLatest, KeepsToItsConnection, UnderWay
    <2>5. ShowsLatestProfile' /\ Installed'
      BY <1>1, <2>1 DEF ShowsLatestProfile, Installed
    <2>6. Ungiven'
      BY <1>0, <1>1, <2>1 DEF Ungiven, TypeOK, Generations
    <2> QED BY <2>2, <2>3, <2>4, <2>5, <2>6
  <1> QED BY <1>2, <1>3

LEMMA PublishStep ==
    ASSUME Inv, NEW g \in Generations, PublishProfile(g)
    PROVE  Inv'
  <1> USE DEF Inv, ConnectionIsSafe, client
  <1>0. TypeOK /\ MaxGeneration \in Nat
    BY ConstantsAssumption
  <1>1. /\ attempt[g] = "publish" /\ attempt'[g] = "ended"
        /\ \A h \in Generations \ {g} : attempt'[h] = attempt[h]
        /\ UNCHANGED <<client, done, cancelled, conn, caller>>
    BY <1>0 DEF PublishProfile, TypeOK
  <1>2. TypeOK' /\ shown' = notified' /\ shown' >= g /\ shown' >= shown
    BY <1>0 DEF PublishProfile, Superseded, TypeOK, Installed, Generations
  <1>3. NoStray' /\ InstalledIsLatest' /\ KeepsToItsConnection' /\ UnderWay'
    BY <1>1 DEF NoStray, InstalledIsLatest, KeepsToItsConnection, UnderWay
  <1>4. ShowsLatestProfile' /\ Installed'
    BY <1>0, <1>1, <1>2 DEF ShowsLatestProfile, Installed, TypeOK, Generations
  <1>5. Ungiven'
    BY <1>1 DEF Ungiven
  <1> QED BY <1>2, <1>3, <1>4, <1>5

-----------------------------------------------------------------------------
(* The theorems. *)

LEMMA InvInit == Init => Inv
  <1> SUFFICES ASSUME Init PROVE Inv
    OBVIOUS
  <1>1. MaxGeneration \in Nat /\ 0 \in 0..MaxGeneration
    BY ConstantsAssumption
  <1>2. TypeOK
    <2>1. caller \in [Callers -> Caller]
      BY IdleIsCaller DEF Init
    <2>2. attempt \in [Generations -> {"none", "dial", "hello", "install", "fails", "discard", "publish", "ended"}]
      BY DEF Init
    <2> QED BY <1>1, <2>1, <2>2 DEF Init, TypeOK
  <1>3. NoStray /\ InstalledIsLatest /\ ShowsLatestProfile /\ UnderWay /\ Ungiven /\ Installed
    BY <1>1 DEF Init, NoStray, InstalledIsLatest, ShowsLatestProfile, UnderWay, Ungiven, Installed
  <1>4. KeepsToItsConnection
    BY DEF Init, KeepsToItsConnection, Idle
  <1> QED BY <1>2, <1>3, <1>4 DEF Inv, ConnectionIsSafe

LEMMA InvStep == Inv /\ [Next]_vars => Inv'
  <1> SUFFICES ASSUME Inv, [Next]_vars PROVE Inv'
    OBVIOUS
  <1>1. CASE UNCHANGED vars
    BY <1>1 DEF vars, client, tries, Inv, ConnectionIsSafe, TypeOK, NoStray, InstalledIsLatest,
         KeepsToItsConnection, ShowsLatestProfile, UnderWay, Ungiven, Installed
  <1>2. ASSUME NEW t \in Callers, Operation(t) PROVE Inv'
    BY <1>2, CallerSteps, ConnectStep, DisconnectStep, RetireStep, DropStep DEF Operation, Proceed
  <1>3. ASSUME NEW g \in Generations, Attempt(g) \/ Connection(g) PROVE Inv'
    BY <1>3, SocketSteps, InstallStep, PublishStep DEF Attempt, Connection
  <1> QED BY <1>1, <1>2, <1>3 DEF Next

\* What the client promises of its connection, and of those who use it: no
\* socket is left open that nobody will close, the installed connection is the
\* latest, callers keep to the connection that they are bound to, and the latest
\* profile is shown, whatever attempts, resets, losses and callers meet
\* (pi_client.go:119-216 and 411-440).
THEOREM ConnectionSafe == Spec => []ConnectionIsSafe
  <1>1. Inv => ConnectionIsSafe
    BY DEF Inv
  <1> QED BY <1>1, InvInit, InvStep, PTL DEF Spec

\* The waiters of an attempt are told once: done is closed by the attempt itself
\* or by Reset and Close, never by both (pi_client.go:194-195, 426).
THEOREM WaitersToldOnce == Spec => ToldOnce
  <1>1. ASSUME Inv, [Next]_vars
        PROVE  [\A g \in Generations : done[g] # "open" => done'[g] = done[g]]_vars
    <2> USE DEF Inv, ConnectionIsSafe
    <2>1. CASE done' = done
      BY <2>1
    <2>2. ASSUME NEW t \in Callers, NEW shutdown \in BOOLEAN, Disconnect(t, shutdown)
          PROVE  \A g \in Generations : done[g] # "open" => done'[g] = done[g]
      BY <1>1, <2>2 DEF Disconnect, Told, TypeOK, UnderWay
    <2>3. ASSUME NEW g \in Generations, Install(g)
          PROVE  \A h \in Generations : done[h] # "open" => done'[h] = done[h]
      <3>1. g # 0
        BY ConstantsAssumption DEF Generations
      <3> QED BY <1>1, <2>3, <3>1 DEF Install, Current, TypeOK, UnderWay
    <2>4. CASE UNCHANGED vars
      BY <2>4 DEF vars
    <2>5. CASE Next
      <3>1. ASSUME NEW t \in Callers, Operation(t)
            PROVE  done' = done \/ \E shutdown \in BOOLEAN : Disconnect(t, shutdown)
        BY <3>1 DEF Operation, Proceed, Call, Answered, Expire, Refuse, Reuse, GiveUp, Connect,
             Woken, Ended, Drop, Retire, tries
      <3>2. ASSUME NEW g \in Generations, Attempt(g) \/ Connection(g)
            PROVE  done' = done \/ Install(g)
        BY <3>2 DEF Attempt, Connection, Dial, Greet, Interrupt, Discard, PublishProfile,
             ReaderEnds, Lose, tries
      <3> QED BY <2>1, <2>2, <2>3, <2>5, <3>1, <3>2 DEF Next
    <2> QED BY <1>1, <2>4, <2>5
  <1> QED BY <1>1, InvInit, InvStep, PTL DEF Spec, ToldOnce

-----------------------------------------------------------------------------
(* Sequences.  The library's induction over the natural numbers is for an     *)
(* operator, which the provers cannot choose; that a set of them has a least  *)
(* element is as good.                                                        *)

LEMMA Descent == \E R : IsWellFoundedOn(R, Nat) /\ \A x, y \in Nat : <<y, x>> \in R <=> y < x
  <1>1. IsWellFoundedOn(OpToRel(<, Nat), Nat)
    BY NatLessThanWellFounded
  <1>2. \A x, y \in Nat : <<y, x>> \in OpToRel(<, Nat) <=> y < x
    BY DEF OpToRel
  <1> QED BY ONLY <1>1, <1>2, Zenon

LEMMA LeastOfSet ==
    ASSUME NEW T \in SUBSET Nat, T # {}
    PROVE  \E x \in T : \A y \in T : x <= y
  <1>1. PICK R : IsWellFoundedOn(R, Nat) /\ \A x, y \in Nat : <<y, x>> \in R <=> y < x
    BY Descent
  <1>2. PICK x \in T : \A y \in T : ~ (<<y, x>> \in R)
    BY <1>1, WFMin
  <1>3. ASSUME NEW y \in T PROVE x <= y
    <2>1. ~(y < x)
      BY <1>1, <1>2, Zenon
    <2> QED BY <2>1
  <1> QED BY <1>3

LEMMA SetInduction ==
    ASSUME NEW T \in SUBSET Nat, 0 \in T, \A n \in T : n + 1 \in T
    PROVE  T = Nat
  <1> SUFFICES ASSUME Nat \ T # {} PROVE FALSE
    OBVIOUS
  <1>1. PICK n \in Nat \ T : \A m \in Nat \ T : n <= m
    BY LeastOfSet
  <1>2. n - 1 \in Nat /\ n - 1 \in T
    BY <1>1
  <1> QED BY <1>1, <1>2

\* The function that Only is defined by, up to any place.
Chooses(f, s, S, m) ==
    f = [n \in 0..m |-> IF n = 0 THEN << >>
                        ELSE IF s[n] \in S THEN Append(f[n - 1], s[n]) ELSE f[n - 1]]

LEMMA ChoosesExists ==
    ASSUME NEW s, NEW S, NEW m \in Nat
    PROVE  \E f : Chooses(f, s, S, m)
  <1> DEFINE T == {k \in Nat : \E f : Chooses(f, s, S, k)}
  <1>1. 0 \in T
    <2>1. Chooses([n \in 0..0 |-> << >>], s, S, 0)
      BY DEF Chooses
    <2> QED BY <2>1
  <1>2. ASSUME NEW k \in T PROVE k + 1 \in T
    <2>1. k \in Nat /\ \E f : Chooses(f, s, S, k)
      OBVIOUS
    <2>2. PICK f : Chooses(f, s, S, k)
      BY <2>1
    <2> DEFINE g == [n \in 0..(k + 1) |-> IF n <= k THEN f[n]
                        ELSE IF s[n] \in S THEN Append(f[n - 1], s[n]) ELSE f[n - 1]]
    <2>3. \A n \in 0..k : f[n] = IF n = 0 THEN << >>
                        ELSE IF s[n] \in S THEN Append(f[n - 1], s[n]) ELSE f[n - 1]
      BY <2>1, <2>2 DEF Chooses
    <2>4. \A n \in 0..(k + 1) : g[n] = IF n = 0 THEN << >>
                        ELSE IF s[n] \in S THEN Append(g[n - 1], s[n]) ELSE g[n - 1]
      BY <2>1, <2>3
    <2>5. Chooses(g, s, S, k + 1)
      BY <2>1, <2>4 DEF Chooses
    <2> HIDE DEF g
    <2> QED BY <2>1, <2>5
  <1> HIDE DEF T
  <1>3. T = Nat
    <2>1. T \in SUBSET Nat
      BY DEF T
    <2> QED BY <1>1, <1>2, <2>1, SetInduction
  <1> QED BY <1>3 DEF T

\* What is chosen: elements of s that are in S, all of them, none of them farther
\* from the end than it was, and none of them twice if none was in s twice.
Picks(t, s, S, n) ==
    /\ t \in Seq(S) /\ Len(t) <= n
    /\ \A k \in 1..Len(t) : \E i \in 1..n : s[i] = t[k] /\ n - i >= Len(t) - k
    /\ \A i \in 1..n : s[i] \in S => \E k \in 1..Len(t) : t[k] = s[i]
    /\ (\A i, j \in 1..n : s[i] = s[j] => i = j) => \A k, l \in 1..Len(t) : t[k] = t[l] => k = l

LEMMA PicksNext ==
    ASSUME NEW s, NEW S, NEW n \in Nat, NEW t, Picks(t, s, S, n)
    PROVE  Picks(IF s[n + 1] \in S THEN Append(t, s[n + 1]) ELSE t, s, S, n + 1)
  <1>1. t \in Seq(S) /\ Len(t) \in Nat /\ Len(t) <= n
    BY LenProperties DEF Picks
  <1>2. CASE s[n + 1] \notin S
    BY <1>1, <1>2 DEF Picks
  <1>3. CASE s[n + 1] \in S
    <2> DEFINE u == Append(t, s[n + 1])
    <2>1. /\ u \in Seq(S) /\ Len(u) = Len(t) + 1
          /\ u[Len(t) + 1] = s[n + 1] /\ \A k \in 1..Len(t) : u[k] = t[k]
      BY <1>1, <1>3, AppendProperties
    <2> HIDE DEF u
    <2>2. ASSUME NEW k \in 1..Len(u)
          PROVE  \E i \in 1..(n + 1) : s[i] = u[k] /\ (n + 1) - i >= Len(u) - k
      <3>1. CASE k = Len(t) + 1
        BY <1>1, <2>1, <3>1
      <3>2. CASE k # Len(t) + 1
        <4>1. k \in 1..Len(t)
          BY <1>1, <2>1, <3>2
        <4>2. PICK i \in 1..n : s[i] = t[k] /\ n - i >= Len(t) - k
          BY <4>1 DEF Picks
        <4> QED BY <1>1, <2>1, <4>1, <4>2
      <3> QED BY <3>1, <3>2
    <2>3. ASSUME NEW i \in 1..(n + 1), s[i] \in S
          PROVE  \E k \in 1..Len(u) : u[k] = s[i]
      <3>1. CASE i = n + 1
        BY <1>1, <2>1, <3>1
      <3>2. CASE i # n + 1
        <4>1. PICK k \in 1..Len(t) : t[k] = s[i]
          BY <2>3, <3>2 DEF Picks
        <4> QED BY <1>1, <2>1, <4>1
      <3> QED BY <3>1, <3>2
    <2>4. ASSUME \A i, j \in 1..(n + 1) : s[i] = s[j] => i = j,
                 NEW k \in 1..Len(u), NEW l \in 1..Len(u), u[k] = u[l]
          PROVE  k = l
      <3>1. \A a, b \in 1..Len(t) : t[a] = t[b] => a = b
        <4>1. 1..n \subseteq 1..(n + 1)
          OBVIOUS
        <4>2. \A i, j \in 1..n : s[i] = s[j] => i = j
          BY <2>4, <4>1
        <4> QED BY <4>2 DEF Picks
      <3>2. \A a \in 1..Len(t) : t[a] # s[n + 1]
        <4>1. ASSUME NEW a \in 1..Len(t), t[a] = s[n + 1] PROVE FALSE
          <5>1. PICK i \in 1..n : s[i] = t[a]
            BY DEF Picks
          <5> QED BY <2>4, <4>1, <5>1
        <4> QED BY <4>1
      <3> QED BY <1>1, <2>1, <2>4, <3>1, <3>2
    <2>5. Picks(u, s, S, n + 1)
      BY <1>1, <2>1, <2>2, <2>3, <2>4 DEF Picks
    <2> QED BY <1>3, <2>5 DEF u
  <1> QED BY <1>2, <1>3

LEMMA OnlyPicks ==
    ASSUME NEW s, NEW S, Len(s) \in Nat
    PROVE  Picks(Only(s, S), s, S, Len(s))
  <1>1. PICK f : Chooses(f, s, S, Len(s)) /\ Only(s, S) = f[Len(s)]
    <2>1. \E f : Chooses(f, s, S, Len(s))
      BY ChoosesExists
    <2> QED BY <2>1 DEF Only, Chooses
  <1> DEFINE T == {n \in Nat : n <= Len(s) => Picks(f[n], s, S, n)}
  <1>2. \A n \in 0..Len(s) : f[n] = IF n = 0 THEN << >>
                        ELSE IF s[n] \in S THEN Append(f[n - 1], s[n]) ELSE f[n - 1]
    BY <1>1 DEF Chooses
  <1>3. 0 \in T
    <2>1. f[0] = << >>
      BY <1>2
    <2>2. Picks(<< >>, s, S, 0)
      BY EmptySeq DEF Picks
    <2> QED BY <2>1, <2>2
  <1>4. ASSUME NEW n \in T PROVE n + 1 \in T
    <2>1. CASE n + 1 <= Len(s)
      <3>1. Picks(f[n], s, S, n)
        BY <2>1
      <3>2. f[n + 1] = IF s[n + 1] \in S THEN Append(f[n], s[n + 1]) ELSE f[n]
        BY <1>2, <2>1
      <3>3. Picks(f[n + 1], s, S, n + 1)
        BY <3>1, <3>2, PicksNext
      <3> QED BY <3>3
    <2>2. CASE ~(n + 1 <= Len(s))
      BY <2>2
    <2> QED BY <2>1, <2>2
  <1> HIDE DEF T
  <1>5. T = Nat
    <2>1. T \in SUBSET Nat
      BY DEF T
    <2> QED BY <1>3, <1>4, <2>1, SetInduction
  <1> QED BY <1>1, <1>5 DEF T

LEMMA OnlyTyped ==
    ASSUME NEW S, NEW s \in Seq(S), NEW T
    PROVE  /\ Only(s, T) \in Seq(S) /\ Only(s, T) \in Seq(T)
           /\ Len(Only(s, T)) \in Nat /\ Len(Only(s, T)) <= Len(s)
  <1> DEFINE t == Only(s, T)
  <1>1. Len(s) \in Nat /\ \A i \in 1..Len(s) : s[i] \in S
    BY LenProperties, ElementOfSeq
  <1>2. Picks(t, s, T, Len(s))
    BY <1>1, OnlyPicks
  <1> HIDE DEF t
  <1>3. t \in Seq(T) /\ Len(t) \in Nat /\ Len(t) <= Len(s) /\ t \in [1..Len(t) -> T]
    BY <1>2, LenProperties DEF Picks
  <1>4. \A k \in 1..Len(t) : t[k] \in S
    BY <1>1, <1>2 DEF Picks
  <1>5. t \in [1..Len(t) -> S]
    BY <1>3, <1>4
  <1>6. t \in Seq(S)
    BY <1>3, <1>5
  <1> QED BY <1>3, <1>6 DEF t

\* The same, of a sequence whose elements are known.
LEMMA OnlyKeeps ==
    ASSUME NEW S, NEW s \in Seq(S), NEW T
    PROVE  /\ Only(s, T) \in Seq(S)
           /\ Len(Only(s, T)) \in Nat /\ Len(Only(s, T)) <= Len(s)
           /\ Members(Only(s, T)) = Members(s) \cap T
           /\ Distinct(s) => Distinct(Only(s, T))
           /\ \A k \in 1..Len(Only(s, T)) :
                \E i \in 1..Len(s) : s[i] = Only(s, T)[k] /\ Len(s) - i >= Len(Only(s, T)) - k
  <1> DEFINE t == Only(s, T)
  <1>1. Len(s) \in Nat /\ DOMAIN s = 1..Len(s)
    BY LenProperties
  <1>2. t \in Seq(S) /\ t \in Seq(T) /\ Len(t) \in Nat /\ Len(t) <= Len(s)
    BY OnlyTyped
  <1>3. Picks(t, s, T, Len(s))
    BY <1>1, OnlyPicks
  <1> HIDE DEF t
  <1>4. DOMAIN t = 1..Len(t) /\ \A k \in 1..Len(t) : t[k] \in T
    BY <1>2, LenProperties, ElementOfSeq
  <1>5. Members(t) = Members(s) \cap T
    <2>1. \A k \in 1..Len(t) : t[k] \in Members(s) \cap T
      BY <1>1, <1>3, <1>4 DEF Picks, Members
    <2>2. \A i \in 1..Len(s) : s[i] \in T => \E k \in 1..Len(t) : t[k] = s[i]
      BY <1>3 DEF Picks
    <2> QED BY <1>1, <1>4, <2>1, <2>2 DEF Members
  <1>6. Distinct(s) => Distinct(t)
    BY <1>1, <1>3, <1>4 DEF Picks, Distinct
  <1>7. \A k \in 1..Len(t) : \E i \in 1..Len(s) : s[i] = t[k] /\ Len(s) - i >= Len(t) - k
    BY <1>3 DEF Picks
  <1> QED BY <1>2, <1>5, <1>6, <1>7 DEF t

-----------------------------------------------------------------------------
(* The host: what is true of its requests.                                 *)

\* A deletion that may still be carried out, or was.
Stands(j) == request[j].kind = "delete" /\ ~At(j, "none") /\ ~(At(j, "end") /\ ~request[j].ok)

\* The entry of a deletion is closed, and gone from the table.
Forgets(j) ==
    /\ request[j].kind = "delete"
    /\ At(j, "forgetting") \/ (request[j].step \in {"reply", "end"} /\ request[j].ok)

\* They are made and received in their order.
InTurn ==
    \A i, j \in Requests : i < j =>
        /\ At(i, "none") => At(j, "none")
        /\ At(i, "sent") => request[j].step \in {"none", "sent"}

KindsFit ==
    \A i \in Requests :
        /\ At(i, "running") => request[i].kind = "prompt"
        /\ request[i].step \in {"closing", "forgetting"} => request[i].kind = "delete"

CreatedFirst ==
    \A i \in Requests : request[i].kind = "create" /\ request[i].step \notin {"none", "end"} =>
        \A j \in Requests \ {i} : At(j, "none")

\* No request follows a deletion that stands, and no prompt over its connection
\* is under way.
DeletionIsLast ==
    \A j \in Requests : Stands(j) =>
        \A i \in Requests \ {j} :
            /\ ~Stands(i)
            /\ i > j => At(i, "none")
            /\ request[i].kind = "prompt" /\ request[i].connection = request[j].connection
                 => request[i].step \in {"none", "end"}

\* Who made a prompt or a deletion waits for the answer while the connection is there.
StillAwaited ==
    \A i \in Requests : ~At(i, "none") =>
        /\ request[i].connection <= current
        /\ request[i].kind \in {"prompt", "delete"} /\ phase = "serving"
             /\ request[i].connection = current /\ ~At(i, "end") => request[i].pending

AnswersEnd ==
    \A k \in DOMAIN inbox : "of" \in DOMAIN inbox[k] => At(inbox[k].of, "end")

Orderly == InTurn /\ KindsFit /\ CreatedFirst /\ DeletionIsLast /\ StillAwaited /\ AnswersEnd

-----------------------------------------------------------------------------
(* What is true of the entries.                                            *)

Occupied == {"building", "open", "closing"}

\* Where an entry is that is in use.
Placed ==
    /\ opening # 0 => entries[opening] = "building" /\ entry = 0 /\ evicting = 0
    /\ entry # 0 => entries[entry] \in {"open", "closing"} /\ evicting = 0
    /\ entry # 0 /\ entries[entry] = "closing" =>
         \E j \in Requests : At(j, "closing") /\ request[j].entry = entry
    /\ evicting # 0 => entries[evicting] = "closing"
    /\ \A e \in Entries : entries[e] \in Occupied => e \in {opening, entry, evicting}
    /\ phase = "closed" => opening = 0 /\ entry = 0 /\ evicting = 0

\* Who has got the entry; a load may find that it is not the session's any more.
Holds(i) == request[i].kind # "load" /\ request[i].step \in {"opened", "work", "running", "closing", "forgetting"}

HoldersAgree ==
    \A i, j \in Requests : Holds(i) /\ Holds(j) => request[i].entry = request[j].entry /\ request[i].entry # 0

HoldersHaveIt ==
    \A i \in Requests : Holds(i) =>
        /\ At(i, "opened") => request[i].entry \in {opening, entry}
        /\ phase # "closed" /\ request[i].step \in {"work", "running", "closing"}
             /\ (\A j \in Requests : ~Forgets(j)) => request[i].entry = entry

RunsAreKnown ==
    /\ \A i \in Requests : At(i, "running") => request[i].entry \in running
    /\ \A i, j \in Requests : At(i, "running") /\ At(j, "running") => i = j

Gone ==
    \A j \in Requests : Forgets(j) =>
        /\ entry = 0 /\ opening = 0
        /\ \A i \in Requests : ~At(i, "get")
        /\ ~At(j, "forgetting") => ~catalog

BuiltForSomebody ==
    (\E e \in Entries : entries[e] # "none") =>
        \E i \in Requests : request[i].step \notin {"none", "sent", "get"}

Table == Placed /\ HoldersAgree /\ HoldersHaveIt /\ RunsAreKnown /\ Gone /\ BuiltForSomebody

HostInv == HostTypeOK /\ Orderly /\ Table

-----------------------------------------------------------------------------
(* Types.                                                                  *)

LEMMA HostNumbers ==
    /\ MaxRequests \in Nat /\ MaxConnections \in Nat /\ MaxEntries \in Nat /\ MaxEvents \in Nat
    /\ MaxRequests >= 1 /\ MaxConnections >= 1 /\ MaxEvents >= 1
    /\ -1 \in -1..MaxEvents /\ 0 \in -1..MaxEvents /\ 0 \in 0..MaxEntries /\ 0 \in 0..MaxRequests
    /\ Requests \subseteq 0..MaxRequests /\ Entries \subseteq 0..MaxEntries /\ 0 \notin Requests /\ 0 \notin Entries
  BY HostAssumption DEF HostAssumption, Requests, Entries

\* What the numbers and the frames of one more event are.
LEMMA OneMore ==
    ASSUME sequence \in Nat
    PROVE  /\ Numbers(1) = <<sequence + 1>>
           /\ Frames(Numbers(1)) = <<[event |-> sequence + 1]>>
  <1>1. Numbers(1) = <<sequence + 1>>
    BY DEF Numbers
  <1> QED BY <1>1 DEF Frames

LEMMA FramesTyped ==
    ASSUME NEW s \in Seq(1..MaxEvents)
    PROVE  /\ Frames(s) \in Seq(Event) /\ Len(Frames(s)) = Len(s)
           /\ \A k \in 1..Len(s) : Frames(s)[k] = [event |-> s[k]]
  <1>1. Len(s) \in Nat /\ DOMAIN s = 1..Len(s) /\ \A k \in 1..Len(s) : s[k] \in 1..MaxEvents
    BY LenProperties, ElementOfSeq
  <1>2. Frames(s) = [k \in 1..Len(s) |-> [event |-> s[k]]]
    BY <1>1 DEF Frames
  <1>3. Frames(s) \in [1..Len(s) -> Event]
    BY <1>1, <1>2 DEF Event
  <1>4. Frames(s) \in Seq(Event)
    BY <1>1, <1>3
  <1>5. Len(Frames(s)) = Len(s)
    BY <1>1, <1>2, <1>4, LenProperties
  <1> QED BY <1>2, <1>4, <1>5

LEMMA PublishTyped ==
    ASSUME HostTypeOK, Publish(1)
    PROVE  /\ sequence' = sequence + 1 /\ sequence' \in 0..MaxEvents
           /\ kept' = (IF loading # 0 THEN Append(kept, sequence + 1) ELSE kept)
           /\ inbox' = (IF loading = 0 /\ Listens THEN Append(inbox, [event |-> sequence + 1]) ELSE inbox)
           /\ kept' \in Seq(1..MaxEvents) /\ inbox' \in Seq(Event \cup Answer)
  <1>1. /\ sequence \in Nat /\ sequence + 1 \in 1..MaxEvents /\ sequence' = sequence + 1
        /\ kept \in Seq(1..MaxEvents) /\ inbox \in Seq(Event \cup Answer)
    BY HostNumbers DEF HostTypeOK, Publish
  <1>2. [event |-> sequence + 1] \in Event \cup Answer
    BY <1>1 DEF Event
  <1>3. kept \o <<sequence + 1>> = Append(kept, sequence + 1)
    BY <1>1, AppendIsConcat
  <1>4. inbox \o <<[event |-> sequence + 1]>> = Append(inbox, [event |-> sequence + 1])
    BY <1>1, <1>2, AppendIsConcat
  <1>5. /\ kept' = IF loading # 0 THEN Append(kept, sequence + 1) ELSE kept
        /\ inbox' = IF loading = 0 /\ Listens THEN Append(inbox, [event |-> sequence + 1]) ELSE inbox
    BY <1>1, <1>3, <1>4, OneMore DEF Publish
  <1>6. Append(kept, sequence + 1) \in Seq(1..MaxEvents)
    BY <1>1, AppendProperties
  <1>7. Append(inbox, [event |-> sequence + 1]) \in Seq(Event \cup Answer)
    BY <1>1, <1>2, AppendProperties
  <1>8. kept' \in Seq(1..MaxEvents)
    BY <1>1, <1>5, <1>6
  <1>9. inbox' \in Seq(Event \cup Answer)
    BY <1>1, <1>5, <1>7
  <1>10. sequence' \in 0..MaxEvents
    BY <1>1
  <1> QED BY <1>1, <1>5, <1>8, <1>9, <1>10

LEMMA ReplyTyped ==
    ASSUME HostTypeOK, NEW i \in Requests, Reply(i)
    PROVE  /\ kept' \in Seq(1..MaxEvents) /\ inbox' \in Seq(Event \cup Answer)
           /\ After(request[i].at) \in Seq(1..MaxEvents)
  <1>1. kept \in Seq(1..MaxEvents) /\ inbox \in Seq(Event \cup Answer) /\ request[i].at \in -1..MaxEvents
    BY DEF HostTypeOK, Request
  <1>2. After(request[i].at) \in Seq(1..MaxEvents)
    BY <1>1, OnlyTyped DEF After
  <1>3. << >> \in Seq(1..MaxEvents)
    BY EmptySeq
  <1> DEFINE answer == [of |-> i, at |-> IF request[i].ok THEN request[i].at ELSE -1]
  <1>4. answer \in Event \cup Answer
    BY <1>1, HostNumbers DEF Answer
  <1> DEFINE more == Frames(IF loading = i THEN After(request[i].at) ELSE << >>)
  <1>5. more \in Seq(Event \cup Answer)
    <2> DEFINE numbers == IF loading = i THEN After(request[i].at) ELSE << >>
    <2>1. numbers \in Seq(1..MaxEvents)
      BY <1>2, <1>3
    <2> HIDE DEF numbers
    <2>2. Frames(numbers) \in Seq(Event)
      BY <2>1, FramesTyped
    <2>3. Frames(numbers) \in Seq(Event \cup Answer)
      BY <2>2
    <2> QED BY <2>3 DEF numbers
  <1>7. inbox' = IF ~Live(i) THEN inbox ELSE Append(inbox, answer) \o more
    BY DEF Reply
  <1> HIDE DEF answer, more
  <1>6. Append(inbox, answer) \o more \in Seq(Event \cup Answer)
    BY <1>1, <1>4, <1>5, AppendProperties, ConcatProperties
  <1>8. kept' = IF loading = i THEN << >> ELSE kept
    BY DEF Reply
  <1> QED BY <1>1, <1>2, <1>3, <1>6, <1>7, <1>8

\* Each step leaves the host and its connection well typed.
LEMMA CallsTyped ==
    ASSUME HostTypeOK, NEW i \in Requests,
           Send(i) \/ Abandon(i) \/ Receive(i) \/ Enter(i) \/ Attach(i) \/ Other(i) \/ Deleted(i)
    PROVE  HostTypeOK'
  <1>1. /\ MaxRequests \in Nat /\ MaxConnections \in Nat /\ MaxEntries \in Nat /\ MaxEvents \in Nat
        /\ -1 \in -1..MaxEvents /\ 0 \in 0..MaxEntries /\ request[i] \in Request
    BY HostNumbers DEF HostTypeOK
  <1>2. request' \in [Requests -> Request]
    <2>1. CASE Send(i)
      <3>1. PICK kind \in Kinds :
               request' = [request EXCEPT ![i] = [Unused EXCEPT !.kind = kind, !.step = "sent",
                                                               !.connection = current, !.pending = TRUE]]
        BY <2>1 DEF Send
      <3>2. [Unused EXCEPT !.kind = kind, !.step = "sent", !.connection = current, !.pending = TRUE] \in Request
        BY <1>1 DEF Unused, Request, HostTypeOK
      <3> QED BY <3>1, <3>2 DEF HostTypeOK
    <2>2. CASE Abandon(i)
      BY <1>1, <2>2 DEF HostTypeOK, Abandon, Request
    <2>3. CASE Receive(i)
      <3>1. [request[i] EXCEPT !.step = "reply", !.ok = FALSE] \in Request
        BY <1>1 DEF Request
      <3>2. [request[i] EXCEPT !.step = "get"] \in Request
        BY <1>1 DEF Request
      <3>3. Fail(i) \/ Go(i, "get")
        BY <2>3 DEF Receive
      <3> QED BY <3>1, <3>2, <3>3 DEF HostTypeOK, Fail, Go
    <2>4. CASE Enter(i)
      BY <1>1, <2>4 DEF HostTypeOK, Enter, Request, Go
    <2>5. CASE Attach(i)
      <3>1. PICK ok \in BOOLEAN, at \in {-1, sequence} : Settle(i, ok, at)
        BY <2>5 DEF Attach
      <3>2. at \in -1..MaxEvents
        BY <1>1 DEF HostTypeOK
      <3>3. [request[i] EXCEPT !.step = "reply", !.ok = ok, !.at = at] \in Request
        BY <1>1, <3>2 DEF Request
      <3> QED BY <3>1, <3>3 DEF HostTypeOK, Settle
    <2>6. CASE Other(i)
      <3>1. Settle(i, request[i].connection \in attached, -1)
        BY <2>6 DEF Other
      <3> DEFINE ok == request[i].connection \in attached
      <3>2. [request[i] EXCEPT !.step = "reply", !.ok = ok, !.at = -1] \in Request
        <4>1. ok \in BOOLEAN
          OBVIOUS
        <4> HIDE DEF ok
        <4> QED BY <1>1, <4>1 DEF Request
      <3> QED BY <3>1, <3>2 DEF HostTypeOK, Settle
    <2>7. CASE Deleted(i)
      <3>1. [request[i] EXCEPT !.step = "reply", !.ok = TRUE, !.at = -1] \in Request
        BY <1>1 DEF Request
      <3> QED BY <2>7, <3>1 DEF HostTypeOK, Settle, Deleted
    <2> QED BY <2>1, <2>2, <2>3, <2>4, <2>5, <2>6, <2>7
  <1>3. view' \in -1..MaxEvents /\ loading' \in 0..MaxRequests
    <2>1. view' \in {view, -1}
      BY DEF Send, Abandon, Receive, Enter, Attach, Other, Deleted, wire, peer, life
    <2>2. loading' \in {loading, i}
      BY DEF Send, Abandon, Receive, Enter, Attach, Other, Deleted, wire, peer, life
    <2> QED BY <1>1, <2>1, <2>2 DEF HostTypeOK, Requests
  <1>4. attached' \subseteq 1..MaxConnections
    BY <1>1 DEF HostTypeOK, Send, Abandon, Receive, Enter, Attach, Other, Deleted, wire, peer, life, Request
  <1> QED BY <1>2, <1>3, <1>4 DEF HostTypeOK, Send, Abandon, Receive, Enter, Attach, Other, Deleted, wire, peer, life

LEMMA WorkTyped ==
    ASSUME HostTypeOK, HoldersAgree, NEW i \in Requests,
           Get(i) \/ Prompt(i) \/ RunEnds(i) \/ Delete(i) \/ Deleting(i) \/ Reply(i)
    PROVE  HostTypeOK'
  <1>1. /\ MaxRequests \in Nat /\ MaxConnections \in Nat /\ MaxEntries \in Nat /\ MaxEvents \in Nat
        /\ -1 \in -1..MaxEvents /\ 0 \in 0..MaxEntries /\ request[i] \in Request
    BY HostNumbers DEF HostTypeOK
  <1>2. ASSUME NEW ok \in BOOLEAN, Settle(i, ok, -1)
        PROVE  request' \in [Requests -> Request]
    <2>1. [request[i] EXCEPT !.step = "reply", !.ok = ok, !.at = -1] \in Request
      BY <1>1 DEF Request
    <2> QED BY <1>2, <2>1 DEF HostTypeOK, Settle
  <1>3. ASSUME NEW step \in {"running", "closing", "forgetting"}, Go(i, step)
        PROVE  request' \in [Requests -> Request]
    <2>1. [request[i] EXCEPT !.step = step] \in Request
      BY <1>1 DEF Request
    <2> QED BY <1>3, <2>1 DEF HostTypeOK, Go
  <1>4. CASE Get(i)
    <2>1. ASSUME NEW e \in 0..MaxEntries, request' = [request EXCEPT ![i].step = "opened", ![i].entry = e]
          PROVE  request' \in [Requests -> Request]
      <3>1. [request[i] EXCEPT !.step = "opened", !.entry = e] \in Request
        BY <1>1 DEF Request
      <3> QED BY <2>1, <3>1 DEF HostTypeOK
    <2>2. CASE Fail(i) /\ UNCHANGED <<opening, entries>>
      BY <1>1, <1>4, <2>2 DEF HostTypeOK, Fail, Get, Request, wire, peer
    <2>3. CASE /\ UNCHANGED <<opening, entries>>
               /\ request' = [request EXCEPT ![i].step = "opened", ![i].entry = IF opening # 0 THEN opening ELSE entry]
      <3>1. request' \in [Requests -> Request]
        BY <2>1, <2>3 DEF HostTypeOK
      <3> QED BY <1>4, <2>3, <3>1 DEF HostTypeOK, Get, wire, peer
    <2>4. CASE \E e \in Build :
                  /\ opening' = e /\ entries' = [entries EXCEPT ![e] = "building"]
                  /\ request' = [request EXCEPT ![i].step = "opened", ![i].entry = e]
      <3>1. PICK e \in Entries :
                  /\ opening' = e /\ entries' = [entries EXCEPT ![e] = "building"]
                  /\ request' = [request EXCEPT ![i].step = "opened", ![i].entry = e]
        BY <2>4 DEF Build
      <3>2. e \in 0..MaxEntries
        BY <1>1 DEF Entries
      <3>3. request' \in [Requests -> Request]
        BY <2>1, <3>1, <3>2
      <3> QED BY <1>4, <3>1, <3>2, <3>3 DEF HostTypeOK, Get, wire, peer
    <2> QED BY <1>4, <2>2, <2>3, <2>4 DEF Get
  <1>5. CASE Prompt(i)
    <2>1. CASE MayRun(i)
      <3>1. running' = running \cup {request[i].entry} /\ Go(i, "running") /\ Publish(1)
        BY <1>5, <2>1 DEF Prompt
      <3>2. request[i].entry \in Entries
        <4>1. request[i].entry # 0
          BY <1>5 DEF HoldersAgree, Holds, Prompt, At
        <4> QED BY <1>1, <4>1 DEF Request, Entries
      <3> QED BY <1>3, <1>5, <3>1, <3>2, PublishTyped DEF HostTypeOK, Prompt
    <2>2. CASE ~MayRun(i)
      BY <1>2, <1>5, <2>2 DEF HostTypeOK, Prompt
    <2> QED BY <2>1, <2>2
  <1>6. CASE RunEnds(i)
    <2>1. \E ok \in BOOLEAN : Settle(i, ok, -1)
      BY <1>6 DEF RunEnds
    <2>2. request' \in [Requests -> Request]
      BY <1>2, <2>1
    <2> QED BY <1>6, <2>2, PublishTyped DEF HostTypeOK, RunEnds
  <1>7. CASE Delete(i)
    BY <1>2, <1>3, <1>7 DEF HostTypeOK, Delete, wire, peer
  <1>8. CASE Deleting(i)
    <2>1. request' \in [Requests -> Request]
      BY <1>3, <1>8 DEF Deleting
    <2> QED BY <1>1, <1>8, <2>1 DEF HostTypeOK, Deleting, wire, peer
  <1>9. CASE Reply(i)
    <2>1. [request[i] EXCEPT !.step = "end", !.entry = 0, !.at = -1] \in Request
      BY <1>1 DEF Request
    <2>2. request' \in [Requests -> Request] /\ loading' \in 0..MaxRequests
      BY <1>1, <1>9, <2>1 DEF HostTypeOK, Reply
    <2> QED BY <1>9, <2>2, ReplyTyped DEF HostTypeOK, Reply, life
  <1> QED BY <1>4, <1>5, <1>6, <1>7, <1>8, <1>9

\* A request that the controller does not wait for any more is as it was otherwise.
LEMMA NoLongerAwaited ==
    ASSUME HostTypeOK, NEW i \in Requests, request' = [request EXCEPT ![i].pending = FALSE]
    PROVE  /\ request' \in [Requests -> Request]
           /\ \A j \in Requests :
                /\ request'[j].kind = request[j].kind /\ request'[j].connection = request[j].connection
                /\ request'[j].step = request[j].step /\ request'[j].at = request[j].at
                /\ request'[j].ok = request[j].ok /\ (request'[j].pending => request[j].pending)
  <1> DEFINE r == request[i]
             q == [r EXCEPT !.pending = FALSE]
  <1>1. request \in [Requests -> Request]
    BY DEF HostTypeOK
  <1>2. \A j \in Requests : request'[j] = IF j = i THEN q ELSE request[j]
    BY <1>1
  <1>3. request' = [request EXCEPT ![i] = q]
    OBVIOUS
  <1> HIDE DEF q
  <1>4. r \in Request
    BY <1>1
  <1> HIDE DEF r
  <1>5. /\ q \in Request /\ q.kind = r.kind /\ q.connection = r.connection /\ q.step = r.step
        /\ q.at = r.at /\ q.ok = r.ok /\ ~q.pending
    BY <1>4 DEF q, Request
  <1>6. request' \in [Requests -> Request]
    BY <1>1, <1>3, <1>5
  <1> QED BY <1>2, <1>5, <1>6 DEF r

LEMMA HostTyped ==
    ASSUME HostTypeOK,
           Read \/ LoseConnection \/ PiEvent \/ Release \/ Released \/ Opened \/ Stop \/ Close
    PROVE  HostTypeOK'
  <1>1. /\ MaxRequests \in Nat /\ MaxConnections \in Nat /\ MaxEntries \in Nat /\ MaxEvents \in Nat
        /\ << >> \in Seq(1..MaxEvents) /\ << >> \in Seq(Event \cup Answer)
        /\ -1 \in -1..MaxEvents /\ 0 \in 0..MaxEntries /\ 0 \in 0..MaxRequests
    BY HostNumbers, EmptySeq
  <1>2. CASE Read
    <2> DEFINE f == Head(inbox)
    <2>1. f \in Event \cup Answer /\ inbox' \in Seq(Event \cup Answer)
      BY <1>2, HeadTailProperties DEF Read, HostTypeOK
    <2>2. CASE "event" \in DOMAIN f
      <3>1. f \in Event
        BY <2>1, <2>2 DEF Answer
      <3>2. view' \in {-1, f.event} /\ UNCHANGED request
        BY <1>2, <2>2 DEF Read
      <3>3. f.event \in 1..MaxEvents
        BY <3>1 DEF Event
      <3>4. view' \in -1..MaxEvents
        <4>1. f.event \in -1..MaxEvents
          BY <1>1, <3>3
        <4> QED BY <1>1, <3>2, <4>1
      <3> QED BY <1>2, <2>1, <3>2, <3>4 DEF Read, HostTypeOK, life, peer
    <2>3. CASE "event" \notin DOMAIN f
      <3>1. f \in Answer
        BY <2>1, <2>3 DEF Event
      <3>2. f.of \in Requests /\ f.at \in -1..MaxEvents
        BY <3>1 DEF Answer
      <3>3. view' \in -1..MaxEvents
        BY <1>2, <2>3, <3>2 DEF Read, Projects, HostTypeOK
      <3>4. request' = [request EXCEPT ![f.of].pending = FALSE]
        BY <1>2, <2>3 DEF Read
      <3>5. request' \in [Requests -> Request]
        BY <3>2, <3>4, NoLongerAwaited
      <3> QED BY <1>2, <2>1, <3>3, <3>5 DEF Read, HostTypeOK, life, peer
    <2> QED BY <2>2, <2>3
  <1>3. CASE LoseConnection
    <2>1. ASSUME NEW i \in Requests
          PROVE  [request[i] EXCEPT !.pending = FALSE, !.step = IF @ = "sent" THEN "end" ELSE @,
                                    !.ok = @ /\ request[i].step # "sent"] \in Request
      BY DEF HostTypeOK, Request
    <2>2. request' \in [Requests -> Request]
      BY <1>3, <2>1 DEF LoseConnection
    <2>3. current' \in 1..MaxConnections
      <3>1. current < MaxConnections /\ current' = current + 1
        BY <1>3, Zenon DEF LoseConnection
      <3> QED BY <1>1, <3>1 DEF HostTypeOK
    <2>4. /\ loading' \in 0..MaxRequests /\ kept' \in Seq(1..MaxEvents)
          /\ inbox' \in Seq(Event \cup Answer) /\ view' \in -1..MaxEvents
      BY <1>1, <1>3 DEF LoseConnection
    <2>5. UNCHANGED <<phase, catalog, entry, opening, evicting, entries, running, sequence, attached>>
      BY <1>3 DEF LoseConnection, life
    <2> QED BY <2>2, <2>3, <2>4, <2>5 DEF HostTypeOK
  <1>4. CASE PiEvent
    BY <1>4, PublishTyped DEF PiEvent, HostTypeOK, life
  <1>5. CASE Release
    BY <1>1, <1>5 DEF Release, HostTypeOK, peer, wire, Entries
  <1>6. CASE Released
    BY <1>1, <1>6 DEF Released, HostTypeOK, peer, wire, Entries
  <1>7. CASE Opened
    <2>1. PICK built \in BOOLEAN :
             LET good == built /\ ~Stopped
             IN /\ entries' = [entries EXCEPT ![opening] = IF good THEN "open" ELSE "none"]
                /\ entry' = IF good THEN opening ELSE entry
                /\ request' = IF good THEN request
                              ELSE [i \in Requests |-> IF At(i, "opened") /\ request[i].entry = opening
                                                       THEN [request[i] EXCEPT !.step = "reply", !.entry = 0, !.ok = FALSE]
                                                       ELSE request[i]]
                /\ catalog' = (catalog \/ (good /\ \E i \in Requests : request[i].kind = "create" /\ request[i].entry = opening))
      BY <1>7 DEF Opened
    <2>2. ASSUME NEW i \in Requests
          PROVE  [request[i] EXCEPT !.step = "reply", !.entry = 0, !.ok = FALSE] \in Request
      <3> DEFINE r == request[i]
      <3>1. r \in Request
        BY DEF HostTypeOK
      <3> HIDE DEF r
      <3>2. [r EXCEPT !.step = "reply", !.entry = 0, !.ok = FALSE] \in Request
        BY <1>1, <3>1 DEF Request
      <3> QED BY <3>2 DEF r
    <2>3. request' \in [Requests -> Request]
      BY <2>1, <2>2 DEF HostTypeOK
    <2>4. entries' \in [Entries -> {"none", "building", "open", "closing", "closed"}]
      BY <2>1 DEF HostTypeOK
    <2>5. entry' \in 0..MaxEntries /\ catalog' \in BOOLEAN
      BY <2>1 DEF HostTypeOK
    <2> QED BY <1>1, <1>7, <2>3, <2>4, <2>5 DEF Opened, HostTypeOK, peer, wire
  <1>8. CASE Stop
    <2>1. ASSUME NEW i \in Requests
          PROVE  [request[i] EXCEPT !.pending = FALSE] \in Request
      BY DEF HostTypeOK, Request
    <2>2. request' \in [Requests -> Request]
      BY <1>8, <2>1 DEF Stop
    <2> QED BY <1>1, <1>8, <2>2 DEF Stop, HostTypeOK, life
  <1>9. CASE Close
    BY <1>1, <1>9 DEF Close, HostTypeOK, ShutEntry, peer, wire
  <1> QED BY <1>2, <1>3, <1>4, <1>5, <1>6, <1>7, <1>8, <1>9

-----------------------------------------------------------------------------
(* The requests keep their order.                                          *)

\* A request that is under way goes on.
Advances(i) ==
    /\ request'[i].kind = request[i].kind /\ request'[i].connection = request[i].connection
    /\ request'[i].pending = request[i].pending
    /\ request[i].step \notin {"none", "end"} /\ request'[i].step \notin {"none", "sent"}
    /\ At(i, "sent") => \A j \in 1..(i - 1) : ~At(j, "sent")
    /\ request'[i].step = "running" => request[i].kind = "prompt"
    /\ request'[i].step \in {"closing", "forgetting"} => request[i].kind = "delete"

\* What is new in the inbox answers nobody, or a request that has ended.
AnswersKept ==
    \A k \in DOMAIN inbox' : "of" \in DOMAIN inbox'[k] =>
        \/ \E l \in DOMAIN inbox : "of" \in DOMAIN inbox[l] /\ inbox[l].of = inbox'[k].of
        \/ inbox'[k].of \in Requests /\ request'[inbox'[k].of].step = "end"

LEMMA AnswerTyped ==
    ASSUME HostTypeOK, NEW k \in DOMAIN inbox, "of" \in DOMAIN inbox[k]
    PROVE  inbox[k] \in Answer /\ inbox[k].of \in Requests /\ inbox[k].at \in -1..MaxEvents
  <1>1. inbox[k] \in Event \cup Answer
    BY LenProperties, ElementOfSeq DEF HostTypeOK
  <1>2. inbox[k] \in Answer
    BY <1>1 DEF Event
  <1> QED BY <1>2 DEF Answer

LEMMA OrderlyAdvances ==
    ASSUME HostTypeOK, Orderly, \A i \in Requests : request'[i] = request[i] \/ Advances(i),
           UNCHANGED <<current, phase>>, AnswersKept
    PROVE  Orderly'
  <1> USE DEF Orderly, Advances, At
  <1>0. Requests \subseteq Nat
    BY DEF Requests
  <1>1. InTurn'
    <2>1. ASSUME NEW i \in Requests, NEW j \in Requests, i < j
          PROVE  /\ request'[i].step = "none" => request'[j].step = "none"
                 /\ request'[i].step = "sent" => request'[j].step \in {"none", "sent"}
      <3>1. request'[i].step = "none" => request'[j].step = "none"
        BY <2>1 DEF InTurn
      <3>2. ASSUME request'[i].step = "sent" PROVE request'[j].step \in {"none", "sent"}
        <4>1. request'[i] = request[i] /\ At(i, "sent") /\ request[j].step \in {"none", "sent"}
          BY <2>1, <3>2 DEF InTurn
        <4>2. i \in 1..(j - 1)
          BY <2>1, <1>0 DEF Requests
        <4> QED BY <4>1, <4>2
      <3> QED BY <3>1, <3>2
    <2> QED BY <2>1 DEF InTurn
  <1>2. KindsFit'
    BY DEF KindsFit
  <1>3. CreatedFirst'
    BY DEF CreatedFirst
  <1>4. DeletionIsLast'
    <2>1. \A j \in Requests : Stands(j)' => Stands(j)
      BY DEF Stands
    <2> QED BY <2>1 DEF DeletionIsLast
  <1>5. StillAwaited'
    BY DEF StillAwaited
  <1>6. AnswersEnd'
    <2>1. ASSUME NEW k \in DOMAIN inbox', "of" \in DOMAIN inbox'[k]
          PROVE  request'[inbox'[k].of].step = "end"
      <3>1. CASE inbox'[k].of \in Requests /\ request'[inbox'[k].of].step = "end"
        BY <3>1
      <3>2. CASE \E l \in DOMAIN inbox : "of" \in DOMAIN inbox[l] /\ inbox[l].of = inbox'[k].of
        <4>1. PICK l \in DOMAIN inbox : "of" \in DOMAIN inbox[l] /\ inbox[l].of = inbox'[k].of
          BY <3>2
        <4>2. inbox[l].of \in Requests /\ request[inbox[l].of].step = "end"
          BY <4>1, AnswerTyped DEF AnswersEnd
        <4> QED BY <4>1, <4>2
      <3> QED BY <2>1, <3>1, <3>2 DEF AnswersKept
    <2> QED BY <2>1 DEF AnswersEnd
  <1> QED BY <1>1, <1>2, <1>3, <1>4, <1>5, <1>6

LEMMA NothingAnswered ==
    ASSUME UNCHANGED inbox
    PROVE  AnswersKept
  BY DEF AnswersKept

LEMMA PublishAnswersNobody ==
    ASSUME HostTypeOK, Publish(1)
    PROVE  AnswersKept
  <1>1. inbox \in Seq(Event \cup Answer) /\ Len(inbox) \in Nat /\ DOMAIN inbox = 1..Len(inbox)
    BY LenProperties DEF HostTypeOK
  <1> DEFINE event == [event |-> sequence + 1]
  <1>2. inbox' = inbox \/ inbox' = Append(inbox, event)
    BY PublishTyped
  <1>3. event \in Event \cup Answer /\ "of" \notin DOMAIN event
    BY HostNumbers DEF Event, HostTypeOK, Publish
  <1> HIDE DEF event
  <1>4. CASE inbox' = Append(inbox, event)
    <2>1. /\ DOMAIN inbox' = 1..(Len(inbox) + 1) /\ inbox'[Len(inbox) + 1] = event
          /\ \A k \in 1..Len(inbox) : inbox'[k] = inbox[k]
      BY <1>1, <1>3, <1>4, AppendProperties, LenProperties
    <2> QED BY <1>1, <1>3, <2>1 DEF AnswersKept
  <1> QED BY <1>2, <1>4, NothingAnswered

LEMMA ConcatPlaces ==
    ASSUME NEW S, NEW s \in Seq(S), NEW t \in Seq(S)
    PROVE  /\ s \o t \in Seq(S) /\ Len(s \o t) = Len(s) + Len(t) /\ Len(s) \in Nat /\ Len(t) \in Nat
           /\ \A k \in 1..Len(s) : (s \o t)[k] = s[k]
           /\ \A k \in 1..Len(t) : (s \o t)[Len(s) + k] = t[k]
  <1>1. /\ s \o t \in Seq(S) /\ Len(s \o t) = Len(s) + Len(t) /\ Len(s) \in Nat /\ Len(t) \in Nat
        /\ \A k \in 1..(Len(s) + Len(t)) : (s \o t)[k] = IF k <= Len(s) THEN s[k] ELSE t[k - Len(s)]
    BY ConcatProperties, LenProperties
  <1>2. \A k \in 1..Len(s) : (s \o t)[k] = s[k]
    BY <1>1
  <1>3. ASSUME NEW k \in 1..Len(t) PROVE (s \o t)[Len(s) + k] = t[k]
    <2>1. Len(s) + k \in 1..(Len(s) + Len(t)) /\ ~(Len(s) + k <= Len(s)) /\ (Len(s) + k) - Len(s) = k
      BY <1>1
    <2> QED BY <1>1, <2>1
  <1> QED BY <1>1, <1>2, <1>3

\* What Reply puts into the inbox, at its place.
LEMMA ReplyFrames ==
    ASSUME HostTypeOK, NEW i \in Requests, Reply(i), Live(i)
    PROVE  LET n == Len(inbox)
               more == IF loading = i THEN After(request[i].at) ELSE << >>
           IN /\ n \in Nat /\ more \in Seq(1..MaxEvents) /\ Len(more) \in Nat
              /\ Len(inbox') = n + 1 + Len(more) /\ DOMAIN inbox' = 1..(n + 1 + Len(more))
              /\ \A k \in 1..n : inbox'[k] = inbox[k]
              /\ inbox'[n + 1] = [of |-> i, at |-> IF request[i].ok THEN request[i].at ELSE -1]
              /\ \A k \in 1..Len(more) : inbox'[n + 1 + k] = [event |-> more[k]]
  <1> DEFINE n == Len(inbox)
             more == IF loading = i THEN After(request[i].at) ELSE << >>
             answer == [of |-> i, at |-> IF request[i].ok THEN request[i].at ELSE -1]
             S == Event \cup Answer
  <1>1. inbox \in Seq(S) /\ n \in Nat /\ request[i].at \in -1..MaxEvents
    BY LenProperties DEF HostTypeOK, Request
  <1>2. more \in Seq(1..MaxEvents) /\ Len(more) \in Nat
    <2>1. After(request[i].at) \in Seq(1..MaxEvents) /\ << >> \in Seq(1..MaxEvents)
      BY ReplyTyped, EmptySeq
    <2>2. more \in Seq(1..MaxEvents)
      BY <2>1
    <2> QED BY <2>2, LenProperties
  <1>3. answer \in S
    BY <1>1, HostNumbers DEF Answer
  <1>4. inbox' = Append(inbox, answer) \o Frames(more)
    BY DEF Reply
  <1> HIDE DEF answer, more
  <1>5. /\ Append(inbox, answer) \in Seq(S) /\ Len(Append(inbox, answer)) = n + 1
        /\ \A k \in 1..n : Append(inbox, answer)[k] = inbox[k]
        /\ Append(inbox, answer)[n + 1] = answer
    BY <1>1, <1>3, AppendProperties
  <1>6. /\ Frames(more) \in Seq(S) /\ Len(Frames(more)) = Len(more)
        /\ \A k \in 1..Len(more) : Frames(more)[k] = [event |-> more[k]]
    <2>1. Frames(more) \in Seq(Event)
      BY <1>2, FramesTyped
    <2> QED BY <1>2, <2>1, FramesTyped
  <1> HIDE DEF S
  <1>7. /\ inbox' \in Seq(S) /\ Len(inbox') = n + 1 + Len(more)
        /\ \A k \in 1..(n + 1) : inbox'[k] = Append(inbox, answer)[k]
        /\ \A k \in 1..Len(more) : inbox'[n + 1 + k] = Frames(more)[k]
    <2> DEFINE s == Append(inbox, answer)
               t == Frames(more)
    <2>1. s \in Seq(S) /\ t \in Seq(S) /\ Len(s) = n + 1 /\ Len(t) = Len(more) /\ inbox' = s \o t
      BY <1>4, <1>5, <1>6
    <2> HIDE DEF s, t
    <2>3. /\ s \o t \in Seq(S) /\ Len(s \o t) = Len(s) + Len(t)
          /\ \A k \in 1..Len(s) : (s \o t)[k] = s[k]
          /\ \A k \in 1..Len(t) : (s \o t)[Len(s) + k] = t[k]
      <3>1. s \in Seq(S) /\ t \in Seq(S)
        BY <2>1
      <3>2. s \o t \in Seq(S) /\ Len(s \o t) = Len(s) + Len(t)
        BY <3>1, ConcatPlaces
      <3>3. \A k \in 1..Len(s) : (s \o t)[k] = s[k]
        BY <3>1, ConcatPlaces
      <3>4. \A k \in 1..Len(t) : (s \o t)[Len(s) + k] = t[k]
        BY <3>1, ConcatPlaces
      <3> QED BY <3>2, <3>3, <3>4
    <2>2. /\ inbox' \in Seq(S) /\ Len(inbox') = n + 1 + Len(more)
          /\ \A k \in 1..(n + 1) : inbox'[k] = s[k]
          /\ \A k \in 1..Len(more) : inbox'[n + 1 + k] = t[k]
      BY <2>1, <2>3
    <2> QED BY <2>2 DEF s, t
  <1>8. DOMAIN inbox' = 1..(n + 1 + Len(more))
    BY <1>7, LenProperties
  <1>9. \A k \in 1..n : inbox'[k] = inbox[k]
    BY <1>1, <1>2, <1>5, <1>7
  <1>10. inbox'[n + 1] = answer
    <2>1. n + 1 \in 1..(n + 1)
      BY <1>1
    <2> QED BY <1>5, <1>7, <2>1
  <1>11. \A k \in 1..Len(more) : inbox'[n + 1 + k] = [event |-> more[k]]
    BY <1>1, <1>2, <1>6, <1>7
  <1> QED BY <1>1, <1>2, <1>7, <1>8, <1>9, <1>10, <1>11 DEF answer, more

LEMMA ReplyAnswers ==
    ASSUME HostTypeOK, NEW i \in Requests, Reply(i)
    PROVE  AnswersKept
  <1>1. CASE ~Live(i)
    BY <1>1, NothingAnswered DEF Reply
  <1>2. CASE Live(i)
    <2> DEFINE n == Len(inbox)
               more == IF loading = i THEN After(request[i].at) ELSE << >>
    <2>1. /\ n \in Nat /\ Len(more) \in Nat /\ DOMAIN inbox' = 1..(n + 1 + Len(more))
          /\ \A k \in 1..n : inbox'[k] = inbox[k]
          /\ inbox'[n + 1] = [of |-> i, at |-> IF request[i].ok THEN request[i].at ELSE -1]
          /\ \A k \in 1..Len(more) : inbox'[n + 1 + k] = [event |-> more[k]]
      BY <1>2, ReplyFrames
    <2>2. request'[i].step = "end" /\ DOMAIN inbox = 1..n
      BY LenProperties DEF Reply, HostTypeOK
    <2> HIDE DEF n, more
    <2>3. ASSUME NEW k \in DOMAIN inbox', "of" \in DOMAIN inbox'[k]
          PROVE  \/ \E l \in DOMAIN inbox : "of" \in DOMAIN inbox[l] /\ inbox[l].of = inbox'[k].of
                 \/ inbox'[k].of \in Requests /\ request'[inbox'[k].of].step = "end"
      <3>1. CASE k <= n
        BY <2>1, <2>2, <2>3, <3>1
      <3>2. CASE k = n + 1
        BY <2>1, <2>2, <3>2
      <3>3. CASE k > n + 1
        <4>1. k - (n + 1) \in 1..Len(more) /\ k = n + 1 + (k - (n + 1))
          BY <2>1, <3>3
        <4>2. inbox'[k] = [event |-> more[k - (n + 1)]]
          BY <2>1, <4>1
        <4> QED BY <2>3, <4>2
      <3> QED BY <2>1, <3>1, <3>2, <3>3
    <2> QED BY <2>3 DEF AnswersKept
  <1> QED BY <1>1, <1>2

LEMMA SendOrderly ==
    ASSUME HostTypeOK, Orderly, NEW i \in Requests, Send(i)
    PROVE  Orderly'
  <1>1. PICK kind \in Kinds :
           /\ MaySend(i, kind)
           /\ request' = [request EXCEPT ![i] = [Unused EXCEPT !.kind = kind, !.step = "sent",
                                                               !.connection = current, !.pending = TRUE]]
    BY DEF Send
  <1>2. /\ request'[i].kind = kind /\ request'[i].step = "sent" /\ request'[i].connection = current
        /\ request'[i].pending /\ \A j \in Requests \ {i} : request'[j] = request[j]
    BY <1>1 DEF HostTypeOK, Unused
  <1>3. /\ UNCHANGED <<phase, current, inbox>> /\ phase = "serving" /\ request[i].step = "none"
        /\ \A j \in 1..(i - 1) : request[j].step # "none"
    BY DEF Send, At
  <1>4. /\ \A j \in Requests : request[j].kind = "delete" => request[j].step = "end" /\ ~request[j].ok
        /\ kind # "other" => \A j \in Requests : request[j].pending => request[j].kind = "other"
        /\ IF kind = "create" THEN \A j \in Requests : request[j].step = "none"
           ELSE \E j \in Requests : request[j].kind = "create" /\ request[j].step = "end"
    BY <1>1 DEF MaySend, At
  <1>5. \A j \in Requests : j < i => j \in 1..(i - 1)
    BY DEF Requests
  <1> USE DEF Orderly, At
  <1>6. InTurn'
    <2>1. ASSUME NEW a \in Requests, NEW b \in Requests, a < b
          PROVE  /\ request'[a].step = "none" => request'[b].step = "none"
                 /\ request'[a].step = "sent" => request'[b].step \in {"none", "sent"}
      <3>1. request[a].step = "none" => request[b].step = "none"
        BY <2>1 DEF InTurn
      <3>2. request[a].step = "sent" => request[b].step \in {"none", "sent"}
        BY <2>1 DEF InTurn
      <3>3. b = i => request[a].step # "none"
        BY <1>3, <1>5, <2>1
      <3> QED BY <1>2, <1>3, <2>1, <3>1, <3>2, <3>3
    <2> QED BY <2>1 DEF InTurn
  <1>7. KindsFit'
    BY <1>2 DEF KindsFit
  <1>8. CreatedFirst'
    BY <1>2, <1>3, <1>4 DEF CreatedFirst
  <1>9. DeletionIsLast'
    <2>1. \A j \in Requests : ~Stands(j)
      BY <1>4 DEF Stands
    <2>2. \A j \in Requests \ {i} : ~Stands(j)'
      BY <1>2, <2>1 DEF Stands
    <2>3. \A j \in Requests : j > i => request'[j].step = "none"
      BY <1>2, <1>3 DEF InTurn, Requests
    <2>4. ASSUME kind = "delete", NEW j \in Requests \ {i}, request[j].kind = "prompt", request[j].connection = current
          PROVE  request[j].step \in {"none", "end"}
      BY <1>3, <1>4, <2>4 DEF StillAwaited
    <2> QED BY <1>2, <2>2, <2>3, <2>4 DEF DeletionIsLast, Stands
  <1>10. StillAwaited'
    <2>1. current \in Nat
      BY HostNumbers DEF HostTypeOK
    <2> QED BY <1>2, <1>3, <2>1 DEF StillAwaited
  <1>11. AnswersEnd'
    BY <1>2, <1>3, AnswerTyped DEF AnswersEnd
  <1> QED BY <1>6, <1>7, <1>8, <1>9, <1>10, <1>11

\* Nobody but whoever the controller gave up, or was answered, is not awaited.
LEMMA PendingOrderly ==
    ASSUME HostTypeOK, Orderly, NEW i \in Requests,
           request' = [request EXCEPT ![i].pending = FALSE],
           request[i].kind \in {"create", "load"} \/ At(i, "end"),
           UNCHANGED <<current, phase>>, AnswersKept
    PROVE  Orderly'
  <1>1. /\ \A j \in Requests : /\ request'[j].kind = request[j].kind /\ request'[j].step = request[j].step
                               /\ request'[j].connection = request[j].connection /\ request'[j].ok = request[j].ok
        /\ \A j \in Requests \ {i} : request'[j] = request[j]
    BY DEF HostTypeOK
  <1> USE DEF Orderly, At
  <1>2. InTurn' /\ KindsFit' /\ CreatedFirst'
    BY <1>1 DEF InTurn, KindsFit, CreatedFirst
  <1>3. DeletionIsLast'
    <2>1. \A j \in Requests : Stands(j)' <=> Stands(j)
      BY <1>1 DEF Stands
    <2> QED BY <1>1, <2>1 DEF DeletionIsLast
  <1>4. StillAwaited'
    BY <1>1 DEF StillAwaited
  <1>5. AnswersEnd'
    BY <1>1, AnswerTyped DEF AnswersEnd, AnswersKept
  <1> QED BY <1>2, <1>3, <1>4, <1>5

LEMMA ReadOrderly ==
    ASSUME HostTypeOK, Orderly, Read
    PROVE  Orderly'
  <1>1. /\ inbox \in Seq(Event \cup Answer) /\ Len(inbox) \in Nat /\ inbox # << >>
        /\ DOMAIN inbox = 1..Len(inbox) /\ inbox' = Tail(inbox)
    BY LenProperties DEF Read, HostTypeOK
  <1>2. /\ Len(inbox) >= 1 /\ 1 \in DOMAIN inbox /\ Head(inbox) = inbox[1]
        /\ DOMAIN inbox' = 1..(Len(inbox) - 1)
        /\ \A k \in 1..(Len(inbox) - 1) : inbox'[k] = inbox[k + 1]
    <2>1. /\ Len(inbox) # 0 /\ Head(inbox) = inbox[1] /\ Tail(inbox) \in Seq(Event \cup Answer)
          /\ Len(Tail(inbox)) = Len(inbox) - 1 /\ \A k \in 1..Len(Tail(inbox)) : Tail(inbox)[k] = inbox[k + 1]
      BY <1>1, HeadTailProperties, EmptySeq
    <2>2. DOMAIN Tail(inbox) = 1..Len(Tail(inbox))
      BY <2>1, LenProperties
    <2> QED BY <1>1, <2>1, <2>2
  <1>3. AnswersKept
    <2>1. ASSUME NEW k \in DOMAIN inbox' PROVE k + 1 \in DOMAIN inbox /\ inbox'[k] = inbox[k + 1]
      BY <1>1, <1>2
    <2> QED BY <2>1 DEF AnswersKept
  <1>4. UNCHANGED <<current, phase>>
    BY DEF Read
  <1>5. CASE "event" \in DOMAIN Head(inbox)
    BY <1>3, <1>4, <1>5, OrderlyAdvances DEF Read
  <1>6. CASE "event" \notin DOMAIN Head(inbox)
    <2>1. "of" \in DOMAIN inbox[1]
      <3>1. inbox[1] \in Event \cup Answer
        BY <1>1, <1>2, ElementOfSeq
      <3> QED BY <1>2, <1>6, <3>1 DEF Event, Answer
    <2>2. inbox[1].of \in Requests /\ At(inbox[1].of, "end")
      BY <1>2, <2>1, AnswerTyped DEF Orderly, AnswersEnd
    <2>3. request' = [request EXCEPT ![inbox[1].of].pending = FALSE]
      BY <1>2, <1>6 DEF Read
    <2> QED BY <1>3, <1>4, <2>2, <2>3, PendingOrderly
  <1> QED BY <1>5, <1>6

LEMMA LoseConnectionIs ==
    ASSUME HostTypeOK, LoseConnection
    PROVE  /\ UNCHANGED <<phase, catalog, entry, opening, evicting, entries, running, sequence, attached>>
           /\ current < MaxConnections /\ current' = current + 1 /\ phase = "serving"
           /\ loading' = 0 /\ kept' = << >> /\ inbox' = << >> /\ view' = -1
           /\ \A j \in Requests :
                /\ request'[j].kind = request[j].kind /\ request'[j].connection = request[j].connection
                /\ request'[j].step = IF request[j].step = "sent" THEN "end" ELSE request[j].step
                /\ request'[j].ok <=> request[j].ok /\ request[j].step # "sent"
                /\ request'[j].entry = request[j].entry /\ request'[j].at = request[j].at
                /\ request'[j].pending = FALSE
  <1>1. ASSUME NEW j \in Requests, NEW ok, ok <=> request[j].ok /\ request[j].step # "sent", 
               request'[j] = [request[j] EXCEPT !.pending = FALSE, !.step = IF @ = "sent" THEN "end" ELSE @, !.ok = ok]
        PROVE  /\ request'[j].kind = request[j].kind /\ request'[j].connection = request[j].connection
               /\ request'[j].step = IF request[j].step = "sent" THEN "end" ELSE request[j].step
               /\ request'[j].ok <=> request[j].ok /\ request[j].step # "sent"
               /\ request'[j].entry = request[j].entry /\ request'[j].at = request[j].at
               /\ request'[j].pending = FALSE
    BY <1>1 DEF HostTypeOK, Request
  <1>2. ASSUME NEW j \in Requests
        PROVE  request'[j] = [request[j] EXCEPT !.pending = FALSE, !.step = IF @ = "sent" THEN "end" ELSE @,
                                                !.ok = @ /\ request[j].step # "sent"]
    BY Zenon DEF LoseConnection
  <1>3. /\ UNCHANGED <<phase, catalog, entry, opening, evicting, entries, running, sequence, attached>>
        /\ current < MaxConnections /\ current' = current + 1 /\ phase = "serving"
        /\ loading' = 0 /\ kept' = << >> /\ inbox' = << >> /\ view' = -1
    <2>1. current < MaxConnections /\ current' = current + 1 /\ phase = "serving"
      BY Zenon DEF LoseConnection
    <2>2. loading' = 0 /\ kept' = << >> /\ inbox' = << >> /\ view' = -1
      BY Zenon DEF LoseConnection
    <2>3. UNCHANGED <<phase, catalog, entry, opening, evicting, entries, running, sequence, attached>>
      BY DEF LoseConnection, life
    <2> QED BY <2>1, <2>2, <2>3
  <1> QED BY <1>1, <1>2, <1>3

LEMMA LoseConnectionOrderly ==
    ASSUME HostTypeOK, Orderly, LoseConnection
    PROVE  Orderly'
  <1>1. \A j \in Requests :
           /\ request'[j].kind = request[j].kind /\ request'[j].connection = request[j].connection
           /\ request'[j].step = IF request[j].step = "sent" THEN "end" ELSE request[j].step
           /\ request'[j].ok <=> request[j].ok /\ request[j].step # "sent"
    BY LoseConnectionIs
  <1>2. UNCHANGED phase /\ current' = current + 1 /\ inbox' = << >> /\ current \in Nat
    <2>1. current \in Nat
      BY HostNumbers DEF HostTypeOK
    <2> QED BY <2>1, LoseConnectionIs
  <1> USE DEF Orderly, At
  <1>3. InTurn' /\ KindsFit' /\ CreatedFirst'
    BY <1>1 DEF InTurn, KindsFit, CreatedFirst
  <1>4. DeletionIsLast'
    <2>1. \A j \in Requests : Stands(j)' => Stands(j)
      BY <1>1 DEF Stands
    <2> QED BY <1>1, <2>1 DEF DeletionIsLast
  <1>5. StillAwaited'
    <2>1. \A j \in Requests : request[j].connection \in Nat
      BY HostNumbers DEF HostTypeOK, Request
    <2>2. \A j \in Requests : request'[j].step # "none" => request[j].connection <= current
      BY <1>1 DEF StillAwaited
    <2> QED BY <1>1, <1>2, <2>1, <2>2 DEF StillAwaited
  <1>6. AnswersEnd'
    BY <1>2 DEF AnswersEnd
  <1> QED BY <1>3, <1>4, <1>5, <1>6

LEMMA StopIs ==
    ASSUME HostTypeOK, Stop
    PROVE  \A j \in Requests :
             /\ request'[j].kind = request[j].kind /\ request'[j].connection = request[j].connection
             /\ request'[j].step = request[j].step /\ request'[j].ok = request[j].ok
             /\ request'[j].entry = request[j].entry /\ request'[j].at = request[j].at
             /\ request'[j].pending = FALSE
  <1>1. ASSUME NEW j \in Requests
        PROVE  request'[j] = [request[j] EXCEPT !.pending = FALSE]
    BY Zenon DEF Stop
  <1>2. \A j \in Requests : request[j] \in Request
    BY DEF HostTypeOK
  <1> QED BY <1>1, <1>2 DEF Request

LEMMA StopOrderly ==
    ASSUME HostTypeOK, Orderly, Stop
    PROVE  Orderly'
  <1>1. \A j \in Requests : /\ request'[j].kind = request[j].kind /\ request'[j].connection = request[j].connection
                            /\ request'[j].step = request[j].step /\ request'[j].ok = request[j].ok
    BY StopIs
  <1>2. phase' = "stopping" /\ UNCHANGED current /\ inbox' = << >>
    BY DEF Stop
  <1> USE DEF Orderly, At
  <1>3. InTurn' /\ KindsFit' /\ CreatedFirst'
    BY <1>1 DEF InTurn, KindsFit, CreatedFirst
  <1>4. DeletionIsLast'
    <2>1. \A j \in Requests : Stands(j)' <=> Stands(j)
      BY <1>1 DEF Stands
    <2> QED BY <1>1, <2>1 DEF DeletionIsLast
  <1>5. StillAwaited' /\ AnswersEnd'
    BY <1>1, <1>2 DEF StillAwaited, AnswersEnd
  <1> QED BY <1>3, <1>4, <1>5

LEMMA CloseOrderly ==
    ASSUME HostTypeOK, Orderly, Close \/ Release \/ Released
    PROVE  Orderly'
  <1>1. UNCHANGED <<request, current, inbox>> /\ (phase' = "serving" => phase = "serving")
    BY DEF Close, Release, Released, wire
  <1> QED BY <1>1 DEF Orderly, At, InTurn, KindsFit, CreatedFirst, DeletionIsLast, Stands, StillAwaited, AnswersEnd

LEMMA OpenedOrderly ==
    ASSUME HostTypeOK, Orderly, Opened
    PROVE  Orderly'
  <1>1. PICK built \in BOOLEAN :
            request' = IF built /\ ~Stopped THEN request
                       ELSE [i \in Requests |-> IF At(i, "opened") /\ request[i].entry = opening
                                                THEN [request[i] EXCEPT !.step = "reply", !.entry = 0, !.ok = FALSE]
                                                ELSE request[i]]
    BY DEF Opened
  <1>2. ASSUME NEW i \in Requests, request'[i] # request[i] PROVE Advances(i)
    <2>1. At(i, "opened") /\ request'[i] = [request[i] EXCEPT !.step = "reply", !.entry = 0, !.ok = FALSE]
      BY <1>1, <1>2 DEF HostTypeOK
    <2> QED BY <2>1 DEF HostTypeOK, Request, Advances, At
  <1>3. UNCHANGED <<current, phase>> /\ AnswersKept
    BY NothingAnswered DEF Opened, wire
  <1> QED BY <1>2, <1>3, OrderlyAdvances

\* The steps of one request.
OneGoes(i) == \A j \in Requests \ {i} : request'[j] = request[j]

LEMMA RequestGoes ==
    ASSUME HostTypeOK, NEW i \in Requests,
           Receive(i) \/ Handle(i) \/ RunEnds(i)
    PROVE  /\ OneGoes(i)
           /\ request'[i].kind = request[i].kind /\ request'[i].connection = request[i].connection
           /\ request'[i].pending = request[i].pending
           /\ \/ At(i, "sent") /\ Receive(i) /\ request'[i].step \in {"get", "reply"}
              \/ At(i, "get") /\ Get(i) /\ request'[i].step \in {"opened", "reply"}
              \/ At(i, "opened") /\ Enter(i) /\ request'[i].step = "work"
              \/ At(i, "work") /\ (Attach(i) \/ Other(i)) /\ request'[i].step = "reply"
              \/ At(i, "work") /\ Prompt(i) /\ request[i].kind = "prompt" /\ request'[i].step \in {"running", "reply"}
              \/ At(i, "running") /\ RunEnds(i) /\ request'[i].step = "reply"
              \/ At(i, "work") /\ Delete(i) /\ request[i].kind = "delete" /\ request'[i].step \in {"closing", "reply"}
              \/ At(i, "closing") /\ Deleting(i) /\ request'[i].step = "forgetting"
              \/ At(i, "forgetting") /\ Deleted(i) /\ request'[i].step = "reply"
              \/ At(i, "reply") /\ Reply(i) /\ request'[i].step = "end"
  <1>1. ASSUME NEW r, request' = [request EXCEPT ![i] = r]
        PROVE  OneGoes(i) /\ request'[i] = r
    BY <1>1 DEF HostTypeOK, OneGoes
  <1>2. request[i] \in Request
    BY DEF HostTypeOK
  <1>3. ASSUME NEW step, Go(i, step)
        PROVE  /\ OneGoes(i) /\ request'[i].step = step
               /\ request'[i].kind = request[i].kind /\ request'[i].connection = request[i].connection
               /\ request'[i].pending = request[i].pending
    BY <1>2, <1>3 DEF Go, HostTypeOK, Request, OneGoes
  <1>4. ASSUME NEW ok, NEW at, Settle(i, ok, at)
        PROVE  /\ OneGoes(i) /\ request'[i].step = "reply"
               /\ request'[i].kind = request[i].kind /\ request'[i].connection = request[i].connection
               /\ request'[i].pending = request[i].pending
    BY <1>2, <1>4 DEF Settle, HostTypeOK, Request, OneGoes
  <1>5. ASSUME Fail(i)
        PROVE  /\ OneGoes(i) /\ request'[i].step = "reply"
               /\ request'[i].kind = request[i].kind /\ request'[i].connection = request[i].connection
               /\ request'[i].pending = request[i].pending
    BY <1>2, <1>5 DEF Fail, HostTypeOK, Request, OneGoes
  <1>6. CASE Receive(i)
    BY <1>3, <1>5, <1>6 DEF Receive
  <1>7. CASE Get(i)
    <2>1. ASSUME NEW e, request' = [request EXCEPT ![i].step = "opened", ![i].entry = e]
          PROVE  /\ OneGoes(i) /\ request'[i].step = "opened"
                 /\ request'[i].kind = request[i].kind /\ request'[i].connection = request[i].connection
                 /\ request'[i].pending = request[i].pending
      BY <1>2, <2>1 DEF HostTypeOK, Request, OneGoes
    <2>2. Fail(i) \/ \E e : request' = [request EXCEPT ![i].step = "opened", ![i].entry = e]
      BY <1>7 DEF Get
    <2>3. At(i, "get")
      BY <1>7 DEF Get
    <2> QED BY <1>5, <1>7, <2>1, <2>2, <2>3
  <1>8. CASE Enter(i)
    BY <1>3, <1>8 DEF Enter
  <1>9. CASE Attach(i)
    BY <1>4, <1>9 DEF Attach
  <1>10. CASE Other(i)
    BY <1>4, <1>10 DEF Other
  <1>11. CASE Prompt(i)
    <2>1. Go(i, "running") \/ Settle(i, FALSE, -1)
      BY <1>11 DEF Prompt
    <2>2. At(i, "work") /\ request[i].kind = "prompt"
      BY <1>11 DEF Prompt
    <2> QED BY <1>3, <1>4, <1>11, <2>1, <2>2
  <1>12. CASE RunEnds(i)
    <2>1. At(i, "running") /\ \E ok \in BOOLEAN : Settle(i, ok, -1)
      BY <1>12 DEF RunEnds
    <2> QED BY <1>4, <1>12, <2>1
  <1>13. CASE Delete(i)
    <2>1. Go(i, "closing") \/ Settle(i, FALSE, -1)
      BY <1>13 DEF Delete
    <2>2. At(i, "work") /\ request[i].kind = "delete"
      BY <1>13 DEF Delete
    <2> QED BY <1>3, <1>4, <1>13, <2>1, <2>2
  <1>14. CASE Deleting(i)
    BY <1>3, <1>14 DEF Deleting
  <1>15. CASE Deleted(i)
    BY <1>4, <1>15 DEF Deleted
  <1>16. CASE Reply(i)
    <2>1. At(i, "reply") /\ request' = [request EXCEPT ![i].step = "end", ![i].entry = 0, ![i].at = -1]
      BY <1>16 DEF Reply
    <2> QED BY <1>2, <1>16, <2>1 DEF HostTypeOK, Request, OneGoes
  <1> QED BY <1>6, <1>7, <1>8, <1>9, <1>10, <1>11, <1>12, <1>13, <1>14, <1>15, <1>16 DEF Handle

LEMMA RequestOrderly ==
    ASSUME HostTypeOK, Orderly, NEW i \in Requests,
           Receive(i) \/ Handle(i) \/ RunEnds(i)
    PROVE  Orderly'
  <1>1. \A j \in Requests \ {i} : request'[j] = request[j]
    BY RequestGoes DEF OneGoes
  <1>2. At(i, "sent") => \A j \in 1..(i - 1) : ~At(j, "sent")
    <2>1. At(i, "sent") => Receive(i)
      BY RequestGoes DEF At
    <2> QED BY <2>1 DEF Receive
  <1>3. KindsFit
    BY DEF Orderly
  <1>4. Advances(i)
    <2>1. /\ request'[i].kind = request[i].kind /\ request'[i].connection = request[i].connection
          /\ request'[i].pending = request[i].pending
      BY RequestGoes
    <2>2. request[i].step \notin {"none", "end"} /\ request'[i].step \notin {"none", "sent"}
      BY RequestGoes DEF At
    <2>3. /\ request'[i].step = "running" => request[i].kind = "prompt"
          /\ request'[i].step \in {"closing", "forgetting"} => request[i].kind = "delete"
      BY RequestGoes, <1>3 DEF At, KindsFit
    <2> QED BY <1>2, <2>1, <2>2, <2>3 DEF Advances
  <1>5. UNCHANGED <<current, phase>>
    BY DEF Receive, Handle, RunEnds, Get, Enter, Attach, Other, Prompt, Delete, Deleting, Deleted, Reply, wire
  <1>6. AnswersKept
    <2>1. CASE Reply(i)
      BY <2>1, ReplyAnswers
    <2>2. CASE Prompt(i)
      BY <2>2, NothingAnswered, PublishAnswersNobody DEF Prompt
    <2>3. CASE RunEnds(i)
      BY <2>3, PublishAnswersNobody DEF RunEnds
    <2>4. CASE Receive(i) \/ Get(i) \/ Enter(i) \/ Attach(i) \/ Other(i) \/ Delete(i) \/ Deleting(i) \/ Deleted(i)
      BY <2>4, NothingAnswered DEF Receive, Get, Enter, Attach, Other, Delete, Deleting, Deleted, wire
    <2> QED BY <2>1, <2>2, <2>3, <2>4 DEF Handle
  <1> QED BY <1>1, <1>4, <1>5, <1>6, OrderlyAdvances

LEMMA OrderlyStep ==
    ASSUME HostTypeOK, Orderly, [HostNext]_hostVars
    PROVE  Orderly'
  <1>1. ASSUME NEW i \in Requests, Send(i)
        PROVE  Orderly'
    BY <1>1, SendOrderly
  <1>2. ASSUME NEW i \in Requests, Abandon(i)
        PROVE  Orderly'
    BY <1>2, PendingOrderly, NothingAnswered DEF Abandon, wire
  <1>3. ASSUME NEW i \in Requests, Receive(i) \/ Handle(i) \/ RunEnds(i)
        PROVE  Orderly'
    BY <1>3, RequestOrderly
  <1>4. CASE Read
    BY <1>4, ReadOrderly
  <1>5. CASE LoseConnection
    BY <1>5, LoseConnectionOrderly
  <1>6. CASE PiEvent
    <2>1. UNCHANGED <<request, current, phase>> /\ Publish(1)
      BY <1>6 DEF PiEvent
    <2> QED BY <2>1, PublishAnswersNobody, OrderlyAdvances
  <1>7. CASE Release \/ Released \/ Close
    BY <1>7, CloseOrderly
  <1>8. CASE Opened
    BY <1>8, OpenedOrderly
  <1>9. CASE Stop
    BY <1>9, StopOrderly
  <1>10. CASE UNCHANGED hostVars
    BY <1>10, OrderlyAdvances, NothingAnswered DEF hostVars, wire
  <1> QED BY <1>1, <1>2, <1>3, <1>4, <1>5, <1>6, <1>7, <1>8, <1>9, <1>10 DEF HostNext

-----------------------------------------------------------------------------
(* The entries.                                                            *)

\* Nobody who is behind a deletion that was carried out can still look for the entry.
LEMMA NoneForgotten ==
    ASSUME HostTypeOK, Orderly, NEW i \in Requests, At(i, "sent")
    PROVE  \A j \in Requests : ~Forgets(j)
  <1>1. ASSUME NEW j \in Requests, Forgets(j) PROVE FALSE
    <2>1. Stands(j) /\ request[j].step \in {"forgetting", "reply", "end"}
      BY <1>1 DEF Forgets, Stands, At
    <2>2. i # j
      BY <2>1 DEF At
    <2>3. CASE i > j
      BY <2>1, <2>2, <2>3 DEF Orderly, DeletionIsLast, At
    <2>4. CASE i < j
      BY <2>1, <2>4 DEF Orderly, InTurn, At
    <2> QED BY <2>2, <2>3, <2>4 DEF Requests
  <1> QED BY <1>1

\* Whoever holds the entry while the session is not being removed, and the host not closed.
LEMMA Holder ==
    ASSUME HostTypeOK, Table, NEW i \in Requests, Holds(i), request[i].step \in {"work", "running", "closing"},
           phase # "closed", \A j \in Requests : ~Forgets(j)
    PROVE  request[i].entry = entry /\ entry # 0 /\ opening = 0 /\ evicting = 0
  <1>1. request[i].entry = entry /\ request[i].entry # 0
    BY DEF Table, HoldersHaveIt, HoldersAgree
  <1> QED BY <1>1 DEF Table, Placed

\* What one request's steps leave as it is, when the table is not touched.
LEMMA TableMoves ==
    ASSUME HostTypeOK, Orderly, Table, NEW i \in Requests, OneGoes(i), request'[i].kind = request[i].kind,
           UNCHANGED <<phase, catalog, entry, opening, evicting, entries>>,
           request[i].step \notin {"none", "end", "closing", "forgetting"},
           request'[i].step \notin {"none", "sent", "opened", "closing", "forgetting"},
           request'[i].step = "get" => At(i, "sent"),
           Forgets(i)' <=> Forgets(i),
           Holds(i)' => Holds(i) /\ request'[i].entry = request[i].entry,
           At(i, "opened") /\ Holds(i)' => request[i].entry = entry,
           RunsAreKnown'
    PROVE  Table'
  <1> USE DEF OneGoes
  <1>1. \A j \in Requests : Forgets(j)' <=> Forgets(j)
    BY DEF Forgets, At
  <1>2. \A j \in Requests : Holds(j)' => Holds(j) /\ request'[j].entry = request[j].entry
    BY DEF Holds
  <1>3. Placed'
    <2>1. ASSUME NEW j \in Requests, At(j, "closing") PROVE request'[j] = request[j]
      BY <2>1 DEF At
    <2> QED BY <2>1 DEF Table, Placed, At
  <1>4. HoldersAgree'
    BY <1>2 DEF Table, HoldersAgree
  <1>5. HoldersHaveIt'
    <2>1. ASSUME NEW j \in Requests, Holds(j)'
          PROVE  /\ request'[j].step = "opened" => request'[j].entry \in {opening, entry}
                 /\ phase # "closed" /\ request'[j].step \in {"work", "running", "closing"}
                    /\ (\A k \in Requests : ~Forgets(k)) => request'[j].entry = entry
      <3>1. CASE j # i
        <4>1. request'[j] = request[j] /\ Holds(j)
          BY <1>2, <2>1, <3>1
        <4> QED BY <4>1 DEF Table, HoldersHaveIt, At
      <3>2. CASE j = i
        <4>1. Holds(i) /\ request'[i].entry = request[i].entry
          BY <2>1, <3>2
        <4>2. request[i].step \in {"opened", "work", "running"}
          BY <4>1 DEF Holds
        <4> QED BY <2>1, <3>2, <4>1, <4>2 DEF Table, HoldersHaveIt, At
      <3> QED BY <3>1, <3>2
    <2> QED BY <1>1, <2>1 DEF HoldersHaveIt, At
  <1>6. Gone'
    <2>1. ASSUME NEW j \in Requests, Forgets(j) PROVE request'[i].step # "get"
      BY <2>1, NoneForgotten
    <2>2. \A j \in Requests : ~(At(j, "forgetting")) => request'[j].step # "forgetting"
      BY DEF At
    <2>3. \A j \in Requests : At(j, "forgetting") => request'[j].step = "forgetting"
      BY DEF At
    <2> QED BY <1>1, <2>1, <2>2, <2>3 DEF Table, Gone, At
  <1>7. BuiltForSomebody'
    <2>1. ASSUME NEW j \in Requests, request[j].step \notin {"none", "sent", "get"}
          PROVE  request'[j].step \notin {"none", "sent", "get"}
      BY <2>1 DEF At
    <2> QED BY <2>1 DEF Table, BuiltForSomebody
  <1> QED BY <1>3, <1>4, <1>5, <1>6, <1>7 DEF Table

\* Requests that the host has not taken yet do not matter here.
Stays(j) ==
    /\ request'[j].kind = request[j].kind /\ request'[j].step = request[j].step
    /\ request'[j].entry = request[j].entry /\ request'[j].ok = request[j].ok

Untaken(j) ==
    /\ request[j].step \in {"none", "sent"}
    /\ request'[j].step = "sent" \/ (request'[j].step = "end" /\ ~request'[j].ok)

LEMMA TableStays ==
    ASSUME HostTypeOK, Table, \A j \in Requests : Stays(j) \/ Untaken(j),
           UNCHANGED life, phase' = "closed" <=> phase = "closed"
    PROVE  Table'
  <1>1. UNCHANGED <<catalog, entry, opening, evicting, entries, running>>
    BY DEF life
  <1>2. \A j \in Requests : Forgets(j)' <=> Forgets(j)
    BY DEF Forgets, At, Stays, Untaken
  <1>3. \A j \in Requests : Holds(j)' => Holds(j) /\ Stays(j)
    BY DEF Holds, Stays, Untaken
  <1>4. \A j \in Requests : request'[j].step \notin {"none", "sent", "end"} => Stays(j)
    BY DEF Stays, Untaken
  <1>5. Placed'
    <2>1. ASSUME NEW j \in Requests, At(j, "closing") PROVE Stays(j)
      BY <2>1 DEF At, Untaken
    <2> QED BY <1>1, <2>1 DEF Table, Placed, At, Stays
  <1>6. HoldersAgree'
    BY <1>3 DEF Table, HoldersAgree, Stays
  <1>7. HoldersHaveIt'
    BY <1>1, <1>2, <1>3 DEF Table, HoldersHaveIt, At, Stays
  <1>8. RunsAreKnown'
    BY <1>1, <1>4 DEF Table, RunsAreKnown, At, Stays
  <1>9. Gone'
    <2>1. ASSUME NEW j \in Requests, Forgets(j)
          PROVE  request'[j].step = "forgetting" <=> request[j].step = "forgetting"
      BY DEF Stays, Untaken
    <2> QED BY <1>1, <1>2, <1>4, <2>1 DEF Table, Gone, At, Stays
  <1>10. BuiltForSomebody'
    <2>1. ASSUME NEW j \in Requests, request[j].step \notin {"none", "sent", "get"}
          PROVE  request'[j].step \notin {"none", "sent", "get"}
      BY <2>1 DEF Stays, Untaken
    <2> QED BY <1>1, <2>1 DEF Table, BuiltForSomebody
  <1> QED BY <1>5, <1>6, <1>7, <1>8, <1>9, <1>10 DEF Table

\* Who waits for the entry's release, or for what is built, when nothing else can go on.
LEMMA WhenQuiet ==
    ASSUME Quiet, NEW i \in Requests
    PROVE  /\ At(i, "get") => evicting # 0 /\ request[i].kind # "create"
           /\ At(i, "opened") /\ Holds(i) => opening = request[i].entry
  BY DEF Quiet, Ready, Waits, Holds

\* The steps of a request that leave the table alone.
LEMMA PlainTable ==
    ASSUME HostInv, NEW i \in Requests,
           Receive(i) \/ Enter(i) \/ Attach(i) \/ Other(i) \/ Prompt(i) \/ RunEnds(i) \/ Reply(i)
    PROVE  Table'
  <1> USE DEF HostInv
  <1>1. OneGoes(i) /\ request'[i].kind = request[i].kind
    BY RequestGoes DEF Handle
  <1>2. UNCHANGED <<phase, catalog, entry, opening, evicting, entries>>
    BY DEF Receive, Enter, Attach, Other, Prompt, RunEnds, Reply, life
  <1>3. request[i] \in Request
    BY DEF HostTypeOK
  <1>4. /\ \A j \in Requests : At(j, "running") => request[j].entry \in running
        /\ \A j, k \in Requests : At(j, "running") /\ At(k, "running") => j = k
    BY DEF Table, RunsAreKnown
  \* The run that starts, or has ended, is the only one.
  <1>5. ASSUME UNCHANGED running, request'[i].step # "running", ~At(i, "running")
        PROVE  RunsAreKnown'
    BY <1>1, <1>4, <1>5 DEF RunsAreKnown, At, OneGoes
  <1>6. CASE Receive(i)
    <2>0. At(i, "sent") /\ UNCHANGED running
      BY <1>6 DEF Receive, life
    <2>4. Fail(i) \/ Go(i, "get")
      BY <1>6 DEF Receive
    <2>5. Fail(i) => request'[i].step = "reply"
      BY <1>3 DEF Fail, HostTypeOK
    <2>6. Go(i, "get") => request'[i].step = "get"
      BY <1>3 DEF Go, HostTypeOK
    <2>1. At(i, "sent") /\ UNCHANGED running /\ request'[i].step \in {"get", "reply"} /\ (Fail(i) \/ Go(i, "get"))
      BY <2>0, <2>4, <2>5, <2>6
    <2>2. request'[i].step = "reply" => ~request'[i].ok
      <3>1. Fail(i) => ~request'[i].ok
        BY <1>3 DEF Fail, HostTypeOK
      <3> QED BY <2>4, <2>6, <3>1
    <2>3. ~Forgets(i) /\ ~Forgets(i)'
      BY <2>1, <2>2 DEF Forgets, At
    <2>7. ~Holds(i)'
      BY <2>1 DEF Holds
    <2> QED BY <1>1, <1>2, <1>5, <2>1, <2>3, <2>7, TableMoves DEF At
  <1>7. CASE Enter(i)
    <2>1. /\ At(i, "opened") /\ UNCHANGED running /\ opening # request[i].entry
          /\ request'[i].step = "work" /\ request'[i].entry = request[i].entry /\ request'[i].ok = request[i].ok
      BY <1>3, <1>7 DEF Enter, life, Go, HostTypeOK
    <2>2. ~Forgets(i) /\ ~Forgets(i)'
      BY <2>1 DEF Forgets, At
    <2>3. Holds(i)' => Holds(i) /\ request[i].entry = entry
      BY <1>1, <2>1 DEF Holds, At, Table, HoldersHaveIt
    <2> QED BY <1>1, <1>2, <1>5, <2>1, <2>2, <2>3, TableMoves DEF At
  <1>8. CASE Attach(i) \/ Other(i)
    <2>1. /\ At(i, "work") /\ UNCHANGED running /\ request'[i].step = "reply"
          /\ request[i].kind # "delete"
      BY <1>8, RequestGoes DEF Attach, Other, life, At, Handle
    <2>2. ~Forgets(i) /\ ~Forgets(i)' /\ ~Holds(i)'
      BY <1>1, <2>1 DEF Forgets, At, Holds
    <2> QED BY <1>1, <1>2, <1>5, <2>1, <2>2, TableMoves DEF At
  <1>9. CASE Prompt(i)
    <2>1. At(i, "work") /\ request[i].kind = "prompt"
      BY <1>9 DEF Prompt
    <2>2. CASE MayRun(i)
      <3>0. Go(i, "running") /\ running' = running \cup {request[i].entry} /\ request[i].entry \notin running
        BY <1>9, <2>2 DEF Prompt, MayRun
      <3>1. /\ request'[i].step = "running" /\ request'[i].entry = request[i].entry
            /\ running' = running \cup {request[i].entry} /\ request[i].entry \notin running
        BY <1>3, <3>0 DEF Go, HostTypeOK
      <3>2. Holds(i)
        BY <2>1 DEF Holds, At
      <3>3. ASSUME NEW j \in Requests \ {i}, At(j, "running") PROVE FALSE
        <4>1. Holds(j)
          BY <3>3 DEF Holds, At, Orderly, KindsFit
        <4>2. request[j].entry = request[i].entry
          BY <3>2, <4>1 DEF Table, HoldersAgree
        <4> QED BY <1>4, <3>1, <3>3, <4>2
      <3>4. RunsAreKnown'
        BY <1>1, <3>1, <3>3 DEF RunsAreKnown, At, OneGoes
      <3>5. ~Forgets(i) /\ ~Forgets(i)'
        BY <1>1, <2>1 DEF Forgets
      <3> QED BY <1>1, <1>2, <2>1, <3>1, <3>2, <3>4, <3>5, TableMoves DEF At
    <2>3. CASE ~MayRun(i)
      <3>0. UNCHANGED running /\ Settle(i, FALSE, -1)
        BY <1>9, <2>3 DEF Prompt
      <3>1. UNCHANGED running /\ request'[i].step = "reply"
        BY <1>3, <3>0 DEF Settle, HostTypeOK
      <3>2. ~Forgets(i) /\ ~Forgets(i)' /\ ~Holds(i)'
        BY <1>1, <2>1, <3>1 DEF Forgets, Holds
      <3> QED BY <1>1, <1>2, <1>5, <2>1, <3>1, <3>2, TableMoves DEF At
    <2> QED BY <2>2, <2>3
  <1>10. CASE RunEnds(i)
    <2>1. At(i, "running") /\ running' = running \ {request[i].entry} /\ request'[i].step = "reply"
      BY <1>10, RequestGoes DEF RunEnds, At
    <2>2. request[i].kind = "prompt"
      BY <2>1 DEF Orderly, KindsFit
    <2>3. \A j \in Requests : request'[j].step # "running"
      BY <1>1, <1>4, <2>1 DEF At, OneGoes
    <2>4. RunsAreKnown'
      BY <2>3 DEF RunsAreKnown, At
    <2>5. ~Forgets(i) /\ ~Forgets(i)' /\ ~Holds(i)'
      BY <1>1, <2>1, <2>2 DEF Forgets, Holds
    <2> QED BY <1>1, <1>2, <2>1, <2>4, <2>5, TableMoves DEF At
  <1>11. CASE Reply(i)
    <2>1. /\ At(i, "reply") /\ UNCHANGED running /\ request'[i].step = "end"
          /\ request'[i].ok = request[i].ok
      BY <1>3, <1>11 DEF Reply, life, HostTypeOK
    <2>2. Forgets(i)' <=> Forgets(i)
      BY <1>1, <2>1 DEF Forgets, At
    <2>3. ~Holds(i)'
      BY <2>1 DEF Holds
    <2> QED BY <1>1, <1>2, <1>5, <2>1, <2>2, <2>3, TableMoves DEF At
  <1> QED BY <1>6, <1>7, <1>8, <1>9, <1>10, <1>11

\* A request gets the entry, the one that is being built, or a new one.
LEMMA GetTable ==
    ASSUME HostInv, NEW i \in Requests, Get(i)
    PROVE  Table'
  <1> USE DEF HostInv, OneGoes
  <1>1. OneGoes(i) /\ request'[i].kind = request[i].kind /\ At(i, "get")
    BY RequestGoes DEF Handle, Get
  <1>2. UNCHANGED <<phase, catalog, entry, evicting, running>> /\ request[i] \in Request
    BY DEF Get, HostTypeOK
  <1>3. \A j \in Requests : ~Forgets(j)
    BY <1>1 DEF Table, Gone
  <1>4. CASE Fail(i) /\ UNCHANGED <<opening, entries>>
    <2>1. request'[i].step = "reply" /\ ~request'[i].ok
      BY <1>2, <1>4 DEF Fail, HostTypeOK
    <2>2. ~Forgets(i)' /\ ~Holds(i)'
      BY <2>1 DEF Forgets, Holds, At
    <2>3. RunsAreKnown'
      BY <1>1, <1>2, <2>1 DEF Table, RunsAreKnown, At
    <2> QED BY <1>1, <1>2, <1>3, <1>4, <2>1, <2>2, <2>3, TableMoves DEF At
  <1> DEFINE e == request'[i].entry
  <1>5. CASE ~(Fail(i) /\ UNCHANGED <<opening, entries>>)
    <2>1. /\ phase = "serving" /\ request'[i].step = "opened"
          /\ \/ /\ UNCHANGED <<opening, entries>> /\ {opening, entry} # {0}
                /\ e = IF opening # 0 THEN opening ELSE entry
             \/ /\ opening = 0 /\ entry = 0 /\ opening' = e /\ e \in Build
                /\ entries' = [entries EXCEPT ![e] = "building"]
      <3>1. \/ /\ phase = "serving" /\ {opening, entry} # {0}
               /\ request' = [request EXCEPT ![i].step = "opened", ![i].entry = IF opening # 0 THEN opening ELSE entry]
               /\ UNCHANGED <<opening, entries>>
            \/ /\ phase = "serving" /\ opening = 0 /\ entry = 0
               /\ \E f \in Build :
                  /\ opening' = f /\ entries' = [entries EXCEPT ![f] = "building"]
                  /\ request' = [request EXCEPT ![i].step = "opened", ![i].entry = f]
        BY <1>5 DEF Get
      <3>2. ASSUME NEW f, request' = [request EXCEPT ![i].step = "opened", ![i].entry = f]
            PROVE  request'[i].step = "opened" /\ e = f
        BY <1>2, <3>2 DEF HostTypeOK, Request
      <3> QED BY <3>1, <3>2
    <2>2. \A j \in Requests : ~Forgets(j)'
      <3>1. ~Forgets(i)'
        BY <2>1 DEF Forgets, At
      <3> QED BY <1>1, <1>3, <3>1 DEF Forgets, At
    <2>3. \A j \in Requests : Holds(j) => request[j].entry \in {opening, entry} \ {0}
      <3>1. ASSUME NEW j \in Requests, Holds(j) PROVE request[j].entry \in {opening, entry} \ {0}
        <4>1. request[j].step \in {"opened", "work", "running", "closing"} /\ request[j].entry # 0
          BY <1>3, <3>1 DEF Holds, Forgets, At, Table, HoldersAgree, Orderly, KindsFit
        <4>2. request[j].step = "opened" => request[j].entry \in {opening, entry}
          BY <3>1 DEF At, Table, HoldersHaveIt
        <4>3. request[j].step # "opened" => request[j].entry = entry
          BY <1>3, <2>1, <3>1, <4>1 DEF Table, HoldersHaveIt
        <4> QED BY <4>1, <4>2, <4>3
      <3> QED BY <3>1
    <2>4. Placed /\ 0 \notin Entries
      BY HostNumbers DEF Table
    <2>5. RunsAreKnown'
      BY <1>1, <1>2, <2>1 DEF Table, RunsAreKnown, At
    <2>6. Gone' /\ BuiltForSomebody'
      BY <2>1, <2>2 DEF Gone, BuiltForSomebody
    <2>7. CASE UNCHANGED <<opening, entries>>
      <3>0. Build \subseteq Entries /\ \A f \in Build : entries[f] = "none"
        BY DEF Build
      <3>1. {opening, entry} # {0} /\ e = IF opening # 0 THEN opening ELSE entry
        BY <2>1, <2>7, <2>4, <3>0 DEF HostTypeOK
      <3>2. e # 0 /\ \A j \in Requests : Holds(j) => request[j].entry = e
        BY <2>3, <2>4, <3>1 DEF Placed
      <3>3. Placed'
        <4>1. ASSUME NEW j \in Requests, At(j, "closing") PROVE request'[j] = request[j]
          BY <1>1, <4>1 DEF At
        <4> QED BY <1>2, <2>4, <2>7, <4>1 DEF Placed, At
      <3>4. \A j \in Requests : Holds(j)' => request'[j].entry = e
        BY <1>1, <3>2 DEF Holds
      <3>5. HoldersAgree'
        BY <3>2, <3>4 DEF HoldersAgree
      <3>6. HoldersHaveIt'
        <4>1. ASSUME NEW j \in Requests, Holds(j)', request'[j].step \in {"work", "running", "closing"}, phase # "closed"
              PROVE  request'[j].entry = entry
          BY <1>1, <1>3, <2>1, <4>1 DEF Table, HoldersHaveIt, Holds
        <4>2. e \in {opening, entry}
          BY <3>1
        <4> QED BY <1>2, <2>7, <3>4, <4>1, <4>2 DEF HoldersHaveIt, At
      <3> QED BY <2>5, <2>6, <3>3, <3>5, <3>6 DEF Table
    <2>8. CASE ~UNCHANGED <<opening, entries>>
      <3>1. /\ opening = 0 /\ entry = 0 /\ opening' = e /\ e \in Entries
            /\ entries' = [entries EXCEPT ![e] = "building"]
        BY <2>1, <2>8 DEF Build
      <3>2. \A j \in Requests : ~Holds(j)
        BY <2>3, <3>1
      <3>3. evicting = 0
        <4>1. CASE request[i].kind # "create"
          BY <4>1 DEF Get, Waits
        <4>2. CASE request[i].kind = "create"
          <5>1. \A j \in Requests : request[j].step \in {"none", "get"}
            BY <1>1, <4>2 DEF Orderly, CreatedFirst, At
          <5>2. \A f \in Entries : entries[f] = "none"
            BY <5>1 DEF Table, BuiltForSomebody
          <5>3. evicting # 0 => evicting \in Entries /\ entries[evicting] = "closing"
            BY <2>4 DEF HostTypeOK, Placed, Entries
          <5> QED BY <5>2, <5>3
        <4> QED BY <4>1, <4>2
      <3>4. Placed'
        BY <1>2, <2>4, <2>1, <3>1, <3>3 DEF Placed, HostTypeOK
      <3>5. \A j \in Requests : Holds(j)' => j = i
        BY <1>1, <3>2 DEF Holds
      <3>6. HoldersAgree'
        BY <2>4, <3>1, <3>5 DEF HoldersAgree
      <3>7. HoldersHaveIt'
        BY <2>1, <3>1, <3>5 DEF HoldersHaveIt, At
      <3> QED BY <2>5, <2>6, <3>4, <3>6, <3>7 DEF Table
    <2> QED BY <2>7, <2>8
  <1> QED BY <1>4, <1>5

\* A deletion closes the entry, and takes it out of the table.
LEMMA OneDeletion ==
    ASSUME Orderly, NEW i \in Requests, request[i].kind = "delete", ~At(i, "none"), ~At(i, "end")
    PROVE  \A j \in Requests \ {i} : ~Forgets(j) /\ ~At(j, "closing")
  <1>1. Stands(i) /\ \A j \in Requests \ {i} : ~Stands(j)
    BY DEF Stands, Orderly, DeletionIsLast
  <1> QED BY <1>1 DEF Forgets, Stands, At, Orderly, KindsFit

LEMMA DeleteTable ==
    ASSUME HostInv, NEW i \in Requests, Delete(i)
    PROVE  Table'
  <1> USE DEF HostInv, OneGoes
  <1>1. OneGoes(i) /\ request'[i].kind = request[i].kind /\ At(i, "work") /\ request[i].kind = "delete"
    BY RequestGoes DEF Handle, Delete
  <1>2. UNCHANGED <<phase, catalog, entry, opening, evicting, running>> /\ request[i] \in Request
    BY DEF Delete, HostTypeOK
  <1>3. /\ ~Forgets(i) /\ \A j \in Requests : ~Forgets(j) /\ ~At(j, "closing")
    BY <1>1, OneDeletion DEF Forgets, At
  <1>4. request'[i].step \in {"closing", "reply"}
    <2>1. Go(i, "closing") => request'[i].step = "closing"
      BY <1>2 DEF Go, HostTypeOK
    <2>2. Settle(i, FALSE, -1) => request'[i].step = "reply"
      BY <1>2 DEF Settle, HostTypeOK
    <2> QED BY <2>1, <2>2 DEF Delete
  <1>5. RunsAreKnown'
    BY <1>1, <1>2, <1>4 DEF Table, RunsAreKnown, At
  <1>6. CASE request[i].entry \in running
    <2>1. Settle(i, FALSE, -1) /\ UNCHANGED entries
      BY <1>6 DEF Delete
    <2>2. request'[i].step = "reply" /\ ~request'[i].ok
      BY <1>2, <2>1 DEF Settle, HostTypeOK
    <2>3. ~Forgets(i)' /\ ~Holds(i)'
      BY <2>2 DEF Forgets, Holds, At
    <2> QED BY <1>1, <1>2, <1>3, <1>5, <2>1, <2>2, <2>3, TableMoves DEF At
  <1>7. CASE request[i].entry \notin running
    <2>1. Go(i, "closing") /\ entries' = [entries EXCEPT ![request[i].entry] = IF @ = "open" THEN "closing" ELSE @]
      BY <1>7 DEF Delete
    <2>2. request'[i].step = "closing" /\ request'[i].entry = request[i].entry
      BY <1>2, <2>1 DEF Go, HostTypeOK
    <2>3. Holds(i) /\ request[i].entry # 0 /\ request[i].entry \in Entries
      <3>1. Holds(i)
        BY <1>1 DEF Holds, At
      <3>2. request[i].entry # 0
        BY <3>1 DEF Table, HoldersAgree
      <3> QED BY <1>2, <3>1, <3>2, HostNumbers DEF Request, Entries
    <2>4. \A j \in Requests : ~Forgets(j)'
      BY <1>1, <1>3, <2>2 DEF Forgets, At
    <2>5. \A j \in Requests : Holds(j)' <=> Holds(j)
      BY <1>1, <2>2 DEF Holds, At
    <2>6. \A j \in Requests : request'[j].entry = request[j].entry
      BY <2>2, <1>1
    <2>7. HoldersAgree'
      BY <2>5, <2>6 DEF Table, HoldersAgree
    <2>8. HoldersHaveIt'
      <3>1. ASSUME NEW j \in Requests, Holds(j)' PROVE 
                /\ request'[j].step = "opened" => request[j].entry \in {opening, entry}
                /\ phase # "closed" /\ request'[j].step \in {"work", "running", "closing"} => request[j].entry = entry
        <4>1. Holds(j)
          BY <2>5, <3>1
        <4>2. CASE j = i
          BY <1>1, <1>3, <2>2, <4>1, <4>2 DEF Table, HoldersHaveIt, At
        <4>3. CASE j # i
          <5>1. request'[j] = request[j]
            BY <1>1, <4>3
          <5> QED BY <1>3, <4>1, <5>1 DEF Table, HoldersHaveIt, At
        <4> QED BY <4>2, <4>3
      <3> QED BY <1>2, <2>6, <3>1 DEF HoldersHaveIt, At
    <2>9. Placed'
      <3>1. CASE phase = "closed"
        <4>1. \A e \in Entries : entries[e] \notin Occupied
          BY <3>1, HostNumbers DEF Table, Placed
        <4>2. entries' = entries
          BY <2>1, <2>3, <4>1 DEF HostTypeOK, Occupied
        <4> QED BY <1>2, <3>1, <4>2 DEF Table, Placed
      <3>2. CASE phase # "closed"
        <4>1. request[i].entry = entry /\ entry # 0 /\ opening = 0 /\ evicting = 0
          BY <1>1, <1>3, <2>3, <3>2, Holder DEF At
        <4>2. entries[entry] \in {"open", "closing"} /\ entries'[entry] = "closing"
          BY <2>1, <2>3, <4>1 DEF Table, Placed, HostTypeOK
        <4>3. \A e \in Entries : entries[e] \in Occupied => e = entry
          BY <4>1, HostNumbers DEF Table, Placed
        <4>4. \A e \in Entries : entries'[e] \in Occupied => e = entry
          BY <2>1, <2>3, <4>1, <4>3 DEF HostTypeOK
        <4>5. request'[i].step = "closing" /\ request'[i].entry = entry
          BY <2>2, <4>1
        <4> QED BY <1>2, <3>2, <4>1, <4>2, <4>4, <4>5 DEF Placed, At
      <3> QED BY <3>1, <3>2
    <2>10. Gone' /\ BuiltForSomebody'
      BY <2>2, <2>4 DEF Gone, BuiltForSomebody
    <2> QED BY <1>5, <2>7, <2>8, <2>9, <2>10 DEF Table
  <1> QED BY <1>6, <1>7

LEMMA DeletingTable ==
    ASSUME HostInv, NEW i \in Requests, Deleting(i)
    PROVE  Table'
  <1> USE DEF HostInv, OneGoes
  <1>1. OneGoes(i) /\ request'[i].kind = request[i].kind /\ At(i, "closing") /\ request[i].kind = "delete"
    <2>1. OneGoes(i) /\ request'[i].kind = request[i].kind
      BY RequestGoes DEF Handle
    <2>2. At(i, "closing")
      BY DEF Deleting
    <2>3. request[i].kind = "delete"
      BY <2>2 DEF Orderly, KindsFit, At
    <2> QED BY <2>1, <2>2, <2>3
  <1>2. /\ UNCHANGED <<phase, catalog, opening, evicting, running>> /\ request[i] \in Request /\ Quiet
        /\ entries' = [entries EXCEPT ![request[i].entry] = "closed"] /\ entry' = 0
    BY DEF Deleting, HostTypeOK
  <1>3. ~Forgets(i) /\ \A j \in Requests : ~Forgets(j)
    BY <1>1, OneDeletion DEF Forgets, At
  <1>4. request'[i].step = "forgetting" /\ request'[i].entry = request[i].entry
    BY <1>2 DEF Deleting, Go, HostTypeOK
  <1>5. Holds(i) /\ request[i].entry # 0 /\ request[i].entry \in Entries
    <2>1. Holds(i)
      BY <1>1 DEF Holds, At
    <2>2. request[i].entry # 0
      BY <2>1 DEF Table, HoldersAgree
    <2> QED BY <1>2, <2>1, <2>2, HostNumbers DEF Request, Entries
  <1>6. opening = 0 /\ evicting = 0 /\ (entry = 0 \/ request[i].entry = entry)
    <2>1. CASE phase = "closed"
      BY <2>1 DEF Table, Placed
    <2>2. CASE phase # "closed"
      BY <1>1, <1>3, <1>5, <2>2, Holder DEF At
    <2> QED BY <2>1, <2>2
  <1>7. \A j \in Requests : ~At(j, "get") /\ ~(At(j, "opened") /\ Holds(j))
    <2>1. ASSUME NEW j \in Requests, At(j, "opened"), Holds(j) PROVE FALSE
      <3>1. request[j].entry # 0
        BY <2>1 DEF Table, HoldersAgree
      <3> QED BY <1>2, <1>6, <2>1, <3>1, WhenQuiet
    <2> QED BY <1>2, <1>6, <2>1, WhenQuiet
  <1>8. Placed'
    <2>1. \A e \in Entries : entries[e] \in Occupied => e = request[i].entry
      BY <1>6, HostNumbers DEF Table, Placed
    <2>2. \A e \in Entries : entries'[e] \notin Occupied
      BY <1>2, <1>5, <2>1 DEF HostTypeOK, Occupied
    <2> QED BY <1>2, <1>6, <2>2 DEF Placed
  <1>9. \A j \in Requests : Holds(j)' => Holds(j) /\ request'[j].entry = request[j].entry
    BY <1>1, <1>4, <1>5 DEF Holds
  <1>10. HoldersAgree'
    BY <1>9 DEF Table, HoldersAgree
  <1>11. Forgets(i)'
    BY <1>1, <1>4 DEF Forgets, At
  <1>12. HoldersHaveIt'
    <2>1. \A j \in Requests : Holds(j)' => ~(request'[j].step = "opened")
      BY <1>1, <1>4, <1>7, <1>9 DEF At
    <2> QED BY <1>11, <2>1 DEF HoldersHaveIt, At
  <1>13. RunsAreKnown'
    BY <1>1, <1>2, <1>4 DEF Table, RunsAreKnown, At
  <1>14. Gone'
    <2>1. \A j \in Requests : ~At(j, "get")'
      BY <1>1, <1>4, <1>7 DEF At
    <2>2. \A j \in Requests : Forgets(j)' => request'[j].step = "forgetting"
      BY <1>1, <1>3, <1>4 DEF Forgets, At
    <2> QED BY <1>2, <1>6, <2>1, <2>2 DEF Gone, At
  <1>15. BuiltForSomebody'
    BY <1>4 DEF BuiltForSomebody
  <1> QED BY <1>8, <1>10, <1>12, <1>13, <1>14, <1>15 DEF Table

LEMMA DeletedTable ==
    ASSUME HostInv, NEW i \in Requests, Deleted(i)
    PROVE  Table'
  <1> USE DEF HostInv, OneGoes
  <1>1. OneGoes(i) /\ request'[i].kind = request[i].kind /\ At(i, "forgetting") /\ request[i].kind = "delete"
    <2>1. OneGoes(i) /\ request'[i].kind = request[i].kind
      BY RequestGoes DEF Handle
    <2>2. At(i, "forgetting")
      BY DEF Deleted
    <2>3. request[i].kind = "delete"
      BY <2>2 DEF Orderly, KindsFit, At
    <2> QED BY <2>1, <2>2, <2>3
  <1>2. /\ UNCHANGED <<phase, entry, opening, evicting, entries, running>> /\ request[i] \in Request
        /\ catalog' = FALSE
    BY DEF Deleted, HostTypeOK
  <1>3. request'[i].step = "reply" /\ request'[i].ok
    BY <1>2 DEF Deleted, Settle, HostTypeOK
  <1>4. Forgets(i) /\ Forgets(i)'
    BY <1>1, <1>3 DEF Forgets, At
  <1>5. \A j \in Requests : Holds(j)' => Holds(j) /\ request'[j] = request[j]
    BY <1>1, <1>3 DEF Holds
  <1>6. Placed'
    <2>1. entry = 0 /\ opening = 0
      BY <1>4 DEF Table, Gone
    <2> QED BY <1>2, <2>1 DEF Table, Placed
  <1>7. HoldersAgree' /\ HoldersHaveIt'
    BY <1>2, <1>4, <1>5 DEF Table, HoldersAgree, HoldersHaveIt, At
  <1>8. RunsAreKnown'
    BY <1>1, <1>2, <1>3 DEF Table, RunsAreKnown, At
  <1>9. Gone'
    <2>1. entry = 0 /\ opening = 0 /\ \A j \in Requests : ~At(j, "get")
      BY <1>4 DEF Table, Gone
    <2>2. \A j \in Requests : ~At(j, "get")'
      BY <1>1, <1>3, <2>1 DEF At
    <2> QED BY <1>2, <2>1, <2>2 DEF Gone
  <1>10. BuiltForSomebody'
    BY <1>3 DEF BuiltForSomebody
  <1> QED BY <1>6, <1>7, <1>8, <1>9, <1>10 DEF Table

\* What the host does with its entry.
LEMMA EntryTable ==
    ASSUME HostInv, Release \/ Released \/ Close
    PROVE  Table'
  <1> USE DEF HostInv
  <1>1. UNCHANGED <<catalog, opening, running, request>> /\ Quiet
    BY DEF Release, Released, Close
  <1>2. 0 \notin Entries /\ Placed /\ \A e \in Entries : entries[e] \in Occupied => e \in {opening, entry, evicting}
    BY HostNumbers DEF Table, Placed
  <1>3. HoldersAgree' /\ RunsAreKnown'
    BY <1>1 DEF Table, HoldersAgree, RunsAreKnown, Holds, At
  <1>4. ASSUME entry' \in {0, entry} PROVE Gone'
    BY <1>1, <1>4 DEF Table, Gone, Forgets, At
  <1>5. ASSUME \A e \in Entries : entries'[e] # "none" => entries[e] # "none" \/ entry # 0 
        PROVE  BuiltForSomebody'
    <2>1. entry # 0 => \E e \in Entries : entries[e] # "none"
      BY <1>2 DEF Placed, HostTypeOK, Entries
    <2> QED BY <1>1, <1>5, <2>1 DEF Table, BuiltForSomebody
  \* Nobody is about to take hold of the entry.
  <1>6. \A j \in Requests : At(j, "opened") /\ Holds(j) => opening # 0 /\ opening = request[j].entry
    BY <1>1, WhenQuiet DEF Table, HoldersAgree
  <1>7. CASE Release
    <2>1. /\ entry # 0 /\ Unheld(entry) /\ entry' = 0 /\ evicting' = entry
          /\ entries' = [entries EXCEPT ![entry] = "closing"] /\ UNCHANGED phase
      BY <1>7 DEF Release
    <2>2. opening = 0 /\ evicting = 0 /\ entry \in Entries /\ phase # "closed" /\ entries[entry] = "open"
      BY <1>2, <2>1 DEF Placed, HostTypeOK, Entries, Unheld
    <2>3. Placed'
      BY <1>1, <1>2, <2>1, <2>2 DEF Placed, HostTypeOK
    <2>4. \A j \in Requests : ~Forgets(j)
      BY <2>1 DEF Table, Gone
    <2>5. HoldersHaveIt'
      <3>1. \A j \in Requests : Holds(j) => ~At(j, "opened")
        BY <1>6, <2>2
      <3>2. ASSUME NEW j \in Requests, Holds(j), request[j].step \in {"work", "running", "closing"} PROVE FALSE
        <4>1. request[j].entry = entry
          BY <2>2, <2>4, <3>2, Holder
        <4>2. j \in Uses(entry)
          BY <3>2, <4>1 DEF Uses
        <4> QED BY <2>1, <4>2 DEF Unheld
      <3> QED BY <1>1, <3>1, <3>2 DEF HoldersHaveIt, Holds, At
    <2>6. BuiltForSomebody'
      BY <1>5, <2>1, <2>2
    <2>7. Gone'
      BY <1>4, <2>1
    <2> QED BY <1>3, <2>3, <2>5, <2>6, <2>7 DEF Table
  <1>8. CASE Released
    <2>1. /\ evicting # 0 /\ evicting' = 0 /\ entries' = [entries EXCEPT ![evicting] = "closed"]
          /\ UNCHANGED <<phase, entry>>
      BY <1>8 DEF Released
    <2>2. opening = 0 /\ entry = 0 /\ evicting \in Entries
      BY <1>2, <2>1 DEF Placed, HostTypeOK, Entries
    <2>3. Placed'
      BY <1>1, <1>2, <2>1, <2>2 DEF Placed, HostTypeOK, Occupied
    <2>4. HoldersHaveIt'
      BY <1>1, <2>1 DEF Table, HoldersHaveIt, Holds, Forgets, At
    <2>5. BuiltForSomebody'
      <3>1. \A e \in Entries : entries'[e] # "none" => entries[e] # "none"
        BY <1>2, <2>1, <2>2 DEF Placed, HostTypeOK
      <3> QED BY <1>5, <3>1
    <2>6. Gone'
      BY <1>4, <2>1
    <2> QED BY <1>3, <2>3, <2>4, <2>5, <2>6 DEF Table
  <1>9. CASE Close
    <2>1. opening = 0 /\ evicting = 0 /\ phase' = "closed" /\ entry' = 0 /\ entries' = ShutEntry /\ evicting' = evicting
      BY <1>9 DEF Close
    <2>2. \A e \in Entries : entries'[e] \notin Occupied
      BY <1>2, <2>1 DEF ShutEntry, HostTypeOK, Occupied
    <2>3. Placed'
      BY <1>1, <2>1, <2>2 DEF Placed
    <2>4. HoldersHaveIt'
      BY <1>1, <1>6, <2>1 DEF HoldersHaveIt, Holds, At
    <2>5. BuiltForSomebody'
      <3>1. \A e \in Entries : entries'[e] # "none" => entries[e] # "none" \/ entry # 0
        BY <2>1 DEF ShutEntry
      <3> QED BY <1>5, <3>1
    <2>6. Gone'
      BY <1>4, <2>1
    <2> QED BY <1>3, <2>3, <2>4, <2>5, <2>6 DEF Table
  <1> QED BY <1>7, <1>8, <1>9

\* What was built is the entry from here on; or nothing was, and who waited for it is told so.
LEMMA OpenedTable ==
    ASSUME HostInv, Opened
    PROVE  Table'
  <1> USE DEF HostInv
  <1>1. /\ opening # 0 /\ opening' = 0 /\ UNCHANGED <<phase, evicting, running>>
        /\ Placed /\ 0 \notin Entries
    BY HostNumbers DEF Opened, Table
  <1>2. opening \in Entries /\ entry = 0 /\ evicting = 0 /\ phase # "closed" /\ entries[opening] = "building"
    BY <1>1 DEF Placed, HostTypeOK, Entries
  <1>3. \A j \in Requests : ~Forgets(j)
    BY <1>1 DEF Table, Gone
  <1>4. \A j \in Requests : Holds(j) => At(j, "opened") /\ request[j].entry = opening
    <2>1. ASSUME NEW j \in Requests, Holds(j) PROVE At(j, "opened") /\ request[j].entry = opening
      <3>1. CASE At(j, "opened")
        <4>1. request[j].entry # 0 /\ request[j].entry \in {opening, entry}
          BY <2>1, <3>1 DEF Table, HoldersAgree, HoldersHaveIt
        <4> QED BY <1>2, <3>1, <4>1
      <3>2. CASE ~At(j, "opened")
        <4>1. request[j].step \in {"work", "running", "closing"}
          BY <1>3, <2>1, <3>2 DEF Holds, At, Forgets, Orderly, KindsFit
        <4> QED BY <1>1, <1>2, <1>3, <2>1, <4>1, Holder
      <3> QED BY <3>1, <3>2
    <2> QED BY <2>1
  <1>5. PICK w \in Requests : request[w].step \notin {"none", "sent", "get"}
    BY <1>2 DEF Table, BuiltForSomebody
  <1>6. CASE UNCHANGED request /\ entries' = [entries EXCEPT ![opening] = "open"] /\ entry' = opening
    <2>1. Placed'
      BY <1>1, <1>2, <1>6 DEF Placed, HostTypeOK
    <2>2. HoldersAgree' /\ RunsAreKnown'
      BY <1>1, <1>6 DEF Table, HoldersAgree, RunsAreKnown, Holds, At
    <2>3. HoldersHaveIt'
      BY <1>4, <1>6 DEF HoldersHaveIt, Holds, At
    <2>4. Gone'
      BY <1>3, <1>6 DEF Gone, Forgets, At
    <2>5. BuiltForSomebody'
      BY <1>5, <1>6 DEF BuiltForSomebody
    <2> QED BY <2>1, <2>2, <2>3, <2>4, <2>5 DEF Table
  <1>7. CASE /\ entries' = [entries EXCEPT ![opening] = "none"] /\ entry' = entry
             /\ request' = [i \in Requests |-> IF At(i, "opened") /\ request[i].entry = opening
                                               THEN [request[i] EXCEPT !.step = "reply", !.entry = 0, !.ok = FALSE]
                                               ELSE request[i]]
    <2>1. \A j \in Requests : request'[j] = request[j] \/ (At(j, "opened") /\ request'[j].step = "reply" /\ ~request'[j].ok)
      <3>1. ASSUME NEW j \in Requests, request'[j] # request[j]
            PROVE  At(j, "opened") /\ request'[j].step = "reply" /\ ~request'[j].ok
        <4>1. At(j, "opened") /\ request'[j] = [request[j] EXCEPT !.step = "reply", !.entry = 0, !.ok = FALSE]
          BY <1>7, <3>1
        <4>2. request[j] \in Request
          BY DEF HostTypeOK
        <4>3. DOMAIN request[j] = {"kind", "connection", "step", "entry", "ok", "at", "pending"}
          BY <4>2 DEF Request
        <4> QED BY <4>1, <4>3
      <3> QED BY <3>1
    <2>2. \A j \in Requests : ~Holds(j)'
      <3>1. ASSUME NEW j \in Requests, Holds(j)' PROVE FALSE
        <4>1. request'[j] = request[j] /\ Holds(j)
          BY <2>1, <3>1 DEF Holds
        <4>2. At(j, "opened") /\ request[j].entry = opening
          BY <1>4, <4>1
        <4>3. request'[j].step = "reply"
          BY <1>7, <4>2 DEF HostTypeOK, Request
        <4> QED BY <4>1, <4>2, <4>3 DEF At
      <3> QED BY <3>1
    <2>3. Placed'
      BY <1>1, <1>2, <1>7 DEF Placed, HostTypeOK, Occupied
    <2>4. HoldersAgree' /\ HoldersHaveIt'
      BY <2>2 DEF HoldersAgree, HoldersHaveIt
    <2>5. RunsAreKnown'
      BY <1>1, <2>1 DEF Table, RunsAreKnown, At
    <2>6. Gone'
      <3>1. \A j \in Requests : ~Forgets(j)'
        BY <1>3, <2>1 DEF Forgets, At
      <3> QED BY <3>1 DEF Gone
    <2>7. BuiltForSomebody'
      BY <1>5, <2>1 DEF BuiltForSomebody, At
    <2> QED BY <2>3, <2>4, <2>5, <2>6, <2>7 DEF Table
  <1>8. PICK built \in BOOLEAN :
             LET good == built /\ ~Stopped
             IN /\ entries' = [entries EXCEPT ![opening] = IF good THEN "open" ELSE "none"]
                /\ entry' = IF good THEN opening ELSE entry
                /\ request' = IF good THEN request
                              ELSE [i \in Requests |-> IF At(i, "opened") /\ request[i].entry = opening
                                                       THEN [request[i] EXCEPT !.step = "reply", !.entry = 0, !.ok = FALSE]
                                                       ELSE request[i]]
    BY DEF Opened
  <1>9. CASE built /\ ~Stopped
    BY <1>6, <1>8, <1>9
  <1>10. CASE ~(built /\ ~Stopped)
    BY <1>7, <1>8, <1>10
  <1> QED BY <1>9, <1>10

LEMMA TableStep ==
    ASSUME HostInv, [HostNext]_hostVars
    PROVE  Table'
  <1> USE DEF HostInv
  <1>1. ASSUME NEW i \in Requests, Send(i) PROVE Table'
    <2>1. PICK kind \in Kinds :
             request' = [request EXCEPT ![i] = [Unused EXCEPT !.kind = kind, !.step = "sent",
                                                              !.connection = current, !.pending = TRUE]]
      BY <1>1 DEF Send
    <2>2. request'[i].step = "sent" /\ \A j \in Requests \ {i} : request'[j] = request[j]
      BY <2>1 DEF HostTypeOK, Unused
    <2>3. request[i].step = "none" /\ UNCHANGED <<phase, life>>
      BY <1>1 DEF Send, At
    <2> QED BY <2>2, <2>3, TableStays DEF Stays, Untaken
  <1>2. ASSUME NEW i \in Requests, Abandon(i) PROVE Table'
    <2>1. request' = [request EXCEPT ![i].pending = FALSE] /\ UNCHANGED <<phase, life>>
      BY <1>2 DEF Abandon
    <2>2. \A j \in Requests : Stays(j)
      BY <2>1 DEF HostTypeOK, Request, Stays
    <2> QED BY <2>1, <2>2, TableStays
  <1>3. ASSUME NEW i \in Requests, Receive(i) \/ Handle(i) \/ RunEnds(i) PROVE Table'
    BY <1>3, PlainTable, GetTable, DeleteTable, DeletingTable, DeletedTable DEF Handle
  <1>4. CASE Read
    <2>1. UNCHANGED request \/ \E i : request' = [request EXCEPT ![i].pending = FALSE]
      <3>1. UNCHANGED request \/ request' = [request EXCEPT ![Head(inbox).of].pending = FALSE]
        BY <1>4, Zenon DEF Read
      <3> QED BY <3>1
    <2>2. \A j \in Requests : Stays(j)
      <3>1. CASE UNCHANGED request
        BY <3>1 DEF Stays
      <3>2. CASE \E i : request' = [request EXCEPT ![i].pending = FALSE]
        <4>1. PICK i : request' = [request EXCEPT ![i].pending = FALSE]
          BY <3>2
        <4>2. ASSUME NEW j \in Requests
              PROVE  request'[j] = request[j] \/ request'[j] = [request[j] EXCEPT !.pending = FALSE]
          BY <4>1 DEF HostTypeOK
        <4>3. \A j \in Requests : request[j] \in Request
          BY DEF HostTypeOK
        <4> QED BY <4>2, <4>3 DEF Request, Stays
      <3> QED BY <2>1, <3>1, <3>2
    <2>3. UNCHANGED <<phase, life>>
      BY <1>4 DEF Read
    <2> QED BY <2>2, <2>3, TableStays
  <1>5. CASE LoseConnection
    <2>1. \A j \in Requests : Stays(j) \/ Untaken(j)
      <3>1. ASSUME NEW j \in Requests PROVE Stays(j) \/ Untaken(j)
        <4>1. /\ request'[j].kind = request[j].kind /\ request'[j].entry = request[j].entry
              /\ request'[j].step = IF request[j].step = "sent" THEN "end" ELSE request[j].step
              /\ request'[j].ok <=> request[j].ok /\ request[j].step # "sent"
          BY <1>5, LoseConnectionIs
        <4>2. request[j].ok \in BOOLEAN /\ request'[j].ok \in BOOLEAN
          BY <1>5, HostTyped DEF HostTypeOK, Request
        <4> QED BY <4>1, <4>2 DEF Stays, Untaken
      <3> QED BY <3>1
    <2>2. UNCHANGED <<phase, life>>
      BY <1>5, LoseConnectionIs DEF life
    <2> QED BY <2>1, <2>2, TableStays
  <1>6. CASE PiEvent
    BY <1>6, TableStays DEF PiEvent, Stays
  <1>7. CASE Release \/ Released \/ Close
    BY <1>7, EntryTable
  <1>8. CASE Opened
    BY <1>8, OpenedTable
  <1>9. CASE Stop
    <2>1. \A j \in Requests : Stays(j)
      BY <1>9, StopIs DEF Stays
    <2>2. UNCHANGED life /\ phase = "serving" /\ phase' = "stopping"
      BY <1>9 DEF Stop
    <2> QED BY <2>1, <2>2, TableStays
  <1>10. CASE UNCHANGED hostVars
    <2>1. UNCHANGED <<phase, life, request>>
      BY <1>10 DEF hostVars
    <2> QED BY <2>1, TableStays DEF Stays
  <1> QED BY <1>1, <1>2, <1>3, <1>4, <1>5, <1>6, <1>7, <1>8, <1>9, <1>10 DEF HostNext

LEMMA HostInvInit == HostInit => HostInv
  <1> SUFFICES ASSUME HostInit PROVE HostInv
    OBVIOUS
  <1>1. Unused \in Request
    BY HostNumbers DEF Unused, Request, Kinds
  <1>2. HostTypeOK
    <2>1. request \in [Requests -> Request] /\ entries \in [Entries -> {"none", "building", "open", "closing", "closed"}]
      BY <1>1 DEF HostInit
    <2>2. kept \in Seq(1..MaxEvents) /\ inbox \in Seq(Event \cup Answer)
      BY EmptySeq DEF HostInit
    <2>3. /\ phase = "serving" /\ catalog = FALSE /\ entry = 0 /\ opening = 0 /\ evicting = 0
          /\ running = {} /\ sequence = 0 /\ attached = {} /\ loading = 0 /\ current = 1 /\ view = -1
      BY DEF HostInit
    <2>4. /\ phase \in {"serving", "stopping", "closed"} /\ catalog \in BOOLEAN
          /\ {entry, opening, evicting} \subseteq 0..MaxEntries /\ running \subseteq Entries
      BY <2>3, HostNumbers
    <2>5. sequence \in 0..MaxEvents /\ current \in 1..MaxConnections /\ view \in -1..MaxEvents
      BY <2>3, HostNumbers
    <2>6. attached \subseteq 1..MaxConnections /\ loading \in 0..MaxRequests
      BY <2>3, HostNumbers
    <2> QED BY <2>1, <2>2, <2>4, <2>5, <2>6 DEF HostTypeOK
  <1>3. \A i \in Requests : request[i].step = "none" /\ request[i].kind = "other"
    BY DEF HostInit, Unused
  <1>4. Orderly
    BY <1>3, EmptySeq DEF HostInit, Orderly, InTurn, KindsFit, CreatedFirst, DeletionIsLast, Stands, StillAwaited, AnswersEnd, At
  <1>5. Table
    BY <1>3 DEF HostInit, Table, Placed, HoldersAgree, HoldersHaveIt, RunsAreKnown, Gone, BuiltForSomebody,
                Holds, Forgets, At, Occupied
  <1> QED BY <1>2, <1>4, <1>5 DEF HostInv

LEMMA HostInvStep == HostInv /\ [HostNext]_hostVars => HostInv'
  <1> SUFFICES ASSUME HostInv, [HostNext]_hostVars PROVE HostInv'
    OBVIOUS
  <1> USE DEF HostInv
  <1>1. HostTypeOK'
    <2>1. ASSUME NEW i \in Requests, Send(i) \/ Abandon(i) \/ Receive(i) \/ Handle(i) \/ RunEnds(i) PROVE HostTypeOK'
      BY <2>1, CallsTyped, WorkTyped DEF Handle, Table
    <2>2. CASE UNCHANGED hostVars
      BY <2>2 DEF hostVars, life, peer, wire, HostTypeOK
    <2> QED BY <2>1, <2>2, HostTyped DEF HostNext
  <1>2. Orderly'
    BY OrderlyStep
  <1>3. Table'
    BY TableStep
  <1> QED BY <1>1, <1>2, <1>3

LEMMA EntriesSafeBy == HostInv => EntriesAreSafe
  <1> SUFFICES ASSUME HostInv PROVE EntriesAreSafe
    OBVIOUS
  <1> USE DEF HostInv
  <1>1. OneEntry
    <2>1. \A e \in Entries : entries[e] \in Occupied => e \in {opening, entry, evicting} \ {0}
      BY HostNumbers DEF Table, Placed
    <2>2. /\ opening # 0 => entry = 0 /\ evicting = 0
          /\ entry # 0 => evicting = 0
      BY DEF Table, Placed
    <2> QED BY <2>1, <2>2 DEF OneEntry, Occupied
  <1>2. RunsKeepTheirEntry
    <2>1. ASSUME phase = "serving", NEW i \in Requests, At(i, "running")
          PROVE  /\ \/ request[i].entry = entry /\ entries[entry] = "open"
                    \/ \E j \in Requests : request[j].kind = "delete" /\ request[j].connection # request[i].connection
                 /\ \A j \in Requests \ {i} : ~At(j, "running")
      <3>1. request[i].kind = "prompt" /\ Holds(i)
        BY <2>1 DEF Orderly, KindsFit, Holds, At
      <3>2. ASSUME NEW j \in Requests, Stands(j)
            PROVE  request[j].kind = "delete" /\ request[j].connection # request[i].connection
        <4>1. j # i /\ request[j].kind = "delete"
          BY <3>1, <3>2 DEF Stands
        <4> QED BY <2>1, <3>1, <3>2, <4>1 DEF Orderly, DeletionIsLast, At
      <3>3. CASE \E j \in Requests : Forgets(j)
        <4>1. \E j \in Requests : Stands(j)
          BY <3>3 DEF Forgets, Stands, At
        <4> QED BY <2>1, <3>2, <4>1 DEF Table, RunsAreKnown
      <3>4. CASE \A j \in Requests : ~Forgets(j)
        <4>1. request[i].entry = entry /\ entry # 0
          BY <2>1, <3>1, <3>4, Holder DEF At
        <4>2. entries[entry] \in {"open", "closing"}
          BY <4>1 DEF Table, Placed
        <4>3. CASE entries[entry] = "closing"
          <5>1. PICK j \in Requests : At(j, "closing")
            BY <4>1, <4>3 DEF Table, Placed
          <5>2. Stands(j)
            BY <5>1 DEF Stands, At, Orderly, KindsFit
          <5> QED BY <2>1, <3>2, <5>2 DEF Table, RunsAreKnown
        <4> QED BY <2>1, <4>1, <4>2, <4>3 DEF Table, RunsAreKnown
      <3> QED BY <3>3, <3>4
    <2> QED BY <2>1 DEF RunsKeepTheirEntry
  <1>3. DeletedIsGone
    BY DEF DeletedIsGone, Table, Gone, Forgets, At
  <1>4. NothingLeftOpen
    BY HostNumbers DEF NothingLeftOpen, Table, Placed, Occupied, HostTypeOK
  <1> QED BY <1>1, <1>2, <1>3, <1>4 DEF EntriesAreSafe

\* The host has one entry of the session at a time; a run keeps its entry, unless the
\* session is deleted over another connection; nothing of a deleted session is left or
\* comes back; and a closed host has closed what it opened (sessions.ts).
THEOREM HostEntriesSafe == HostSpec => []EntriesAreSafe
  <1>1. HostSpec => []HostInv
    BY HostInvInit, HostInvStep, PTL DEF HostSpec
  <1> QED BY <1>1, EntriesSafeBy, PTL

-----------------------------------------------------------------------------
(* The host and the projection of the controller: why no event is missed and *)
(* none comes twice.  The frames that are on their way are a chain: each     *)
(* event follows the event or the snapshot before it, and the last of them   *)
(* is where the host goes on from.                                         *)

\* The number that a frame brings a projection to, or -1.
Carried(f) == IF "event" \in DOMAIN f THEN f.event ELSE f.at
IsSnapshot(f) == "of" \in DOMAIN f /\ f.at # -1

\* Of the first k frames of s, with what was projected before them: whether they
\* have a snapshot or follow one, and the number that they bring it to.
Anchored(s, v, k) == v # -1 \/ \E j \in 1..k : IsSnapshot(s[j])
Reaches(s, v, k, n) ==
    \/ v = n /\ \A m \in 1..k : Carried(s[m]) = -1
    \/ \E j \in 1..k : Carried(s[j]) = n /\ n # -1 /\ \A m \in (j + 1)..k : Carried(s[m]) = -1

Chained(s, v) ==
    \A k \in 1..Len(s) : "event" \in DOMAIN s[k] /\ Anchored(s, v, k - 1) => Reaches(s, v, k - 1, s[k].event - 1)

\* The last event that was not kept for the load.
Base == sequence - Len(kept)

\* A load or a creation whose answer may carry a snapshot.
Fresh(i) ==
    /\ request[i].kind \in {"create", "load"} /\ Live(i)
    /\ request[i].step \in {"sent", "get", "opened", "work"} \/ request[i].at # -1

KeptFollow ==
    /\ loading = 0 => kept = << >>
    /\ Len(kept) <= sequence /\ \A k \in 1..Len(kept) : kept[k] = Base + k

SnapshotsFit ==
    \A i \in Requests : request[i].at # -1 =>
        /\ At(i, "reply") /\ request[i].ok /\ request[i].kind \in {"create", "load"}
        /\ request[i].connection \in attached
        /\ request[i].kind = "create" => request[i].at = sequence
        /\ loading = i => request[i].at \in Base..sequence

LoadsFit ==
    /\ loading # 0 =>
         /\ request[loading].kind = "load" /\ request[loading].connection = current
         /\ request[loading].step \in {"get", "opened", "work", "reply"}
    /\ \A i \in Requests :
         request[i].kind = "load" /\ Live(i) /\ (request[i].step \in {"get", "opened", "work"} \/ request[i].at # -1)
           => loading = i
    /\ \A i \in Requests : At(i, "sent") => request[i].connection = current

\* No call but of the kind "other" follows one that waits.
OneWaits ==
    \A i, j \in Requests : i < j /\ request[i].pending /\ request[i].kind # "other" =>
        request[j].kind = "other" \/ At(j, "none")

ViewFits ==
    /\ view # -1 => \E i \in Requests : ~At(i, "none")
    /\ \A i \in Requests : Fresh(i) => view = -1
    /\ current \notin attached => ~Anchored(inbox, view, Len(inbox))
    /\ attached \subseteq 1..current
    /\ \A k \in 1..Len(inbox) : IsSnapshot(inbox[k]) =>
         /\ view = -1 /\ request[inbox[k].of].kind \in {"create", "load"}
         /\ request[inbox[k].of].pending =>
              /\ \A i \in Requests : ~Fresh(i)
              /\ \A m \in (k + 1)..Len(inbox) : ~IsSnapshot(inbox[m])

TipFits ==
    (loading = 0 \/ request[loading].at = -1) /\ current \in attached /\ Anchored(inbox, view, Len(inbox))
        => Reaches(inbox, view, Len(inbox), Base)

Flow ==
    /\ phase # "serving" => inbox = << >> /\ loading = 0 /\ kept = << >>
    /\ phase = "serving" =>
         KeptFollow /\ SnapshotsFit /\ LoadsFit /\ OneWaits /\ ViewFits /\ TipFits /\ Chained(inbox, view)

-----------------------------------------------------------------------------
LEMMA FrameIs ==
    ASSUME NEW f \in Event \cup Answer
    PROVE  /\ "event" \in DOMAIN f => f \in Event /\ Carried(f) = f.event /\ f.event \in 1..MaxEvents /\ ~IsSnapshot(f)
           /\ "event" \notin DOMAIN f => f \in Answer /\ "of" \in DOMAIN f /\ Carried(f) = f.at
                                          /\ f.at \in -1..MaxEvents /\ (IsSnapshot(f) <=> f.at # -1)
           /\ IsSnapshot(f) => Carried(f) # -1 /\ "event" \notin DOMAIN f
           /\ Carried(f) # -1 <=> "event" \in DOMAIN f \/ IsSnapshot(f)
  <1>1. CASE f \in Event
    BY <1>1, HostNumbers DEF Event, Carried, IsSnapshot
  <1>2. CASE f \in Answer
    BY <1>2, HostNumbers DEF Answer, Carried, IsSnapshot
  <1> QED BY <1>1, <1>2

\* What a frame that is read leaves of the rest.  It is projected if there is a
\* projection, or if it is a snapshot that is waited for.
LEMMA ChainedTail ==
    ASSUME NEW s, NEW t, NEW n \in Nat, n >= 1, Len(s) = n, Len(t) = n - 1, \A k \in 1..(n - 1) : t[k] = s[k + 1],
           NEW v, NEW w, Chained(s, v),
           \A k \in 1..n : IsSnapshot(s[k]) => Carried(s[k]) # -1,
           w # -1 => w = (IF Carried(s[1]) = -1 THEN v ELSE Carried(s[1])) /\ (v # -1 \/ IsSnapshot(s[1]))
    PROVE  /\ Chained(t, w)
           /\ Anchored(t, w, n - 1) => Anchored(s, v, n)
           /\ \A m : Anchored(t, w, n - 1) /\ Reaches(s, v, n, m) => Reaches(t, w, n - 1, m)
  <1>1. ASSUME NEW k \in 0..(n - 1), Anchored(t, w, k) PROVE Anchored(s, v, k + 1)
    <2>1. CASE w # -1
      BY <2>1 DEF Anchored
    <2>2. CASE \E j \in 1..k : IsSnapshot(t[j])
      <3>1. PICK j \in 1..k : IsSnapshot(t[j])
        BY <2>2
      <3>2. j + 1 \in 1..(k + 1) /\ t[j] = s[j + 1]
        OBVIOUS
      <3> QED BY <3>1, <3>2 DEF Anchored
    <2> QED BY <1>1, <2>1, <2>2 DEF Anchored
  <1>2. ASSUME NEW k \in 0..(n - 1), Anchored(t, w, k), NEW m, Reaches(s, v, k + 1, m) PROVE Reaches(t, w, k, m)
    <2>1. CASE v = m /\ \A l \in 1..(k + 1) : Carried(s[l]) = -1
      <3>1. ASSUME NEW l \in 1..k PROVE Carried(t[l]) = -1
        <4>1. l + 1 \in 1..(k + 1) /\ t[l] = s[l + 1]
          OBVIOUS
        <4> QED BY <2>1, <4>1
      <3>2. \A l \in 1..k : ~IsSnapshot(t[l])
        <4>1. \A l \in 1..k : l + 1 \in 1..n /\ t[l] = s[l + 1]
          OBVIOUS
        <4> QED BY <3>1, <4>1
      <3>3. w # -1
        BY <1>2, <3>2 DEF Anchored
      <3>4. w = m
        BY <2>1, <3>3
      <3> QED BY <3>1, <3>4 DEF Reaches
    <2>2. CASE \E j \in 1..(k + 1) : Carried(s[j]) = m /\ m # -1 /\ \A l \in (j + 1)..(k + 1) : Carried(s[l]) = -1
      <3>1. PICK j \in 1..(k + 1) : Carried(s[j]) = m /\ m # -1 /\ \A l \in (j + 1)..(k + 1) : Carried(s[l]) = -1
        BY <2>2
      <3>2. CASE j # 1
        <4>1. j - 1 \in 1..k /\ t[j - 1] = s[j]
          BY <3>2
        <4>2. ASSUME NEW l \in ((j - 1) + 1)..k PROVE Carried(t[l]) = -1
          <5>1. l \in 1..k /\ l + 1 \in (j + 1)..(k + 1)
            BY <4>1
          <5>2. t[l] = s[l + 1]
            BY <5>1
          <5> QED BY <3>1, <5>1, <5>2
        <4> QED BY <3>1, <4>1, <4>2 DEF Reaches
      <3>3. CASE j = 1
        <4>1. ASSUME NEW l \in 1..k PROVE Carried(t[l]) = -1
          <5>1. l + 1 \in (j + 1)..(k + 1) /\ t[l] = s[l + 1]
            BY <3>3
          <5> QED BY <3>1, <5>1
        <4>2. \A l \in 1..k : ~IsSnapshot(t[l])
          <5>1. \A l \in 1..k : l + 1 \in 1..n /\ t[l] = s[l + 1]
            OBVIOUS
          <5> QED BY <4>1, <5>1
        <4>3. w # -1
          BY <1>2, <4>2 DEF Anchored
        <4>4. w = m
          BY <3>1, <3>3, <4>3
        <4> QED BY <4>1, <4>4 DEF Reaches
      <3> QED BY <3>2, <3>3
    <2> QED BY <1>2, <2>1, <2>2 DEF Reaches
  <1>3. Chained(t, w)
    <2>1. ASSUME NEW k \in 1..(n - 1), "event" \in DOMAIN t[k], Anchored(t, w, k - 1)
          PROVE  Reaches(t, w, k - 1, t[k].event - 1)
      <3>1. k - 1 \in 0..(n - 1) /\ (k - 1) + 1 = k /\ k + 1 \in 1..n /\ (k + 1) - 1 = k /\ t[k] = s[k + 1]
        OBVIOUS
      <3>2. Anchored(s, v, k)
        BY <1>1, <2>1, <3>1
      <3>3. Reaches(s, v, k, t[k].event - 1)
        BY <2>1, <3>1, <3>2 DEF Chained
      <3> QED BY <1>2, <2>1, <3>1, <3>3
    <2> QED BY <2>1 DEF Chained
  <1>4. n - 1 \in 0..(n - 1) /\ (n - 1) + 1 = n
    OBVIOUS
  <1> QED BY <1>1, <1>2, <1>3, <1>4

\* A sequence that goes on tells the same of its beginning.
LEMMA SameBefore ==
    ASSUME NEW s, NEW u, NEW n \in Nat, NEW v, \A k \in 1..n : u[k] = s[k]
    PROVE  \A k \in 0..n : /\ Anchored(u, v, k) <=> Anchored(s, v, k)
                           /\ \A m : Reaches(u, v, k, m) <=> Reaches(s, v, k, m)
  <1> SUFFICES ASSUME NEW k \in 0..n
               PROVE  /\ Anchored(u, v, k) <=> Anchored(s, v, k)
                      /\ \A m : Reaches(u, v, k, m) <=> Reaches(s, v, k, m)
    OBVIOUS
  <1>1. \A j \in 1..k : u[j] = s[j]
    OBVIOUS
  <1>2. \A j \in 1..k : \A l \in (j + 1)..k : l \in 1..k
    OBVIOUS
  <1> QED BY <1>1, <1>2 DEF Anchored, Reaches

\* One frame more: an event that follows, or an answer.
LEMMA ChainedMore ==
    ASSUME NEW s, NEW u, NEW n \in Nat, Len(s) = n, Len(u) = n + 1, \A k \in 1..n : u[k] = s[k],
           NEW v, Chained(s, v), u[n + 1] \in Event \cup Answer,
           "event" \in DOMAIN u[n + 1] /\ Anchored(s, v, n) => Reaches(s, v, n, u[n + 1].event - 1)
    PROVE  /\ Chained(u, v)
           /\ Anchored(u, v, n + 1) <=> Anchored(s, v, n) \/ IsSnapshot(u[n + 1])
           /\ Carried(u[n + 1]) # -1 => Reaches(u, v, n + 1, Carried(u[n + 1]))
           /\ Carried(u[n + 1]) = -1 => \A m : Reaches(s, v, n, m) => Reaches(u, v, n + 1, m)
  <1>1. Chained(u, v)
    <2>1. ASSUME NEW k \in 1..(n + 1), "event" \in DOMAIN u[k], Anchored(u, v, k - 1)
          PROVE  Reaches(u, v, k - 1, u[k].event - 1)
      <3>1. k - 1 \in 0..n
        OBVIOUS
      <3>2. Anchored(s, v, k - 1) /\ \A m : Reaches(u, v, k - 1, m) <=> Reaches(s, v, k - 1, m)
        BY <2>1, <3>1, SameBefore
      <3>3. CASE k = n + 1
        BY <2>1, <3>2, <3>3
      <3>4. CASE k # n + 1
        <4>1. k \in 1..n /\ u[k] = s[k]
          BY <3>4
        <4> QED BY <2>1, <3>2, <4>1 DEF Chained
      <3> QED BY <3>3, <3>4
    <2> QED BY <2>1 DEF Chained
  <1>2. n \in 0..n /\ \A j \in 1..(n + 1) : j \in 1..n \/ j = n + 1
    OBVIOUS
  <1>3. /\ Anchored(u, v, n) <=> Anchored(s, v, n)
        /\ \A m : Reaches(u, v, n, m) <=> Reaches(s, v, n, m)
    BY <1>2, SameBefore
  <1>4. Anchored(u, v, n + 1) <=> Anchored(s, v, n) \/ IsSnapshot(u[n + 1])
    BY <1>2, <1>3 DEF Anchored
  <1>5. Carried(u[n + 1]) # -1 => Reaches(u, v, n + 1, Carried(u[n + 1]))
    <2>1. n + 1 \in 1..(n + 1) /\ \A m \in ((n + 1) + 1)..(n + 1) : FALSE
      OBVIOUS
    <2> QED BY <2>1 DEF Reaches
  <1>6. ASSUME Carried(u[n + 1]) = -1, NEW m, Reaches(s, v, n, m) PROVE Reaches(u, v, n + 1, m)
    <2>1. Reaches(u, v, n, m)
      BY <1>3, <1>6
    <2>2. \A j \in 1..n : j \in 1..(n + 1) /\ \A l \in (j + 1)..(n + 1) : l \in (j + 1)..n \/ l = n + 1
      OBVIOUS
    <2> QED BY <1>2, <1>6, <2>1, <2>2 DEF Reaches
  <1> QED BY <1>1, <1>4, <1>5, <1>6

\* u has the first n frames of s, and then the m events after b.
Extends(u, s, n, m, b) ==
    /\ Len(s) = n /\ Len(u) = n + m /\ \A k \in 1..n : u[k] = s[k]
    /\ \A k \in 1..m : u[n + k] \in Event /\ u[n + k].event = b + k

\* Events that are sent together, one after the other.
LEMMA ChainedRun ==
    ASSUME NEW s, NEW u, NEW n \in Nat, NEW m \in Nat, NEW b \in Nat, Extends(u, s, n, m, b),
           NEW v, Chained(s, v), Anchored(s, v, n) => Reaches(s, v, n, b)
    PROVE  /\ Chained(u, v)
           /\ Anchored(u, v, n + m) <=> Anchored(s, v, n)
           /\ Anchored(s, v, n) => Reaches(u, v, n + m, b + m)
  <1> USE DEF Extends
  <1>1. \A k \in 1..m : u[n + k] \in Event /\ Carried(u[n + k]) = b + k /\ ~IsSnapshot(u[n + k])
    <2>1. ASSUME NEW k \in 1..m PROVE u[n + k] \in Event /\ Carried(u[n + k]) = b + k /\ ~IsSnapshot(u[n + k])
      <3>1. "event" \in DOMAIN u[n + k]
        BY DEF Event
      <3> QED BY <3>1, FrameIs
    <2> QED BY <2>1
  <1>2. ASSUME NEW k \in 0..m, Anchored(u, v, n + k) PROVE Anchored(s, v, n)
    <2>1. CASE v # -1
      BY <2>1 DEF Anchored
    <2>2. CASE \E j \in 1..(n + k) : IsSnapshot(u[j])
      <3>1. PICK j \in 1..(n + k) : IsSnapshot(u[j])
        BY <2>2
      <3>2. CASE j <= n
        BY <3>1, <3>2 DEF Anchored
      <3>3. CASE ~(j <= n)
        <4>1. j - n \in 1..m /\ n + (j - n) = j
          BY <3>3
        <4> QED BY <1>1, <3>1, <4>1
      <3> QED BY <3>2, <3>3
    <2> QED BY <1>2, <2>1, <2>2 DEF Anchored
  <1>3. ASSUME NEW k \in 0..m, Anchored(s, v, n) PROVE Reaches(u, v, n + k, b + k)
    <2>1. CASE k = 0
      <3>1. n \in 0..n /\ n + k = n /\ b + k = b
        BY <2>1
      <3>2. \A x : Reaches(u, v, n, x) <=> Reaches(s, v, n, x)
        BY <3>1, SameBefore
      <3> QED BY <1>3, <3>1, <3>2
    <2>2. CASE k # 0
      <3>1. n + k \in 1..(n + k) /\ Carried(u[n + k]) = b + k /\ b + k # -1 /\ \A l \in ((n + k) + 1)..(n + k) : FALSE
        <4>1. k \in 1..m /\ n + k \in 1..(n + k) /\ b + k # -1
          BY <2>2
        <4>2. Carried(u[n + k]) = b + k
          BY <1>1, <4>1
        <4> QED BY <4>1, <4>2
      <3> QED BY <3>1 DEF Reaches
    <2> QED BY <2>1, <2>2
  <1>4. Chained(u, v)
    <2>1. ASSUME NEW k \in 1..(n + m), "event" \in DOMAIN u[k], Anchored(u, v, k - 1)
          PROVE  Reaches(u, v, k - 1, u[k].event - 1)
      <3>1. CASE k <= n
        <4>1. k \in 1..n /\ k - 1 \in 0..n /\ u[k] = s[k]
          BY <3>1
        <4>2. Anchored(s, v, k - 1) /\ \A x : Reaches(u, v, k - 1, x) <=> Reaches(s, v, k - 1, x)
          BY <2>1, <4>1, SameBefore
        <4> QED BY <2>1, <4>1, <4>2 DEF Chained
      <3>2. CASE ~(k <= n)
        <4> DEFINE q == k - n
        <4>1. q \in 1..m /\ q - 1 \in 0..m /\ n + q = k /\ n + (q - 1) = k - 1
          BY <3>2
        <4> HIDE DEF q
        <4>2. Anchored(s, v, n)
          BY <1>2, <2>1, <4>1
        <4>3. Reaches(u, v, k - 1, b + (q - 1))
          BY <1>3, <4>1, <4>2
        <4>4. u[k].event = b + q /\ (b + q) - 1 = b + (q - 1)
          <5>1. u[n + q].event = b + q /\ q \in Nat
            BY <4>1
          <5> QED BY <4>1, <5>1
        <4> QED BY <4>3, <4>4
      <3> QED BY <3>1, <3>2
    <2> QED BY <2>1 DEF Chained
  <1>5. Anchored(s, v, n) => Anchored(u, v, n + m)
    <2>1. \A j \in 1..n : j \in 1..(n + m)
      OBVIOUS
    <2> QED BY <2>1 DEF Anchored
  <1>6. m \in 0..m
    OBVIOUS
  <1> QED BY <1>2, <1>3, <1>4, <1>5, <1>6

\* What is chosen of numbers that follow each other: those after the given one.
LEMMA OnlyRest ==
    ASSUME NEW s, NEW S, Len(s) \in Nat, NEW b \in Nat, NEW c \in b..(b + Len(s)),
           \A k \in 1..Len(s) : s[k] = b + k /\ (s[k] \in S <=> s[k] > c)
    PROVE  /\ Len(Only(s, S)) = b + Len(s) - c
           /\ \A k \in 1..(b + Len(s) - c) : Only(s, S)[k] = c + k
  <1> DEFINE n0 == Len(s)
             Size(n) == IF b + n > c THEN b + n - c ELSE 0
             Good(t, n) == /\ t \in Seq(Nat) /\ Len(t) = Size(n)
                           /\ \A k \in 1..Size(n) : t[k] = c + k
  <1>1. PICK f : Chooses(f, s, S, n0) /\ Only(s, S) = f[n0]
    <2>1. \E f : Chooses(f, s, S, n0)
      BY ChoosesExists
    <2> QED BY <2>1 DEF Only, Chooses
  <1>2. \A n \in 0..n0 : f[n] = IF n = 0 THEN << >>
                        ELSE IF s[n] \in S THEN Append(f[n - 1], s[n]) ELSE f[n - 1]
    BY <1>1 DEF Chooses
  <1> DEFINE T == {n \in Nat : n <= n0 => Good(f[n], n)}
  <1>3. 0 \in T
    <2>1. f[0] = << >> /\ Size(0) = 0
      BY <1>2
    <2>2. << >> \in Seq(Nat) /\ Len(<< >>) = 0
      BY EmptySeq
    <2>3. \A k \in 1..Size(0) : FALSE
      BY <2>1
    <2> HIDE DEF Size
    <2>4. Good(f[0], 0)
      BY <2>1, <2>2, <2>3
    <2> HIDE DEF Good
    <2> QED BY <2>4
  <1>4. ASSUME NEW n \in T PROVE n + 1 \in T
    <2>1. CASE n + 1 <= n0
      <3>1. n \in Nat /\ n + 1 \in 1..n0 /\ (n + 1) - 1 = n /\ n + 1 \in 0..n0 /\ n + 1 # 0
        BY <2>1
      <3>2. Good(f[n], n)
        BY <2>1, <3>1
      <3>3. s[n + 1] = b + (n + 1) /\ (s[n + 1] \in S <=> b + (n + 1) > c)
        BY <3>1
      <3>4. CASE s[n + 1] \in S
        <4>1. f[n + 1] = Append(f[n], b + (n + 1)) /\ b + (n + 1) \in Nat
          <5>1. f[n + 1] = IF n + 1 = 0 THEN << >>
                           ELSE IF s[n + 1] \in S THEN Append(f[(n + 1) - 1], s[n + 1]) ELSE f[(n + 1) - 1]
            BY <1>2, <3>1, Zenon
          <5>2. f[n + 1] = Append(f[n], s[n + 1])
            BY <3>1, <3>4, <5>1
          <5> QED BY <3>1, <3>3, <5>2
        <4>2. Size(n + 1) = Size(n) + 1 /\ Size(n) \in Nat /\ b + (n + 1) = c + Size(n + 1)
          BY <3>1, <3>3, <3>4
        <4> HIDE DEF Size
        <4>3. /\ f[n + 1] \in Seq(Nat) /\ Len(f[n + 1]) = Size(n + 1) /\ f[n + 1][Size(n + 1)] = c + Size(n + 1)
              /\ \A k \in 1..Size(n) : f[n + 1][k] = c + k
          BY <3>2, <4>1, <4>2, AppendProperties
        <4>4. \A k \in 1..Size(n + 1) : k \in 1..Size(n) \/ k = Size(n + 1)
          BY <4>2
        <4>5. Good(f[n + 1], n + 1)
          BY <4>3, <4>4
        <4> QED BY <3>1, <4>5
      <3>5. CASE s[n + 1] \notin S
        <4>1. f[n + 1] = f[n] /\ Size(n + 1) = 0 /\ Size(n) = 0
          BY <1>2, <3>1, <3>3, <3>5
        <4> HIDE DEF Size
        <4>2. Good(f[n + 1], n + 1)
          BY <3>2, <4>1
        <4> QED BY <3>1, <4>2
      <3> QED BY <3>4, <3>5
    <2>2. CASE ~(n + 1 <= n0)
      BY <2>2
    <2> QED BY <2>1, <2>2
  <1>5. T = Nat
    <2> HIDE DEF T
    <2>1. T \in SUBSET Nat
      BY DEF T
    <2> QED BY <1>3, <1>4, <2>1, SetInduction
  <1>6. Good(f[n0], n0)
    <2>1. n0 \in T
      BY <1>5
    <2> HIDE DEF Good
    <2> QED BY <2>1
  <1>7. Size(n0) = b + n0 - c
    OBVIOUS
  <1> QED BY <1>1, <1>6, <1>7

-----------------------------------------------------------------------------
FlowInv == HostInv /\ Flow

LEMMA FlowTypes ==
    ASSUME HostTypeOK
    PROVE  /\ sequence \in 0..MaxEvents /\ sequence \in Nat /\ Len(kept) \in Nat /\ Len(inbox) \in Nat
           /\ kept \in Seq(1..MaxEvents) /\ inbox \in Seq(Event \cup Answer)
           /\ current \in 1..MaxConnections /\ current \in Nat /\ view \in -1..MaxEvents /\ loading \in 0..MaxRequests
           /\ (loading # 0 => loading \in Requests)
           /\ \A i \in Requests :
                /\ request[i] \in Request /\ request[i].at \in -1..MaxEvents
                /\ request[i].pending \in BOOLEAN /\ request[i].ok \in BOOLEAN /\ request[i].kind \in Kinds
                /\ request[i].connection \in 1..MaxConnections
           /\ \A k \in 1..Len(inbox) : inbox[k] \in Event \cup Answer
  <1>1. /\ sequence \in 0..MaxEvents /\ sequence \in Nat /\ kept \in Seq(1..MaxEvents) /\ inbox \in Seq(Event \cup Answer)
        /\ current \in 1..MaxConnections /\ current \in Nat /\ view \in -1..MaxEvents /\ loading \in 0..MaxRequests
        /\ (loading # 0 => loading \in Requests)
    BY HostNumbers DEF HostTypeOK, Requests
  <1>2. Len(kept) \in Nat /\ Len(inbox) \in Nat /\ \A k \in 1..Len(inbox) : inbox[k] \in Event \cup Answer
    BY <1>1, LenProperties, ElementOfSeq
  <1>3. \A i \in Requests : request[i] \in Request
    BY DEF HostTypeOK
  <1>4. \A i \in Requests :
           /\ request[i].at \in -1..MaxEvents
           /\ request[i].pending \in BOOLEAN /\ request[i].ok \in BOOLEAN /\ request[i].kind \in Kinds
           /\ request[i].connection \in 1..MaxConnections
    BY <1>3 DEF Request
  <1> QED BY <1>1, <1>2, <1>3, <1>4

LEMMA SnapshotIs ==
    ASSUME HostTypeOK, NEW k \in 1..Len(inbox), IsSnapshot(inbox[k])
    PROVE  inbox[k].of \in Requests
  BY FlowTypes, FrameIs DEF Answer

LEMMA Unanchored ==
    ASSUME NEW s, NEW v, Len(s) \in Nat, ~Anchored(s, v, Len(s))
    PROVE  /\ Chained(s, v) /\ v = -1 /\ \A k \in 1..Len(s) : ~IsSnapshot(s[k])
  <1>1. v = -1 /\ \A k \in 1..Len(s) : ~IsSnapshot(s[k])
    BY DEF Anchored
  <1>2. \A k \in 1..Len(s) : \A j \in 1..(k - 1) : j \in 1..Len(s)
    OBVIOUS
  <1> QED BY <1>1, <1>2 DEF Chained, Anchored

\* A creation is the only request until it was answered, and nothing is projected.
LEMMA Created ==
    ASSUME FlowInv, phase = "serving", NEW i \in Requests, request[i].kind = "create", request[i].step \notin {"none", "end"}
    PROVE  /\ loading = 0 /\ \A j \in Requests \ {i} : At(j, "none")
           /\ \A k \in 1..Len(inbox) : ~IsSnapshot(inbox[k])
  <1>1. \A j \in Requests \ {i} : At(j, "none")
    BY DEF FlowInv, HostInv, Orderly, CreatedFirst
  <1>2. loading = 0
    <2>1. loading # 0 => loading \in Requests /\ request[loading].kind = "load" /\ ~At(loading, "none")
      BY FlowTypes DEF FlowInv, HostInv, Flow, LoadsFit, At
    <2> QED BY <1>1, <2>1
  <1>3. ASSUME NEW k \in 1..Len(inbox), IsSnapshot(inbox[k]) PROVE FALSE
    <2>1. inbox[k].of \in Requests /\ "of" \in DOMAIN inbox[k] /\ k \in DOMAIN inbox
      BY <1>3, SnapshotIs, FlowTypes, LenProperties DEF FlowInv, HostInv, IsSnapshot
    <2>2. At(inbox[k].of, "end")
      BY <2>1 DEF FlowInv, HostInv, Orderly, AnswersEnd
    <2> QED BY <1>1, <2>1, <2>2 DEF At
  <1> QED BY <1>1, <1>2, <1>3

\* Steps of requests that change nothing that a snapshot depends on.
Calm ==
    \A j \in Requests :
        /\ request'[j].kind = request[j].kind /\ request'[j].connection = request[j].connection
        /\ request'[j].pending => request[j].pending
        /\ request'[j].step = "none" <=> request[j].step = "none"
        /\ request'[j].step = "sent" => request[j].step = "sent"
        /\ request'[j].step \in {"get", "opened", "work"} => request[j].step \in {"get", "opened", "work"}
        /\ request'[j].at = request[j].at
        /\ request[j].at # -1 => request'[j].step = request[j].step /\ request'[j].ok = request[j].ok
        /\ loading = j => request'[j].step \in {"get", "opened", "work", "reply"}

LEMMA CalmCalls ==
    ASSUME FlowInv, phase = "serving", Calm, UNCHANGED <<phase, loading, current>>
    PROVE  /\ LoadsFit' /\ OneWaits' /\ \A i \in Requests : Fresh(i)' => Fresh(i)
           /\ (\E i \in Requests : ~At(i, "none")) => (\E i \in Requests : ~At(i, "none"))'
  <1>1. LoadsFit /\ OneWaits /\ (loading # 0 => loading \in Requests)
    BY FlowTypes DEF FlowInv, Flow, HostInv
  <1>2. LoadsFit'
    BY <1>1 DEF Calm, LoadsFit, Live, At
  <1>3. OneWaits'
    BY <1>1 DEF Calm, OneWaits, At
  <1>4. \A i \in Requests : Fresh(i)' => Fresh(i)
    BY DEF Calm, Fresh, Live
  <1> QED BY <1>2, <1>3, <1>4 DEF Calm, At

LEMMA KeepFlow ==
    ASSUME FlowInv, Calm, UNCHANGED <<phase, sequence, peer, wire>>
    PROVE  Flow'
  <1>1. UNCHANGED <<phase, sequence, attached, loading, kept, current, inbox, view>>
    BY DEF peer, wire
  <1>2. CASE phase # "serving"
    BY <1>1, <1>2 DEF FlowInv, Flow
  <1>3. CASE phase = "serving"
    <2>1. KeptFollow /\ SnapshotsFit /\ LoadsFit /\ OneWaits /\ ViewFits /\ TipFits /\ Chained(inbox, view)
      BY <1>3 DEF FlowInv, Flow
    <2>2. LoadsFit' /\ OneWaits' /\ \A i \in Requests : Fresh(i)' => Fresh(i)
      BY <1>1, <1>3, CalmCalls
    <2>3. KeptFollow' /\ Chained(inbox, view)'
      BY <1>1, <2>1 DEF KeptFollow, Base
    <2>4. SnapshotsFit'
      BY <1>1, <2>1 DEF SnapshotsFit, Calm, At, Base
    <2>5. ViewFits'
      <3>1. (view # -1 => \E i \in Requests : ~At(i, "none"))'
        BY <1>1, <1>3, <2>1, CalmCalls DEF ViewFits
      <3>2. (\A i \in Requests : Fresh(i) => view = -1)'
        BY <1>1, <2>1, <2>2 DEF ViewFits
      <3>3. (current \notin attached => ~Anchored(inbox, view, Len(inbox)))' /\ (attached \subseteq 1..current)'
        BY <1>1, <2>1 DEF ViewFits
      <3>4. ASSUME NEW k \in 1..Len(inbox), IsSnapshot(inbox[k])
            PROVE  /\ view = -1 /\ request'[inbox[k].of].kind \in {"create", "load"}
                   /\ request'[inbox[k].of].pending =>
                         /\ \A i \in Requests : ~Fresh(i)'
                         /\ \A m \in (k + 1)..Len(inbox) : ~IsSnapshot(inbox[m])
        <4>1. inbox[k].of \in Requests
          BY <3>4, SnapshotIs DEF FlowInv, HostInv
        <4>2. /\ request'[inbox[k].of].kind = request[inbox[k].of].kind
              /\ request'[inbox[k].of].pending => request[inbox[k].of].pending
          BY <4>1 DEF Calm
        <4> QED BY <2>1, <2>2, <3>4, <4>2 DEF ViewFits
      <3> QED BY <1>1, <3>1, <3>2, <3>3, <3>4 DEF ViewFits
    <2>6. TipFits'
      <3>1. loading # 0 => request'[loading].at = request[loading].at
        BY FlowTypes DEF Calm, FlowInv, HostInv
      <3> QED BY <1>1, <2>1, <3>1 DEF TipFits, Base
    <2> QED BY <1>1, <1>3, <2>2, <2>3, <2>4, <2>5, <2>6 DEF Flow
  <1> QED BY <1>2, <1>3

\* A step that adds no snapshot.
LEMMA CalmView ==
    ASSUME FlowInv, phase = "serving", Calm, UNCHANGED <<phase, loading, current, view, attached>>,
           NEW n \in Nat, n = Len(inbox), Len(inbox') \in Nat,
           \A k \in 1..Len(inbox') : IsSnapshot(inbox'[k]) => k \in 1..n /\ inbox'[k] = inbox[k],
           current \notin attached => inbox' = inbox
    PROVE  ViewFits'
  <1>1. ViewFits
    BY DEF FlowInv, Flow
  <1>2. \A i \in Requests : Fresh(i)' => Fresh(i)
    BY CalmCalls
  <1>3. (view # -1 => \E i \in Requests : ~At(i, "none"))'
    BY <1>1, CalmCalls DEF ViewFits
  <1>4. (\A i \in Requests : Fresh(i) => view = -1)'
    BY <1>1, <1>2 DEF ViewFits
  <1>5. (current \notin attached => ~Anchored(inbox, view, Len(inbox)))' /\ (attached \subseteq 1..current)'
    BY <1>1 DEF ViewFits
  <1>6. ASSUME NEW k \in 1..Len(inbox'), IsSnapshot(inbox'[k])
        PROVE  /\ view = -1 /\ request'[inbox'[k].of].kind \in {"create", "load"}
               /\ request'[inbox'[k].of].pending =>
                     /\ \A i \in Requests : ~Fresh(i)'
                     /\ \A m \in (k + 1)..Len(inbox') : ~IsSnapshot(inbox'[m])
    <2>1. k \in 1..Len(inbox) /\ inbox'[k] = inbox[k]
      BY <1>6
    <2>2. inbox[k].of \in Requests
      BY <1>6, <2>1, SnapshotIs DEF FlowInv, HostInv
    <2>3. /\ request'[inbox[k].of].kind = request[inbox[k].of].kind
          /\ request'[inbox[k].of].pending => request[inbox[k].of].pending
      BY <2>2 DEF Calm
    <2>4. /\ view = -1 /\ request[inbox[k].of].kind \in {"create", "load"}
          /\ request[inbox[k].of].pending =>
                /\ \A i \in Requests : ~Fresh(i)
                /\ \A m \in (k + 1)..Len(inbox) : ~IsSnapshot(inbox[m])
      BY <1>1, <1>6, <2>1 DEF ViewFits
    <2>5. ASSUME NEW m \in (k + 1)..Len(inbox'), IsSnapshot(inbox'[m]) PROVE m \in (k + 1)..Len(inbox) /\ inbox'[m] = inbox[m]
      <3>1. m \in 1..Len(inbox') /\ m >= k + 1
        BY <2>1
      <3>2. m \in 1..n /\ inbox'[m] = inbox[m]
        BY <2>5, <3>1
      <3> QED BY <2>1, <3>1, <3>2
    <2> QED BY <1>2, <2>1, <2>3, <2>4, <2>5
  <1> QED BY <1>3, <1>4, <1>5, <1>6 DEF ViewFits

\* One more event.
LEMMA PublishFlow ==
    ASSUME FlowInv, phase = "serving", Calm, Publish(1), UNCHANGED <<phase, loading, current, view, attached>>,
           \A i \in Requests : request[i].kind = "create" => request[i].at = -1
    PROVE  Flow'
  <1>1. KeptFollow /\ SnapshotsFit /\ LoadsFit /\ OneWaits /\ ViewFits /\ TipFits /\ Chained(inbox, view)
    BY DEF FlowInv, Flow
  <1>2. HostTypeOK
    BY DEF FlowInv, HostInv
  <1> DEFINE n == Len(inbox)
             e == [event |-> sequence + 1]
             c == Len(kept)
  <1>3. /\ sequence' = sequence + 1 /\ sequence \in Nat /\ n \in Nat /\ c \in Nat /\ sequence + 1 \in 1..MaxEvents
        /\ inbox \in Seq(Event \cup Answer) /\ kept \in Seq(1..MaxEvents)
    <2>1. sequence' = sequence + 1 /\ sequence' \in 0..MaxEvents
      BY <1>2, PublishTyped
    <2>2. sequence \in Nat /\ MaxEvents \in Nat
      BY <1>2, FlowTypes, HostNumbers
    <2> QED BY <1>2, <2>1, <2>2, FlowTypes
  <1>4. e \in Event /\ e \in Event \cup Answer /\ "event" \in DOMAIN e /\ e.event = sequence + 1
    BY <1>3 DEF Event
  <1>5. Carried(e) = sequence + 1 /\ ~IsSnapshot(e)
    BY <1>4, FrameIs
  <1>6. kept' = IF loading # 0 THEN Append(kept, sequence + 1) ELSE kept
    BY <1>2, PublishTyped
  <1>7. inbox' = IF loading = 0 /\ Listens THEN Append(inbox, e) ELSE inbox
    BY <1>2, PublishTyped
  <1>8. /\ Len(Append(inbox, e)) = n + 1 /\ \A k \in 1..n : Append(inbox, e)[k] = inbox[k]
        /\ Append(inbox, e)[n + 1] = e
    BY <1>3, <1>4, AppendProperties
  <1>9. /\ Len(Append(kept, sequence + 1)) = c + 1 /\ \A k \in 1..c : Append(kept, sequence + 1)[k] = kept[k]
        /\ Append(kept, sequence + 1)[c + 1] = sequence + 1
    BY <1>3, AppendProperties
  <1> HIDE DEF e
  <1>10. KeptFollow' /\ (loading # 0 => Base' = Base) /\ (loading = 0 => Base = sequence /\ Base' = sequence + 1)
    <2>1. CASE loading = 0
      <3>1. kept' = << >> /\ kept = << >> /\ Len(kept') = 0 /\ Len(kept) = 0
        BY <1>1, <1>6, <2>1 DEF KeptFollow
      <3>2. Base = sequence /\ Base' = sequence + 1
        BY <1>3, <3>1 DEF Base
      <3> QED BY <1>3, <2>1, <3>1, <3>2 DEF KeptFollow
    <2>2. CASE loading # 0
      <3>1. Len(kept') = c + 1 /\ (\A k \in 1..c : kept'[k] = kept[k]) /\ kept'[c + 1] = sequence + 1
        BY <1>6, <1>9, <2>2
      <3>2. Base' = Base /\ Base = sequence - c /\ Base + (c + 1) = sequence + 1 /\ c <= sequence
        BY <1>1, <1>3, <3>1 DEF Base, KeptFollow
      <3>3. \A k \in 1..c : kept[k] = Base + k
        BY <1>1 DEF KeptFollow
      <3>4. \A k \in 1..(c + 1) : k \in 1..c \/ k = c + 1
        BY <1>3
      <3>5. \A k \in 1..(c + 1) : kept'[k] = Base' + k
        BY <3>1, <3>2, <3>3, <3>4
      <3>6. c + 1 <= sequence + 1
        BY <1>3, <3>2
      <3> QED BY <1>3, <2>2, <3>1, <3>2, <3>5, <3>6 DEF KeptFollow
    <2> QED BY <2>1, <2>2
  <1>11. SnapshotsFit'
    <2>1. ASSUME NEW i \in Requests, request'[i].at # -1
          PROVE  /\ At(i, "reply")' /\ request'[i].ok /\ request'[i].kind \in {"create", "load"}
                 /\ request'[i].connection \in attached' /\ request'[i].kind # "create"
                 /\ loading' = i => request'[i].at \in Base'..sequence'
      <3>1. request'[i].at = request[i].at /\ request[i].at # -1
        BY <2>1 DEF Calm
      <3>2. /\ request'[i].kind = request[i].kind /\ request'[i].connection = request[i].connection
            /\ request'[i].step = request[i].step /\ request'[i].ok = request[i].ok
        BY <3>1 DEF Calm
      <3>3. /\ At(i, "reply") /\ request[i].ok /\ request[i].kind \in {"create", "load"}
            /\ request[i].connection \in attached /\ (loading = i => request[i].at \in Base..sequence)
        BY <1>1, <3>1 DEF SnapshotsFit
      <3>4. loading = i => request[i].at \in Base..(sequence + 1)
        <4>1. Base \in Int
          BY <1>3 DEF Base
        <4> QED BY <1>3, <3>3, <4>1
      <3>5. loading = i => loading # 0
        BY HostNumbers
      <3> QED BY <1>3, <1>10, <3>1, <3>2, <3>3, <3>4, <3>5 DEF At
    <2> QED BY <2>1 DEF SnapshotsFit
  <1>12. LoadsFit' /\ OneWaits'
    BY CalmCalls
  <1>13. ViewFits'
    <2>1. /\ Len(inbox') \in Nat
          /\ \A k \in 1..Len(inbox') : IsSnapshot(inbox'[k]) => k \in 1..n /\ inbox'[k] = inbox[k]
      <3>1. CASE inbox' = inbox
        BY <1>3, <3>1
      <3>2. CASE inbox' = Append(inbox, e)
        <4>1. \A k \in 1..(n + 1) : k \in 1..n \/ k = n + 1
          BY <1>3
        <4> QED BY <1>3, <1>5, <1>8, <3>2, <4>1
      <3> QED BY <1>7, <3>1, <3>2
    <2>2. current \notin attached => inbox' = inbox
      BY <1>7 DEF Listens
    <2> QED BY <1>3, <2>1, <2>2, CalmView
  <1>14. TipFits' /\ Chained(inbox', view)
    <2>1. CASE loading = 0 /\ Listens
      <3>1. Anchored(inbox, view, n) => Reaches(inbox, view, n, sequence)
        BY <1>1, <1>10, <2>1 DEF TipFits, Listens
      <3>2. inbox' = Append(inbox, e) /\ (sequence + 1) - 1 = sequence
        BY <1>3, <1>7, <2>1
      <3>3. /\ Len(inbox') = n + 1 /\ \A k \in 1..n : inbox'[k] = inbox[k]
            /\ inbox'[n + 1] = e
        BY <1>8, <3>2
      <3>4. inbox'[n + 1] \in Event \cup Answer /\ inbox'[n + 1].event - 1 = sequence
        BY <1>3, <1>4, <3>3
      <3>5. Chained(inbox', view) /\ (Carried(inbox'[n + 1]) # -1 => Reaches(inbox', view, n + 1, Carried(inbox'[n + 1])))
        <4>1. "event" \in DOMAIN inbox'[n + 1] /\ Anchored(inbox, view, n)
                => Reaches(inbox, view, n, inbox'[n + 1].event - 1)
          BY <3>1, <3>4
        <4> HIDE DEF n
        <4>2. Len(inbox) = n
          BY DEF n
        <4>3. Chained(inbox, view)
          BY <1>1
        <4> QED BY <1>3, <3>3, <3>4, <4>1, <4>2, <4>3, ChainedMore
      <3>6. Reaches(inbox', view, Len(inbox'), sequence + 1)
        BY <1>3, <1>5, <3>3, <3>5
      <3> QED BY <1>10, <2>1, <3>5, <3>6 DEF TipFits
    <2>2. CASE ~(loading = 0 /\ Listens)
      <3>1. inbox' = inbox
        BY <1>7, <2>2
      <3>2. CASE loading # 0
        <4>1. request'[loading].at = request[loading].at /\ Base' = Base
          BY <1>2, <1>10, <3>2, FlowTypes DEF Calm
        <4> QED BY <1>1, <3>1, <3>2, <4>1 DEF TipFits
      <3>3. CASE loading = 0
        BY <1>1, <2>2, <3>1, <3>3 DEF TipFits, Listens
      <3> QED BY <3>2, <3>3
    <2> QED BY <2>1, <2>2
  <1> QED BY <1>10, <1>11, <1>12, <1>13, <1>14 DEF Flow

\* A request that has no snapshot, is not answered and takes no place to keep events.
LEMMA CalmWork ==
    ASSUME FlowInv, phase = "serving", NEW i \in Requests,
           Receive(i) \/ Handle(i) \/ RunEnds(i), ~At(i, "reply"), request'[i].step # "get", request'[i].at \in {-1, request[i].at}
    PROVE  Calm
  <1>1. SnapshotsFit /\ LoadsFit /\ HostTypeOK
    BY DEF FlowInv, Flow, HostInv
  <1>2. request[i].at = -1
    BY <1>1 DEF SnapshotsFit
  <1>3. /\ request'[i].kind = request[i].kind /\ request'[i].connection = request[i].connection
        /\ request'[i].pending = request[i].pending /\ \A j \in Requests \ {i} : request'[j] = request[j]
    BY <1>1, RequestGoes DEF OneGoes
  <1>4. /\ request[i].step # "none" /\ request'[i].step \notin {"none", "sent"}
        /\ request'[i].step \in {"get", "opened", "work"} => request[i].step \in {"get", "opened", "work"}
    BY <1>1, RequestGoes DEF At
  <1>5. request[i].kind = "load" /\ request[i].step \in {"get", "opened", "work"} => request'[i].step \in {"opened", "work", "reply"}
    BY <1>1, RequestGoes DEF At
  <1>6. loading = i => request[i].kind = "load" /\ request[i].step \in {"get", "opened", "work"}
    BY <1>1, HostNumbers DEF LoadsFit, At
  <1>7. \A j \in Requests : loading = j => request[j].step \in {"get", "opened", "work", "reply"}
    BY <1>1, HostNumbers DEF LoadsFit
  <1>8. ASSUME NEW j \in Requests
        PROVE  /\ request'[j].kind = request[j].kind /\ request'[j].connection = request[j].connection
               /\ request'[j].pending => request[j].pending
               /\ request'[j].step = "none" <=> request[j].step = "none"
               /\ request'[j].step = "sent" => request[j].step = "sent"
               /\ request'[j].step \in {"get", "opened", "work"} => request[j].step \in {"get", "opened", "work"}
               /\ request'[j].at = request[j].at
               /\ request[j].at # -1 => request'[j].step = request[j].step /\ request'[j].ok = request[j].ok
               /\ loading = j => request'[j].step \in {"get", "opened", "work", "reply"}
    <2>1. CASE j = i
      BY <1>2, <1>3, <1>4, <1>5, <1>6, <2>1
    <2>2. CASE j # i
      BY <1>3, <1>7, <2>2
    <2> QED BY <2>1, <2>2
  <1> QED BY <1>8 DEF Calm

LEMMA CalmStill ==
    ASSUME FlowInv, phase = "serving", UNCHANGED request
    PROVE  Calm
  <1>1. \A j \in Requests : loading = j => request[j].step \in {"get", "opened", "work", "reply"}
    BY HostNumbers DEF FlowInv, Flow, LoadsFit
  <1> QED BY <1>1 DEF Calm

\* Requests that only change how far they are.
LEMMA CalmSteps ==
    ASSUME FlowInv, phase = "serving", NEW i \in Requests,
           \/ Get(i) \/ Enter(i) \/ Other(i) \/ Prompt(i) \/ RunEnds(i) \/ Delete(i) \/ Deleting(i) \/ Deleted(i)
           \/ Attach(i) /\ Settle(i, FALSE, -1)
           \/ Receive(i) /\ Fail(i)
    PROVE  Calm
  <1>1. ~At(i, "reply")
    BY DEF Get, Enter, Other, Prompt, RunEnds, Delete, Deleting, Deleted, Attach, Receive, At
  <1>2. request[i] \in Request /\ request \in [Requests -> Request]
    BY DEF FlowInv, HostInv, HostTypeOK
  <1>3. \/ Fail(i) \/ (\E ok : Settle(i, ok, -1))
        \/ (\E step \in {"work", "running", "closing", "forgetting"} : Go(i, step))
        \/ (\E e : request' = [request EXCEPT ![i].step = "opened", ![i].entry = e])
    <2>1. CASE Get(i)
      BY <2>1 DEF Get
    <2>2. CASE Enter(i) \/ Prompt(i) \/ RunEnds(i)
      BY <2>2 DEF Enter, Prompt, RunEnds
    <2>4. CASE Other(i)
      BY <2>4, Zenon DEF Other
    <2>3. CASE Delete(i) \/ Deleting(i) \/ Deleted(i)
      BY <2>3 DEF Delete, Deleting, Deleted
    <2> QED BY <2>1, <2>2, <2>3, <2>4
  <1>4. request'[i].step # "get" /\ request'[i].at \in {-1, request[i].at}
    <2>1. CASE Fail(i)
      BY <1>2, <2>1 DEF Fail, Request
    <2>2. CASE \E ok : Settle(i, ok, -1)
      BY <1>2, <2>2 DEF Settle, Request
    <2>3. CASE \E step \in {"work", "running", "closing", "forgetting"} : Go(i, step)
      BY <1>2, <2>3 DEF Go, Request
    <2>4. CASE \E e : request' = [request EXCEPT ![i].step = "opened", ![i].entry = e]
      BY <1>2, <2>4 DEF Request
    <2> QED BY <1>3, <2>1, <2>2, <2>3, <2>4
  <1> QED BY <1>1, <1>4, CalmWork DEF Handle

LEMMA CalmAbandon ==
    ASSUME FlowInv, phase = "serving", NEW i \in Requests, Abandon(i)
    PROVE  Calm
  <1>1. \A j \in Requests : loading = j => request[j].step \in {"get", "opened", "work", "reply"}
    BY HostNumbers DEF FlowInv, Flow, LoadsFit
  <1>2. \A j \in Requests : /\ request'[j].kind = request[j].kind /\ request'[j].connection = request[j].connection
                            /\ request'[j].step = request[j].step /\ request'[j].at = request[j].at
                            /\ request'[j].ok = request[j].ok
    BY DEF FlowInv, HostInv, HostTypeOK, Request, Abandon
  <1>3. \A j \in Requests : request'[j].pending => request[j].pending
    BY DEF FlowInv, HostInv, HostTypeOK, Request, Abandon
  <1> QED BY <1>1, <1>2, <1>3 DEF Calm

LEMMA CalmOpened ==
    ASSUME FlowInv, phase = "serving", Opened
    PROVE  Calm
  <1>1. \A j \in Requests : loading = j => request[j].step \in {"get", "opened", "work", "reply"}
    BY HostNumbers DEF FlowInv, Flow, LoadsFit
  <1>2. \A j \in Requests : \/ request'[j] = request[j]
                            \/ At(j, "opened") /\ request'[j] = [request[j] EXCEPT !.step = "reply", !.entry = 0, !.ok = FALSE]
    <2>1. PICK built \in BOOLEAN :
            request' = IF built /\ ~Stopped THEN request
                       ELSE [i \in Requests |-> IF At(i, "opened") /\ request[i].entry = opening
                                                THEN [request[i] EXCEPT !.step = "reply", !.entry = 0, !.ok = FALSE]
                                                ELSE request[i]]
      BY DEF Opened
    <2> QED BY <2>1
  <1>3. \A j \in Requests : At(j, "opened") => request[j].at = -1
    BY DEF FlowInv, Flow, SnapshotsFit, At
  <1>4. ASSUME NEW j \in Requests, At(j, "opened"), request'[j] = [request[j] EXCEPT !.step = "reply", !.entry = 0, !.ok = FALSE]
        PROVE  /\ request'[j].kind = request[j].kind /\ request'[j].connection = request[j].connection
               /\ request'[j].step = "reply" /\ request'[j].at = request[j].at /\ request'[j].pending = request[j].pending
    <2>1. request[j] \in Request
      BY DEF FlowInv, HostInv, HostTypeOK
    <2> QED BY <1>4, <2>1 DEF Request
  <1> QED BY <1>1, <1>2, <1>3, <1>4 DEF Calm, At

\* A request is taken, and a load begins to keep events.
LEMMA ReceiveFlow ==
    ASSUME FlowInv, NEW i \in Requests, Receive(i), ~Fail(i)
    PROVE  Flow'
  <1>1. /\ phase = "serving" /\ HostTypeOK
        /\ KeptFollow /\ SnapshotsFit /\ LoadsFit /\ OneWaits /\ ViewFits /\ TipFits /\ Chained(inbox, view)
    BY DEF FlowInv, HostInv, Flow, Receive
  <1>2. /\ At(i, "sent") /\ Go(i, "get") /\ loading' = (IF request[i].kind = "load" THEN i ELSE loading)
        /\ request[i].kind = "load" => loading = 0
    BY DEF Receive
  <1>3. UNCHANGED <<phase, sequence, attached, kept, current, inbox, view>>
    BY DEF Receive, wire
  <1>4. /\ \A j \in Requests \ {i} : request'[j] = request[j]
        /\ request'[i].kind = request[i].kind /\ request'[i].connection = request[i].connection
        /\ request'[i].pending = request[i].pending /\ request'[i].step = "get" /\ request'[i].at = request[i].at
        /\ request[i].at = -1 /\ request[i].connection = current
    <2>1. request \in [Requests -> Request] /\ request[i] \in Request
      BY <1>1 DEF HostTypeOK
    <2>2. /\ \A j \in Requests \ {i} : request'[j] = request[j]
          /\ request'[i].kind = request[i].kind /\ request'[i].connection = request[i].connection
          /\ request'[i].pending = request[i].pending /\ request'[i].step = "get" /\ request'[i].at = request[i].at
      BY <1>2, <2>1 DEF Go, Request
    <2>3. request[i].at = -1 /\ request[i].connection = current
      BY <1>1, <1>2 DEF SnapshotsFit, LoadsFit, At
    <2> QED BY <2>2, <2>3
  <1>5. KeptFollow' /\ Chained(inbox, view)'
    BY <1>1, <1>2, <1>3 DEF KeptFollow, Base
  <1>6. SnapshotsFit'
    <2>1. ASSUME NEW j \in Requests, request'[j].at # -1
          PROVE  j # i /\ request'[j] = request[j] /\ request[j].at # -1 /\ (loading' = j => loading = j)
      BY <1>2, <1>4, <2>1
    <2> QED BY <1>1, <1>3, <2>1 DEF SnapshotsFit, At, Base
  <1>7. LoadsFit'
    <2>1. CASE request[i].kind = "load"
      <3>1. \A j \in Requests \ {i} : request[j].kind = "load" /\ Live(j)
               => request[j].step \notin {"get", "opened", "work"} /\ request[j].at = -1
        BY <1>1, <1>2, <2>1, HostNumbers DEF LoadsFit
      <3> QED BY <1>1, <1>2, <1>3, <1>4, <2>1, <3>1 DEF LoadsFit, Live, At
    <2>2. CASE request[i].kind # "load"
      <3>1. loading' = loading /\ loading # i
        BY <1>1, <1>2, <2>2, HostNumbers DEF LoadsFit
      <3>2. loading # 0 => loading \in Requests
        BY <1>1, FlowTypes
      <3> QED BY <1>1, <1>2, <1>3, <1>4, <2>2, <3>1, <3>2 DEF LoadsFit, Live, At
    <2> QED BY <2>1, <2>2
  <1>8. OneWaits'
    BY <1>1, <1>2, <1>4 DEF OneWaits, At
  <1>9. \A j \in Requests : Fresh(j)' => Fresh(j)
    BY <1>2, <1>3, <1>4 DEF Fresh, Live, At
  <1>10. ViewFits'
    <2>1. (view # -1 => \E j \in Requests : ~At(j, "none"))'
      BY <1>3, <1>4 DEF At
    <2>2. (\A j \in Requests : Fresh(j) => view = -1)'
      BY <1>1, <1>3, <1>9 DEF ViewFits
    <2>3. (current \notin attached => ~Anchored(inbox, view, Len(inbox)))' /\ (attached \subseteq 1..current)'
      BY <1>1, <1>3 DEF ViewFits
    <2>4. \A j \in Requests : request'[j].kind = request[j].kind /\ request'[j].pending = request[j].pending
      BY <1>4
    <2>5. \A k \in 1..Len(inbox) : IsSnapshot(inbox[k]) => inbox[k].of \in Requests
      BY <1>1, SnapshotIs
    <2> QED BY <1>1, <1>3, <1>9, <2>1, <2>2, <2>3, <2>4, <2>5 DEF ViewFits
  <1>11. TipFits'
    <2>1. CASE request[i].kind = "load"
      BY <1>1, <1>2, <1>3, <2>1 DEF TipFits, Base
    <2>2. CASE request[i].kind # "load"
      <3>1. loading' = loading /\ loading # i /\ (loading # 0 => loading \in Requests)
        BY <1>1, <1>2, <2>2, HostNumbers, FlowTypes DEF LoadsFit
      <3>2. loading # 0 => request'[loading] = request[loading]
        BY <1>4, <3>1
      <3> QED BY <1>1, <1>3, <3>1, <3>2 DEF TipFits, Base
    <2> QED BY <2>1, <2>2
  <1> QED BY <1>1, <1>3, <1>5, <1>6, <1>7, <1>8, <1>10, <1>11 DEF Flow

\* A snapshot is taken at the last event there is.
LEMMA AttachFlow ==
    ASSUME FlowInv, phase = "serving", NEW i \in Requests, Attach(i), Settle(i, TRUE, sequence),
           attached' = attached \cup {request[i].connection}
    PROVE  Flow'
  <1>1. /\ HostTypeOK
        /\ KeptFollow /\ SnapshotsFit /\ LoadsFit /\ OneWaits /\ ViewFits /\ TipFits /\ Chained(inbox, view)
    BY DEF FlowInv, HostInv, Flow
  <1>2. At(i, "work") /\ request[i].kind \in {"create", "load"}
    BY DEF Attach
  <1>3. UNCHANGED <<phase, sequence, loading, kept, current, inbox, view>>
    BY DEF Attach, wire
  <1>4. /\ \A j \in Requests \ {i} : request'[j] = request[j]
        /\ request'[i].kind = request[i].kind /\ request'[i].connection = request[i].connection
        /\ request'[i].pending = request[i].pending /\ request'[i].step = "reply" /\ request'[i].at = sequence
        /\ request'[i].ok = TRUE
    <2>1. request \in [Requests -> Request] /\ request[i] \in Request
      BY <1>1 DEF HostTypeOK
    <2> QED BY <2>1 DEF Settle, Request
  <1>5. sequence \in Nat /\ sequence # -1 /\ Base \in Int /\ Base <= sequence
    BY <1>1, FlowTypes DEF KeptFollow, Base
  <1>6. KeptFollow' /\ Chained(inbox, view)'
    BY <1>1, <1>3 DEF KeptFollow, Base
  <1>7. SnapshotsFit'
    <2>1. ASSUME NEW j \in Requests, request'[j].at # -1, j # i
          PROVE  request'[j] = request[j]
      BY <1>4, <2>1
    <2>2. sequence \in Base..sequence /\ Base' = Base
      BY <1>3, <1>5 DEF Base
    <2> QED BY <1>1, <1>2, <1>3, <1>4, <2>1, <2>2 DEF SnapshotsFit, At
  <1>8. LoadsFit'
    <2>1. loading # 0 => loading \in Requests
      BY <1>1, FlowTypes
    <2>2. /\ loading # 0 => /\ request'[loading].kind = "load" /\ request'[loading].connection = current
                            /\ request'[loading].step \in {"get", "opened", "work", "reply"}
      BY <1>1, <1>4, <2>1 DEF LoadsFit
    <2>3. ASSUME NEW j \in Requests, request'[j].kind = "load", Live(j)',
                 request'[j].step \in {"get", "opened", "work"} \/ request'[j].at # -1
          PROVE  loading = j
      BY <1>1, <1>2, <1>3, <1>4, <2>3 DEF LoadsFit, Live, At
    <2>4. ASSUME NEW j \in Requests, At(j, "sent")' PROVE request'[j].connection = current
      BY <1>1, <1>4, <2>4 DEF LoadsFit, At
    <2> QED BY <1>3, <2>2, <2>3, <2>4 DEF LoadsFit
  <1>9. OneWaits'
    BY <1>1, <1>2, <1>4 DEF OneWaits, At
  <1>10. \A j \in Requests : Fresh(j)' => Fresh(j)
    BY <1>2, <1>3, <1>4 DEF Fresh, Live, At
  <1>11. ViewFits'
    <2>1. (view # -1 => \E j \in Requests : ~At(j, "none"))'
      BY <1>4 DEF At
    <2>2. (\A j \in Requests : Fresh(j) => view = -1)'
      BY <1>1, <1>3, <1>10 DEF ViewFits
    <2>3. (current \notin attached => ~Anchored(inbox, view, Len(inbox)))'
      BY <1>1, <1>3 DEF ViewFits
    <2>4. (attached \subseteq 1..current)'
      <3>1. request[i].connection <= current
        BY <1>2 DEF FlowInv, HostInv, Orderly, StillAwaited, At
      <3>2. request[i].connection \in 1..MaxConnections /\ MaxConnections \in Nat /\ current \in Nat
        BY <1>1, FlowTypes, HostNumbers
      <3>3. request[i].connection \in 1..current
        BY <3>1, <3>2
      <3> QED BY <1>1, <1>3, <3>3 DEF ViewFits
    <2>5. \A j \in Requests : request'[j].kind = request[j].kind /\ request'[j].pending = request[j].pending
      BY <1>4
    <2>6. \A k \in 1..Len(inbox) : IsSnapshot(inbox[k]) => inbox[k].of \in Requests
      BY <1>1, SnapshotIs
    <2> QED BY <1>1, <1>3, <1>10, <2>1, <2>2, <2>3, <2>4, <2>5, <2>6 DEF ViewFits
  <1>12. TipFits'
    <2>1. CASE request[i].connection # current
      <3>1. loading # i /\ (loading # 0 => loading \in Requests)
        BY <1>1, <2>1, FlowTypes, HostNumbers DEF LoadsFit
      <3>2. loading # 0 => request'[loading] = request[loading]
        BY <1>4, <3>1
      <3> QED BY <1>1, <1>3, <2>1, <3>2 DEF TipFits, Base
    <2>2. CASE request[i].connection = current /\ request[i].kind = "create"
      <3>1. \A k \in 1..Len(inbox) : ~IsSnapshot(inbox[k])
        BY <1>2, <2>2, Created DEF At
      <3>2. Fresh(i)
        BY <1>2, <2>2 DEF Fresh, Live, At
      <3>3. view = -1
        BY <1>1, <3>2 DEF ViewFits
      <3> QED BY <1>3, <3>1, <3>3 DEF TipFits, Anchored
    <2>3. CASE request[i].connection = current /\ request[i].kind = "load"
      <3>1. loading = i /\ loading # 0
        BY <1>1, <1>2, <2>3, HostNumbers DEF LoadsFit, Live, At
      <3> QED BY <1>3, <1>4, <1>5, <3>1 DEF TipFits
    <2> QED BY <1>2, <2>1, <2>2, <2>3
  <1> QED BY <1>3, <1>6, <1>7, <1>8, <1>9, <1>11, <1>12 DEF Flow

\* The host is asked; a load begins a projection anew.
LEMMA SendFlow ==
    ASSUME FlowInv, NEW i \in Requests, Send(i)
    PROVE  Flow'
  <1>1. /\ phase = "serving" /\ HostTypeOK
        /\ KeptFollow /\ SnapshotsFit /\ LoadsFit /\ OneWaits /\ ViewFits /\ TipFits /\ Chained(inbox, view)
    BY DEF FlowInv, HostInv, Flow, Send
  <1>2. PICK kind \in Kinds :
          /\ MaySend(i, kind)
          /\ request' = [request EXCEPT ![i] = [Unused EXCEPT !.kind = kind, !.step = "sent",
                                                             !.connection = current, !.pending = TRUE]]
          /\ view' = IF kind = "load" THEN -1 ELSE view
    BY DEF Send
  <1>3. UNCHANGED <<phase, sequence, attached, loading, kept, current, inbox>> /\ At(i, "none")
    BY DEF Send, peer
  <1>4. /\ \A j \in Requests \ {i} : request'[j] = request[j]
        /\ request'[i].kind = kind /\ request'[i].connection = current /\ request'[i].pending
        /\ request'[i].step = "sent" /\ request'[i].at = -1
    BY <1>1, <1>2 DEF HostTypeOK, Unused
  <1>5. loading # i /\ (loading # 0 => loading \in Requests)
    BY <1>1, <1>3, FlowTypes, HostNumbers DEF LoadsFit, At
  <1>6. KeptFollow'
    BY <1>1, <1>3 DEF KeptFollow, Base
  <1>7. SnapshotsFit'
    BY <1>1, <1>3, <1>4 DEF SnapshotsFit, At, Base
  <1>8. LoadsFit'
    <2>1. loading # 0 => request'[loading] = request[loading]
      BY <1>4, <1>5
    <2>2. ASSUME NEW j \in Requests, request'[j].kind = "load", Live(j)',
                 request'[j].step \in {"get", "opened", "work"} \/ request'[j].at # -1
          PROVE  loading = j
      BY <1>1, <1>3, <1>4, <2>2 DEF LoadsFit, Live
    <2>3. ASSUME NEW j \in Requests, At(j, "sent")' PROVE request'[j].connection = current
      BY <1>1, <1>4, <2>3 DEF LoadsFit, At
    <2> QED BY <1>1, <1>3, <2>1, <2>2, <2>3 DEF LoadsFit
  <1>9. kind # "other" => \A j \in Requests : request[j].pending => request[j].kind = "other"
    BY <1>2 DEF MaySend
  <1>10. kind = "create" => \A j \in Requests : At(j, "none")
    BY <1>2 DEF MaySend
  <1>11. OneWaits'
    <2>1. ASSUME NEW a \in Requests, NEW b \in Requests, a < b, request'[a].pending, request'[a].kind # "other"
          PROVE  request'[b].kind = "other" \/ At(b, "none")'
      <3>1. CASE b = i
        <4>1. a # i
          BY <2>1, <3>1 DEF Requests
        <4> QED BY <1>4, <1>9, <2>1, <3>1, <4>1
      <3>2. CASE a = i
        <4>1. At(b, "none") /\ b # i
          BY <1>3, <2>1, <3>2 DEF FlowInv, HostInv, Orderly, InTurn, Requests
        <4> QED BY <1>4, <4>1 DEF At
      <3>3. CASE a # i /\ b # i
        BY <1>1, <1>4, <2>1, <3>3 DEF OneWaits, At
      <3> QED BY <3>1, <3>2, <3>3
    <2> QED BY <2>1 DEF OneWaits
  <1>12. ASSUME NEW j \in Requests, Fresh(j)'
         PROVE  Fresh(j) \/ (j = i /\ kind \in {"create", "load"})
    BY <1>3, <1>4, <1>12 DEF Fresh, Live
  <1>13. ViewFits'
    <2>1. (view # -1 => \E j \in Requests : ~At(j, "none"))'
      BY <1>4 DEF At
    <2>2. ASSUME NEW j \in Requests, Fresh(j)' PROVE view' = -1
      <3>1. CASE Fresh(j)
        BY <1>1, <1>2, <3>1 DEF ViewFits
      <3>2. CASE kind = "load"
        BY <1>2, <3>2
      <3>3. CASE kind = "create"
        BY <1>1, <1>2, <1>10, <3>3 DEF ViewFits
      <3> QED BY <1>12, <2>2, <3>1, <3>2, <3>3
    <2>3. (current \notin attached => ~Anchored(inbox, view, Len(inbox)))' /\ (attached \subseteq 1..current)'
      BY <1>1, <1>2, <1>3 DEF ViewFits, Anchored
    <2>4. ASSUME NEW k \in 1..Len(inbox), IsSnapshot(inbox[k])
          PROVE  /\ view' = -1 /\ request'[inbox[k].of].kind \in {"create", "load"}
                 /\ request'[inbox[k].of].pending =>
                      /\ \A j \in Requests : ~Fresh(j)'
                      /\ \A m \in (k + 1)..Len(inbox) : ~IsSnapshot(inbox[m])
      <3>1. inbox[k].of \in Requests /\ "of" \in DOMAIN inbox[k] /\ k \in DOMAIN inbox
        BY <1>1, <2>4, SnapshotIs, FlowTypes, LenProperties DEF IsSnapshot
      <3>2. At(inbox[k].of, "end")
        BY <3>1 DEF FlowInv, HostInv, Orderly, AnswersEnd
      <3>3. inbox[k].of # i /\ request'[inbox[k].of] = request[inbox[k].of]
        BY <1>3, <1>4, <3>1, <3>2 DEF At
      <3>4. /\ view = -1 /\ request[inbox[k].of].kind \in {"create", "load"}
            /\ request[inbox[k].of].pending =>
                 /\ \A j \in Requests : ~Fresh(j)
                 /\ \A m \in (k + 1)..Len(inbox) : ~IsSnapshot(inbox[m])
        BY <1>1, <2>4 DEF ViewFits
      <3>5. kind # "create"
        BY <1>10, <3>1, <3>2 DEF At
      <3>6. request[inbox[k].of].pending => kind = "other"
        BY <1>9, <3>1, <3>4
      <3> QED BY <1>2, <1>12, <3>3, <3>4, <3>5, <3>6
    <2> QED BY <1>3, <2>1, <2>2, <2>3, <2>4 DEF ViewFits
  <1>14. TipFits' /\ Chained(inbox, view')
    <2>1. loading # 0 => request'[loading] = request[loading]
      BY <1>4, <1>5
    <2>2. CASE view' = view
      BY <1>1, <1>3, <2>1, <2>2 DEF TipFits, Base
    <2>3. CASE view' # view
      <3>1. view' = -1 /\ \A k \in 1..Len(inbox) : ~IsSnapshot(inbox[k])
        BY <1>1, <1>2, <2>3 DEF ViewFits
      <3>2. ~Anchored(inbox, view', Len(inbox)) /\ Len(inbox) \in Nat
        BY <1>1, <3>1, FlowTypes DEF Anchored
      <3>3. Chained(inbox, view')
        BY <3>2, Unanchored
      <3> QED BY <1>3, <3>2, <3>3 DEF TipFits
    <2> QED BY <2>2, <2>3
  <1> QED BY <1>1, <1>3, <1>6, <1>7, <1>8, <1>11, <1>13, <1>14 DEF Flow

LEMMA LoseFlow ==
    ASSUME FlowInv, LoseConnection
    PROVE  Flow'
  <1>1. /\ HostTypeOK /\ UNCHANGED <<phase, sequence, attached>> /\ phase = "serving"
        /\ current' = current + 1 /\ loading' = 0 /\ kept' = << >> /\ inbox' = << >> /\ view' = -1
        /\ \A j \in Requests :
             /\ request'[j].kind = request[j].kind /\ request'[j].connection = request[j].connection
             /\ request'[j].step = IF request[j].step = "sent" THEN "end" ELSE request[j].step
             /\ request'[j].ok <=> request[j].ok /\ request[j].step # "sent"
             /\ request'[j].at = request[j].at /\ request'[j].pending = FALSE
    <2>1. HostTypeOK
      BY DEF FlowInv, HostInv
    <2> QED BY <2>1, LoseConnectionIs
  <1>2. SnapshotsFit /\ ViewFits
    BY <1>1 DEF FlowInv, Flow
  <1>3. sequence \in Nat /\ current \in Nat /\ 0 \notin Requests /\ Len(inbox') = 0 /\ Len(kept') = 0
    BY <1>1, FlowTypes, HostNumbers
  <1>4. KeptFollow'
    BY <1>1, <1>3 DEF KeptFollow
  <1>5. SnapshotsFit'
    <2>1. ASSUME NEW j \in Requests, request'[j].at # -1
          PROVE  /\ At(j, "reply")' /\ request'[j].ok /\ request'[j].kind \in {"create", "load"}
                 /\ request'[j].connection \in attached /\ (request'[j].kind = "create" => request'[j].at = sequence)
      <3>1. /\ At(j, "reply") /\ request[j].ok /\ request[j].kind \in {"create", "load"}
            /\ request[j].connection \in attached /\ (request[j].kind = "create" => request[j].at = sequence)
        BY <1>1, <1>2, <2>1 DEF SnapshotsFit
      <3> QED BY <1>1, <3>1 DEF At
    <2> QED BY <1>1, <1>3, <2>1 DEF SnapshotsFit
  <1>6. LoadsFit'
    <2>1. ASSUME NEW j \in Requests, ~At(j, "none") PROVE request[j].connection # current + 1
      <3>1. request[j].connection <= current /\ request[j].connection \in 1..MaxConnections /\ MaxConnections \in Nat
        BY <1>1, <2>1, FlowTypes, HostNumbers DEF FlowInv, HostInv, Orderly, StillAwaited
      <3> QED BY <1>3, <3>1
    <2>2. ASSUME NEW j \in Requests, request'[j].step \in {"get", "opened", "work"} \/ request'[j].at # -1
          PROVE  ~At(j, "none")
      BY <1>1, <1>2, <2>2 DEF At, SnapshotsFit
    <2> QED BY <1>1, <2>1, <2>2 DEF LoadsFit, Live, At
  <1>7. OneWaits'
    BY <1>1 DEF OneWaits
  <1>8. current' \notin attached' /\ attached' \subseteq 1..current'
    <2>1. attached \subseteq 1..current
      BY <1>2 DEF ViewFits
    <2> QED BY <1>1, <1>3, <2>1
  <1>9. \A k \in 1..Len(inbox') : FALSE
    BY <1>3
  <1>10. ViewFits' /\ TipFits' /\ Chained(inbox', view')
    BY <1>1, <1>3, <1>8, <1>9 DEF ViewFits, TipFits, Chained, Anchored
  <1> QED BY <1>1, <1>4, <1>5, <1>6, <1>7, <1>10 DEF Flow

\* Nothing goes to a connection of a host that is closed.
LEMMA StoppedFlow ==
    ASSUME FlowInv, [HostNext]_hostVars, phase' # "serving"
    PROVE  Flow'
  <1>1. CASE Stop
    BY <1>1 DEF Stop, Flow
  <1>2. CASE ~Stop
    <2>1. phase # "serving"
      <3>1. ASSUME NEW i \in Requests, Send(i) \/ Abandon(i) \/ Receive(i) \/ Handle(i) \/ RunEnds(i)
            PROVE  phase' = phase
        BY <3>1 DEF Send, Abandon, Receive, Handle, RunEnds, Get, Enter, Attach, Other, Prompt, Delete, Deleting, Deleted, Reply
      <3>2. LoseConnection => phase' = phase
        BY LoseConnectionIs DEF FlowInv, HostInv
      <3>3. Read \/ PiEvent \/ Release \/ Released \/ Opened => phase' = phase
        BY DEF Read, PiEvent, Release, Released, Opened
      <3>4. Close => phase # "serving"
        BY DEF Close
      <3>5. UNCHANGED hostVars => phase' = phase
        BY DEF hostVars
      <3> QED BY <1>2, <3>1, <3>2, <3>3, <3>4, <3>5 DEF HostNext
    <2>2. inbox = << >> /\ loading = 0 /\ kept = << >>
      BY <2>1 DEF FlowInv, Flow
    <2>3. ASSUME Publish(1) PROVE inbox' = inbox /\ kept' = kept
      BY <2>1, <2>2, <2>3 DEF Publish, Listens
    <2>4. ASSUME NEW i \in Requests, Send(i) \/ Abandon(i) \/ Receive(i) \/ Handle(i) \/ RunEnds(i)
          PROVE  UNCHANGED <<inbox, loading, kept>>
      <3>1. ~Send(i) /\ ~Receive(i)
        BY <2>1 DEF Send, Receive
      <3>2. CASE Abandon(i) \/ Get(i) \/ Enter(i) \/ Attach(i) \/ Other(i) \/ Delete(i) \/ Deleting(i) \/ Deleted(i)
        BY <3>2 DEF Abandon, Get, Enter, Attach, Other, Delete, Deleting, Deleted, peer, wire
      <3>3. CASE Prompt(i) \/ RunEnds(i)
        BY <2>3, <3>3 DEF Prompt, RunEnds
      <3>4. CASE Reply(i)
        BY <2>1, <2>2, <3>4, HostNumbers DEF Reply, Live
      <3> QED BY <2>4, <3>1, <3>2, <3>3, <3>4 DEF Handle
    <2>5. ~Read /\ ~LoseConnection
      <3>1. LoseConnection => phase = "serving"
        BY LoseConnectionIs DEF FlowInv, HostInv
      <3> QED BY <2>1, <2>2, <3>1 DEF Read
    <2>6. PiEvent \/ Release \/ Released \/ Opened \/ Close => UNCHANGED <<inbox, loading, kept>>
      BY <2>3 DEF PiEvent, Release, Released, Opened, Close, peer, wire
    <2>7. UNCHANGED hostVars => UNCHANGED <<inbox, loading, kept>>
      BY DEF hostVars, peer, wire
    <2>8. UNCHANGED <<inbox, loading, kept>>
      BY <1>2, <2>4, <2>5, <2>6, <2>7 DEF HostNext
    <2> QED BY <2>2, <2>8 DEF Flow
  <1> QED BY <1>1, <1>2

\* The controller reads a frame.
LEMMA ReadFlow ==
    ASSUME FlowInv, phase = "serving", Read
    PROVE  Flow'
  <1>1. /\ HostTypeOK
        /\ KeptFollow /\ SnapshotsFit /\ LoadsFit /\ OneWaits /\ ViewFits /\ TipFits /\ Chained(inbox, view)
    BY DEF FlowInv, HostInv, Flow
  <1>2. inbox # << >> /\ inbox' = Tail(inbox) /\ UNCHANGED <<phase, sequence, attached, loading, kept, current>>
    BY DEF Read, peer
  <1> DEFINE n == Len(inbox)
             f == inbox[1]
  <1>3. /\ n \in Nat /\ n >= 1 /\ Head(inbox) = f /\ Len(inbox') = n - 1
        /\ \A k \in 1..(n - 1) : inbox'[k] = inbox[k + 1]
    <2>1. inbox \in Seq(Event \cup Answer) /\ n \in Nat
      BY <1>1, FlowTypes
    <2>2. /\ n # 0 /\ Head(inbox) = f /\ Tail(inbox) \in Seq(Event \cup Answer)
          /\ Len(Tail(inbox)) = n - 1 /\ \A k \in 1..Len(Tail(inbox)) : Tail(inbox)[k] = inbox[k + 1]
      BY <1>2, <2>1, HeadTailProperties, EmptySeq
    <2> QED BY <1>2, <2>1, <2>2
  <1>4. 1 \in 1..n /\ f \in Event \cup Answer
    BY <1>1, <1>3, FlowTypes
  <1>5. \A k \in 1..n : IsSnapshot(inbox[k]) => Carried(inbox[k]) # -1
    BY <1>1, FlowTypes, FrameIs
  <1> DEFINE Taken == IsSnapshot(f) /\ f.of \in Requests /\ At(f.of, "end") /\ request[f.of].pending
             Projected == view' # -1 => /\ view' = (IF Carried(f) = -1 THEN view ELSE Carried(f))
                                        /\ view # -1 \/ Taken
  <1>6. ASSUME "event" \in DOMAIN f PROVE Calm /\ Projected
    <2>1. view' = (IF view = -1 THEN -1 ELSE f.event) /\ UNCHANGED request
      BY <1>3, <1>6 DEF Read
    <2>2. Calm
      BY <2>1, CalmStill
    <2>3. Carried(f) = f.event /\ ~IsSnapshot(f) /\ f.event # -1
      <3>1. Carried(f) = f.event /\ ~IsSnapshot(f) /\ f.event \in 1..MaxEvents
        BY <1>4, <1>6, FrameIs
      <3> QED BY <3>1, HostNumbers
    <2>4. Projected
      <3>1. view' # -1 => view # -1 /\ view' = f.event
        BY <2>1
      <3>2. Carried(f) = f.event /\ Carried(f) # -1
        BY <2>3
      <3> HIDE DEF Taken, f
      <3> QED BY <3>1, <3>2
    <2> QED BY <2>2, <2>4
  <1>7. ASSUME "event" \notin DOMAIN f PROVE Calm /\ Projected
    <2>1. "of" \in DOMAIN f /\ Carried(f) = f.at /\ f.at \in -1..MaxEvents /\ (IsSnapshot(f) <=> f.at # -1) /\ f.of \in Requests
      <3>1. f \in Answer /\ "of" \in DOMAIN f /\ Carried(f) = f.at /\ f.at \in -1..MaxEvents /\ (IsSnapshot(f) <=> f.at # -1)
        BY <1>4, <1>7, FrameIs
      <3> QED BY <3>1 DEF Answer
    <2>2. At(f.of, "end")
      <3>1. 1 \in DOMAIN inbox
        BY <1>1, <1>4, FlowTypes, LenProperties
      <3> QED BY <2>1, <3>1 DEF FlowInv, HostInv, Orderly, AnswersEnd
    <2>3. view' = Projects(f) /\ request' = [request EXCEPT ![f.of].pending = FALSE]
      BY <1>3, <1>7 DEF Read
    <2>4. Calm
      <3>1. \A j \in Requests : /\ request'[j].kind = request[j].kind /\ request'[j].connection = request[j].connection
                                /\ request'[j].step = request[j].step /\ request'[j].at = request[j].at
                                /\ request'[j].ok = request[j].ok
        BY <1>1, <2>1, <2>3, NoLongerAwaited
      <3>2. \A j \in Requests : request'[j].pending => request[j].pending
        BY <1>1, <2>1, <2>3, NoLongerAwaited
      <3>3. \A j \in Requests : loading = j => request[j].step \in {"get", "opened", "work", "reply"}
        BY <1>1, HostNumbers DEF LoadsFit
      <3> QED BY <3>1, <3>2, <3>3 DEF Calm
    <2>5. f.at # -1 <=> f.at >= 0
      BY <2>1, HostNumbers
    <2>6. IsSnapshot(f) => view = -1
      BY <1>1, <1>4 DEF ViewFits
    <2>7. Projected
      <3>1. view' = IF request[f.of].pending /\ f.at >= 0 THEN f.at ELSE view
        BY <2>3 DEF Projects
      <3>2. CASE request[f.of].pending /\ f.at >= 0
        <4>1. IsSnapshot(f) /\ Taken
          BY <2>1, <2>2, <2>5, <3>2
        <4>2. view' = Carried(f) /\ Carried(f) # -1
          BY <2>1, <2>5, <3>1, <3>2
        <4> HIDE DEF Taken, f
        <4> QED BY <4>1, <4>2
      <3>3. CASE ~(request[f.of].pending /\ f.at >= 0)
        <4>1. view' = view
          BY <3>1, <3>3
        <4>2. view # -1 => Carried(f) = -1
          BY <2>1, <2>6
        <4> HIDE DEF Taken, f
        <4> QED BY <4>1, <4>2
      <3> QED BY <3>2, <3>3
    <2> QED BY <2>4, <2>7
  <1>8. Calm /\ Projected
    BY <1>6, <1>7
  <1>9. view' # -1 => view' = (IF Carried(inbox[1]) = -1 THEN view ELSE Carried(inbox[1])) /\ (view # -1 \/ IsSnapshot(inbox[1]))
    BY <1>8
  <1>10. /\ Chained(inbox', view')
         /\ Anchored(inbox', view', n - 1) => Anchored(inbox, view, n)
         /\ \A m : Anchored(inbox', view', n - 1) /\ Reaches(inbox, view, n, m) => Reaches(inbox', view', n - 1, m)
    <2>1. Len(inbox) = n /\ Chained(inbox, view)
      BY <1>1
    <2> HIDE DEF n
    <2> QED BY <1>3, <1>5, <1>9, <2>1, ChainedTail
  <1> HIDE DEF n, f, Projected, Taken
  <1>11. KeptFollow'
    BY <1>1, <1>2 DEF KeptFollow, Base
  <1>12. SnapshotsFit'
    BY <1>1, <1>2, <1>8 DEF SnapshotsFit, Calm, At, Base
  <1>13. LoadsFit' /\ OneWaits' /\ \A i \in Requests : Fresh(i)' => Fresh(i)
    BY <1>2, <1>8, CalmCalls
  <1>14. Taken => (\A i \in Requests : ~Fresh(i)) /\ \A m \in 2..n : ~IsSnapshot(inbox[m])
    <2>1. Taken => IsSnapshot(inbox[1]) /\ request[inbox[1].of].pending
      BY DEF Taken, f
    <2>2. 1 \in 1..Len(inbox) /\ 1 + 1 = 2
      BY <1>4 DEF n
    <2> QED BY <1>1, <2>1, <2>2 DEF ViewFits, n
  <1>15. view' # -1 => view # -1 \/ Taken
    BY <1>8 DEF Projected
  <1>16. ViewFits'
    <2>1. (view # -1 => \E j \in Requests : ~At(j, "none"))'
      <3>1. view' # -1 => \E j \in Requests : ~At(j, "none")
        BY <1>1, <1>15 DEF ViewFits, Taken, At
      <3>2. (\E j \in Requests : ~At(j, "none")) => (\E j \in Requests : ~At(j, "none"))'
        BY <1>2, <1>8, CalmCalls
      <3> QED BY <3>1, <3>2
    <2>2. (\A i \in Requests : Fresh(i) => view = -1)'
      BY <1>1, <1>13, <1>14, <1>15 DEF ViewFits
    <2>3. (current \notin attached => ~Anchored(inbox, view, Len(inbox)))' /\ (attached \subseteq 1..current)'
      BY <1>1, <1>2, <1>3, <1>10 DEF ViewFits, n
    <2>4. ASSUME NEW k \in 1..Len(inbox'), IsSnapshot(inbox'[k])
          PROVE  /\ view' = -1 /\ request'[inbox'[k].of].kind \in {"create", "load"}
                 /\ request'[inbox'[k].of].pending =>
                      /\ \A j \in Requests : ~Fresh(j)'
                      /\ \A m \in (k + 1)..Len(inbox') : ~IsSnapshot(inbox'[m])
      <3>1. k \in 1..(n - 1) /\ inbox'[k] = inbox[k + 1] /\ k + 1 \in 1..n /\ k + 1 \in 2..n
        BY <1>3
      <3>2. inbox[k + 1].of \in Requests
        BY <1>1, <2>4, <3>1, SnapshotIs DEF n
      <3>3. /\ view = -1 /\ request[inbox[k + 1].of].kind \in {"create", "load"}
            /\ request[inbox[k + 1].of].pending =>
                 /\ \A j \in Requests : ~Fresh(j)
                 /\ \A m \in ((k + 1) + 1)..Len(inbox) : ~IsSnapshot(inbox[m])
        BY <1>1, <2>4, <3>1 DEF ViewFits, n
      <3>4. ~Taken
        BY <1>14, <2>4, <3>1
      <3>5. /\ request'[inbox[k + 1].of].kind = request[inbox[k + 1].of].kind
            /\ request'[inbox[k + 1].of].pending => request[inbox[k + 1].of].pending
        BY <1>8, <3>2 DEF Calm
      <3>6. \A m \in (k + 1)..Len(inbox') : m + 1 \in ((k + 1) + 1)..Len(inbox) /\ inbox'[m] = inbox[m + 1]
        BY <1>3, <3>1 DEF n
      <3> QED BY <1>13, <1>15, <3>1, <3>3, <3>4, <3>5, <3>6
    <2> QED BY <2>1, <2>2, <2>3, <2>4 DEF ViewFits
  <1>17. TipFits'
    <2>1. (loading # 0 => request'[loading].at = request[loading].at) /\ Base' = Base
      BY <1>1, <1>2, <1>8, FlowTypes DEF Calm, Base
    <2>2. Len(inbox') = n - 1 /\ Len(inbox) = n
      BY <1>3 DEF n
    <2> QED BY <1>1, <1>2, <1>10, <2>1, <2>2 DEF TipFits
  <1> QED BY <1>1, <1>2, <1>10, <1>11, <1>12, <1>13, <1>16, <1>17 DEF Flow

\* What of a step that answers a request does not depend on the inbox.
LEMMA ReplyRequests ==
    ASSUME FlowInv, phase = "serving", NEW i \in Requests, Reply(i)
    PROVE  /\ UNCHANGED <<phase, sequence, attached, current, view>> /\ At(i, "reply")
           /\ \A j \in Requests \ {i} : request'[j] = request[j]
           /\ request'[i].kind = request[i].kind /\ request'[i].connection = request[i].connection
           /\ request'[i].pending = request[i].pending /\ request'[i].step = "end" /\ request'[i].at = -1
           /\ loading' = (IF loading = i THEN 0 ELSE loading) /\ kept' = (IF loading = i THEN << >> ELSE kept)
           /\ (loading' # 0 => Base' = Base)
           /\ KeptFollow' /\ SnapshotsFit' /\ LoadsFit' /\ OneWaits' /\ \A j \in Requests : Fresh(j)' => Fresh(j)
  <1>1. HostTypeOK /\ KeptFollow /\ SnapshotsFit /\ LoadsFit /\ OneWaits
    BY DEF FlowInv, HostInv, Flow
  <1>2. UNCHANGED <<phase, sequence, attached, current, view>> /\ At(i, "reply")
    BY DEF Reply
  <1>3. /\ \A j \in Requests \ {i} : request'[j] = request[j]
        /\ request'[i].kind = request[i].kind /\ request'[i].connection = request[i].connection
        /\ request'[i].pending = request[i].pending /\ request'[i].step = "end" /\ request'[i].at = -1
    <2>1. request \in [Requests -> Request] /\ request[i] \in Request
      BY <1>1 DEF HostTypeOK
    <2>2. request' = [request EXCEPT ![i].step = "end", ![i].entry = 0, ![i].at = -1]
      BY DEF Reply
    <2> QED BY <2>1, <2>2 DEF Request
  <1>4. loading' = (IF loading = i THEN 0 ELSE loading) /\ kept' = (IF loading = i THEN << >> ELSE kept)
    BY DEF Reply
  <1>5. sequence \in Nat /\ i # 0 /\ (loading # 0 => loading \in Requests) /\ (loading' # 0 => loading' = loading /\ loading # i)
    BY <1>1, <1>4, FlowTypes, HostNumbers
  <1>6. loading' # 0 => Base' = Base
    BY <1>2, <1>4, <1>5 DEF Base
  <1>7. KeptFollow'
    <2>1. CASE loading = i
      BY <1>2, <1>4, <1>5, <2>1 DEF KeptFollow
    <2>2. CASE loading # i
      BY <1>1, <1>2, <1>4, <2>2 DEF KeptFollow, Base
    <2> QED BY <2>1, <2>2
  <1>8. SnapshotsFit'
    <2>1. ASSUME NEW j \in Requests, request'[j].at # -1
          PROVE  /\ request'[j] = request[j] /\ request[j].at # -1
                 /\ loading' = j => loading = j /\ Base' = Base
      BY <1>3, <1>5, <1>6, <2>1, HostNumbers
    <2> QED BY <1>1, <1>2, <2>1 DEF SnapshotsFit, At
  <1>9. LoadsFit'
    <2>1. loading' # 0 => request'[loading'] = request[loading] /\ loading # 0
      BY <1>3, <1>5
    <2>2. ASSUME NEW j \in Requests, request'[j].kind = "load", Live(j)',
                 request'[j].step \in {"get", "opened", "work"} \/ request'[j].at # -1
          PROVE  loading' = j
      <3>1. j # i /\ request'[j] = request[j]
        BY <1>3, <2>2
      <3>2. loading = j
        BY <1>1, <1>2, <2>2, <3>1 DEF LoadsFit, Live
      <3> QED BY <1>4, <3>1, <3>2
    <2>3. ASSUME NEW j \in Requests, At(j, "sent")' PROVE request'[j].connection = current
      BY <1>1, <1>3, <2>3 DEF LoadsFit, At
    <2> QED BY <1>1, <1>2, <2>1, <2>2, <2>3 DEF LoadsFit
  <1>10. OneWaits'
    BY <1>1, <1>2, <1>3 DEF OneWaits, At
  <1>11. \A j \in Requests : Fresh(j)' => Fresh(j)
    BY <1>2, <1>3 DEF Fresh, Live
  <1> QED BY <1>2, <1>3, <1>4, <1>6, <1>7, <1>8, <1>9, <1>10, <1>11

\* Whoever waits for a snapshot is the only one.
LEMMA OneSnapshot ==
    ASSUME FlowInv, phase = "serving", NEW i \in Requests, At(i, "reply"), request[i].at # -1, Live(i), request[i].pending,
           NEW j \in Requests \ {i}
    PROVE  ~Fresh(j)
  <1>1. SnapshotsFit /\ LoadsFit /\ OneWaits /\ HostTypeOK
    BY DEF FlowInv, Flow, HostInv
  <1>2. request[i].kind \in {"create", "load"}
    BY <1>1 DEF SnapshotsFit
  <1> SUFFICES ASSUME Fresh(j) PROVE FALSE
    OBVIOUS
  <1>3. request[j].kind \in {"create", "load"} /\ request[j].step \notin {"none", "end"} /\ Live(j)
    BY <1>1 DEF Fresh, SnapshotsFit, At
  <1>4. CASE request[j].kind = "create"
    <2>1. At(i, "none")
      BY <1>3, <1>4, Created
    <2> QED BY <2>1 DEF At
  <1>5. CASE request[i].kind = "create"
    <2>1. At(j, "none")
      BY <1>5, Created DEF At
    <2> QED BY <1>3, <2>1 DEF At
  <1>6. CASE request[i].kind = "load" /\ request[j].kind = "load"
    <2>1. loading = i
      BY <1>1, <1>6 DEF LoadsFit
    <2>2. CASE At(j, "sent")
      <3>1. CASE i < j
        BY <1>1, <1>6, <2>2, <3>1 DEF OneWaits, At
      <3>2. CASE j < i
        <4>1. request[i].step \in {"none", "sent"}
          BY <2>2, <3>2 DEF FlowInv, HostInv, Orderly, InTurn
        <4> QED BY <4>1 DEF At
      <3> QED BY <3>1, <3>2 DEF Requests
    <2>3. CASE ~At(j, "sent")
      <3>1. loading = j
        BY <1>1, <1>3, <1>6, <2>3 DEF LoadsFit, Fresh, At
      <3> QED BY <2>1, <3>1
    <2> QED BY <2>2, <2>3
  <1> QED BY <1>2, <1>3, <1>4, <1>5, <1>6

\* What follows the answer of a load: the events after what it brings, from the given number on.
LEMMA FollowsAnswer ==
    ASSUME FlowInv, phase = "serving", NEW i \in Requests, loading = i
    PROVE  LET c == IF request[i].at = -1 THEN Base ELSE request[i].at
           IN /\ c \in Nat /\ c <= sequence /\ Len(After(request[i].at)) = sequence - c
              /\ \A k \in 1..(sequence - c) : After(request[i].at)[k] = c + k
  <1>1. KeptFollow /\ SnapshotsFit /\ HostTypeOK
    BY DEF FlowInv, Flow, HostInv
  <1>2. /\ sequence \in Nat /\ Len(kept) \in Nat /\ request[i].at \in -1..MaxEvents /\ MaxEvents \in Nat
        /\ kept \in Seq(1..MaxEvents) /\ Len(kept) <= sequence
    BY <1>1, FlowTypes, HostNumbers DEF KeptFollow
  <1>3. Base \in Nat /\ Base + Len(kept) = sequence /\ Base <= sequence
    BY <1>2 DEF Base
  <1> DEFINE at == request[i].at
             c == IF at = -1 THEN Base ELSE at
             S == (at + 1)..MaxEvents
  <1>4. c \in Nat /\ c \in Base..sequence
    <2>1. at # -1 => at \in Base..sequence
      BY <1>1 DEF SnapshotsFit
    <2> QED BY <1>2, <1>3, <2>1
  <1>5. \A k \in 1..Len(kept) : kept[k] = Base + k /\ (kept[k] \in S <=> kept[k] > c)
    <2>1. ASSUME NEW k \in 1..Len(kept) PROVE kept[k] = Base + k /\ (kept[k] \in S <=> kept[k] > c)
      <3>1. kept[k] = Base + k /\ kept[k] \in 1..MaxEvents
        BY <1>1, <1>2, ElementOfSeq DEF KeptFollow
      <3>2. CASE at = -1
        BY <1>2, <1>3, <3>1, <3>2
      <3>3. CASE at # -1
        <4>1. at \in Nat /\ c = at
          BY <1>2, <3>3
        <4> QED BY <1>2, <3>1, <4>1
      <3> QED BY <3>2, <3>3
    <2> QED BY <2>1
  <1>6. After(at) = Only(kept, S)
    BY DEF After
  <1> HIDE DEF S, c
  <1>7. /\ Len(Only(kept, S)) = Base + Len(kept) - c
        /\ \A k \in 1..(Base + Len(kept) - c) : Only(kept, S)[k] = c + k
    <2>1. Len(kept) \in Nat /\ Base \in Nat /\ c \in Base..(Base + Len(kept))
      BY <1>2, <1>3, <1>4
    <2> HIDE DEF Base
    <2> QED BY <1>5, <2>1, OnlyRest
  <1>8. c <= sequence
    BY <1>2, <1>3, <1>4
  <1> QED BY <1>3, <1>4, <1>6, <1>7, <1>8 DEF c

\* An answer that cannot be sent.
LEMMA ReplyLost ==
    ASSUME FlowInv, phase = "serving", NEW i \in Requests, Reply(i), ~Live(i)
    PROVE  Flow'
  <1>1. HostTypeOK /\ SnapshotsFit /\ LoadsFit /\ ViewFits /\ TipFits /\ Chained(inbox, view)
    BY DEF FlowInv, HostInv, Flow
  <1>2. /\ UNCHANGED <<phase, sequence, attached, current, view>> /\ At(i, "reply")
        /\ \A j \in Requests \ {i} : request'[j] = request[j]
        /\ request'[i].kind = request[i].kind /\ request'[i].pending = request[i].pending /\ request'[i].step = "end"
        /\ loading' = (IF loading = i THEN 0 ELSE loading) /\ kept' = (IF loading = i THEN << >> ELSE kept)
        /\ KeptFollow' /\ SnapshotsFit' /\ LoadsFit' /\ OneWaits' /\ \A j \in Requests : Fresh(j)' => Fresh(j)
    BY ReplyRequests
  <1>3. inbox' = inbox
    BY DEF Reply
  <1>4. loading # i /\ (loading # 0 => loading \in Requests)
    BY <1>1, FlowTypes, HostNumbers DEF LoadsFit, Live
  <1>5. UNCHANGED <<loading, kept>> /\ (loading # 0 => request'[loading] = request[loading])
    BY <1>2, <1>4
  <1>6. TipFits' /\ Chained(inbox', view')
    BY <1>1, <1>2, <1>3, <1>5 DEF TipFits, Base
  <1>7. ViewFits'
    <2>1. (view # -1 => \E j \in Requests : ~At(j, "none"))'
      BY <1>2 DEF At
    <2>2. (\A j \in Requests : Fresh(j) => view = -1)'
      BY <1>1, <1>2 DEF ViewFits
    <2>3. (current \notin attached => ~Anchored(inbox, view, Len(inbox)))' /\ (attached \subseteq 1..current)'
      BY <1>1, <1>2, <1>3 DEF ViewFits
    <2>4. \A j \in Requests : request'[j].kind = request[j].kind /\ request'[j].pending = request[j].pending
      BY <1>2
    <2>5. \A k \in 1..Len(inbox) : IsSnapshot(inbox[k]) => inbox[k].of \in Requests
      BY <1>1, SnapshotIs
    <2> QED BY <1>1, <1>2, <1>3, <2>1, <2>2, <2>3, <2>4, <2>5 DEF ViewFits
  <1> QED BY <1>2, <1>6, <1>7 DEF Flow

\* An answer that is sent, and what follows it.
LEMMA ReplySent ==
    ASSUME FlowInv, phase = "serving", NEW i \in Requests, Reply(i), Live(i)
    PROVE  Flow'
  <1>1. HostTypeOK /\ KeptFollow /\ SnapshotsFit /\ LoadsFit /\ ViewFits /\ TipFits /\ Chained(inbox, view)
    BY DEF FlowInv, HostInv, Flow
  <1>2. /\ UNCHANGED <<phase, sequence, attached, current, view>> /\ At(i, "reply")
        /\ \A j \in Requests \ {i} : request'[j] = request[j]
        /\ request'[i].kind = request[i].kind /\ request'[i].pending = request[i].pending /\ request'[i].step = "end"
        /\ loading' = (IF loading = i THEN 0 ELSE loading) /\ kept' = (IF loading = i THEN << >> ELSE kept)
        /\ KeptFollow' /\ SnapshotsFit' /\ LoadsFit' /\ OneWaits' /\ \A j \in Requests : Fresh(j)' => Fresh(j)
    BY ReplyRequests
  <1> DEFINE n == Len(inbox)
             at == request[i].at
             more == IF loading = i THEN After(at) ELSE << >>
             m == Len(more)
             answer == [of |-> i, at |-> at]
             s == Append(inbox, answer)
  <1>3. at \in -1..MaxEvents /\ (at # -1 => request[i].ok /\ request[i].kind \in {"create", "load"}
                                              /\ request[i].connection = current /\ current \in attached)
    BY <1>1, FlowTypes DEF SnapshotsFit, Live
  <1>4. answer.at = (IF request[i].ok THEN request[i].at ELSE -1)
    BY <1>3
  <1>5. /\ n \in Nat /\ m \in Nat /\ more \in Seq(1..MaxEvents) /\ Len(inbox') = n + 1 + m
        /\ \A k \in 1..n : inbox'[k] = inbox[k]
        /\ inbox'[n + 1] = answer
        /\ \A k \in 1..m : inbox'[n + 1 + k] = [event |-> more[k]]
    <2>1. [of |-> i, at |-> IF request[i].ok THEN request[i].at ELSE -1] = answer
      BY <1>4
    <2> QED BY <1>1, <2>1, ReplyFrames
  <1>6. answer \in Event \cup Answer /\ "event" \notin DOMAIN answer
    BY <1>3 DEF Answer
  <1>7. Carried(answer) = at /\ (IsSnapshot(answer) <=> at # -1) /\ answer.of = i
    <2>1. Carried(answer) = answer.at /\ (IsSnapshot(answer) <=> answer.at # -1)
      BY <1>6, FrameIs
    <2> QED BY <2>1
  <1>8. \A k \in 1..m : [event |-> more[k]] \in Event
    BY <1>5, ElementOfSeq DEF Event
  <1>9. \A k \in 1..m : ~IsSnapshot(inbox'[n + 1 + k])
    <2>1. ASSUME NEW k \in 1..m PROVE ~IsSnapshot([event |-> more[k]])
      <3>1. [event |-> more[k]] \in Event /\ "event" \in DOMAIN [event |-> more[k]]
        BY <1>8
      <3> QED BY <3>1, FrameIs
    <2> QED BY <1>5, <2>1
  <1>10. Len(s) = n + 1 /\ (\A k \in 1..n : s[k] = inbox[k]) /\ s[n + 1] = answer /\ \A k \in 1..(n + 1) : inbox'[k] = s[k]
    <2>1. inbox \in Seq(Event \cup Answer)
      BY <1>1, FlowTypes
    <2>2. Len(s) = n + 1 /\ (\A k \in 1..n : s[k] = inbox[k]) /\ s[n + 1] = answer
      <3> HIDE DEF answer
      <3> QED BY <1>6, <2>1, AppendProperties
    <2>3. \A k \in 1..(n + 1) : k \in 1..n \/ k = n + 1
      BY <1>5
    <2> HIDE DEF s, answer, n
    <2> QED BY <1>5, <2>2, <2>3
  <1>11. at # -1 => view = -1 /\ Fresh(i)
    <2>1. at # -1 => Fresh(i)
      BY <1>3 DEF Fresh
    <2> QED BY <1>1, <2>1 DEF ViewFits
  <1>12. i # 0 /\ (loading # 0 => loading \in Requests) /\ sequence \in Nat
    BY <1>1, FlowTypes, HostNumbers
  <1> HIDE DEF n, at, more, m, answer, s
  <1>13. /\ Chained(s, view)
         /\ Anchored(s, view, n + 1) <=> Anchored(inbox, view, n) \/ at # -1
         /\ at # -1 => Reaches(s, view, n + 1, at)
         /\ at = -1 => \A b : Reaches(inbox, view, n, b) => Reaches(s, view, n + 1, b)
    <2>1. Len(inbox) = n /\ Chained(inbox, view)
      BY <1>1 DEF n
    <2>2. s[n + 1] \in Event \cup Answer /\ "event" \notin DOMAIN s[n + 1]
      BY <1>6, <1>10
    <2>3. /\ Chained(s, view)
          /\ Anchored(s, view, n + 1) <=> Anchored(inbox, view, n) \/ IsSnapshot(s[n + 1])
          /\ Carried(s[n + 1]) # -1 => Reaches(s, view, n + 1, Carried(s[n + 1]))
          /\ Carried(s[n + 1]) = -1 => \A b : Reaches(inbox, view, n, b) => Reaches(s, view, n + 1, b)
      BY <1>5, <1>10, <2>1, <2>2, ChainedMore
    <2> QED BY <1>7, <1>10, <2>3
  <1>14. /\ Chained(inbox', view) /\ (Anchored(inbox', view, n + 1 + m) <=> Anchored(s, view, n + 1))
         /\ TipFits'
    <2>1. CASE loading = i
      <3> DEFINE c == IF at = -1 THEN Base ELSE at
      <3>1. c \in Nat /\ c <= sequence /\ m = sequence - c /\ \A k \in 1..m : more[k] = c + k
        <4>1. /\ c \in Nat /\ c <= sequence /\ Len(After(at)) = sequence - c
              /\ \A k \in 1..(sequence - c) : After(at)[k] = c + k
          BY <2>1, FollowsAnswer DEF at
        <4>2. more = After(at) /\ m = Len(more)
          BY <2>1 DEF more, m
        <4> QED BY <4>1, <4>2
      <3> HIDE DEF c
      <3>2. Anchored(s, view, n + 1) => Reaches(s, view, n + 1, c)
        <4>1. CASE at # -1
          BY <1>13, <4>1 DEF c
        <4>2. CASE at = -1
          <5>1. Anchored(s, view, n + 1) => Anchored(inbox, view, n)
            BY <1>13, <4>2
          <5>2. Anchored(inbox, view, n) => Reaches(inbox, view, n, Base)
            BY <1>1, <2>1, <4>2 DEF TipFits, ViewFits, n, at
          <5> QED BY <1>13, <4>2, <5>1, <5>2 DEF c
        <4> QED BY <4>1, <4>2
      <3>3. \A k \in 1..m : inbox'[(n + 1) + k] \in Event /\ inbox'[(n + 1) + k].event = c + k
        <4>1. ASSUME NEW k \in 1..m
              PROVE  inbox'[(n + 1) + k] \in Event /\ inbox'[(n + 1) + k].event = c + k
          <5>1. inbox'[n + 1 + k] = [event |-> more[k]] /\ [event |-> more[k]] \in Event /\ more[k] = c + k
            BY <1>5, <1>8, <3>1
          <5>2. n + 1 + k = (n + 1) + k
            BY <1>5
          <5>3. [event |-> more[k]].event = c + k
            BY <5>1
          <5> QED BY <5>1, <5>2, <5>3
        <4> QED BY <4>1
      <3>4. /\ Chained(inbox', view)
            /\ Anchored(inbox', view, (n + 1) + m) <=> Anchored(s, view, n + 1)
            /\ Anchored(s, view, n + 1) => Reaches(inbox', view, (n + 1) + m, c + m)
        <4> DEFINE p == n + 1
        <4>1. p \in Nat /\ m \in Nat /\ Len(inbox') = p + m /\ Len(s) = p
          BY <1>5, <1>10
        <4>2. \A k \in 1..p : inbox'[k] = s[k]
          BY <1>10
        <4>3. \A k \in 1..m : inbox'[p + k] \in Event /\ inbox'[p + k].event = c + k
          BY <3>3
        <4>4. Chained(s, view) /\ (Anchored(s, view, p) => Reaches(s, view, p, c))
          BY <1>13, <3>2
        <4> HIDE DEF p
        <4>5. /\ Chained(inbox', view)
              /\ Anchored(inbox', view, p + m) <=> Anchored(s, view, p)
              /\ Anchored(s, view, p) => Reaches(inbox', view, p + m, c + m)
          <5>1. Extends(inbox', s, p, m, c)
            BY <4>1, <4>2, <4>3 DEF Extends
          <5> QED BY <3>1, <4>1, <4>4, <5>1, ChainedRun
        <4> QED BY <4>5 DEF p
      <3>5. c + m = sequence /\ Base' = sequence
        <4>1. kept' = << >> /\ sequence' = sequence /\ Len(<< >>) = 0
          BY <1>2, <2>1
        <4> QED BY <1>12, <3>1, <4>1 DEF Base
      <3> QED BY <1>2, <1>5, <3>4, <3>5 DEF TipFits
    <2>2. CASE loading # i
      <3>1. m = 0 /\ UNCHANGED <<loading, kept>> /\ (loading # 0 => request'[loading] = request[loading])
        BY <1>2, <1>12, <2>2 DEF more, m
      <3>2. Len(inbox') = n + 1 /\ Len(inbox) = n
        BY <1>5, <3>1 DEF n
      <3>3. \A k \in 0..(n + 1) : /\ Anchored(inbox', view, k) <=> Anchored(s, view, k)
                                  /\ \A b : Reaches(inbox', view, k, b) <=> Reaches(s, view, k, b)
        <4>1. n + 1 \in Nat /\ \A k \in 1..(n + 1) : inbox'[k] = s[k]
          BY <1>5, <1>10
        <4> QED BY <4>1, SameBefore
      <3>4. Chained(inbox', view)
        <4>1. ASSUME NEW k \in 1..(n + 1), "event" \in DOMAIN inbox'[k], Anchored(inbox', view, k - 1)
              PROVE  Reaches(inbox', view, k - 1, inbox'[k].event - 1)
          <5>1. k - 1 \in 0..(n + 1) /\ inbox'[k] = s[k] /\ k \in 1..Len(s)
            BY <1>5, <1>10
          <5>2. Anchored(s, view, k - 1)
            BY <3>3, <4>1, <5>1
          <5>3. Reaches(s, view, k - 1, s[k].event - 1)
            BY <1>13, <4>1, <5>1, <5>2 DEF Chained
          <5> QED BY <3>3, <5>1, <5>3
        <4> QED BY <3>2, <4>1 DEF Chained
      <3>5. n + 1 \in 0..(n + 1) /\ n + 1 + m = n + 1
        BY <1>5, <3>1
      <3>6. Base' = Base
        BY <1>2, <3>1 DEF Base
      <3>7. TipFits'
        <4>1. CASE at = -1
          <5>1. ASSUME loading = 0 \/ request[loading].at = -1, current \in attached, Anchored(inbox', view, n + 1)
                PROVE  Reaches(inbox', view, n + 1, Base)
            <6>1. Anchored(inbox, view, n)
              BY <1>13, <3>3, <3>5, <4>1, <5>1
            <6>2. Reaches(inbox, view, n, Base)
              BY <1>1, <3>2, <5>1, <6>1 DEF TipFits
            <6> QED BY <1>13, <3>3, <3>5, <4>1, <6>2
          <5> QED BY <1>2, <3>1, <3>2, <3>6, <5>1 DEF TipFits
        <4>2. CASE at # -1
          <5>1. request[i].kind = "create"
            BY <1>1, <1>3, <2>2, <4>2 DEF LoadsFit, at
          <5>2. loading = 0 /\ at = sequence
            BY <1>1, <1>2, <4>2, <5>1, Created DEF At, SnapshotsFit, at
          <5>3. Base = sequence
            <6>1. Len(kept) = 0
              BY <1>1, <5>2 DEF KeptFollow
            <6> QED BY <1>12, <6>1 DEF Base
          <5>4. Reaches(inbox', view, n + 1, Base)
            BY <1>13, <3>3, <3>5, <4>2, <5>2, <5>3
          <5> QED BY <1>2, <3>2, <3>6, <5>4 DEF TipFits
        <4> QED BY <4>1, <4>2
      <3> QED BY <3>3, <3>4, <3>5, <3>7
    <2> QED BY <2>1, <2>2
  <1>15. ViewFits'
    <2>1. (view # -1 => \E j \in Requests : ~At(j, "none"))'
      BY <1>2 DEF At
    <2>2. (\A j \in Requests : Fresh(j) => view = -1)'
      BY <1>1, <1>2 DEF ViewFits
    <2>3. (current \notin attached => ~Anchored(inbox, view, Len(inbox)))' /\ (attached \subseteq 1..current)'
      BY <1>1, <1>2, <1>3, <1>5, <1>13, <1>14 DEF ViewFits, n
    <2>4. ASSUME NEW k \in 1..Len(inbox'), IsSnapshot(inbox'[k])
          PROVE  /\ view = -1 /\ request'[inbox'[k].of].kind \in {"create", "load"}
                 /\ request'[inbox'[k].of].pending =>
                      /\ \A j \in Requests : ~Fresh(j)'
                      /\ \A l \in (k + 1)..Len(inbox') : ~IsSnapshot(inbox'[l])
      <3>1. CASE k \in 1..n
        <4>1. inbox'[k] = inbox[k] /\ k \in 1..Len(inbox)
          BY <1>5, <3>1 DEF n
        <4>2. inbox[k].of \in Requests
          BY <1>1, <2>4, <4>1, SnapshotIs
        <4>3. /\ view = -1 /\ request[inbox[k].of].kind \in {"create", "load"}
              /\ request[inbox[k].of].pending =>
                   /\ \A j \in Requests : ~Fresh(j)
                   /\ \A l \in (k + 1)..n : ~IsSnapshot(inbox[l])
          BY <1>1, <2>4, <4>1 DEF ViewFits, n
        <4>4. request'[inbox[k].of].kind = request[inbox[k].of].kind /\ request'[inbox[k].of].pending = request[inbox[k].of].pending
          BY <1>2, <4>2
        <4>5. ASSUME request[inbox[k].of].pending, NEW l \in (k + 1)..Len(inbox') PROVE ~IsSnapshot(inbox'[l])
          <5>1. at = -1
            BY <1>11, <4>3, <4>5
          <5>2. CASE l <= n
            <6>1. l \in (k + 1)..n /\ l \in 1..n
              BY <1>5, <5>2
            <6> QED BY <1>5, <4>3, <4>5, <6>1
          <5>3. CASE l = n + 1
            BY <1>5, <1>7, <5>1, <5>3
          <5>4. CASE l > n + 1
            <6>1. l - (n + 1) \in 1..m /\ l = n + 1 + (l - (n + 1))
              BY <1>5, <5>4
            <6> QED BY <1>9, <6>1
          <5>5. l \in Nat /\ n \in Nat
            BY <1>5
          <5> QED BY <5>2, <5>3, <5>4, <5>5
        <4> QED BY <1>2, <4>1, <4>3, <4>4, <4>5
      <3>2. CASE k = n + 1
        <4>1. at # -1 /\ inbox'[k].of = i
          BY <1>5, <1>7, <2>4, <3>2
        <4>2. ~Fresh(i)'
          <5>1. request'[i].step = "end" /\ request'[i].at = -1
            BY ReplyRequests
          <5> QED BY <5>1 DEF Fresh
        <4>3. request[i].pending => \A j \in Requests \ {i} : ~Fresh(j)
          BY <1>2, <4>1, OneSnapshot DEF at
        <4>4. ASSUME NEW l \in (k + 1)..Len(inbox') PROVE ~IsSnapshot(inbox'[l])
          <5>1. l - (n + 1) \in 1..m /\ l = n + 1 + (l - (n + 1))
            BY <1>5, <3>2
          <5> QED BY <1>9, <5>1
        <4>5. view = -1 /\ request'[i].kind \in {"create", "load"}
          BY <1>2, <1>3, <1>11, <4>1
        <4> QED BY <1>2, <4>1, <4>2, <4>3, <4>4, <4>5
      <3>3. CASE k > n + 1
        <4>1. k - (n + 1) \in 1..m /\ k = n + 1 + (k - (n + 1))
          BY <1>5, <3>3
        <4> QED BY <1>9, <2>4, <4>1
      <3>4. k \in Nat /\ n \in Nat /\ (k \in 1..n \/ k = n + 1 \/ k > n + 1)
        BY <1>5
      <3> QED BY <3>1, <3>2, <3>3, <3>4
    <2> QED BY <1>2, <2>1, <2>2, <2>3, <2>4 DEF ViewFits
  <1> QED BY <1>2, <1>14, <1>15 DEF Flow

-----------------------------------------------------------------------------
(* Each step keeps the flow.                                               *)

LEMMA RequestFlow ==
    ASSUME FlowInv, phase = "serving", NEW i \in Requests, Receive(i) \/ Handle(i) \/ RunEnds(i)
    PROVE  Flow'
  <1>1. CASE Receive(i)
    <2>1. CASE Fail(i)
      <3>1. Calm
        BY <1>1, <2>1, CalmSteps
      <3>2. loading' = loading
        <4>1. request[i] \in Request /\ request \in [Requests -> Request]
          BY DEF FlowInv, HostInv, HostTypeOK
        <4>2. request'[i].step = "reply"
          BY <2>1, <4>1 DEF Fail, Request
        <4>3. ~Go(i, "get")
          <5>1. ASSUME Go(i, "get")
                PROVE  request'[i].step = "get"
            BY <4>1, <5>1 DEF Go, Request
          <5> QED BY <4>2, <5>1
        <4> QED BY <1>1, <4>3 DEF Receive
      <3> QED BY <1>1, <3>1, <3>2, KeepFlow DEF Receive, peer
    <2>2. CASE ~Fail(i)
      BY <1>1, <2>2, ReceiveFlow
    <2> QED BY <2>1, <2>2
  <1>2. CASE Get(i) \/ Enter(i) \/ Other(i) \/ Delete(i) \/ Deleting(i) \/ Deleted(i)
    <2>1. Calm
      BY <1>2, CalmSteps
    <2>2. UNCHANGED <<phase, sequence, peer, wire>>
      BY <1>2 DEF Get, Enter, Other, Delete, Deleting, Deleted
    <2> QED BY <2>1, <2>2, KeepFlow
  <1>3. CASE Attach(i)
    <2>1. CASE Settle(i, FALSE, -1) /\ UNCHANGED attached
      <3>1. Calm
        BY <1>3, <2>1, CalmSteps
      <3> QED BY <1>3, <2>1, <3>1, KeepFlow DEF Attach, peer
    <2>2. CASE Settle(i, TRUE, sequence) /\ attached' = attached \cup {request[i].connection}
      BY <1>3, <2>2, AttachFlow
    <2> QED BY <1>3, <2>1, <2>2 DEF Attach
  <1>4. CASE Prompt(i)
    <2>1. Calm
      BY <1>4, CalmSteps
    <2>2. CASE MayRun(i)
      <3>1. Publish(1) /\ UNCHANGED <<phase, loading, current, view, attached>>
        BY <1>4, <2>2 DEF Prompt
      <3>2. ASSUME NEW j \in Requests, request[j].kind = "create", request[j].at # -1 PROVE FALSE
        <4>1. At(j, "reply")
          BY <3>2 DEF FlowInv, Flow, SnapshotsFit
        <4>2. j # i
          BY <1>4, <4>1 DEF Prompt, At
        <4>3. At(i, "none")
          BY <3>2, <4>1, <4>2, Created DEF At
        <4> QED BY <1>4, <4>3 DEF Prompt, At
      <3> QED BY <2>1, <3>1, <3>2, PublishFlow
    <2>3. CASE ~MayRun(i)
      <3>1. UNCHANGED <<phase, sequence, peer, wire>>
        BY <1>4, <2>3 DEF Prompt, peer, wire
      <3> QED BY <2>1, <3>1, KeepFlow
    <2> QED BY <2>2, <2>3
  <1>5. CASE RunEnds(i)
    <2>1. Calm
      BY <1>5, CalmSteps
    <2>2. Publish(1) /\ UNCHANGED <<phase, loading, current, view, attached>> /\ Quiet
      BY <1>5 DEF RunEnds
    <2>3. \A j \in Requests : request[j].kind = "create" => request[j].at = -1
      BY <2>2 DEF Quiet, Ready, FlowInv, Flow, SnapshotsFit
    <2> QED BY <2>1, <2>2, <2>3, PublishFlow
  <1>6. CASE Reply(i)
    BY <1>6, ReplyLost, ReplySent
  <1> QED BY <1>1, <1>2, <1>3, <1>4, <1>5, <1>6 DEF Handle

LEMMA FlowStep ==
    ASSUME FlowInv, [HostNext]_hostVars
    PROVE  Flow'
  <1>1. CASE phase' # "serving"
    BY <1>1, StoppedFlow
  <1>2. CASE phase' = "serving"
    <2>1. ASSUME NEW i \in Requests, Send(i) \/ Abandon(i) \/ Receive(i) \/ Handle(i) \/ RunEnds(i) PROVE Flow'
      <3>1. CASE Send(i)
        BY <3>1, SendFlow
      <3>2. CASE Abandon(i)
        <4>1. UNCHANGED <<phase, sequence, peer, wire>>
          BY <3>2 DEF Abandon
        <4>2. phase = "serving"
          BY <1>2, <4>1
        <4> QED BY <3>2, <4>1, <4>2, CalmAbandon, KeepFlow
      <3>3. CASE Receive(i) \/ Handle(i) \/ RunEnds(i)
        <4>1. UNCHANGED phase
          BY <3>3 DEF Receive, Handle, RunEnds, Get, Enter, Attach, Other, Prompt, Delete, Deleting, Deleted, Reply
        <4> QED BY <1>2, <3>3, <4>1, RequestFlow
      <3> QED BY <2>1, <3>1, <3>2, <3>3
    <2>2. CASE Read
      <3>1. phase = "serving"
        BY <1>2, <2>2 DEF Read
      <3> QED BY <2>2, <3>1, ReadFlow
    <2>3. CASE LoseConnection
      BY <2>3, LoseFlow
    <2>4. CASE PiEvent
      <3>1. Publish(1) /\ Quiet /\ UNCHANGED <<phase, request, loading, current, view, attached>>
        BY <2>4 DEF PiEvent
      <3>2. phase = "serving" /\ Calm
        BY <1>2, <3>1, CalmStill
      <3>3. \A j \in Requests : request[j].kind = "create" => request[j].at = -1
        BY <3>1, <3>2 DEF Quiet, Ready, FlowInv, Flow, SnapshotsFit
      <3> QED BY <3>1, <3>2, <3>3, PublishFlow
    <2>5. CASE Release \/ Released
      <3>1. UNCHANGED <<phase, sequence, request, peer, wire>>
        BY <2>5 DEF Release, Released
      <3>2. Calm
        BY <1>2, <3>1, CalmStill
      <3> QED BY <3>1, <3>2, KeepFlow
    <2>6. CASE Opened
      <3>1. UNCHANGED <<phase, sequence, peer, wire>>
        BY <2>6 DEF Opened
      <3>2. Calm
        BY <1>2, <2>6, <3>1, CalmOpened
      <3> QED BY <3>1, <3>2, KeepFlow
    <2>7. ~Stop /\ ~Close
      BY <1>2 DEF Stop, Close
    <2>8. CASE UNCHANGED hostVars
      <3>1. UNCHANGED <<phase, sequence, request, peer, wire>>
        BY <2>8 DEF hostVars
      <3>2. Calm
        BY <1>2, <3>1, CalmStill
      <3> QED BY <3>1, <3>2, KeepFlow
    <2> QED BY <2>1, <2>2, <2>3, <2>4, <2>5, <2>6, <2>7, <2>8 DEF HostNext
  <1> QED BY <1>1, <1>2

LEMMA FlowInvInit == HostInit => FlowInv
  <1> SUFFICES ASSUME HostInit PROVE FlowInv
    OBVIOUS
  <1>1. HostInv
    BY HostInvInit
  <1>2. \A i \in Requests : request[i].step = "none" /\ request[i].kind = "other" /\ request[i].at = -1 /\ ~request[i].pending
    BY DEF HostInit, Unused
  <1>3. /\ phase = "serving" /\ sequence = 0 /\ attached = {} /\ loading = 0 /\ kept = << >>
        /\ current = 1 /\ inbox = << >> /\ view = -1
    BY DEF HostInit
  <1>4. Len(inbox) = 0 /\ Len(kept) = 0
    BY <1>3
  <1>5. KeptFollow
    BY <1>3, <1>4 DEF KeptFollow
  <1>6. SnapshotsFit /\ LoadsFit /\ OneWaits
    BY <1>2, <1>3 DEF SnapshotsFit, LoadsFit, OneWaits, At
  <1>7. ViewFits /\ TipFits /\ Chained(inbox, view)
    <2>1. \A k \in 1..Len(inbox) : FALSE
      BY <1>4
    <2> QED BY <1>2, <1>3, <1>4, <2>1 DEF ViewFits, TipFits, Chained, Anchored, Fresh
  <1> QED BY <1>1, <1>3, <1>5, <1>6, <1>7 DEF FlowInv, Flow

LEMMA FlowInvStep == FlowInv /\ [HostNext]_hostVars => FlowInv'
  <1> SUFFICES ASSUME FlowInv, [HostNext]_hostVars PROVE FlowInv'
    OBVIOUS
  <1>1. HostInv'
    BY HostInvStep DEF FlowInv
  <1>2. Flow'
    BY FlowStep
  <1> QED BY <1>1, <1>2 DEF FlowInv

LEMMA NextFollows ==
    ASSUME FlowInv, inbox # << >>
    PROVE  LET f == Head(inbox)
           IN IF "event" \in DOMAIN f THEN view \in {-1, f.event - 1}
              ELSE f.at = -1 \/ f.at >= view
  <1>1. phase = "serving" /\ HostTypeOK
    BY DEF FlowInv, Flow, HostInv
  <1>2. ViewFits /\ Chained(inbox, view) /\ inbox \in Seq(Event \cup Answer) /\ Len(inbox) \in Nat
    BY <1>1, FlowTypes DEF FlowInv, Flow
  <1>3. 1 \in 1..Len(inbox) /\ Head(inbox) = inbox[1] /\ inbox[1] \in Event \cup Answer
    BY <1>1, <1>2, HeadTailProperties, EmptySeq, FlowTypes
  <1>4. CASE "event" \in DOMAIN inbox[1]
    <2>1. Anchored(inbox, view, 0) <=> view # -1
      BY DEF Anchored
    <2>2. view # -1 => Reaches(inbox, view, 0, inbox[1].event - 1)
      <3>1. 1 - 1 = 0
        OBVIOUS
      <3> QED BY <1>2, <1>3, <1>4, <2>1, <3>1 DEF Chained
    <2>3. view # -1 => view = inbox[1].event - 1
      BY <2>2 DEF Reaches
    <2> QED BY <1>3, <1>4, <2>3
  <1>5. CASE "event" \notin DOMAIN inbox[1]
    <2>1. inbox[1].at \in -1..MaxEvents /\ (IsSnapshot(inbox[1]) <=> inbox[1].at # -1)
      BY <1>3, <1>5, FrameIs
    <2>2. inbox[1].at # -1 => view = -1
      BY <1>2, <1>3, <2>1 DEF ViewFits
    <2> QED BY <1>3, <1>5, <2>1, <2>2, HostNumbers
  <1> QED BY <1>4, <1>5

-----------------------------------------------------------------------------
(* What went to a replay before its snapshot is of events that the snapshot  *)
(* has: whatever the controller has read or will read before a snapshot was  *)
(* sent before it was taken.                                                 *)

AheadFits ==
    /\ view # -1 => ahead \subseteq 1..view
    /\ ahead \subseteq 1..sequence
    /\ phase = "serving" =>
         /\ \A k \in 1..Len(inbox) : Carried(inbox[k]) <= sequence
         /\ \A l \in 1..Len(inbox) : IsSnapshot(inbox[l]) =>
              ahead \subseteq 1..inbox[l].at /\ \A k \in 1..(l - 1) : Carried(inbox[k]) <= inbox[l].at
         /\ \A i \in Requests : Live(i) /\ request[i].at # -1 =>
              ahead \subseteq 1..request[i].at /\ \A k \in 1..Len(inbox) : Carried(inbox[k]) <= request[i].at

AheadInv == FlowInv /\ AheadFits

LEMMA CarriedTyped ==
    ASSUME HostTypeOK, NEW k \in 1..Len(inbox)
    PROVE  inbox[k] \in Event \cup Answer /\ Carried(inbox[k]) \in -1..MaxEvents
  <1>1. ASSUME NEW f \in Event PROVE Carried(f) \in -1..MaxEvents
    BY <1>1, HostNumbers DEF Event, Carried
  <1>2. ASSUME NEW f \in Answer PROVE Carried(f) \in -1..MaxEvents
    BY <1>2, HostNumbers DEF Answer, Carried
  <1>3. inbox[k] \in Event \cup Answer
    BY FlowTypes
  <1> QED BY <1>1, <1>2, <1>3

\* Steps that neither send nor read a frame, and take a snapshot only of all there is.
LEMMA AheadKeeps ==
    ASSUME AheadInv, UNCHANGED <<phase, current, inbox, view, ahead>>, sequence' \in Nat, sequence' >= sequence,
           \A i \in Requests : Live(i)' /\ request'[i].at # -1 =>
               \/ Live(i) /\ request'[i].at = request[i].at
               \/ request'[i].at = sequence
    PROVE  AheadFits'
  <1>1. /\ AheadFits /\ sequence \in Nat /\ Len(inbox) \in Nat
        /\ \A k \in 1..Len(inbox) : inbox[k] \in Event \cup Answer
    BY FlowTypes DEF AheadInv, FlowInv, HostInv
  <1>2. \A k \in 1..Len(inbox) : Carried(inbox[k]) \in -1..MaxEvents
    BY CarriedTyped DEF AheadInv, FlowInv, HostInv
  <1>3. ahead \subseteq 1..sequence'
    BY <1>1 DEF AheadFits
  <1>4. phase = "serving" => \A k \in 1..Len(inbox) : Carried(inbox[k]) <= sequence'
    BY <1>1, <1>2, HostNumbers DEF AheadFits
  <1>5. ASSUME NEW i \in Requests, phase = "serving", Live(i)', request'[i].at # -1
        PROVE  ahead \subseteq 1..request'[i].at /\ \A k \in 1..Len(inbox) : Carried(inbox[k]) <= request'[i].at
    <2>1. CASE Live(i) /\ request'[i].at = request[i].at
      BY <1>1, <1>5, <2>1 DEF AheadFits
    <2>2. CASE request'[i].at = sequence
      BY <1>1, <1>5, <2>2 DEF AheadFits
    <2> QED BY <1>5, <2>1, <2>2
  <1>6. /\ view' = view /\ ahead' = ahead /\ inbox' = inbox /\ phase' = phase
        /\ \A k \in 1..Len(inbox') : Carried(inbox'[k]) = Carried(inbox[k]) /\ (IsSnapshot(inbox'[k]) <=> IsSnapshot(inbox[k]))
    OBVIOUS
  <1>7. phase = "serving" => \A l \in 1..Len(inbox) : IsSnapshot(inbox[l]) =>
              ahead \subseteq 1..inbox[l].at /\ \A k \in 1..(l - 1) : Carried(inbox[k]) <= inbox[l].at
    BY <1>1 DEF AheadFits
  <1>8. view # -1 => ahead \subseteq 1..view
    BY <1>1 DEF AheadFits
  <1> QED BY <1>3, <1>4, <1>5, <1>6, <1>7, <1>8 DEF AheadFits

\* One more event.  No snapshot waits to be sent when one is.
LEMMA AheadPublish ==
    ASSUME AheadInv, phase = "serving", Calm, Publish(1), UNCHANGED <<phase, loading, current, view, attached, ahead>>,
           \A i \in Requests : request[i].kind = "create" => request[i].at = -1
    PROVE  AheadFits'
  <1>1. HostTypeOK /\ SnapshotsFit /\ LoadsFit /\ AheadFits
    BY DEF AheadInv, FlowInv, HostInv, Flow
  <1>2. /\ sequence \in Nat /\ sequence' = sequence + 1 /\ inbox \in Seq(Event \cup Answer) /\ Len(inbox) \in Nat
        /\ inbox' = IF loading = 0 /\ Listens THEN Append(inbox, [event |-> sequence + 1]) ELSE inbox
        /\ sequence + 1 \in 1..MaxEvents
    <2>1. sequence' = sequence + 1 /\ sequence' \in 0..MaxEvents
      BY <1>1, PublishTyped
    <2> QED BY <1>1, <2>1, FlowTypes, PublishTyped, HostNumbers
  <1>3. \A i \in Requests : request'[i].at = request[i].at /\ (Live(i)' => Live(i))
    BY DEF Calm, Live
  <1>4. CASE inbox' = inbox
    BY <1>2, <1>3, <1>4, AheadKeeps
  <1>5. CASE loading = 0 /\ Listens
    <2> DEFINE n == Len(inbox)
               e == [event |-> sequence + 1]
    <2>1. \A i \in Requests : Live(i) => request[i].at = -1
      BY <1>1, <1>5, HostNumbers DEF SnapshotsFit, LoadsFit
    <2>2. e \in Event /\ "event" \in DOMAIN e /\ e.event = sequence + 1
      BY <1>2 DEF Event
    <2>3. Carried(e) = sequence + 1 /\ ~IsSnapshot(e) /\ e \in Event \cup Answer
      BY <2>2, FrameIs
    <2>4. Len(inbox') = n + 1 /\ inbox'[n + 1] = e /\ \A k \in 1..n : inbox'[k] = inbox[k]
      BY <1>2, <1>5, <2>3, AppendProperties
    <2> HIDE DEF e
    <2>5. \A k \in 1..(n + 1) : k \in 1..n \/ k = n + 1
      BY <1>2
    <2>6. ASSUME NEW k \in 1..Len(inbox') PROVE Carried(inbox'[k]) <= sequence'
      <3>1. CASE k \in 1..n
        <4>1. Carried(inbox[k]) \in -1..MaxEvents /\ Carried(inbox[k]) <= sequence
          <5>1. Carried(inbox[k]) \in -1..MaxEvents
            BY <1>1, <3>1, CarriedTyped
          <5>2. phase = "serving"
            OBVIOUS
          <5> QED BY <1>1, <3>1, <5>1, <5>2 DEF AheadFits
        <4> QED BY <1>2, <2>4, <3>1, <4>1, HostNumbers
      <3>2. CASE k = n + 1
        BY <1>2, <2>3, <2>4, <3>2
      <3> QED BY <2>4, <2>5, <3>1, <3>2
    <2>7. ASSUME NEW l \in 1..Len(inbox'), IsSnapshot(inbox'[l])
          PROVE  ahead \subseteq 1..inbox'[l].at /\ \A k \in 1..(l - 1) : Carried(inbox'[k]) <= inbox'[l].at
      <3>1. l \in 1..n
        BY <2>3, <2>4, <2>5, <2>7
      <3>2. inbox'[l] = inbox[l] /\ \A k \in 1..(l - 1) : inbox'[k] = inbox[k]
        BY <1>2, <2>4, <3>1
      <3> QED BY <1>1, <2>7, <3>1, <3>2 DEF AheadFits
    <2>8. ahead \subseteq 1..sequence'
      BY <1>1, <1>2 DEF AheadFits
    <2> QED BY <1>1, <1>3, <2>1, <2>6, <2>7, <2>8 DEF AheadFits
  <1> QED BY <1>2, <1>4, <1>5

\* The controller reads a frame: what goes ahead is the event, or of a snapshot that is
\* dropped.
LEMMA AheadRead ==
    ASSUME AheadInv, NoGap, phase = "serving", Read
    PROVE  AheadFits'
  <1>1. HostTypeOK /\ ViewFits /\ AheadFits
    BY DEF AheadInv, FlowInv, HostInv, Flow
  <1>2. inbox # << >> /\ inbox' = Tail(inbox) /\ UNCHANGED <<phase, sequence, current>>
    BY DEF Read
  <1> DEFINE n == Len(inbox)
             f == inbox[1]
             c == Carried(f)
  <1>3. /\ n \in Nat /\ n >= 1 /\ Head(inbox) = f /\ Len(inbox') = n - 1
        /\ \A k \in 1..(n - 1) : inbox'[k] = inbox[k + 1]
    <2>1. inbox \in Seq(Event \cup Answer) /\ n \in Nat
      BY <1>1, FlowTypes
    <2>2. /\ n # 0 /\ Head(inbox) = f /\ Tail(inbox) \in Seq(Event \cup Answer)
          /\ Len(Tail(inbox)) = n - 1 /\ \A k \in 1..Len(Tail(inbox)) : Tail(inbox)[k] = inbox[k + 1]
      BY <1>2, <2>1, HeadTailProperties, EmptySeq
    <2> QED BY <1>2, <2>1, <2>2
  <1>4. 1 \in 1..n /\ f \in Event \cup Answer /\ c \in -1..MaxEvents /\ sequence \in Nat /\ view \in -1..MaxEvents
    <2>1. 1 \in 1..n /\ sequence \in Nat /\ view \in -1..MaxEvents
      BY <1>1, <1>3, FlowTypes
    <2> QED BY <1>1, <2>1, CarriedTyped
  <1>5. /\ ahead' \subseteq ahead \cup 1..c
        /\ view' # -1 => ahead' \subseteq 1..view'
        /\ \A i \in Requests : request'[i].at = request[i].at /\ request'[i].connection = request[i].connection
    <2>1. CASE "event" \in DOMAIN f
      <3>1. c = f.event /\ f.event \in 1..MaxEvents
        BY <1>4, <2>1, FrameIs
      <3>2. /\ view' = (IF view = -1 THEN -1 ELSE f.event) /\ UNCHANGED request
            /\ ahead' \subseteq ahead \cup {f.event}
        BY <1>3, <2>1 DEF Read
      <3>3. view # -1 => view = f.event - 1 /\ ahead \subseteq 1..view
        BY <1>1, <1>2, <1>3, <2>1 DEF NoGap, AheadFits
      <3>4. f.event \in Nat
        BY <3>1, HostNumbers
      <3>5. ahead' \subseteq ahead \cup 1..f.event
        BY <3>1, <3>2
      <3>6. view' # -1 => ahead' \subseteq 1..view'
        BY <1>4, <3>1, <3>2, <3>3, <3>4
      <3> HIDE DEF f
      <3> QED BY <3>1, <3>2, <3>5, <3>6
    <2>2. CASE "event" \notin DOMAIN f
      <3>1. f \in Answer /\ c = f.at /\ f.at \in -1..MaxEvents /\ (IsSnapshot(f) <=> f.at # -1) /\ f.of \in Requests
        <4>1. f \in Answer /\ c = f.at /\ f.at \in -1..MaxEvents /\ (IsSnapshot(f) <=> f.at # -1)
          BY <1>4, <2>2, FrameIs
        <4> QED BY <4>1 DEF Answer
      <3>2. /\ view' = Projects(f) /\ request' = [request EXCEPT ![f.of].pending = FALSE]
            /\ IF Replaying /\ ~request[f.of].pending
               THEN \E m \in 0..MaxEvents : ahead' = ahead \cup (m + 1)..f.at
               ELSE UNCHANGED ahead
        BY <1>3, <2>2 DEF Read
      <3>3. \A i \in Requests : request'[i].at = request[i].at /\ request'[i].connection = request[i].connection
        BY <1>1, <3>1, <3>2, NoLongerAwaited
      <3>4. ahead' = ahead \/ (~request[f.of].pending /\ ahead' \subseteq ahead \cup 1..f.at)
        BY <3>1, <3>2, HostNumbers
      <3>5. ahead' \subseteq ahead \cup 1..c
        BY <3>1, <3>4
      <3>6. f.at # -1 => view = -1 /\ ahead \subseteq 1..f.at
        BY <1>1, <1>4, <3>1 DEF ViewFits, AheadFits
      <3>7. f.at = -1 => ahead' = ahead /\ view' = view
        <4>1. ASSUME f.at = -1 PROVE \A m \in 0..MaxEvents : (m + 1)..f.at = {}
          BY <4>1
        <4> QED BY <3>2, <4>1 DEF Projects
      <3>8. view' # -1 => ahead' \subseteq 1..view'
        <4>1. CASE f.at = -1
          BY <1>1, <3>7, <4>1 DEF AheadFits
        <4>2. CASE f.at # -1 /\ request[f.of].pending
          BY <3>1, <3>2, <3>4, <3>6, <4>2, HostNumbers DEF Projects
        <4>3. CASE f.at # -1 /\ ~request[f.of].pending
          BY <3>2, <3>6, <4>3 DEF Projects
        <4> QED BY <4>1, <4>2, <4>3
      <3> HIDE DEF c, f
      <3> QED BY <3>3, <3>5, <3>8
    <2> QED BY <2>1, <2>2
  <1> HIDE DEF c, f
  <1>6. ASSUME NEW x \in Nat, ahead \subseteq 1..x, c <= x PROVE ahead' \subseteq 1..x
    <2>1. 1..c \subseteq 1..x
      BY <1>4, <1>6
    <2> QED BY <1>5, <1>6, <2>1
  <1>7. ahead' \subseteq 1..sequence'
    <2>1. c <= sequence /\ ahead \subseteq 1..sequence
      BY <1>1, <1>4 DEF AheadFits, c, f
    <2> QED BY <1>2, <1>4, <1>6, <2>1
  <1>8. \A k \in 1..Len(inbox') : inbox'[k] = inbox[k + 1] /\ k + 1 \in 1..n
    BY <1>3
  <1>9. \A k \in 1..Len(inbox') : Carried(inbox'[k]) <= sequence'
    BY <1>1, <1>2, <1>8 DEF AheadFits
  <1>10. ASSUME NEW l \in 1..Len(inbox'), IsSnapshot(inbox'[l])
         PROVE  ahead' \subseteq 1..inbox'[l].at /\ \A k \in 1..(l - 1) : Carried(inbox'[k]) <= inbox'[l].at
    <2>1. l + 1 \in 1..n /\ inbox'[l] = inbox[l + 1] /\ 1 \in 1..((l + 1) - 1)
      BY <1>8
    <2>2. ahead \subseteq 1..inbox[l + 1].at /\ \A k \in 1..((l + 1) - 1) : Carried(inbox[k]) <= inbox[l + 1].at
      BY <1>1, <1>10, <2>1 DEF AheadFits
    <2>3. inbox[l + 1].at \in Nat
      <3>1. inbox[l + 1] \in Event \cup Answer
        BY <1>1, <2>1, FlowTypes
      <3>2. inbox[l + 1].at \in -1..MaxEvents /\ inbox[l + 1].at # -1
        BY <1>10, <2>1, <3>1, FrameIs
      <3> QED BY <3>2, HostNumbers
    <2>4. c <= inbox[l + 1].at
      BY <2>1, <2>2 DEF c, f
    <2>5. \A k \in 1..(l - 1) : inbox'[k] = inbox[k + 1] /\ k + 1 \in 1..((l + 1) - 1)
      BY <1>3, <1>8
    <2> QED BY <1>6, <2>1, <2>2, <2>3, <2>4, <2>5
  <1>11. ASSUME NEW i \in Requests, Live(i)', request'[i].at # -1
         PROVE  ahead' \subseteq 1..request'[i].at /\ \A k \in 1..Len(inbox') : Carried(inbox'[k]) <= request'[i].at
    <2>1. Live(i) /\ request'[i].at = request[i].at /\ request[i].at \in Nat
      <3>1. Live(i) /\ request'[i].at = request[i].at
        BY <1>2, <1>5, <1>11 DEF Live
      <3>2. request[i].at \in -1..MaxEvents
        BY <1>1, FlowTypes
      <3> QED BY <1>11, <3>1, <3>2, HostNumbers
    <2>2. ahead \subseteq 1..request[i].at /\ \A k \in 1..n : Carried(inbox[k]) <= request[i].at
      BY <1>1, <1>11, <2>1 DEF AheadFits
    <2>3. c <= request[i].at
      BY <1>4, <2>2 DEF c, f
    <2> QED BY <1>6, <1>8, <2>1, <2>2, <2>3
  <1> QED BY <1>2, <1>5, <1>7, <1>9, <1>10, <1>11 DEF AheadFits

\* An answer that is sent, and what follows it.
LEMMA AheadReply ==
    ASSUME AheadInv, phase = "serving", NEW i \in Requests, Reply(i), Live(i)
    PROVE  AheadFits'
  <1>1. HostTypeOK /\ KeptFollow /\ SnapshotsFit /\ LoadsFit /\ AheadFits /\ FlowInv
    BY DEF AheadInv, FlowInv, HostInv, Flow
  <1>2. /\ UNCHANGED <<phase, sequence, attached, current, view, ahead>> /\ At(i, "reply")
        /\ \A j \in Requests \ {i} : request'[j] = request[j]
        /\ request'[i].at = -1
    BY <1>1, ReplyRequests DEF Reply
  <1> DEFINE n == Len(inbox)
             at == request[i].at
             more == IF loading = i THEN After(at) ELSE << >>
             m == Len(more)
             answer == [of |-> i, at |-> at]
  <1>3. at \in -1..MaxEvents /\ (at # -1 => request[i].ok /\ request[i].kind \in {"create", "load"})
        /\ (at # -1 /\ loading # i => request[i].kind = "create")
    BY <1>1, FlowTypes DEF SnapshotsFit, LoadsFit
  <1>4. /\ n \in Nat /\ m \in Nat /\ more \in Seq(1..MaxEvents) /\ Len(inbox') = n + 1 + m
        /\ \A k \in 1..n : inbox'[k] = inbox[k]
        /\ inbox'[n + 1] = answer
        /\ \A k \in 1..m : inbox'[n + 1 + k] = [event |-> more[k]]
    <2>1. [of |-> i, at |-> IF request[i].ok THEN request[i].at ELSE -1] = answer
      BY <1>3
    <2> QED BY <1>1, <2>1, ReplyFrames
  <1>5. Carried(answer) = at /\ (IsSnapshot(answer) <=> at # -1) /\ answer.at = at
    <2>1. answer \in Event \cup Answer /\ "event" \notin DOMAIN answer
      BY <1>3 DEF Answer
    <2> QED BY <2>1, FrameIs
  <1>6. sequence \in Nat /\ Len(kept) \in Nat /\ Base \in Int
    BY <1>1, FlowTypes DEF Base
  <1>7. at <= sequence
    <2>1. CASE at = -1
      BY <1>6, <2>1
    <2>2. CASE at # -1 /\ loading = i
      BY <1>1, <1>6, <2>2 DEF SnapshotsFit
    <2>3. CASE at # -1 /\ loading # i
      BY <1>1, <1>3, <1>6, <2>3 DEF SnapshotsFit
    <2> QED BY <2>1, <2>2, <2>3
  <1>8. \A k \in 1..m : more[k] <= sequence
    <2>1. CASE loading = i
      <3>1. kept \in Seq(1..MaxEvents) /\ \A k \in 1..Len(kept) : kept[k] = Base + k /\ Base + k <= sequence
        BY <1>1, <1>6, FlowTypes DEF KeptFollow, Base
      <3>2. more \in Seq(1..MaxEvents) /\ Members(more) \subseteq Members(kept)
        <4>1. more = Only(kept, (at + 1)..MaxEvents)
          BY <2>1 DEF After
        <4>2. kept \in Seq(1..MaxEvents)
          BY <3>1
        <4> HIDE DEF at, more
        <4>3. Members(Only(kept, (at + 1)..MaxEvents)) = Members(kept) \cap (at + 1)..MaxEvents
          BY <4>2, OnlyKeeps
        <4> QED BY <1>4, <4>1, <4>3
      <3> HIDE DEF more
      <3>3. DOMAIN more = 1..m /\ DOMAIN kept = 1..Len(kept)
        BY <3>1, <3>2, LenProperties
      <3> QED BY <3>1, <3>2, <3>3 DEF Members
    <2>2. CASE loading # i
      BY <2>2
    <2> QED BY <2>1, <2>2
  <1>9. \A k \in 1..m : ~IsSnapshot(inbox'[n + 1 + k]) /\ Carried(inbox'[n + 1 + k]) = more[k]
    <2> HIDE DEF more
    <2>1. ASSUME NEW k \in 1..m PROVE ~IsSnapshot([event |-> more[k]]) /\ Carried([event |-> more[k]]) = more[k]
      <3>1. more[k] \in 1..MaxEvents
        BY <1>4, ElementOfSeq
      <3>2. [event |-> more[k]] \in Event /\ "event" \in DOMAIN [event |-> more[k]] /\ [event |-> more[k]].event = more[k]
        BY <3>1 DEF Event
      <3> QED BY <3>2, FrameIs
    <2> QED BY <1>4, <2>1
  <1> HIDE DEF more, m, answer
  <1>10. \A k \in 1..Len(inbox') : k \in 1..n \/ k = n + 1 \/ \E j \in 1..m : k = n + 1 + j
    <2>1. ASSUME NEW k \in 1..(n + 1 + m), k > n + 1 PROVE k - (n + 1) \in 1..m /\ k = n + 1 + (k - (n + 1))
      BY <1>4, <2>1
    <2>2. \A k \in 1..(n + 1 + m) : k \in 1..n \/ k = n + 1 \/ k > n + 1
      BY <1>4
    <2> QED BY <1>4, <2>1, <2>2
  <1>11. \A k \in 1..Len(inbox') : Carried(inbox'[k]) <= sequence'
    <2>1. \A k \in 1..n : Carried(inbox'[k]) <= sequence'
      BY <1>1, <1>2, <1>4 DEF AheadFits
    <2>2. Carried(inbox'[n + 1]) <= sequence'
      BY <1>2, <1>4, <1>5, <1>7
    <2>3. \A j \in 1..m : Carried(inbox'[n + 1 + j]) <= sequence'
      BY <1>2, <1>8, <1>9
    <2> QED BY <1>10, <2>1, <2>2, <2>3
  <1>12. ASSUME NEW l \in 1..Len(inbox'), IsSnapshot(inbox'[l])
         PROVE  ahead' \subseteq 1..inbox'[l].at /\ \A k \in 1..(l - 1) : Carried(inbox'[k]) <= inbox'[l].at
    <2>1. CASE l \in 1..n
      <3>1. inbox'[l] = inbox[l] /\ \A k \in 1..(l - 1) : inbox'[k] = inbox[k]
        BY <1>4, <2>1
      <3> QED BY <1>1, <1>2, <1>12, <2>1, <3>1 DEF AheadFits
    <2>2. CASE l = n + 1
      <3>1. at # -1 /\ inbox'[l].at = at
        BY <1>4, <1>5, <1>12, <2>2
      <3>2. \A k \in 1..(l - 1) : k \in 1..n /\ inbox'[k] = inbox[k]
        BY <1>4, <2>2
      <3> QED BY <1>1, <1>2, <3>1, <3>2 DEF AheadFits
    <2>3. ASSUME NEW j \in 1..m, l = n + 1 + j PROVE FALSE
      BY <1>9, <1>12, <2>3
    <2> QED BY <1>10, <2>1, <2>2, <2>3
  <1>13. ASSUME NEW j \in Requests, Live(j)', request'[j].at # -1
         PROVE  ahead' \subseteq 1..request'[j].at /\ \A k \in 1..Len(inbox') : Carried(inbox'[k]) <= request'[j].at
    <2>1. j # i /\ request'[j] = request[j] /\ Live(j) /\ request[j].at # -1 /\ request[j].at \in -1..MaxEvents
      BY <1>1, <1>2, <1>13, FlowTypes DEF Live
    <2>2. loading = j
      <3>1. At(j, "reply") /\ request[j].kind \in {"create", "load"}
        BY <1>1, <2>1 DEF SnapshotsFit
      <3>2. request[j].kind # "create"
        BY <1>1, <1>2, <2>1, <3>1, Created DEF At
      <3> QED BY <1>1, <2>1, <3>1, <3>2 DEF LoadsFit
    <2>3. at = -1
      <3>1. at # -1 => request[i].kind = "create"
        BY <1>3, <2>1, <2>2
      <3>2. request[i].kind = "create" => At(j, "none")
        BY <1>1, <1>2, <2>1, Created DEF At
      <3>3. At(j, "reply")
        BY <1>1, <2>1 DEF SnapshotsFit
      <3> QED BY <3>1, <3>2, <3>3 DEF At
    <2>4. m = 0
      BY <2>1, <2>2 DEF m, more
    <2>5. \A k \in 1..Len(inbox') : k \in 1..n \/ k = n + 1
      BY <1>4, <2>4
    <2>6. Carried(inbox'[n + 1]) <= request[j].at
      BY <1>4, <1>5, <2>1, <2>3, HostNumbers
    <2> QED BY <1>1, <1>2, <1>4, <2>1, <2>5, <2>6 DEF AheadFits
  <1> QED BY <1>1, <1>2, <1>11, <1>12, <1>13 DEF AheadFits

LEMMA AheadRequest ==
    ASSUME AheadInv, phase = "serving", NEW i \in Requests, Receive(i) \/ Handle(i) \/ RunEnds(i)
    PROVE  AheadFits'
  <1>1. HostTypeOK /\ SnapshotsFit /\ FlowInv /\ sequence \in Nat
    BY FlowTypes DEF AheadInv, FlowInv, HostInv, Flow
  <1>2. CASE Receive(i) \/ Get(i) \/ Enter(i) \/ Attach(i) \/ Other(i) \/ Delete(i) \/ Deleting(i) \/ Deleted(i)
    <2>1. UNCHANGED <<phase, current, inbox, view, ahead, sequence>> /\ ~At(i, "reply")
      BY <1>2 DEF Receive, Get, Enter, Attach, Other, Delete, Deleting, Deleted, wire, At
    <2>2. \A j \in Requests \ {i} : request'[j] = request[j]
      BY <1>1, <1>2, RequestGoes DEF OneGoes, Handle
    <2>3. request'[i].at \in {-1, sequence}
      <3>1. request[i] \in Request /\ request \in [Requests -> Request] /\ request[i].at = -1
        BY <1>1, <2>1 DEF HostTypeOK, SnapshotsFit
      <3>2. CASE \E ok, at : at \in {-1, sequence} /\ Settle(i, ok, at)
        BY <3>1, <3>2 DEF Settle, Request
      <3>3. CASE Fail(i) \/ \E step : Go(i, step)
        BY <3>1, <3>3 DEF Fail, Go, Request
      <3>4. CASE \E e : request' = [request EXCEPT ![i].step = "opened", ![i].entry = e]
        BY <3>1, <3>4 DEF Request
      <3>5. CASE Receive(i) \/ Enter(i) \/ Deleting(i)
        BY <3>3, <3>5 DEF Receive, Enter, Deleting
      <3>6. CASE Get(i)
        BY <3>3, <3>4, <3>6 DEF Get
      <3>7. CASE Attach(i)
        BY <3>2, <3>7 DEF Attach
      <3>8. CASE Other(i)
        <4>1. Settle(i, request[i].connection \in attached, -1)
          BY <3>8 DEF Other
        <4> QED BY <3>2, <4>1
      <3>9. CASE Delete(i) \/ Deleted(i)
        BY <3>2, <3>3, <3>9 DEF Delete, Deleted
      <3> QED BY <1>2, <3>5, <3>6, <3>7, <3>8, <3>9
    <2>4. ASSUME NEW j \in Requests, Live(j)', request'[j].at # -1
          PROVE  (Live(j) /\ request'[j].at = request[j].at) \/ request'[j].at = sequence
      BY <2>1, <2>2, <2>3, <2>4 DEF Live
    <2> QED BY <1>1, <2>1, <2>4, AheadKeeps
  <1>3. CASE Prompt(i) \/ RunEnds(i)
    <2>1. Calm
      BY <1>1, <1>3, CalmSteps
    <2>2. CASE Prompt(i) /\ ~MayRun(i)
      <3>1. UNCHANGED <<phase, current, inbox, view, ahead, sequence>>
        BY <2>2 DEF Prompt
      <3>2. \A j \in Requests : request'[j].at = request[j].at /\ (Live(j)' => Live(j))
        BY <2>1, <3>1 DEF Calm, Live
      <3> QED BY <1>1, <3>1, <3>2, AheadKeeps
    <2>3. CASE RunEnds(i) \/ (Prompt(i) /\ MayRun(i))
      <3>1. Publish(1) /\ UNCHANGED <<phase, loading, current, view, attached, ahead>>
        BY <2>3 DEF RunEnds, Prompt
      <3>2. ASSUME NEW j \in Requests, request[j].kind = "create", request[j].at # -1 PROVE FALSE
        <4>1. At(j, "reply")
          BY <1>1, <3>2 DEF SnapshotsFit
        <4>2. ~At(i, "reply") /\ ~At(i, "none")
          BY <1>3 DEF Prompt, RunEnds, At
        <4>3. At(i, "none")
          BY <1>1, <3>2, <4>1, <4>2, Created DEF At
        <4> QED BY <4>2, <4>3
      <3> QED BY <2>1, <3>1, <3>2, AheadPublish
    <2> QED BY <1>3, <2>2, <2>3
  <1>4. CASE Reply(i)
    <2>1. CASE Live(i)
      BY <1>4, <2>1, AheadReply
    <2>2. CASE ~Live(i)
      <3>1. UNCHANGED <<phase, sequence, current, inbox, view, ahead>>
        BY <1>4, <2>2 DEF Reply
      <3>2. (\A j \in Requests \ {i} : request'[j] = request[j]) /\ request'[i].at = -1
        BY <1>1, <1>4, ReplyRequests
      <3>3. \A j \in Requests : Live(j)' /\ request'[j].at # -1 => Live(j) /\ request'[j].at = request[j].at
        BY <3>1, <3>2 DEF Live
      <3> QED BY <1>1, <3>1, <3>3, AheadKeeps
    <2> QED BY <2>1, <2>2
  <1> QED BY <1>2, <1>3, <1>4 DEF Handle

LEMMA AheadStep ==
    ASSUME AheadInv, NoGap, [HostNext]_hostVars
    PROVE  AheadFits'
  <1>1. HostTypeOK /\ FlowInv /\ AheadFits /\ sequence \in Nat
    BY FlowTypes DEF AheadInv, FlowInv, HostInv
  <1>2. CASE phase = "serving"
    <2>1. ASSUME NEW i \in Requests, Send(i) PROVE AheadFits'
      <3>1. PICK kind \in Kinds :
              /\ request' = [request EXCEPT ![i] = [Unused EXCEPT !.kind = kind, !.step = "sent",
                                                                 !.connection = current, !.pending = TRUE]]
              /\ view' = IF kind = "load" THEN -1 ELSE view
              /\ ahead' = IF kind = "load" THEN {} ELSE ahead
        BY <2>1 DEF Send
      <3>2. UNCHANGED <<phase, sequence, current, inbox>>
        BY <2>1 DEF Send
      <3>3. (\A j \in Requests \ {i} : request'[j] = request[j]) /\ request'[i].at = -1
        BY <1>1, <3>1 DEF HostTypeOK, Unused
      <3>4. \A j \in Requests : Live(j)' /\ request'[j].at # -1 => Live(j) /\ request'[j].at = request[j].at
        BY <3>2, <3>3 DEF Live
      <3>5. ahead' \subseteq ahead /\ (view' # -1 => view' = view)
        BY <3>1
      <3> QED BY <1>1, <3>2, <3>4, <3>5 DEF AheadFits
    <2>2. ASSUME NEW i \in Requests, Abandon(i) PROVE AheadFits'
      <3>1. UNCHANGED <<phase, sequence, current, inbox, view, ahead>>
        BY <2>2 DEF Abandon, wire
      <3>2. Calm
        BY <1>1, <1>2, <2>2, CalmAbandon
      <3>3. \A j \in Requests : request'[j].at = request[j].at /\ (Live(j)' => Live(j))
        BY <3>1, <3>2 DEF Calm, Live
      <3> QED BY <1>1, <3>1, <3>3, AheadKeeps
    <2>3. ASSUME NEW i \in Requests, Receive(i) \/ Handle(i) \/ RunEnds(i) PROVE AheadFits'
      BY <1>2, <2>3, AheadRequest
    <2>4. CASE Read
      BY <1>2, <2>4, AheadRead
    <2>5. CASE LoseConnection
      <3>1. inbox' = << >> /\ view' = -1 /\ ahead' = {} /\ Len(inbox') = 0
        BY <1>1, <2>5, LoseConnectionIs DEF LoseConnection
      <3>2. \A k \in 1..Len(inbox') : FALSE
        BY <3>1
      <3> QED BY <3>1, <3>2 DEF AheadFits
    <2>6. CASE PiEvent
      <3>1. Publish(1) /\ Quiet /\ UNCHANGED <<phase, request, loading, current, view, attached, ahead>>
        BY <2>6 DEF PiEvent
      <3>2. Calm
        BY <1>1, <1>2, <3>1, CalmStill
      <3>3. \A j \in Requests : request[j].kind = "create" => request[j].at = -1
        BY <1>2, <3>1 DEF Quiet, Ready, AheadInv, FlowInv, Flow, SnapshotsFit
      <3> QED BY <1>2, <3>1, <3>2, <3>3, AheadPublish
    <2>7. CASE Release \/ Released \/ UNCHANGED hostVars
      <3>1. UNCHANGED <<phase, sequence, request, current, inbox, view, ahead>>
        BY <2>7 DEF Release, Released, hostVars, wire
      <3>2. \A j \in Requests : request'[j].at = request[j].at /\ (Live(j)' => Live(j))
        BY <3>1 DEF Live
      <3> QED BY <1>1, <3>1, <3>2, AheadKeeps
    <2>8. CASE Opened
      <3>1. UNCHANGED <<phase, sequence, current, inbox, view, ahead>>
        BY <2>8 DEF Opened, wire
      <3>2. Calm
        BY <1>1, <1>2, <2>8, CalmOpened
      <3>3. \A j \in Requests : request'[j].at = request[j].at /\ (Live(j)' => Live(j))
        BY <3>1, <3>2 DEF Calm, Live
      <3> QED BY <1>1, <3>1, <3>3, AheadKeeps
    <2>9. CASE Stop
      <3>1. UNCHANGED <<sequence, view, ahead>> /\ phase' # "serving"
        BY <2>9 DEF Stop
      <3> QED BY <1>1, <3>1 DEF AheadFits
    <2>10. ~Close
      BY <1>2 DEF Close
    <2> QED BY <2>1, <2>2, <2>3, <2>4, <2>5, <2>6, <2>7, <2>8, <2>9, <2>10 DEF HostNext
  <1>3. CASE phase # "serving"
    <2>1. phase' # "serving" /\ UNCHANGED <<view, ahead>> /\ sequence' \in Nat /\ sequence' >= sequence
      <3>1. ASSUME NEW i \in Requests, Abandon(i) \/ Get(i) \/ Enter(i) \/ Attach(i) \/ Other(i) \/ Delete(i)
                                       \/ Deleting(i) \/ Deleted(i) \/ Reply(i)
            PROVE  UNCHANGED <<phase, view, ahead, sequence>>
        BY <3>1 DEF Abandon, Get, Enter, Attach, Other, Delete, Deleting, Deleted, Reply, wire
      <3>2. ASSUME NEW i \in Requests, Prompt(i) \/ RunEnds(i)
            PROVE  UNCHANGED <<phase, view, ahead>> /\ sequence' \in {sequence, sequence + 1}
        BY <3>2 DEF Prompt, RunEnds, Publish
      <3>3. CASE PiEvent
        BY <1>1, <1>3, <3>3 DEF PiEvent, Publish
      <3>4. CASE Release \/ Released \/ Opened \/ Close \/ UNCHANGED hostVars
        <4>1. UNCHANGED <<view, ahead, sequence>>
          BY <3>4 DEF Release, Released, Opened, Close, hostVars, wire
        <4>2. CASE Close
          BY <1>1, <4>1, <4>2 DEF Close
        <4>3. CASE Release \/ Released \/ Opened \/ UNCHANGED hostVars
          <5>1. phase' = phase
            BY <4>3 DEF Release, Released, Opened, hostVars
          <5> QED BY <1>1, <1>3, <4>1, <5>1
        <4> QED BY <3>4, <4>2, <4>3
      <3>5. inbox = << >>
        BY <1>1, <1>3 DEF FlowInv, Flow
      <3>6. ~Read /\ ~Stop /\ ~LoseConnection /\ \A i \in Requests : ~Send(i) /\ ~Receive(i)
        <4>1. ~LoseConnection
          BY <1>1, <1>3, LoseConnectionIs
        <4> QED BY <1>3, <3>5, <4>1 DEF Read, Stop, Send, Receive
      <3> QED BY <1>1, <1>3, <3>1, <3>2, <3>3, <3>4, <3>6 DEF HostNext, Handle
    <2> QED BY <1>1, <2>1 DEF AheadFits
  <1> QED BY <1>2, <1>3

LEMMA NoGapBy == AheadInv => NoGap
  BY NextFollows DEF AheadInv, AheadFits, NoGap

LEMMA AheadInvInit == HostInit => AheadInv
  <1> SUFFICES ASSUME HostInit PROVE AheadInv
    OBVIOUS
  <1>1. FlowInv
    BY FlowInvInit
  <1>2. inbox = << >> /\ ahead = {} /\ view = -1 /\ Len(inbox) = 0 /\ \A i \in Requests : request[i].at = -1
    BY DEF HostInit, Unused
  <1> QED BY <1>1, <1>2 DEF AheadInv, AheadFits

LEMMA AheadInvStep == AheadInv /\ [HostNext]_hostVars => AheadInv'
  <1> SUFFICES ASSUME AheadInv, [HostNext]_hostVars PROVE AheadInv'
    OBVIOUS
  <1>1. FlowInv'
    BY FlowInvStep DEF AheadInv
  <1>2. AheadFits'
    BY NoGapBy, AheadStep
  <1> QED BY <1>1, <1>2 DEF AheadInv

\* A projection misses no event: the next one that is read follows what it has, no
\* snapshot is older than it is, and what went to its replay before the snapshot, when
\* a session was loaded again, is of the events that the snapshot has (server.ts:87-98,
\* 287-335; pi_client.go:514-596, session_events.go:92-105).
THEOREM HostNoGap == HostSpec => []NoGap
  <1>1. HostSpec => []AheadInv
    BY AheadInvInit, AheadInvStep, PTL DEF HostSpec
  <1> QED BY <1>1, NoGapBy, PTL

-----------------------------------------------------------------------------
(* App views: the invariant.  Each part says what the promises of the        *)
(* registry depend on.                                                     *)

\* A place is reserved for each view that is being opened, and for no open one.
PlacesFit ==
  /\ \A v \in Views : stage[v] \in {"reserved", "resolved", "answered"} => v \in openingViews
  /\ \A v \in openingViews : stage[v] \in {"reserved", "resolved", "answered", "deleting"}

\* An operation goes on while its view is known, or is cancelled.
CutOff ==
  \A o \in Ops : Running(o) =>
    stage[ViewOf[o]] \in {"open", "revoked"} \/ (stage[ViewOf[o]] \in {"deleting", "gone"} /\ o \in cancelledOps)

\* No timer outlasts its lease.
TimersLead == \A v \in ViewsAt("open") : timer[v] <= lease[v]

FaultsAreCounted == (~service => tickets = {}) /\ (controller = "closed" => faults # 0)

\* What waits was asked for, and is no farther from the end of what waits than
\* of what was asked for.
EarlyAreAsked ==
  \A k \in 1..Len(early) : \E p \in 1..Len(asked) : asked[p] = early[k] /\ Len(asked) - p >= Len(early) - k

\* A cancel waits for its operation while the view is open, or was pushed out.
CancelsWait ==
  \A i \in 1..Len(asked) : op[asked[i]] = None /\ stage[ViewOf[asked[i]]] = "open" =>
    asked[i] \in Members(early) \/ Len(asked) - i >= MaxEarly

AskedOfOpened == \A i \in 1..Len(asked) : stage[ViewOf[asked[i]]] \in {"open", "revoked", "deleting", "gone"}

Early == Distinct(asked) /\ EarlyAreAsked /\ CancelsWait /\ AskedOfOpened

ViewInv == RegistryIsSafe /\ PlacesFit /\ CutOff /\ TimersLead /\ FaultsAreCounted /\ Early

-----------------------------------------------------------------------------
(* App views: the steps.                                                   *)

LEMMA ViewNumbers ==
    /\ MaxViews \in Nat /\ MaxTickets \in Nat /\ MaxContent \in Nat /\ MaxViewOps \in Nat
    /\ MaxOps \in Nat /\ MaxFaults \in Nat /\ MaxEarly \in Nat /\ MaxEarly >= 1
    /\ Lease \in Nat /\ Lease >= 1 /\ 0 \in 0..Lease /\ Lease \in 0..Lease
    /\ \A o \in Ops : ViewOf[o] \in Views
    /\ IsFiniteSet(Views) /\ IsFiniteSet(Ops)
  BY AppViewsAssumption DEF AppViewsAssumption

LEMMA ViewCounts ==
    ASSUME NEW S, S \in SUBSET Views \/ S \in SUBSET Ops
    PROVE  IsFiniteSet(S) /\ Cardinality(S) \in Nat
  BY ViewNumbers, FS_Subset, FS_CardinalityType

\* Views that leave the registry leave nothing in its accounts.
LEMMA RevokeAccounts ==
    ASSUME ViewTypeOK, AccountsAgree, NEW vs \in SUBSET ViewsAt("open"), Revoke(vs)
    PROVE  /\ stage' \in [Views -> Stages] /\ pending' \subseteq ViewsAt("open")'
           /\ content' \in 0..MaxContent /\ content' = Cardinality(pending')
           /\ lease' \in [Views -> 0..Lease] /\ timer' \in [Views -> 0..Lease]
           /\ ViewsAt("open")' = ViewsAt("open") \ vs
           /\ early' \in Seq(Ops) /\ Len(early') <= MaxEarly /\ Distinct(early')
           /\ \A o \in Members(early') : stage'[ViewOf[o]] = "open"
  <1>1. vs \subseteq Views /\ pending \subseteq Views /\ content = Cardinality(pending)
    BY DEF ViewTypeOK, AccountsAgree, ViewsAt
  <1>2. stage' \in [Views -> Stages] /\ ViewsAt("open")' = ViewsAt("open") \ vs
    BY DEF Revoke, ViewTypeOK, ViewsAt, Stages
  <1>3. pending' \subseteq ViewsAt("open")'
    BY <1>2 DEF Revoke, ViewTypeOK
  <1>4. lease' \in [Views -> 0..Lease] /\ timer' \in [Views -> 0..Lease]
    BY ViewNumbers DEF Revoke, ViewTypeOK
  <1>5. content' \in 0..MaxContent /\ content' = Cardinality(pending')
    <2>1. IsFiniteSet(pending) /\ IsFiniteSet(pending \cap vs) /\ IsFiniteSet(pending')
      BY <1>1, ViewCounts DEF Revoke
    <2>2. Cardinality(pending \ vs) = Cardinality(pending) - Cardinality(pending \cap vs)
      BY <2>1, FS_Difference
    <2>3. Cardinality(pending \ vs) \in Nat /\ Cardinality(pending \cap vs) \in Nat
      BY <1>1, ViewCounts
    <2>4. content' = content - Cardinality(pending \cap vs) /\ pending' = pending \ vs
      <3>1. vs \cap pending = pending \cap vs
        OBVIOUS
      <3> QED BY <3>1 DEF Revoke, ContentReleased
    <2> QED BY <1>1, <2>2, <2>3, <2>4, ViewNumbers DEF ViewTypeOK
  <1> DEFINE T == {o \in Ops : ~Dropped(o, vs)}
  <1>6. early' = Only(early, T) /\ early \in Seq(Ops) /\ T \in SUBSET Ops
    BY DEF Revoke, ViewTypeOK
  <1>7. Len(early) \in Nat /\ Len(early) <= MaxEarly /\ Distinct(early)
    BY <1>6, LenProperties DEF AccountsAgree
  <1>8. early' \in Seq(Ops) /\ Len(early') <= MaxEarly /\ Distinct(early')
    BY <1>6, <1>7, OnlyKeeps, ViewNumbers
  <1>9. Members(early') = Members(early) \cap T
    BY <1>6, OnlyKeeps
  <1>10. ASSUME NEW o \in Members(early') PROVE stage'[ViewOf[o]] = "open"
    <2>1. o \in Members(early) /\ o \in Ops /\ ViewOf[o] \notin vs
      BY <1>9 DEF Dropped
    <2>2. stage[ViewOf[o]] = "open" /\ ViewOf[o] \in Views
      BY <2>1, ViewNumbers DEF AccountsAgree
    <2> QED BY <2>1, <2>2 DEF Revoke
  <1> QED BY <1>2, <1>3, <1>4, <1>5, <1>8, <1>10

\* A document that was read to its end, and one that is bound.
LEMMA PendingCounts ==
    ASSUME ViewTypeOK, AccountsAgree, NEW v \in Views
    PROVE  /\ v \in pending => Cardinality(pending \ {v}) = content - 1 /\ content - 1 \in 0..MaxContent
           /\ v \notin pending => Cardinality(pending \cup {v}) = content + 1
  <1>1. pending \in SUBSET Views /\ content = Cardinality(pending) /\ content \in 0..MaxContent
    BY DEF ViewTypeOK, AccountsAgree, ViewsAt
  <1>2. IsFiniteSet(pending) /\ IsFiniteSet(pending \ {v}) /\ Cardinality(pending) \in Nat
        /\ Cardinality(pending \ {v}) \in Nat
    BY <1>1, ViewCounts
  <1>3. v \in pending => Cardinality(pending \ {v}) = Cardinality(pending) - 1
    BY <1>2, FS_RemoveElement
  <1>4. v \notin pending => Cardinality(pending \cup {v}) = Cardinality(pending) + 1
    BY <1>2, FS_AddElement
  <1> QED BY <1>1, <1>2, <1>3, <1>4, ViewNumbers

\* The stages that views may be at, one by one.
LEMMA StageMoves ==
    ASSUME ViewTypeOK, NEW v \in Views, NEW s \in Stages, Now(v, s)
    PROVE  /\ stage' \in [Views -> Stages] /\ stage'[v] = s
           /\ \A w \in Views \ {v} : stage'[w] = stage[w]
           /\ s # "open" => ViewsAt("open")' = ViewsAt("open") \ {v}
           /\ s = "open" => ViewsAt("open")' = ViewsAt("open") \cup {v}
  <1>1. stage \in [Views -> Stages]
    BY DEF ViewTypeOK
  <1>2. stage' \in [Views -> Stages] /\ stage'[v] = s /\ \A w \in Views \ {v} : stage'[w] = stage[w]
    BY <1>1 DEF Now
  <1> QED BY <1>1, <1>2 DEF ViewsAt

LEMMA OpeningTyped ==
    ASSUME ViewInv, NEW v \in Views, Reserve(v) \/ OpenStep(v) \/ CloseStep(v)
    PROVE  ViewTypeOK'
  <1>1. ViewTypeOK /\ AccountsAgree
    BY DEF ViewInv, RegistryIsSafe
  <1>2. None \in Stages /\ {"reserved", "resolved", "answered", "open", "revoked", "deleting", "gone"} \subseteq Stages
    BY DEF Stages
  <1>3. \E s \in Stages : Now(v, s)
    BY <1>2 DEF Reserve, OpenStep, CloseStep, Resolve, Register, Bind, CancelView, DeleteTicket, Over, Unbound
  <1>4. stage' \in [Views -> Stages]
    BY <1>1, <1>3, StageMoves
  <1>5. controller' \in {"up", "closed", "down"} /\ live' \subseteq Clients
    BY <1>1 DEF Reserve, OpenStep, CloseStep, Resolve, Register, Bind, CancelView, DeleteTicket, ViewTypeOK
  <1>6. openingViews' \subseteq Views
    BY <1>1 DEF Reserve, OpenStep, CloseStep, Resolve, Register, Bind, CancelView, DeleteTicket, Over, ViewTypeOK
  <1>7. tickets' \subseteq Views /\ service' \in BOOLEAN
    BY <1>1 DEF Reserve, OpenStep, CloseStep, Resolve, Register, Bind, CancelView, DeleteTicket, ViewTypeOK, serviceVars
  <1>8. faults' \in 0..MaxFaults
    BY <1>1, ViewNumbers DEF Reserve, OpenStep, CloseStep, Resolve, Register, Bind, CancelView, DeleteTicket, ViewTypeOK,
         Fault
  <1>9. /\ op' \in [Ops -> {None, "begun", "calling", "done"}] /\ cancelledOps' \subseteq Ops
        /\ active' \in 0..MaxOps /\ early' \in Seq(Ops) /\ asked' \in Seq(Ops)
    <2>1. op' = op /\ active' = active /\ early' = early /\ asked' = asked /\ cancelledOps' \in {cancelledOps, cancelledOps \cup OpsStopped(v)}
      BY DEF Reserve, OpenStep, CloseStep, Resolve, Register, Bind, CancelView, DeleteTicket, opVars
    <2> QED BY <1>1, <2>1 DEF ViewTypeOK, OpsStopped
  <1>10. CASE lease' = lease /\ timer' = timer /\ content' = content /\ pending' = pending /\ stage[v] # "open"
    <2>1. \A w \in ViewsAt("open") : stage'[w] = "open"
      <3>1. PICK s \in Stages : Now(v, s)
        BY <1>3
      <3> QED BY <1>1, <1>10, <3>1, StageMoves DEF ViewsAt
    <2>2. pending' \subseteq ViewsAt("open")'
      BY <1>1, <1>10, <2>1 DEF ViewTypeOK, ViewsAt
    <2>3. content' \in 0..MaxContent /\ lease' \in [Views -> 0..Lease] /\ timer' \in [Views -> 0..Lease]
      BY <1>1, <1>10 DEF ViewTypeOK
    <2> QED BY <1>4, <1>5, <1>6, <1>7, <1>8, <1>9, <2>2, <2>3 DEF ViewTypeOK
  <1>11. CASE ~(lease' = lease /\ timer' = timer /\ content' = content /\ pending' = pending /\ stage[v] # "open")
    <2>1. /\ stage[v] = "answered" /\ content < MaxContent /\ Now(v, "open")
          /\ pending' = pending \cup {v} /\ content' = content + 1
          /\ lease' = [lease EXCEPT ![v] = Lease] /\ timer' = [timer EXCEPT ![v] = Lease]
      BY <1>11 DEF Reserve, OpenStep, CloseStep, Resolve, Register, Bind, CancelView, DeleteTicket, None
    <2>2. ViewsAt("open")' = ViewsAt("open") \cup {v}
      BY <1>1, <1>2, <2>1, StageMoves
    <2>3. pending' \subseteq ViewsAt("open")'
      BY <1>1, <2>1, <2>2 DEF ViewTypeOK
    <2>4. lease' \in [Views -> 0..Lease] /\ timer' \in [Views -> 0..Lease]
      BY <1>1, <2>1, ViewNumbers DEF ViewTypeOK
    <2>5. content' \in 0..MaxContent
      <3>1. content \in 0..MaxContent /\ MaxContent \in Nat
        BY <1>1, ViewNumbers DEF ViewTypeOK
      <3> QED BY <2>1, <3>1
    <2> QED BY <1>4, <1>5, <1>6, <1>7, <1>8, <1>9, <2>3, <2>4, <2>5 DEF ViewTypeOK
  <1> QED BY <1>10, <1>11

\* No more places are taken than there are.
LEMMA PlacesTaken ==
    ASSUME ViewInv, NEW v \in Views, Reserve(v) \/ OpenStep(v) \/ CloseStep(v)
    PROVE  Cardinality(ViewsAt("open")' \cup openingViews') <= MaxViews
  <1> DEFINE before == ViewsAt("open") \cup openingViews
             after == ViewsAt("open")' \cup openingViews'
  <1>1. ViewTypeOK /\ Cardinality(before) <= MaxViews /\ before \in SUBSET Views
    BY DEF ViewInv, RegistryIsSafe, AccountsAgree, ViewTypeOK, ViewsAt
  <1>2. IsFiniteSet(before) /\ Cardinality(before) \in Nat
    BY <1>1, ViewCounts
  <1>3. {None, "reserved", "resolved", "answered", "open", "revoked", "deleting", "gone"} \subseteq Stages
    BY DEF Stages
  <1>4. CASE Reserve(v)
    <2>1. ViewsAt("open")' = ViewsAt("open") \ {v}
      BY <1>1, <1>3, <1>4, StageMoves DEF Reserve
    <2>2. ViewsAt("open")' = ViewsAt("open") /\ openingViews' = openingViews \cup {v}
      BY <1>4, <2>1 DEF Reserve, ViewsAt, None
    <2>3. Cardinality(ViewsAt("open")) + Cardinality(openingViews) < MaxViews
      BY <1>4 DEF Reserve
    <2>4. /\ ViewsAt("open") \in SUBSET Views /\ openingViews \in SUBSET Views
          /\ ViewsAt("open") \cap openingViews \in SUBSET Views
      BY <1>1 DEF ViewTypeOK, ViewsAt
    <2>5. /\ IsFiniteSet(ViewsAt("open")) /\ IsFiniteSet(openingViews)
          /\ Cardinality(ViewsAt("open")) \in Nat /\ Cardinality(openingViews) \in Nat
          /\ Cardinality(ViewsAt("open") \cap openingViews) \in Nat
      BY <2>4, ViewCounts
    <2>6. Cardinality(before) = Cardinality(ViewsAt("open")) + Cardinality(openingViews)
                                  - Cardinality(ViewsAt("open") \cap openingViews)
      BY <2>5, FS_Union
    <2>7. Cardinality(before) < MaxViews
      BY <2>3, <2>5, <2>6, ViewNumbers
    <2>8. after = before \cup {v}
      BY <2>2
    <2>9. Cardinality(after) = Cardinality(before) \/ Cardinality(after) = Cardinality(before) + 1
      BY <1>2, <2>8, FS_AddElement
    <2> QED BY <1>2, <2>7, <2>9, ViewNumbers
  <1>5. CASE OpenStep(v) \/ CloseStep(v)
    <2>1. after \subseteq before
      <3>1. CASE /\ stage[v] = "answered" /\ Now(v, "open") /\ openingViews' = openingViews \ {v}
        <4>1. v \in openingViews
          BY <3>1 DEF ViewInv, PlacesFit
        <4>2. ViewsAt("open")' = ViewsAt("open") \cup {v}
          BY <1>1, <1>3, <3>1, StageMoves
        <4> QED BY <3>1, <4>1, <4>2
      <3>2. CASE \E s \in Stages \ {"open"} : Now(v, s) /\ openingViews' \subseteq openingViews
        <4>1. ViewsAt("open")' \subseteq ViewsAt("open")
          BY <1>1, <3>2, StageMoves
        <4> QED BY <3>2, <4>1
      <3>3. CASE Bind(v)
        BY <1>3, <3>1, <3>2, <3>3 DEF Bind, Unbound
      <3>4. CASE Resolve(v) \/ Register(v)
        BY <1>3, <3>2, <3>4 DEF Resolve, Register, Over
      <3>5. CASE CloseStep(v)
        BY <1>3, <3>2, <3>5 DEF CloseStep, CancelView, DeleteTicket, Over
      <3> QED BY <1>5, <3>3, <3>4, <3>5 DEF OpenStep
    <2>2. Cardinality(after) <= Cardinality(before) /\ Cardinality(after) \in Nat
      <3>1. after \in SUBSET before
        BY <2>1
      <3> HIDE DEF after, before
      <3> QED BY <1>1, <1>2, <3>1, ViewCounts, FS_Subset
    <2> QED BY <1>1, <1>2, <2>2, ViewNumbers
  <1> QED BY <1>4, <1>5

LEMMA OpeningAccounts ==
    ASSUME ViewInv, NEW v \in Views, Reserve(v) \/ OpenStep(v) \/ CloseStep(v)
    PROVE  AccountsAgree'
  <1>1. ViewTypeOK /\ AccountsAgree
    BY DEF ViewInv, RegistryIsSafe
  <1>2. {None, "reserved", "resolved", "answered", "open", "revoked", "deleting", "gone"} \subseteq Stages
    BY DEF Stages
  <1>3. op' = op /\ active' = active /\ early' = early
    BY DEF Reserve, OpenStep, CloseStep, Resolve, Register, Bind, CancelView, DeleteTicket, opVars
  <1>4. active' = Cardinality({o \in Ops : Running(o)}')
    BY <1>1, <1>3 DEF AccountsAgree, Running
  <1>5. Len(early') <= MaxEarly /\ Distinct(early')
    BY <1>1, <1>3 DEF AccountsAgree
  <1>6. \A w \in Views : stage[w] = "open" => stage'[w] = "open"
    <2>1. PICK s \in Stages : Now(v, s)
      BY <1>2 DEF Reserve, OpenStep, CloseStep, Resolve, Register, Bind, CancelView, DeleteTicket, Over, Unbound
    <2>2. stage[v] # "open"
      BY DEF Reserve, OpenStep, CloseStep, Resolve, Register, Bind, CancelView, DeleteTicket, None
    <2> QED BY <1>1, <2>1, <2>2, StageMoves
  <1>7. \A o \in Members(early') : stage'[ViewOf[o]] = "open"
    <2>1. Members(early) \subseteq Ops
      BY <1>1, ElementOfSeq, LenProperties DEF ViewTypeOK, Members
    <2> QED BY <1>1, <1>3, <1>6, <2>1, ViewNumbers DEF AccountsAgree
  <1>8. content' = Cardinality(pending')
    <2>1. CASE content' = content /\ pending' = pending
      BY <1>1, <2>1 DEF AccountsAgree
    <2>2. CASE ~(content' = content /\ pending' = pending)
      <3>1. stage[v] = "answered" /\ pending' = pending \cup {v} /\ content' = content + 1
        BY <2>2 DEF Reserve, OpenStep, CloseStep, Resolve, Register, Bind, CancelView, DeleteTicket
      <3>2. v \notin pending
        BY <1>1, <3>1 DEF ViewTypeOK, ViewsAt
      <3> QED BY <1>1, <3>1, <3>2, PendingCounts
    <2> QED BY <2>1, <2>2
  <1> QED BY <1>4, <1>5, <1>7, <1>8, PlacesTaken DEF AccountsAgree

\* What revokes views.
Revokes(vs) ==
  /\ vs \in SUBSET ViewsAt("open") /\ Revoke(vs)
  /\ UNCHANGED <<openingViews, op, cancelledOps, active, asked, serviceVars>>
  /\ controller' \in {"up", "closed"} \cup {controller} /\ live' \in SUBSET live
  /\ faults' \in 0..MaxFaults /\ faults' >= faults
  /\ controller' # controller => faults' # 0

LEMMA RevokesIs ==
    ASSUME ViewTypeOK
    PROVE  /\ \A v \in Views : CloseView(v) => Revokes({v})
           /\ \A v \in Views : ExpireView(v) /\ Due(v) => Revokes({v})
           /\ \A c \in Clients : ReleaseClient(c) => Revokes({v \in ViewsAt("open") : ClientOf[v] = c})
           /\ CloseAll => Revokes(ViewsAt("open"))
  <1>1. faults \in 0..MaxFaults /\ faults >= faults /\ live \in SUBSET live
    BY ViewNumbers DEF ViewTypeOK
  <1>2. \A v \in Views : stage[v] = "open" => {v} \in SUBSET ViewsAt("open")
    BY DEF ViewsAt
  <1>3. \A v \in Views : CloseView(v) => Revokes({v})
    BY <1>1, <1>2 DEF CloseView, Revokes, Knows
  <1>4. \A v \in Views : ExpireView(v) /\ Due(v) => Revokes({v})
    BY <1>1, <1>2 DEF ExpireView, Revokes
  <1>5. \A c \in Clients : ReleaseClient(c) => Revokes({v \in ViewsAt("open") : ClientOf[v] = c})
    BY <1>1 DEF ReleaseClient, Revokes
  <1>6. CloseAll => Revokes(ViewsAt("open"))
    <2>1. CloseAll => faults' \in 0..MaxFaults /\ faults' >= faults /\ faults' # 0
      BY <1>1, ViewNumbers DEF CloseAll, Fault
    <2> QED BY <1>1, <2>1 DEF CloseAll, Revokes
  <1> QED BY <1>3, <1>4, <1>5, <1>6

LEMMA RevokesAccounts ==
    ASSUME ViewInv, NEW vs, Revokes(vs)
    PROVE  ViewTypeOK' /\ AccountsAgree'
  <1>1. ViewTypeOK /\ AccountsAgree /\ vs \in SUBSET ViewsAt("open") /\ Revoke(vs)
    BY DEF ViewInv, RegistryIsSafe, Revokes
  <1>2. /\ stage' \in [Views -> Stages] /\ pending' \subseteq ViewsAt("open")'
        /\ content' \in 0..MaxContent /\ content' = Cardinality(pending')
        /\ lease' \in [Views -> 0..Lease] /\ timer' \in [Views -> 0..Lease]
        /\ ViewsAt("open")' = ViewsAt("open") \ vs
        /\ early' \in Seq(Ops) /\ Len(early') <= MaxEarly /\ Distinct(early')
        /\ \A o \in Members(early') : stage'[ViewOf[o]] = "open"
    BY <1>1, RevokeAccounts
  <1>3. /\ controller' \in {"up", "closed", "down"} /\ live' \subseteq Clients /\ openingViews' \subseteq Views
        /\ op' \in [Ops -> {None, "begun", "calling", "done"}] /\ cancelledOps' \subseteq Ops
        /\ active' \in 0..MaxOps /\ asked' \in Seq(Ops)
        /\ service' \in BOOLEAN /\ tickets' \subseteq Views /\ faults' \in 0..MaxFaults
    BY <1>1 DEF ViewTypeOK, Revokes, serviceVars
  <1>4. active' = Cardinality({o \in Ops : Running(o)}')
    BY <1>1 DEF AccountsAgree, Running, Revokes
  <1>5. Cardinality(ViewsAt("open")' \cup openingViews') <= MaxViews
    <2> DEFINE before == ViewsAt("open") \cup openingViews
               after == ViewsAt("open")' \cup openingViews'
    <2>1. before \in SUBSET Views /\ after \in SUBSET before /\ Cardinality(before) <= MaxViews
      BY <1>1, <1>2 DEF Revokes, ViewTypeOK, ViewsAt, AccountsAgree
    <2> HIDE DEF before, after
    <2>2. IsFiniteSet(before) /\ Cardinality(before) \in Nat /\ Cardinality(after) \in Nat
      BY <2>1, ViewCounts
    <2>3. Cardinality(after) <= Cardinality(before)
      BY <2>1, <2>2, FS_Subset
    <2>4. Cardinality(after) <= MaxViews
      BY <2>1, <2>2, <2>3, ViewNumbers
    <2> QED BY <2>4 DEF after
  <1>6. ViewTypeOK'
    BY <1>2, <1>3 DEF ViewTypeOK
  <1>7. AccountsAgree'
    BY <1>2, <1>4, <1>5 DEF AccountsAgree
  <1> QED BY <1>6, <1>7

LEMMA LeaseAccounts ==
    ASSUME ViewInv, NEW v \in Views, ReadLast(v) \/ KeepAlive(v) \/ Tick(v) \/ (ExpireView(v) /\ ~Due(v))
    PROVE  ViewTypeOK' /\ AccountsAgree'
  <1>1. ViewTypeOK /\ AccountsAgree
    BY DEF ViewInv, RegistryIsSafe
  <1>2. UNCHANGED <<controller, live, stage, openingViews, op, cancelledOps, active, early, asked, service, tickets, faults>>
    BY DEF ReadLast, KeepAlive, Tick, ExpireView, opVars, serviceVars
  <1>3. lease' \in [Views -> 0..Lease] /\ timer' \in [Views -> 0..Lease]
    <2>1. lease \in [Views -> 0..Lease] /\ timer \in [Views -> 0..Lease]
      BY <1>1 DEF ViewTypeOK
    <2>2. CASE ReadLast(v) \/ KeepAlive(v) \/ (ExpireView(v) /\ ~Due(v))
      BY <2>1, <2>2, ViewNumbers DEF ReadLast, KeepAlive, ExpireView, Remaining
    <2>3. CASE Tick(v)
      <3>1. lease[v] \in 0..Lease /\ timer[v] \in 0..Lease
        BY <2>1
      <3>2. \A n \in 0..Lease : (IF n > 0 THEN n - 1 ELSE 0) \in 0..Lease
        BY ViewNumbers
      <3>3. /\ (IF lease[v] > 0 THEN lease[v] - 1 ELSE 0) \in 0..Lease
            /\ (IF timer[v] > 0 THEN timer[v] - 1 ELSE 0) \in 0..Lease
        BY <3>1, <3>2
      <3>4. /\ lease' = [lease EXCEPT ![v] = IF lease[v] > 0 THEN lease[v] - 1 ELSE 0]
            /\ timer' = [timer EXCEPT ![v] = IF timer[v] > 0 THEN timer[v] - 1 ELSE 0]
        BY <2>3 DEF Tick
      <3> QED BY <2>1, <3>3, <3>4
    <2> QED BY <2>2, <2>3
  <1>4. \/ content' = content /\ pending' = pending
        \/ v \in pending /\ content' = content - 1 /\ pending' = pending \ {v}
    BY DEF ReadLast, KeepAlive, Tick, ExpireView
  <1>5. pending' \subseteq ViewsAt("open")' /\ content' \in 0..MaxContent /\ content' = Cardinality(pending')
    <2>1. ViewsAt("open")' = ViewsAt("open")
      BY <1>2 DEF ViewsAt
    <2>2. pending \subseteq ViewsAt("open") /\ content \in 0..MaxContent /\ content = Cardinality(pending)
      BY <1>1 DEF ViewTypeOK, AccountsAgree
    <2> QED BY <1>1, <1>4, <2>1, <2>2, PendingCounts
  <1>6. ViewTypeOK'
    BY <1>1, <1>2, <1>3, <1>5 DEF ViewTypeOK
  <1>7. AccountsAgree'
    <2>1. Cardinality(ViewsAt("open")' \cup openingViews') <= MaxViews
      BY <1>1, <1>2 DEF AccountsAgree, ViewsAt
    <2>2. active' = Cardinality({o \in Ops : Running(o)}')
      BY <1>1, <1>2 DEF AccountsAgree, Running
    <2> QED BY <1>1, <1>2, <1>5, <2>1, <2>2 DEF AccountsAgree
  <1> QED BY <1>6, <1>7

\* What a cancel that is remembered pushes out: the oldest, when there is no room.
PushedOut == IF Len(early) >= MaxEarly THEN 1 ELSE 0

LEMMA RememberedIs ==
    ASSUME early \in Seq(Ops), NEW o \in Ops
    PROVE  /\ Remembered(o) \in Seq(Ops) /\ Len(Remembered(o)) = Len(early) - PushedOut + 1
           /\ Remembered(o)[Len(early) - PushedOut + 1] = o
           /\ \A k \in 1..(Len(early) - PushedOut) : Remembered(o)[k] = early[k + PushedOut]
  <1> DEFINE n == Len(early)
  <1>1. CASE n >= MaxEarly
    <2>1. early # << >> /\ n \in Nat /\ PushedOut = 1
      BY <1>1, ViewNumbers, EmptySeq, LenProperties DEF PushedOut
    <2>2. /\ Tail(early) \in Seq(Ops) /\ Len(Tail(early)) = n - 1
          /\ \A k \in 1..(n - 1) : Tail(early)[k] = early[k + 1]
      BY <2>1, HeadTailProperties
    <2>3. Remembered(o) = Append(Tail(early), o)
      BY <1>1 DEF Remembered
    <2> HIDE DEF n
    <2>4. /\ Append(Tail(early), o) \in Seq(Ops) /\ Len(Append(Tail(early), o)) = n
          /\ Append(Tail(early), o)[n] = o
          /\ \A k \in 1..(n - 1) : Append(Tail(early), o)[k] = Tail(early)[k]
      <3>1. Len(Tail(early)) + 1 = n
        BY <2>1, <2>2
      <3>2. \A k \in 1..(n - 1) : k \in 1..Len(Tail(early))
        BY <2>2
      <3> QED BY <2>2, <3>1, <3>2, AppendProperties
    <2> QED BY <2>1, <2>2, <2>3, <2>4 DEF n
  <1>2. CASE ~(n >= MaxEarly)
    <2>1. Remembered(o) = Append(early, o) /\ n \in Nat /\ PushedOut = 0
      BY <1>2, LenProperties DEF Remembered, PushedOut
    <2> QED BY <2>1, AppendProperties
  <1> QED BY <1>1, <1>2

\* Operations and their cancels.
LEMMA OperationAccounts ==
    ASSUME ViewInv, NEW o \in Ops, Begin(o) \/ Cancel(o) \/ CallPi(o) \/ Finish(o)
    PROVE  ViewTypeOK' /\ AccountsAgree'
  <1> DEFINE R == {p \in Ops : Running(p)}
  <1>1. ViewTypeOK /\ AccountsAgree
    BY DEF ViewInv, RegistryIsSafe
  <1>2. /\ op \in [Ops -> {None, "begun", "calling", "done"}] /\ cancelledOps \subseteq Ops /\ early \in Seq(Ops)
        /\ asked \in Seq(Ops) /\ active \in 0..MaxOps /\ active = Cardinality(R)
        /\ Len(early) \in Nat /\ Len(early) <= MaxEarly /\ Distinct(early)
        /\ \A p \in Members(early) : stage[ViewOf[p]] = "open"
    BY <1>1, LenProperties DEF ViewTypeOK, AccountsAgree
  <1>3. UNCHANGED <<controller, live, stage, openingViews, pending, content, lease, timer, service, tickets, faults>>
    BY DEF Begin, Cancel, CallPi, Finish, registryVars, serviceVars
  <1>4. R \in SUBSET Ops /\ IsFiniteSet(R)
    BY ViewCounts
  <1>5. /\ op' \in [Ops -> {None, "begun", "calling", "done"}]
        /\ active' \in 0..MaxOps /\ active' = Cardinality(R')
    <2>1. CASE op' = op /\ active' = active
      <3>1. R' = R
        BY <2>1 DEF Running
      <3> QED BY <1>2, <2>1, <3>1
    <2>2. CASE op' = [op EXCEPT ![o] = "done"] /\ active' = active /\ op[o] = None
      <3>1. R' = R
        BY <1>2, <2>2 DEF Running, None
      <3> QED BY <1>2, <2>2, <3>1
    <2>3. CASE op' = [op EXCEPT ![o] = "begun"] /\ active' = active + 1 /\ op[o] = None /\ active < MaxOps
      <3>1. R' = R \cup {o} /\ o \notin R
        BY <1>2, <2>3 DEF Running, None
      <3>2. Cardinality(R \cup {o}) = Cardinality(R) + 1
        BY <1>4, <3>1, FS_AddElement
      <3> HIDE DEF R
      <3>3. active' = Cardinality(R') /\ active' \in 0..MaxOps
        BY <1>2, <2>3, <3>1, <3>2, ViewNumbers
      <3> QED BY <1>2, <2>3, <3>3
    <2>4. CASE op' = [op EXCEPT ![o] = "calling"] /\ active' = active /\ op[o] = "begun"
      <3>1. R' = R
        BY <1>2, <2>4 DEF Running
      <3> QED BY <1>2, <2>4, <3>1
    <2>5. CASE op' = [op EXCEPT ![o] = "done"] /\ active' = active - 1 /\ Running(o)
      <3>1. R' = R \ {o} /\ o \in R
        BY <1>2, <2>5 DEF Running
      <3>2. Cardinality(R \ {o}) = Cardinality(R) - 1 /\ Cardinality(R \ {o}) \in Nat
        <4>1. R \ {o} \in SUBSET Ops
          BY <1>4
        <4> QED BY <1>4, <3>1, <4>1, ViewCounts, FS_RemoveElement
      <3> HIDE DEF R
      <3>3. active' = Cardinality(R') /\ active' \in 0..MaxOps
        BY <1>2, <2>5, <3>1, <3>2, ViewNumbers
      <3> QED BY <1>2, <2>5, <3>3
    <2> QED BY <2>1, <2>2, <2>3, <2>4, <2>5 DEF Begin, Cancel, CallPi, Finish
  <1>6. cancelledOps' \subseteq Ops /\ asked' \in Seq(Ops)
    <2>1. Append(asked, o) \in Seq(Ops)
      BY <1>2, AppendProperties
    <2>2. cancelledOps' \in {cancelledOps, cancelledOps \cup {o}} /\ asked' \in {asked, Append(asked, o)}
      BY DEF Begin, Cancel, CallPi, Finish
    <2> QED BY <1>2, <2>1, <2>2
  <1>7. /\ early' \in Seq(Ops) /\ Len(early') <= MaxEarly /\ Distinct(early')
        /\ Members(early') \subseteq Members(early) \cup {p \in Ops : stage[ViewOf[p]] = "open"}
    <2>1. CASE early' = early
      BY <1>2, <2>1
    <2>2. CASE early' = Only(early, Ops \ {o})
      <3>1. Ops \ {o} \in SUBSET Ops
        OBVIOUS
      <3>2. /\ Only(early, Ops \ {o}) \in Seq(Ops) /\ Len(Only(early, Ops \ {o})) \in Nat
            /\ Len(Only(early, Ops \ {o})) <= Len(early)
            /\ Members(Only(early, Ops \ {o})) = Members(early) \cap (Ops \ {o})
            /\ Distinct(early) => Distinct(Only(early, Ops \ {o}))
        BY <1>2, <3>1, OnlyKeeps
      <3>3. early' \in Seq(Ops) /\ Len(early') <= MaxEarly
        BY <1>2, <2>2, <3>2, ViewNumbers
      <3>4. Distinct(early')
        BY <1>2, <2>2, <3>2, Zenon
      <3>5. Members(early') \subseteq Members(early)
        BY <2>2, <3>2, Zenon
      <3> QED BY <3>3, <3>4, <3>5
    <2>3. CASE early' = Remembered(o) /\ stage[ViewOf[o]] = "open" /\ o \notin Members(asked)
      <3> DEFINE n == Len(early)
                 k0 == PushedOut
      <3>1. o \notin Members(early)
        <4>1. Members(early) \subseteq Members(asked)
          <5>1. DOMAIN early = 1..Len(early) /\ DOMAIN asked = 1..Len(asked)
            BY <1>2, LenProperties
          <5> QED BY <5>1 DEF ViewInv, Early, EarlyAreAsked, Members
        <4> QED BY <2>3, <4>1
      <3>2. /\ early' \in Seq(Ops) /\ Len(early') = n - k0 + 1 /\ early'[n - k0 + 1] = o
            /\ \A k \in 1..(n - k0) : early'[k] = early[k + k0]
        BY <1>2, <2>3, RememberedIs DEF PushedOut
      <3>3. n \in Nat /\ n <= MaxEarly /\ k0 \in 0..1 /\ (k0 = 0 => n < MaxEarly) /\ (k0 = 1 => n >= 1)
        BY <1>2, ViewNumbers DEF PushedOut
      <3>4. /\ DOMAIN early = 1..n /\ DOMAIN early' = 1..(n - k0 + 1)
            /\ \A k \in 1..n : early[k] # o
            /\ \A i, j \in 1..n : early[i] = early[j] => i = j
        BY <1>2, <3>1, <3>2, LenProperties DEF Members, Distinct
      <3> HIDE DEF n, k0
      <3>5. Len(early') <= MaxEarly
        BY <3>2, <3>3, ViewNumbers
      <3>6. ASSUME NEW i \in 1..(n - k0 + 1), NEW j \in 1..(n - k0 + 1), early'[i] = early'[j] PROVE i = j
        <4>1. \A k \in 1..(n - k0) : k + k0 \in 1..n
          BY <3>3
        <4> QED BY <3>2, <3>3, <3>4, <3>6, <4>1
      <3>7. ASSUME NEW i \in 1..(n - k0 + 1) PROVE early'[i] \in Members(early) \cup {o}
        <4>1. CASE i = n - k0 + 1
          BY <3>2, <4>1
        <4>2. CASE i # n - k0 + 1
          <5>1. early'[i] = early[i + k0] /\ i + k0 \in 1..n
            BY <3>2, <3>3, <4>2
          <5> QED BY <3>4, <5>1 DEF Members
        <4> QED BY <4>1, <4>2
      <3>8. Distinct(early')
        BY <3>4, <3>6 DEF Distinct
      <3>9. Members(early') \subseteq Members(early) \cup {o}
        BY <3>4, <3>7 DEF Members
      <3> QED BY <2>3, <3>2, <3>5, <3>8, <3>9
    <2> QED BY <2>1, <2>2, <2>3 DEF Begin, Cancel, CallPi, Finish, Knows
  <1>8. \A p \in Members(early') : stage'[ViewOf[p]] = "open"
    BY <1>2, <1>3, <1>7
  <1>9. ViewTypeOK'
    BY <1>1, <1>3, <1>5, <1>6, <1>7 DEF ViewTypeOK, ViewsAt
  <1>10. Cardinality(ViewsAt("open")' \cup openingViews') <= MaxViews /\ content' = Cardinality(pending')
    BY <1>1, <1>3 DEF AccountsAgree, ViewsAt
  <1>11. AccountsAgree'
    BY <1>5, <1>7, <1>8, <1>10 DEF AccountsAgree
  <1> QED BY <1>9, <1>11

LEMMA ServiceAccounts ==
    ASSUME ViewInv, Quit \/ Restart \/ ServiceEnds \/ ServiceStarts \/ (\E v \in Views : TicketExpires(v))
    PROVE  ViewTypeOK' /\ AccountsAgree'
  <1>1. ViewTypeOK /\ AccountsAgree
    BY DEF ViewInv, RegistryIsSafe
  <1>2. faults' \in 0..MaxFaults
    BY <1>1, ViewNumbers DEF Quit, Restart, ServiceEnds, ServiceStarts, TicketExpires, Fault, ViewTypeOK
  <1>3. controller' \in {"up", "closed", "down"} /\ live' \subseteq Clients /\ service' \in BOOLEAN /\ tickets' \subseteq Views
    BY <1>1 DEF Quit, Restart, ServiceEnds, ServiceStarts, TicketExpires, ViewTypeOK, registryVars, serviceVars
  <1>4. CASE ~Quit
    <2>1. UNCHANGED <<stage, openingViews, pending, content, lease, timer, op, cancelledOps, active, early, asked>>
      BY <1>4 DEF Restart, ServiceEnds, ServiceStarts, TicketExpires, registryVars, opVars
    <2>2. ViewTypeOK'
      BY <1>1, <1>2, <1>3, <2>1 DEF ViewTypeOK, ViewsAt
    <2>3. Cardinality(ViewsAt("open")' \cup openingViews') <= MaxViews
      BY <1>1, <2>1 DEF AccountsAgree, ViewsAt
    <2>4. active' = Cardinality({o \in Ops : Running(o)}')
      BY <1>1, <2>1 DEF AccountsAgree, Running
    <2> QED BY <1>1, <2>1, <2>2, <2>3, <2>4 DEF AccountsAgree
  <1>5. CASE Quit
    <2>1. /\ stage' = [v \in Views |-> IF stage[v] = None THEN None ELSE "gone"]
          /\ op' = [o \in Ops |-> IF Running(o) THEN "done" ELSE op[o]]
          /\ openingViews' = {} /\ pending' = {} /\ content' = 0 /\ active' = 0 /\ early' = <<>>
          /\ lease' = [v \in Views |-> 0] /\ timer' = [v \in Views |-> 0]
          /\ UNCHANGED <<cancelledOps, asked>>
      BY <1>5 DEF Quit
    <2>2. stage' \in [Views -> Stages] /\ ViewsAt("open")' = {}
      BY <2>1 DEF Stages, ViewsAt, None
    <2>3. op' \in [Ops -> {None, "begun", "calling", "done"}] /\ {o \in Ops : Running(o)}' = {}
      BY <1>1, <2>1 DEF ViewTypeOK, Running
    <2>4. Cardinality({}) = 0
      BY FS_EmptySet
    <2>5. early' \in Seq(Ops) /\ Len(early') = 0 /\ Members(early') = {} /\ Distinct(early')
      BY <2>1, EmptySeq DEF Members, Distinct
    <2>6. 0 \in 0..MaxContent /\ 0 \in 0..MaxOps /\ 0 <= MaxViews /\ 0 <= MaxEarly
      BY ViewNumbers
    <2>7. ViewTypeOK'
      <3>1. lease' \in [Views -> 0..Lease] /\ timer' \in [Views -> 0..Lease]
        BY <2>1, ViewNumbers
      <3>2. cancelledOps' \subseteq Ops /\ asked' \in Seq(Ops)
        BY <1>1, <2>1 DEF ViewTypeOK
      <3>3. openingViews' \subseteq Views /\ pending' \subseteq ViewsAt("open")' /\ content' \in 0..MaxContent
            /\ active' \in 0..MaxOps
        BY <2>1, <2>6
      <3> QED BY <1>2, <1>3, <2>2, <2>3, <2>5, <3>1, <3>2, <3>3 DEF ViewTypeOK
    <2>8. content' = Cardinality(pending') /\ active' = Cardinality({o \in Ops : Running(o)}')
      BY <2>1, <2>3, <2>4
    <2>9. Cardinality(ViewsAt("open")' \cup openingViews') <= MaxViews
      <3>1. ViewsAt("open")' \cup openingViews' = {}
        BY <2>1, <2>2
      <3> QED BY <2>4, <2>6, <3>1
    <2>10. AccountsAgree'
      <3>1. Len(early') <= MaxEarly /\ \A o \in Members(early') : stage'[ViewOf[o]] = "open"
        BY <2>5, <2>6
      <3> QED BY <2>5, <2>8, <2>9, <3>1 DEF AccountsAgree
    <2> QED BY <2>7, <2>10
  <1> QED BY <1>4, <1>5

\* The steps of the model, by what they do to the registry.
LEMMA ViewSteps ==
    ASSUME ViewTypeOK, ViewNext
    PROVE  \/ \E v \in Views : Reserve(v) \/ OpenStep(v) \/ CloseStep(v)
           \/ \E vs : Revokes(vs)
           \/ \E v \in Views : ReadLast(v) \/ KeepAlive(v) \/ Tick(v) \/ (ExpireView(v) /\ ~Due(v))
           \/ \E o \in Ops : Begin(o) \/ Cancel(o) \/ CallPi(o) \/ Finish(o)
           \/ Quit \/ Restart \/ ServiceEnds \/ ServiceStarts \/ (\E v \in Views : TicketExpires(v))
  <1>1. ASSUME NEW v \in Views, CloseView(v) \/ (ExpireView(v) /\ Due(v)) PROVE \E vs : Revokes(vs)
    BY <1>1, RevokesIs
  <1>2. ASSUME NEW c \in Clients, ReleaseClient(c) PROVE \E vs : Revokes(vs)
    BY <1>2, RevokesIs
  <1>3. ASSUME CloseAll PROVE \E vs : Revokes(vs)
    BY <1>3, RevokesIs
  <1> QED BY <1>1, <1>2, <1>3, Zenon DEF ViewNext

LEMMA PlacesStep ==
    ASSUME ViewInv, ViewNext
    PROVE  PlacesFit'
  <1>1. ViewTypeOK /\ PlacesFit
    BY DEF ViewInv, RegistryIsSafe
  <1>2. ASSUME NEW v \in Views, Reserve(v) \/ OpenStep(v) \/ CloseStep(v) PROVE PlacesFit'
    <2>1. stage \in [Views -> Stages] /\ openingViews \subseteq Views
      BY <1>1 DEF ViewTypeOK
    <2>2. CASE Reserve(v)
      BY <1>1, <2>1, <2>2 DEF Reserve, PlacesFit, Now
    <2>3. CASE Resolve(v)
      <3>1. \/ stage' = [stage EXCEPT ![v] = "resolved"] /\ openingViews' = openingViews
            \/ stage' = [stage EXCEPT ![v] = "gone"] /\ openingViews' = openingViews \ {v}
        BY <2>3 DEF Resolve, Over, Now
      <3> QED BY <1>1, <2>1, <2>3, <3>1 DEF PlacesFit, Resolve
    <2>4. CASE Register(v)
      <3>1. \/ stage' = [stage EXCEPT ![v] = "answered"] /\ openingViews' = openingViews
            \/ stage' = [stage EXCEPT ![v] = "gone"] /\ openingViews' = openingViews \ {v}
        BY <2>4 DEF Register, Over, Now
      <3>2. stage[v] = "resolved"
        BY <2>4 DEF Register
      <3> QED BY <1>1, <2>1, <3>1, <3>2 DEF PlacesFit
    <2>5. CASE Bind(v)
      <3>1. \/ stage' = [stage EXCEPT ![v] = "open"] /\ openingViews' = openingViews \ {v}
            \/ stage' = [stage EXCEPT ![v] = "deleting"] /\ openingViews' = openingViews
        BY <2>5 DEF Bind, Unbound, Now
      <3>2. stage[v] = "answered"
        BY <2>5 DEF Bind
      <3> QED BY <1>1, <2>1, <3>1, <3>2 DEF PlacesFit
    <2>6. CASE CancelView(v)
      BY <1>1, <2>1, <2>6 DEF CancelView, PlacesFit, Now
    <2>7. CASE DeleteTicket(v)
      BY <1>1, <2>1, <2>7 DEF DeleteTicket, Over, PlacesFit, Now
    <2> QED BY <1>2, <2>2, <2>3, <2>4, <2>5, <2>6, <2>7 DEF OpenStep, CloseStep
  <1>3. ASSUME NEW vs, Revokes(vs) PROVE PlacesFit'
    <2>1. openingViews' = openingViews /\ \A v \in Views : stage'[v] = IF v \in vs THEN "revoked" ELSE stage[v]
      BY <1>3 DEF Revokes, Revoke
    <2>2. \A v \in vs : stage[v] = "open"
      BY <1>3 DEF Revokes, ViewsAt
    <2>3. openingViews \subseteq Views
      BY <1>1 DEF ViewTypeOK
    <2> QED BY <1>1, <2>1, <2>2, <2>3 DEF PlacesFit
  <1>4. CASE UNCHANGED <<stage, openingViews>>
    BY <1>1, <1>4 DEF PlacesFit
  <1>5. CASE Quit
    BY <1>5 DEF Quit, PlacesFit, None
  <1>6. ASSUME NEW v \in Views, ReadLast(v) \/ KeepAlive(v) \/ Tick(v) \/ (ExpireView(v) /\ ~Due(v))
        PROVE  UNCHANGED <<stage, openingViews>>
    BY <1>6 DEF ReadLast, KeepAlive, Tick, ExpireView
  <1>7. ASSUME NEW o \in Ops, Begin(o) \/ Cancel(o) \/ CallPi(o) \/ Finish(o) PROVE UNCHANGED <<stage, openingViews>>
    BY <1>7 DEF Begin, Cancel, CallPi, Finish, registryVars
  <1>8. ASSUME Restart \/ ServiceEnds \/ ServiceStarts \/ (\E v \in Views : TicketExpires(v))
        PROVE  UNCHANGED <<stage, openingViews>>
    BY <1>8 DEF Restart, ServiceEnds, ServiceStarts, TicketExpires, registryVars
  <1> QED BY <1>1, <1>2, <1>3, <1>4, <1>5, <1>6, <1>7, <1>8, ViewSteps

LEMMA TimersStep ==
    ASSUME ViewInv, ViewNext
    PROVE  TimersLead'
  <1>1. ViewTypeOK /\ TimersLead
    BY DEF ViewInv, RegistryIsSafe
  <1>2. /\ stage \in [Views -> Stages] /\ \A v \in Views : lease[v] \in Nat /\ timer[v] \in Nat /\ timer[v] <= Lease
        /\ lease \in [Views -> 0..Lease] /\ timer \in [Views -> 0..Lease]
        /\ \A v \in Views : stage[v] = "open" => timer[v] <= lease[v]
    BY <1>1, ViewNumbers DEF ViewTypeOK, TimersLead, ViewsAt
  <1>3. SUFFICES ASSUME NEW v \in Views, stage'[v] = "open" PROVE timer'[v] <= lease'[v]
    BY DEF TimersLead, ViewsAt
  <1>4. CASE stage'[v] = stage[v] /\ lease'[v] = lease[v] /\ timer'[v] = timer[v]
    BY <1>2, <1>3, <1>4
  <1>5. ASSUME NEW w \in Views, Reserve(w) \/ OpenStep(w) \/ CloseStep(w) PROVE timer'[v] <= lease'[v]
    <2>1. CASE stage'[w] # "open"
      <3>1. v # w
        BY <1>3, <2>1
      <3> QED BY <1>2, <1>4, <1>5, <3>1 DEF Reserve, OpenStep, CloseStep, Resolve, Register, Bind, CancelView, DeleteTicket,
             Over, Now
    <2>2. CASE stage'[w] = "open"
      <3>1. Bind(w) /\ lease' = [lease EXCEPT ![w] = Lease] /\ timer' = [timer EXCEPT ![w] = Lease] /\ Now(w, "open")
        BY <1>2, <1>5, <2>2 DEF Reserve, OpenStep, CloseStep, Resolve, Register, Bind, CancelView, DeleteTicket,
             Over, Now, Unbound
      <3> QED BY <1>2, <1>4, <3>1, ViewNumbers DEF Now
    <2> QED BY <2>1, <2>2
  <1>6. ASSUME NEW vs, Revokes(vs) PROVE timer'[v] <= lease'[v]
    BY <1>2, <1>3, <1>6 DEF Revokes, Revoke
  <1>7. ASSUME NEW w \in Views, ReadLast(w) \/ KeepAlive(w) \/ Tick(w) \/ (ExpireView(w) /\ ~Due(w))
        PROVE  timer'[v] <= lease'[v]
    <2>1. stage' = stage
      BY <1>7 DEF ReadLast, KeepAlive, Tick, ExpireView
    <2>2. CASE ReadLast(w) \/ KeepAlive(w)
      BY <1>2, <1>3, <2>1, <2>2 DEF ReadLast, KeepAlive
    <2>3. CASE Tick(w)
      BY <1>2, <1>3, <2>1, <2>3 DEF Tick
    <2>4. CASE ExpireView(w) /\ ~Due(w)
      <3>1. lease' = lease /\ timer' = [timer EXCEPT ![w] = lease[w]]
        BY <2>4 DEF ExpireView, Remaining
      <3> QED BY <1>2, <1>3, <2>1, <3>1
    <2> QED BY <1>7, <2>2, <2>3, <2>4
  <1>8. ASSUME NEW o \in Ops, Begin(o) \/ Cancel(o) \/ CallPi(o) \/ Finish(o) PROVE timer'[v] <= lease'[v]
    BY <1>4, <1>8 DEF Begin, Cancel, CallPi, Finish, registryVars
  <1>9. CASE Restart \/ ServiceEnds \/ ServiceStarts \/ (\E w \in Views : TicketExpires(w))
    BY <1>4, <1>9 DEF Restart, ServiceEnds, ServiceStarts, TicketExpires, registryVars
  <1>10. CASE Quit
    BY <1>2, <1>3, <1>10 DEF Quit, None
  <1> QED BY <1>1, <1>5, <1>6, <1>7, <1>8, <1>9, <1>10, ViewSteps

LEMMA CutOffStep ==
    ASSUME ViewInv, ViewNext
    PROVE  CutOff'
  <1>1. ViewTypeOK /\ CutOff /\ PlacesFit
    BY DEF ViewInv, RegistryIsSafe
  <1>2. stage \in [Views -> Stages] /\ op \in [Ops -> {None, "begun", "calling", "done"}] /\ \A o \in Ops : ViewOf[o] \in Views
    BY <1>1, ViewNumbers DEF ViewTypeOK
  <1> DEFINE Goes(o) == stage[ViewOf[o]] \in {"open", "revoked"}
                        \/ (stage[ViewOf[o]] \in {"deleting", "gone"} /\ o \in cancelledOps)
  <1>3. \A o \in Ops : op[o] \in {"begun", "calling"} => Goes(o)
    BY <1>1 DEF CutOff, Running
  <1>4. SUFFICES ASSUME NEW o \in Ops, op'[o] \in {"begun", "calling"} PROVE Goes(o)'
    BY DEF CutOff, Running
  <1>5. CASE stage' = stage /\ op'[o] = op[o] /\ cancelledOps \subseteq cancelledOps'
    BY <1>3, <1>4, <1>5
  <1>6. ASSUME NEW v \in Views, Reserve(v) \/ OpenStep(v) \/ CloseStep(v) PROVE Goes(o)'
    <2>1. op' = op /\ cancelledOps \subseteq cancelledOps'
      BY <1>6 DEF Reserve, OpenStep, CloseStep, Resolve, Register, Bind, CancelView, DeleteTicket, opVars
    <2>2. Goes(o)
      BY <1>3, <1>4, <2>1
    <2>3. \A w \in Views \ {v} : stage'[w] = stage[w]
      BY <1>2, <1>6 DEF Reserve, OpenStep, CloseStep, Resolve, Register, Bind, CancelView, DeleteTicket, Over, Now
    <2>4. CASE ViewOf[o] # v
      BY <1>2, <2>1, <2>2, <2>3, <2>4
    <2>5. CASE ViewOf[o] = v /\ CancelView(v)
      <3>1. o \in OpsStopped(v) /\ stage'[v] = "deleting" /\ cancelledOps' = cancelledOps \cup OpsStopped(v)
        BY <1>2, <1>4, <2>1, <2>5 DEF CancelView, OpsStopped, Running, Now
      <3> QED BY <2>5, <3>1
    <2>6. CASE ViewOf[o] = v /\ DeleteTicket(v)
      <3>1. stage[v] = "deleting" /\ stage'[v] = "gone"
        BY <1>2, <2>6 DEF DeleteTicket, Over, Now
      <3> QED BY <2>1, <2>2, <2>6, <3>1
    <2>7. CASE ViewOf[o] = v /\ (Reserve(v) \/ OpenStep(v))
      <3>1. stage[v] \in {None, "reserved", "resolved", "answered"}
        BY <2>7 DEF Reserve, OpenStep, Resolve, Register, Bind
      <3> QED BY <2>2, <2>7, <3>1 DEF None
    <2> QED BY <1>6, <2>4, <2>5, <2>6, <2>7 DEF CloseStep
  <1>7. ASSUME NEW vs, Revokes(vs) PROVE Goes(o)'
    <2>1. /\ op' = op /\ cancelledOps' = cancelledOps /\ \A v \in vs : stage[v] = "open"
          /\ \A v \in Views : stage'[v] = IF v \in vs THEN "revoked" ELSE stage[v]
      BY <1>7 DEF Revokes, Revoke, ViewsAt
    <2>2. Goes(o)
      BY <1>3, <1>4, <2>1
    <2> QED BY <1>2, <2>1, <2>2
  <1>8. ASSUME NEW v \in Views, ReadLast(v) \/ KeepAlive(v) \/ Tick(v) \/ (ExpireView(v) /\ ~Due(v)) PROVE Goes(o)'
    BY <1>5, <1>8 DEF ReadLast, KeepAlive, Tick, ExpireView, opVars
  <1>9. ASSUME NEW p \in Ops, Begin(p) \/ Cancel(p) \/ CallPi(p) \/ Finish(p) PROVE Goes(o)'
    <2>1. stage' = stage /\ cancelledOps \subseteq cancelledOps'
      BY <1>9 DEF Begin, Cancel, CallPi, Finish, registryVars
    <2>2. CASE op[o] \in {"begun", "calling"}
      BY <1>3, <2>1, <2>2
    <2>3. CASE op[o] \notin {"begun", "calling"}
      <3>1. p = o /\ Begin(o)
        BY <1>2, <1>4, <1>9, <2>3 DEF Begin, Cancel, CallPi, Finish
      <3> QED BY <2>1, <3>1 DEF Begin, Knows
    <2> QED BY <2>2, <2>3
  <1>10. CASE Restart \/ ServiceEnds \/ ServiceStarts \/ (\E v \in Views : TicketExpires(v))
    BY <1>5, <1>10 DEF Restart, ServiceEnds, ServiceStarts, TicketExpires, registryVars, opVars
  <1>11. CASE Quit
    BY <1>2, <1>4, <1>11 DEF Quit, Running
  <1> QED BY <1>1, <1>6, <1>7, <1>8, <1>9, <1>10, <1>11, ViewSteps

LEMMA FaultsStep ==
    ASSUME ViewInv, ViewNext
    PROVE  FaultsAreCounted' /\ OnlyFaultsLeak'
  <1>1. ViewTypeOK /\ FaultsAreCounted /\ OnlyFaultsLeak
    BY DEF ViewInv, RegistryIsSafe
  <1>2. faults \in Nat /\ faults + 1 # 0 /\ stage \in [Views -> Stages] /\ tickets \subseteq Views /\ service \in BOOLEAN
    BY <1>1, ViewNumbers DEF ViewTypeOK
  <1> DEFINE Owned(v) == stage[v] \in {"answered", "open", "revoked", "deleting"}
  <1>3. faults = 0 => controller # "closed" /\ \A v \in tickets : Owned(v)
    BY <1>1 DEF FaultsAreCounted, OnlyFaultsLeak
  <1>4. SUFFICES /\ ~service' => tickets' = {}
                 /\ faults' = 0 => controller' # "closed" /\ \A v \in tickets' : Owned(v)'
    BY DEF FaultsAreCounted, OnlyFaultsLeak
  <1>5. CASE UNCHANGED <<stage, controller, serviceVars, faults>>
    BY <1>1, <1>3, <1>5 DEF FaultsAreCounted, serviceVars
  <1>6. ASSUME NEW w \in Views, Reserve(w) \/ OpenStep(w) \/ CloseStep(w)
        PROVE  /\ ~service' => tickets' = {}
               /\ faults' = 0 => controller' # "closed" /\ \A v \in tickets' : Owned(v)'
    <2>1. controller' = controller /\ service' = service
      BY <1>6 DEF Reserve, OpenStep, CloseStep, Resolve, Register, Bind, CancelView, DeleteTicket, serviceVars
    <2>2. \A v \in Views \ {w} : stage'[v] = stage[v]
      BY <1>2, <1>6 DEF Reserve, OpenStep, CloseStep, Resolve, Register, Bind, CancelView, DeleteTicket, Over, Now
    <2>3. faults' = faults \/ faults' = faults + 1
      BY <1>6 DEF Reserve, OpenStep, CloseStep, Resolve, Register, Bind, CancelView, DeleteTicket, Fault
    <2>4. ~service' => tickets' = {}
      <3>1. ~service => tickets' \subseteq tickets
        BY <1>6 DEF Reserve, OpenStep, CloseStep, Resolve, Register, Bind, CancelView, DeleteTicket, serviceVars
      <3> QED BY <1>1, <2>1, <3>1 DEF FaultsAreCounted
    <2>5. CASE faults' = 0
      <3>1. faults = 0 /\ faults' = faults
        BY <1>2, <2>3, <2>5
      <3>2. ~(faults' = faults + 1)
        BY <1>2, <3>1
      <3>3. tickets' \subseteq tickets \cup {w} /\ (w \in tickets' => Owned(w)')
        <4>1. CASE Reserve(w) \/ Resolve(w)
          <5>1. stage[w] \in {None, "reserved"} /\ tickets' = tickets
            BY <4>1 DEF Reserve, Resolve, serviceVars
          <5> QED BY <1>3, <3>1, <5>1 DEF None
        <4>2. CASE Register(w)
          <5>1. stage[w] = "resolved"
            BY <4>2 DEF Register
          <5>2. w \notin tickets
            BY <1>3, <3>1, <5>1
          <5>3. CASE service /\ Cardinality(tickets) < MaxTickets
            <6>1. tickets' = tickets \cup {w} /\ Now(w, "answered")
              BY <3>2, <4>2, <5>3 DEF Register, Fault
            <6> QED BY <1>2, <6>1 DEF Now
          <5>4. CASE ~(service /\ Cardinality(tickets) < MaxTickets)
            BY <4>2, <5>2, <5>4 DEF Register
          <5> QED BY <5>3, <5>4
        <4>3. CASE Bind(w)
          <5>1. tickets' = tickets /\ (Now(w, "open") \/ Now(w, "deleting"))
            BY <4>3 DEF Bind, Unbound, serviceVars
          <5> QED BY <1>2, <5>1 DEF Now
        <4>4. CASE CancelView(w)
          BY <1>2, <4>4 DEF CancelView, Now, serviceVars
        <4>5. CASE DeleteTicket(w)
          <5>1. tickets' = tickets \ {w} \/ (~service /\ tickets' = tickets)
            BY <3>2, <4>5 DEF DeleteTicket, Fault
          <5> QED BY <1>1, <5>1 DEF FaultsAreCounted
        <4> QED BY <1>6, <4>1, <4>2, <4>3, <4>4, <4>5 DEF OpenStep, CloseStep
      <3> QED BY <1>2, <1>3, <2>1, <2>2, <2>4, <3>1, <3>3
    <2> QED BY <2>4, <2>5
  <1>7. ASSUME NEW vs, Revokes(vs)
        PROVE  /\ ~service' => tickets' = {}
               /\ faults' = 0 => controller' # "closed" /\ \A v \in tickets' : Owned(v)'
    <2>1. /\ service' = service /\ tickets' = tickets /\ \A v \in vs : stage[v] = "open"
          /\ \A v \in Views : stage'[v] = IF v \in vs THEN "revoked" ELSE stage[v]
      BY <1>7 DEF Revokes, Revoke, ViewsAt, serviceVars
    <2>2. ~service' => tickets' = {}
      BY <1>1, <2>1 DEF FaultsAreCounted
    <2>3. CASE faults' = 0
      <3>1. faults = 0 /\ controller' = controller
        BY <1>2, <1>7, <2>3 DEF Revokes
      <3> QED BY <1>2, <1>3, <2>1, <2>2, <3>1
    <2> QED BY <2>2, <2>3
  <1>8. ASSUME NEW v \in Views, ReadLast(v) \/ KeepAlive(v) \/ Tick(v) \/ (ExpireView(v) /\ ~Due(v))
        PROVE  UNCHANGED <<stage, controller, serviceVars, faults>>
    BY <1>8 DEF ReadLast, KeepAlive, Tick, ExpireView, serviceVars
  <1>9. ASSUME NEW o \in Ops, Begin(o) \/ Cancel(o) \/ CallPi(o) \/ Finish(o)
        PROVE  UNCHANGED <<stage, controller, serviceVars, faults>>
    BY <1>9 DEF Begin, Cancel, CallPi, Finish, registryVars, serviceVars
  <1>10. CASE ServiceStarts \/ ServiceEnds \/ (\E v \in Views : TicketExpires(v))
    <2>1. UNCHANGED <<stage, controller>> /\ tickets' \subseteq tickets /\ (~service' => tickets' = {})
      BY <1>1, <1>10 DEF ServiceStarts, ServiceEnds, TicketExpires, registryVars, FaultsAreCounted
    <2>2. faults' = 0 => faults = 0
      BY <1>2, <1>10 DEF ServiceStarts, ServiceEnds, TicketExpires, Fault
    <2> QED BY <1>3, <2>1, <2>2
  <1>11. CASE Restart
    BY <1>1, <1>3, <1>11 DEF Restart, serviceVars, FaultsAreCounted
  <1>12. CASE Quit
    <2>1. faults' # 0
      <3>1. faults' = faults + 1 \/ (controller = "closed" /\ faults' = faults)
        BY <1>12 DEF Quit, Fault
      <3> QED BY <1>2, <1>3, <3>1
    <2>2. service' = service /\ tickets' = tickets
      BY <1>12 DEF Quit, serviceVars
    <2> QED BY <1>1, <2>1, <2>2 DEF FaultsAreCounted
  <1> QED BY <1>1, <1>5, <1>6, <1>7, <1>8, <1>9, <1>10, <1>11, <1>12, ViewSteps

LEMMA EarlyStep ==
    ASSUME ViewInv, ViewNext
    PROVE  Early'
  <1> DEFINE n == Len(asked)
             Past(v) == stage[v] \in {"open", "revoked", "deleting", "gone"}
  <1>1. ViewTypeOK /\ AccountsAgree /\ Early
    BY DEF ViewInv, RegistryIsSafe
  <1>2. /\ stage \in [Views -> Stages] /\ op \in [Ops -> {None, "begun", "calling", "done"}]
        /\ early \in Seq(Ops) /\ asked \in Seq(Ops) /\ Len(early) \in Nat /\ n \in Nat
        /\ DOMAIN early = 1..Len(early) /\ DOMAIN asked = 1..n
        /\ \A i \in 1..n : asked[i] \in Ops /\ ViewOf[asked[i]] \in Views
    BY <1>1, LenProperties, ElementOfSeq, ViewNumbers DEF ViewTypeOK
  <1>3. /\ EarlyAreAsked /\ Distinct(asked)
        /\ \A i \in 1..n : op[asked[i]] = None /\ stage[ViewOf[asked[i]]] = "open" =>
             asked[i] \in Members(early) \/ n - i >= MaxEarly
        /\ \A i \in 1..n : Past(ViewOf[asked[i]])
    BY <1>1 DEF Early, CancelsWait, AskedOfOpened
  <1> HIDE DEF n
  <1>4. ASSUME asked' = asked, early' = early, op' = op \/ \A o \in Ops : op'[o] = None => op[o] = None,
               \A v \in Views : Past(v) => Past(v)' /\ (stage'[v] = "open" => stage[v] = "open")
        PROVE  Early'
    <2>1. EarlyAreAsked' /\ Distinct(asked')
      BY <1>3, <1>4 DEF EarlyAreAsked
    <2>2. CancelsWait'
      BY <1>2, <1>3, <1>4 DEF CancelsWait, n
    <2>3. AskedOfOpened'
      BY <1>2, <1>3, <1>4 DEF AskedOfOpened, n
    <2> QED BY <2>1, <2>2, <2>3 DEF Early
  <1>5. ASSUME NEW v \in Views, Reserve(v) \/ OpenStep(v) \/ CloseStep(v) PROVE Early'
    <2>1. op' = op /\ asked' = asked /\ early' = early
      BY <1>5 DEF Reserve, OpenStep, CloseStep, Resolve, Register, Bind, CancelView, DeleteTicket, opVars
    <2>2. \A w \in Views \ {v} : stage'[w] = stage[w]
      BY <1>2, <1>5 DEF Reserve, OpenStep, CloseStep, Resolve, Register, Bind, CancelView, DeleteTicket, Over, Now
    <2>3. Past(v) => Past(v)' /\ stage'[v] # "open"
      BY <1>2, <1>5 DEF Reserve, OpenStep, CloseStep, Resolve, Register, Bind, CancelView, DeleteTicket, Over, Now, None
    <2> QED BY <1>4, <2>1, <2>2, <2>3
  <1>6. ASSUME NEW vs, Revokes(vs) PROVE Early'
    <2> DEFINE T == {o \in Ops : ~Dropped(o, vs)}
    <2>1. /\ op' = op /\ asked' = asked /\ early' = Only(early, T) /\ T \in SUBSET Ops
          /\ \A v \in vs : stage[v] = "open"
          /\ \A v \in Views : stage'[v] = IF v \in vs THEN "revoked" ELSE stage[v]
      BY <1>6 DEF Revokes, Revoke, ViewsAt
    <2>2. /\ Len(early') \in Nat /\ Members(early') = Members(early) \cap T
          /\ \A k \in 1..Len(early') : \E i \in 1..Len(early) : early[i] = early'[k] /\ Len(early) - i >= Len(early') - k
      <3> HIDE DEF T
      <3> QED BY <1>2, <2>1, OnlyKeeps
    <2>3. EarlyAreAsked'
      <3>1. ASSUME NEW k \in 1..Len(early') PROVE \E p \in 1..n : asked[p] = early'[k] /\ n - p >= Len(early') - k
        <4>1. PICK i \in 1..Len(early) : early[i] = early'[k] /\ Len(early) - i >= Len(early') - k
          BY <2>2
        <4>2. PICK p \in 1..n : asked[p] = early[i] /\ n - p >= Len(early) - i
          BY <1>3 DEF EarlyAreAsked, n
        <4> QED BY <1>2, <2>2, <4>1, <4>2
      <3> QED BY <2>1, <3>1 DEF EarlyAreAsked, n
    <2>4. CancelsWait'
      <3>1. ASSUME NEW i \in 1..n, op[asked[i]] = None, stage'[ViewOf[asked[i]]] = "open"
            PROVE  asked[i] \in Members(early') \/ n - i >= MaxEarly
        <4>1. stage[ViewOf[asked[i]]] = "open" /\ ViewOf[asked[i]] \notin vs /\ asked[i] \in Ops
          BY <1>2, <2>1, <3>1
        <4>2. asked[i] \in T
          BY <4>1 DEF Dropped
        <4> QED BY <1>3, <2>2, <3>1, <4>1, <4>2
      <3> QED BY <2>1, <3>1 DEF CancelsWait, n
    <2>5. AskedOfOpened'
      BY <1>2, <1>3, <2>1 DEF AskedOfOpened, n
    <2> QED BY <1>3, <2>1, <2>3, <2>4, <2>5 DEF Early
  <1>7. ASSUME NEW v \in Views, ReadLast(v) \/ KeepAlive(v) \/ Tick(v) \/ (ExpireView(v) /\ ~Due(v)) PROVE Early'
    <2>1. op' = op /\ asked' = asked /\ early' = early /\ stage' = stage
      BY <1>7 DEF ReadLast, KeepAlive, Tick, ExpireView, opVars
    <2> QED BY <1>4, <2>1
  <1>8. ASSUME NEW o \in Ops, Begin(o) PROVE Early'
    <2>1. asked' = asked /\ stage' = stage /\ op[o] = None
      BY <1>8 DEF Begin, registryVars
    <2>2. \A p \in Ops \ {o} : op'[p] = op[p]
      BY <1>2, <1>8 DEF Begin
    <2>3. op'[o] # None
      BY <1>2, <1>8 DEF Begin, None
    <2>4. CASE early' = early
      <3>1. \A p \in Ops : op'[p] = None => op[p] = None
        BY <2>2, <2>3
      <3> QED BY <1>4, <2>1, <2>4, <3>1
    <2>5. CASE early' = Only(early, Ops \ {o})
      <3> DEFINE T == Ops \ {o}
      <3>1. T \in SUBSET Ops
        OBVIOUS
      <3>2. /\ Len(early') \in Nat /\ Members(early') = Members(early) \cap T
            /\ \A k \in 1..Len(early') : \E i \in 1..Len(early) : early[i] = early'[k] /\ Len(early) - i >= Len(early') - k
        <4> HIDE DEF T
        <4>1. early' = Only(early, T)
          BY <2>5 DEF T
        <4> QED BY <1>2, <3>1, <4>1, OnlyKeeps
      <3>3. EarlyAreAsked'
        <4>1. ASSUME NEW k \in 1..Len(early') PROVE \E p \in 1..n : asked[p] = early'[k] /\ n - p >= Len(early') - k
          <5>1. PICK i \in 1..Len(early) : early[i] = early'[k] /\ Len(early) - i >= Len(early') - k
            BY <3>2
          <5>2. PICK p \in 1..n : asked[p] = early[i] /\ n - p >= Len(early) - i
            BY <1>3 DEF EarlyAreAsked, n
          <5> QED BY <1>2, <3>2, <5>1, <5>2
        <4> QED BY <2>1, <4>1 DEF EarlyAreAsked, n
      <3>4. CancelsWait'
        <4>1. ASSUME NEW i \in 1..n, op'[asked[i]] = None, stage[ViewOf[asked[i]]] = "open"
              PROVE  asked[i] \in Members(early') \/ n - i >= MaxEarly
          BY <1>2, <1>3, <2>2, <2>3, <3>2, <4>1
        <4> QED BY <2>1, <4>1 DEF CancelsWait, n
      <3>5. AskedOfOpened'
        BY <1>3, <2>1 DEF AskedOfOpened, n
      <3> QED BY <1>3, <2>1, <3>3, <3>4, <3>5 DEF Early
    <2> QED BY <1>8, <2>4, <2>5 DEF Begin
  <1>9. ASSUME NEW o \in Ops, CallPi(o) \/ Finish(o) PROVE Early'
    <2>1. asked' = asked /\ early' = early /\ stage' = stage
      BY <1>9 DEF CallPi, Finish, registryVars
    <2>2. \A p \in Ops : op'[p] = None => op[p] = None
      BY <1>2, <1>9 DEF CallPi, Finish, None
    <2> QED BY <1>4, <2>1, <2>2
  <1>10. CASE Restart \/ ServiceEnds \/ ServiceStarts \/ (\E v \in Views : TicketExpires(v))
    <2>1. op' = op /\ asked' = asked /\ early' = early /\ stage' = stage
      BY <1>10 DEF Restart, ServiceEnds, ServiceStarts, TicketExpires, registryVars, opVars
    <2> QED BY <1>4, <2>1
  <1>11. CASE Quit
    <2>1. asked' = asked /\ early' = <<>> /\ \A v \in Views : stage'[v] = IF stage[v] = None THEN None ELSE "gone"
      BY <1>11 DEF Quit
    <2>2. EarlyAreAsked'
      BY <2>1, EmptySeq DEF EarlyAreAsked
    <2>3. CancelsWait'
      BY <1>2, <2>1 DEF CancelsWait, n, None
    <2>4. AskedOfOpened'
      BY <1>2, <1>3, <2>1 DEF AskedOfOpened, n, None
    <2> QED BY <1>3, <2>1, <2>2, <2>3, <2>4 DEF Early
  <1>12. ASSUME NEW o \in Ops, Cancel(o) PROVE Early'
    <2>1. CASE early' = early /\ asked' = asked
      <3>1. op' = op /\ stage' = stage
        BY <1>12 DEF Cancel, registryVars
      <3> QED BY <1>4, <2>1, <3>1
    <2>2. CASE early' = Remembered(o) /\ asked' = Append(asked, o) /\ ~Running(o)
      <3> DEFINE k0 == PushedOut
      <3>1. /\ early' \in Seq(Ops) /\ Len(early') = Len(early) - k0 + 1 /\ early'[Len(early) - k0 + 1] = o
            /\ \A k \in 1..(Len(early) - k0) : early'[k] = early[k + k0]
        BY <1>2, <2>2, RememberedIs
      <3>2. Len(early) <= MaxEarly /\ k0 \in 0..1 /\ (k0 = 1 => Len(early) = MaxEarly)
        <4>1. Len(early) <= MaxEarly
          BY <1>1 DEF AccountsAgree
        <4>2. Len(early) \in Nat /\ MaxEarly \in Nat
          BY <1>2, ViewNumbers
        <4> QED BY <4>1, <4>2 DEF PushedOut
      <3>3. Len(early) \in Nat /\ (k0 = 1 => Len(early) >= 1)
        BY <1>2, <3>2, ViewNumbers
      <3> HIDE DEF k0
      <3>4. /\ asked' \in Seq(Ops) /\ Len(asked') = n + 1 /\ asked'[n + 1] = o
            /\ \A i \in 1..n : asked'[i] = asked[i]
        BY <1>2, <2>2, AppendProperties DEF n
      <3>5. op' = op /\ stage' = stage /\ stage[ViewOf[o]] = "open" /\ \A i \in 1..n : asked[i] # o
        BY <1>2, <1>12, <2>2 DEF Cancel, Knows, registryVars, Members, n
      <3>6. DOMAIN asked' = 1..(n + 1) /\ DOMAIN early' = 1..Len(early') /\ Len(early') \in Nat
        BY <1>2, <3>1, <3>4, LenProperties
      <3>7. Distinct(asked')
        <4>1. \A i, j \in 1..n : asked[i] = asked[j] => i = j
          BY <1>2, <1>3 DEF Distinct
        <4> QED BY <1>2, <3>4, <3>5, <3>6, <4>1 DEF Distinct
      <3>8. EarlyAreAsked'
        <4>1. ASSUME NEW k \in 1..Len(early')
              PROVE  \E p \in 1..(n + 1) : asked'[p] = early'[k] /\ (n + 1) - p >= Len(early') - k
          <5>1. CASE k = Len(early')
            BY <1>2, <3>1, <3>2, <3>4, <5>1
          <5>2. CASE k # Len(early')
            <6>1. k \in 1..(Len(early) - k0) /\ k + k0 \in 1..Len(early) /\ early'[k] = early[k + k0]
              BY <1>2, <3>1, <3>2, <5>2
            <6>2. PICK p \in 1..n : asked[p] = early[k + k0] /\ n - p >= Len(early) - (k + k0)
              BY <1>3, <6>1 DEF EarlyAreAsked, n
            <6> QED BY <1>2, <3>1, <3>2, <3>4, <6>1, <6>2
          <5> QED BY <5>1, <5>2
        <4> QED BY <3>4, <4>1 DEF EarlyAreAsked
      <3>9. CancelsWait'
        <4>1. ASSUME NEW i \in 1..(n + 1), op[asked'[i]] = None, stage[ViewOf[asked'[i]]] = "open"
              PROVE  asked'[i] \in Members(early') \/ (n + 1) - i >= MaxEarly
          <5>1. CASE i = n + 1
            <6> DEFINE m == Len(early) - k0 + 1
            <6>1. m \in 1..Len(early')
              BY <3>3, <3>1, <3>2
            <6>2. early'[m] = o
              BY <3>1
            <6> HIDE DEF m
            <6>3. o \in Members(early')
              BY <3>6, <6>1, <6>2 DEF Members
            <6> QED BY <3>4, <5>1, <6>3
          <5>2. CASE i # n + 1
            <6>1. i \in 1..n /\ asked'[i] = asked[i]
              BY <1>2, <3>4, <5>2
            <6>2. CASE n - i >= MaxEarly
              BY <1>2, <6>1, <6>2, ViewNumbers
            <6>3. CASE asked[i] \in Members(early)
              <7>1. PICK k \in 1..Len(early) : early[k] = asked[i]
                BY <1>2, <6>3 DEF Members
              <7>2. CASE k > k0
                <8>1. k - k0 \in 1..(Len(early) - k0) /\ (k - k0) + k0 = k /\ k - k0 \in 1..Len(early')
                  BY <1>2, <3>1, <3>2, <7>2
                <8>2. early'[k - k0] = asked'[i]
                  BY <3>1, <6>1, <7>1, <8>1
                <8> QED BY <3>6, <8>1, <8>2 DEF Members
              <7>3. CASE ~(k > k0)
                <8>1. k = 1 /\ k0 = 1 /\ Len(early) = MaxEarly
                  BY <3>2, <7>3
                <8>2. PICK p \in 1..n : asked[p] = early[1] /\ n - p >= Len(early) - 1
                  BY <1>3, <7>1, <8>1 DEF EarlyAreAsked, n
                <8>3. p = i
                  BY <1>2, <1>3, <6>1, <7>1, <8>1, <8>2 DEF Distinct
                <8> QED BY <1>2, <6>1, <8>1, <8>2, <8>3, ViewNumbers
              <7> QED BY <7>2, <7>3
            <6> QED BY <1>3, <3>4, <4>1, <6>1, <6>2, <6>3
          <5> QED BY <5>1, <5>2
        <4> QED BY <3>4, <3>5, <4>1 DEF CancelsWait
      <3>10. AskedOfOpened'
        <4>1. \A i \in 1..(n + 1) : i \in 1..n \/ i = n + 1
          BY <1>2
        <4> QED BY <1>3, <3>4, <3>5, <4>1 DEF AskedOfOpened
      <3> QED BY <3>7, <3>8, <3>9, <3>10 DEF Early
    <2> QED BY <1>12, <2>1, <2>2 DEF Cancel
  <1> QED BY <1>1, <1>5, <1>6, <1>7, <1>8, <1>9, <1>10, <1>11, <1>12, ViewSteps

LEMMA ViewInvInit == ViewInit => ViewInv
  <1> SUFFICES ASSUME ViewInit PROVE ViewInv
    OBVIOUS
  <1>1. /\ stage \in [Views -> Stages] /\ \A v \in Views : stage[v] = None
        /\ op \in [Ops -> {None, "begun", "calling", "done"}] /\ \A o \in Ops : op[o] = None
        /\ controller = "up" /\ live = Clients /\ openingViews = {} /\ pending = {} /\ content = 0 /\ active = 0
        /\ lease \in [Views -> 0..Lease] /\ timer \in [Views -> 0..Lease] /\ cancelledOps = {}
        /\ early = <<>> /\ asked = <<>> /\ service = TRUE /\ tickets = {} /\ faults = 0
    BY ViewNumbers DEF ViewInit, Stages
  <1>2. ViewsAt("open") = {} /\ {o \in Ops : Running(o)} = {} /\ Cardinality({}) = 0
    BY <1>1, FS_EmptySet DEF ViewsAt, Running, None
  <1>3. << >> \in Seq(Ops) /\ Len(<< >>) = 0 /\ Members(<< >>) = {} /\ Distinct(<< >>)
    BY EmptySeq DEF Members, Distinct
  <1>4. ViewTypeOK
    BY <1>1, <1>2, <1>3, ViewNumbers DEF ViewTypeOK
  <1>5. AccountsAgree
    <2>1. ViewsAt("open") \cup openingViews = {}
      BY <1>1, <1>2
    <2>2. 0 <= MaxViews /\ 0 <= MaxEarly
      BY ViewNumbers
    <2>3. content = Cardinality(pending) /\ active = Cardinality({o \in Ops : Running(o)})
      BY <1>1, <1>2
    <2>4. Cardinality(ViewsAt("open") \cup openingViews) <= MaxViews
      BY <1>2, <2>1, <2>2
    <2>5. Len(early) <= MaxEarly /\ Distinct(early) /\ \A o \in Members(early) : stage[ViewOf[o]] = "open"
      BY <1>1, <1>3, <2>2
    <2> QED BY <2>3, <2>4, <2>5 DEF AccountsAgree
  <1>6. ClosedIsSilent /\ CutOff
    BY <1>1 DEF ClosedIsSilent, CutOff, Running, None
  <1>7. LeaseIsWatched /\ TimersLead
    BY <1>2 DEF LeaseIsWatched, TimersLead
  <1>8. OnlyFaultsLeak /\ FaultsAreCounted
    BY <1>1 DEF OnlyFaultsLeak, FaultsAreCounted
  <1>9. PlacesFit
    BY <1>1 DEF PlacesFit, None
  <1>10. CancelsAreKept /\ Early
    BY <1>1, <1>3 DEF CancelsAreKept, Early, EarlyAreAsked, CancelsWait, AskedOfOpened
  <1> QED BY <1>4, <1>5, <1>6, <1>7, <1>8, <1>9, <1>10 DEF ViewInv, RegistryIsSafe

\* A running operation whose cancel came first was pushed out of those that wait.
LEMMA CancelsKeptStep ==
    ASSUME ViewInv, ViewNext, ViewTypeOK'
    PROVE  CancelsAreKept'
  <1>1. ViewTypeOK /\ CancelsAreKept /\ Early /\ CutOff /\ AccountsAgree
    BY DEF ViewInv, RegistryIsSafe
  <1>2. /\ op \in [Ops -> {None, "begun", "calling", "done"}] /\ asked \in Seq(Ops) /\ Len(asked) \in Nat
        /\ DOMAIN asked = 1..Len(asked) /\ \A i \in 1..Len(asked) : asked[i] \in Ops
    BY <1>1, LenProperties, ElementOfSeq DEF ViewTypeOK
  <1>3. \A i \in 1..Len(asked) : Running(asked[i]) => Len(asked) - i >= MaxEarly
    BY <1>1, <1>2 DEF CancelsAreKept
  <1>4. ASSUME asked' = asked, \A o \in Ops : Running(o)' => Running(o) PROVE CancelsAreKept'
    BY <1>2, <1>3, <1>4 DEF CancelsAreKept
  <1>5. ASSUME NEW o \in Ops, Begin(o) PROVE CancelsAreKept'
    <2>1. asked' = asked /\ op[o] = None /\ stage[ViewOf[o]] = "open" /\ \A p \in Ops \ {o} : op'[p] = op[p]
      BY <1>2, <1>5 DEF Begin, Knows
    <2>2. op'[o] = "done" \/ o \notin Members(early)
      BY <1>2, <1>5 DEF Begin
    <2>3. ASSUME NEW i \in 1..Len(asked), Running(asked[i])' PROVE Len(asked) - i >= MaxEarly
      <3>1. CASE asked[i] = o
        <4>1. o \notin Members(early)
          BY <2>1, <2>2, <2>3, <3>1 DEF Running
        <4> QED BY <1>1, <2>1, <3>1, <4>1 DEF Early, CancelsWait
      <3>2. CASE asked[i] # o
        <4>1. Running(asked[i])
          BY <1>2, <2>1, <2>3, <3>2 DEF Running
        <4> QED BY <1>3, <4>1
      <3> QED BY <3>1, <3>2
    <2> QED BY <1>2, <2>1, <2>3 DEF CancelsAreKept
  <1>6. ASSUME NEW o \in Ops, Cancel(o) PROVE CancelsAreKept'
    <2>1. op' = op
      BY <1>6 DEF Cancel
    <2>2. CASE asked' = asked
      BY <1>4, <2>1, <2>2 DEF Running
    <2>3. CASE asked' = Append(asked, o) /\ ~Running(o)
      <3>1. /\ Len(asked') = Len(asked) + 1 /\ asked'[Len(asked) + 1] = o /\ DOMAIN asked' = 1..(Len(asked) + 1)
            /\ \A i \in 1..Len(asked) : asked'[i] = asked[i]
        BY <1>2, <2>3, AppendProperties
      <3>2. ASSUME NEW i \in 1..(Len(asked) + 1), Running(asked'[i]) PROVE Len(asked) + 1 - i >= MaxEarly
        <4>1. i \in 1..Len(asked) /\ Running(asked[i])
          BY <1>2, <2>3, <3>1, <3>2
        <4> QED BY <1>2, <1>3, <4>1, ViewNumbers
      <3> QED BY <2>1, <3>1, <3>2 DEF CancelsAreKept, Running
    <2> QED BY <1>6, <2>2, <2>3 DEF Cancel
  <1>7. ASSUME NEW o \in Ops, CallPi(o) \/ Finish(o) PROVE CancelsAreKept'
    <2>1. asked' = asked /\ \A p \in Ops : op'[p] \in {"begun", "calling"} => op[p] \in {"begun", "calling"}
      BY <1>2, <1>7 DEF CallPi, Finish
    <2> QED BY <1>4, <2>1 DEF Running
  <1>8. ASSUME op' = op, asked' = asked PROVE CancelsAreKept'
    BY <1>4, <1>8 DEF Running
  <1>9. ASSUME NEW v \in Views, Reserve(v) \/ OpenStep(v) \/ CloseStep(v) PROVE op' = op /\ asked' = asked
    BY <1>9 DEF Reserve, OpenStep, CloseStep, Resolve, Register, Bind, CancelView, DeleteTicket, opVars
  <1>10. ASSUME NEW v \in Views, ReadLast(v) \/ KeepAlive(v) \/ Tick(v) \/ (ExpireView(v) /\ ~Due(v))
         PROVE  op' = op /\ asked' = asked
    BY <1>10 DEF ReadLast, KeepAlive, Tick, ExpireView, opVars
  <1>11. ASSUME NEW vs, Revokes(vs) PROVE op' = op /\ asked' = asked
    BY <1>11 DEF Revokes
  <1>12. CASE Restart \/ ServiceEnds \/ ServiceStarts \/ (\E v \in Views : TicketExpires(v))
    <2>1. op' = op /\ asked' = asked
      BY <1>12 DEF Restart, ServiceEnds, ServiceStarts, TicketExpires, opVars
    <2> QED BY <1>8, <2>1
  <1>13. CASE Quit
    <2>1. asked' = asked /\ \A o \in Ops : op'[o] \notin {"begun", "calling"}
      BY <1>13 DEF Quit, Running
    <2> QED BY <1>4, <2>1 DEF Running
  <1> QED BY <1>1, <1>5, <1>6, <1>7, <1>8, <1>9, <1>10, <1>11, <1>12, <1>13, ViewSteps

LEMMA ViewInvStep == ViewInv /\ [ViewNext]_viewVars => ViewInv'
  <1> SUFFICES ASSUME ViewInv, [ViewNext]_viewVars PROVE ViewInv'
    OBVIOUS
  <1>1. CASE UNCHANGED viewVars
    BY <1>1 DEF viewVars, registryVars, opVars, serviceVars, ViewInv, RegistryIsSafe, ViewTypeOK, AccountsAgree,
         ClosedIsSilent, CancelsAreKept, LeaseIsWatched, OnlyFaultsLeak, PlacesFit, CutOff, TimersLead,
         FaultsAreCounted, Early, EarlyAreAsked, CancelsWait, AskedOfOpened, ViewsAt, Running
  <1>2. CASE ViewNext
    <2>1. ViewTypeOK
      BY DEF ViewInv, RegistryIsSafe
    <2>2. ViewTypeOK' /\ AccountsAgree'
      BY <1>2, <2>1, ViewSteps, OpeningTyped, OpeningAccounts, RevokesAccounts, LeaseAccounts, OperationAccounts,
         ServiceAccounts
    <2>3. PlacesFit' /\ CutOff' /\ TimersLead' /\ FaultsAreCounted' /\ OnlyFaultsLeak' /\ Early' /\ CancelsAreKept'
      BY <1>2, <2>2, PlacesStep, CutOffStep, TimersStep, FaultsStep, EarlyStep, CancelsKeptStep
    <2>4. ClosedIsSilent'
      BY <2>3 DEF ClosedIsSilent, CutOff
    <2>5. LeaseIsWatched'
      <3>1. ASSUME NEW v \in ViewsAt("open")', lease'[v] = 0 PROVE timer'[v] = 0
        <4>1. timer'[v] <= lease'[v] /\ v \in Views
          BY <2>3, <3>1 DEF TimersLead, ViewsAt
        <4>2. timer'[v] \in Nat
          BY <2>2, <4>1, ViewNumbers DEF ViewTypeOK
        <4> QED BY <3>1, <4>1, <4>2
      <3> QED BY <3>1 DEF LeaseIsWatched
    <2> QED BY <2>2, <2>3, <2>4, <2>5 DEF ViewInv, RegistryIsSafe
  <1> QED BY <1>1, <1>2

\* What the registry promises is true of every number of views, clients and
\* operations, and all limits: the accounts agree with what it holds, nothing of a
\* closed view goes on to Pi, a cancel that came first is kept or was pushed out,
\* and no renewal leaves a lease unwatched (app_view_lifetime.go).
THEOREM RegistrySafe == ViewSpec => []RegistryIsSafe
  <1>1. ViewInv => RegistryIsSafe
    BY DEF ViewInv
  <1> QED BY <1>1, ViewInvInit, ViewInvStep, PTL DEF ViewSpec
=============================================================================
