------------------------- MODULE SessionDeletionProofs -------------------------
(***************************************************************************)
(* Proofs about SessionDeletion, for every value of its constants: that its *)
(* state stays well typed, that a session with a deletion in the journal is *)
(* reserved while the process serves, that the association goes only after  *)
(* the session at Pi, and that Pi deletes only where that was requested.    *)
(*                                                                         *)
(* The reservation rests on the gate.  Of the operations that were let      *)
(* through the gate of a session's present entry, one at a time works or    *)
(* deletes (Placed, Exclusive); a deletion reserves the session before it   *)
(* writes the journal and gives it back only when its record is gone        *)
(* (Journalled); and a process that serves has met no record that it did    *)
(* not finish (Recovered).  The other two rest on what the journal, the     *)
(* wire and the threads know of the agents that were asked (Asked).         *)
(***************************************************************************)
EXTENDS SessionDeletion, FiniteSetTheorems, TLAPS

Deleting == {"attach", "request", "call", "answer", "confirm", "drop",
             "records", "objective", "queue", "forget", "finish"}
Holding  == Deleting \cup {"work"}
Resuming == {"call", "answer", "confirm", "records", "objective", "queue", "forget", "finish"}

\* Operations run only while the process serves; they have come through the gate
\* of the present entry, or the session is reserved.
Placed ==
    \A t \in Threads :
        /\ thread[t].step # "idle" => thread[t].s \in Sessions /\ status = "serving"
        /\ thread[t].step \in {"gate", "work", "running"} => thread[t].e # 0
        /\ thread[t].step \in {"work", "running"} =>
             thread[t].s \notin lifecycle /\ entry[thread[t].s] = thread[t].e
        /\ thread[t].step \in Deleting => thread[t].s \in lifecycle

\* One at a time works or deletes.
Exclusive ==
    \A t, u \in Threads :
        t # u /\ thread[t].s = thread[u].s /\ thread[t].step \in Holding => thread[u].step \notin Holding

\* What a deletion knows of its record.
Journalled ==
    \A t \in Threads \cup {Starter} :
        /\ thread[t].step \in {"call", "answer", "confirm"} => journal[thread[t].s] # None
        /\ thread[t].step = "attach" => journal[thread[t].s] = None
        /\ thread[t].step = "finish" /\ thread[t].ok => journal[thread[t].s] = None
        /\ thread[t].step = "request" \/ (thread[t].step = "call" /\ thread[t].pinned) => thread[t].at \in Agents

\* What the recovery has visited, and what it left behind.
Recovered ==
    /\ thread[Starter].step # "idle" =>
         status = "recovering" /\ thread[Starter].step \in Resuming /\ thread[Starter].s \in Sessions
    /\ status = "recovering" =>
         \A s \in todo : journal[s] # None /\ (thread[Starter].step # "idle" => thread[Starter].s # s)
    /\ status = "recovering" /\ ~failed =>
         \A s \in Sessions : journal[s] # None =>
             s \in todo \/ (thread[Starter].step # "idle" /\ thread[Starter].s = s)
    /\ status = "serving" => \A s \in Sessions : journal[s] # None => s \in lifecycle

\* An agent that the deletion was requested at does not have the session.
Gone(s) == \E a \in requestedAt[s] : s \notin piHas[a]

\* A deletion that an agent is yet to carry out, or that the journal has, was requested
\* there; who goes on to remove the association knows of an agent that deleted.
Asked ==
    /\ \A m \in wire : m.agent \in requestedAt[m.s]
    /\ \A s \in Sessions : journal[s] # None =>
         /\ journal[s].agent \in requestedAt[s]
         /\ journal[s].phase = "confirmed" => Gone(s)
    /\ \A t \in Threads \cup {Starter} :
         /\ thread[t].step = "call" /\ thread[t].pinned => thread[t].at \in requestedAt[thread[t].s]
         /\ thread[t].answer = "gone" \/ thread[t].step \in {"confirm", "drop", "records"} =>
              thread[t].s \in Sessions /\ Gone(thread[t].s)
    /\ NoOrphan

Inv == TypeOK /\ Placed /\ Exclusive /\ Journalled /\ Recovered

-----------------------------------------------------------------------------
(* The helpers of the model. *)

All == Threads \cup {Starter}

\* There is an unused name for a projection: there are more than operations.
LEMMA FreshName ==
    ASSUME TypeOK, NEW s \in Sessions
    PROVE  Fresh(s) \in 1..MaxEntries
  <1>1. \E e \in 1..MaxEntries : Holders(s, e) = {}
    <2> DEFINE used == {e \in 1..MaxEntries : \E t \in Threads : thread[t].e = e}
    <2>1. IsFiniteSet(Threads) /\ MaxEntries \in Nat /\ MaxEntries > Cardinality(Threads)
      BY ConstantsAssumption
    <2>2. Cardinality(Threads) \in Nat
      BY <2>1, FS_CardinalityType
    <2>3. SUFFICES ASSUME \A e \in 1..MaxEntries : Holders(s, e) # {}
                   PROVE  FALSE
      OBVIOUS
    <2>4. \A e \in 1..MaxEntries : \E t \in Threads : thread[t].e = e
      BY <2>3 DEF Holders
    <2> DEFINE T == {t \in Threads : thread[t].e \in 1..MaxEntries}
               f == [t \in T |-> thread[t].e]
    <2>5. IsFiniteSet(T) /\ Cardinality(T) <= Cardinality(Threads)
      BY <2>1, FS_Subset
    <2>6. f \in Surjection(T, 1..MaxEntries)
      BY <2>4 DEF Surjection
    <2>7. Cardinality(1..MaxEntries) <= Cardinality(T)
      BY <2>5, <2>6, FS_Surjection
    <2>8. Cardinality(1..MaxEntries) = MaxEntries /\ Cardinality(T) \in Nat
      BY <2>1, <2>2, <2>5, FS_Interval, FS_CardinalityType
    <2> QED BY <2>1, <2>2, <2>5, <2>7, <2>8
  <1> QED BY <1>1 DEF Fresh

\* A thread goes on to another step, with the rest of it as it was.
Moved(t, step) ==
    /\ thread' \in [All -> Thread]
    /\ \A u \in All : u # t => thread'[u] = thread[u]
    /\ thread'[t].step = step
    /\ thread'[t].s = thread[t].s /\ thread'[t].e = thread[t].e /\ thread'[t].at = thread[t].at
    /\ thread'[t].pinned = thread[t].pinned /\ thread'[t].ok = thread[t].ok
    /\ thread'[t].answer = thread[t].answer

LEMMA GoMoves ==
    ASSUME TypeOK, NEW t \in All, NEW step \in Steps, Go(t, step)
    PROVE  Moved(t, step)
  BY DEF TypeOK, Go, Moved, All, Thread

\* A thread ends.
Ended(t) ==
    /\ thread' \in [All -> Thread]
    /\ \A u \in All : u # t => thread'[u] = thread[u]
    /\ thread'[t].step = "idle" /\ ~(thread'[t].pinned) /\ thread'[t].answer = "none"

LEMMA EndEnds ==
    ASSUME TypeOK, NEW t \in All, End(t)
    PROVE  Ended(t)
  <1>1. Idle \in Thread
    BY ConstantsAssumption DEF Idle, Thread, Steps, Answers
  <1> QED BY <1>1 DEF TypeOK, End, Ended, All, Idle

LEMMA GiveUpEnds ==
    ASSUME TypeOK, NEW t \in All, GiveUp(t)
    PROVE  /\ Ended(t) /\ lifecycle' = lifecycle
           /\ failed' \in BOOLEAN /\ (t # Starter => failed' = failed) /\ (t = Starter => failed')
  BY EndEnds DEF GiveUp, TypeOK

\* Some of the faults are left.
LEMMA SpendKeeps ==
    ASSUME TypeOK, NEW fine \in BOOLEAN, Spend(fine)
    PROVE  faults' \in 0..MaxFaults
  BY ConstantsAssumption DEF Spend, TypeOK

LEMMA WrittenStore ==
    ASSUME NEW store \in Store, NEW main \in SUBSET Sessions, NEW outcome \in Outcomes
    PROVE  Written(store, main, outcome) \in Store
  BY DEF Written, Store

LEMMA ForgottenStore ==
    ASSUME NEW store \in Store, NEW s \in Sessions, NEW r \in Forgotten(store, s)
    PROVE  r.store \in Store /\ r.ok \in BOOLEAN
  <1> DEFINE once(o) == Written(store, store.main \ {s}, o)
  <1>1. store.main \ {s} \in SUBSET Sessions
    BY DEF Store
  <1>2. \A o \in Outcomes : once(o) \in Store
    BY <1>1, WrittenStore
  <1>3. \A o \in Outcomes : Written(once("ok"), store.main \ {s}, o) \in Store
    BY <1>1, <1>2, WrittenStore DEF Outcomes
  <1>4. \/ \E o \in Outcomes : r = [store |-> once(o), ok |-> FALSE]
        \/ \E o \in Outcomes : r = [store |-> Written(once("ok"), store.main \ {s}, o), ok |-> o = "ok"]
    BY DEF Forgotten
  <1>5. CASE \E o \in Outcomes : r = [store |-> once(o), ok |-> FALSE]
    <2>1. PICK o \in Outcomes : r = [store |-> once(o), ok |-> FALSE]
      BY <1>5
    <2>2. once(o) \in Store
      BY <1>2
    <2> HIDE DEF once
    <2> QED BY <2>1, <2>2
  <1>6. CASE \E o \in Outcomes : r = [store |-> Written(once("ok"), store.main \ {s}, o), ok |-> o = "ok"]
    <2>1. PICK o \in Outcomes : r = [store |-> Written(once("ok"), store.main \ {s}, o), ok |-> o = "ok"]
      BY <1>6
    <2> DEFINE twice == Written(once("ok"), store.main \ {s}, o)
               fine  == o = "ok"
    <2>2. twice \in Store /\ fine \in BOOLEAN
      BY <1>3
    <2>3. r = [store |-> twice, ok |-> fine]
      BY <2>1
    <2> HIDE DEF twice, fine
    <2> QED BY <2>2, <2>3
  <1> QED BY <1>4, <1>5, <1>6

\* No other session is forgotten.
LEMMA ForgottenKeeps ==
    ASSUME NEW store \in Store, NEW s \in Sessions, NEW r \in Forgotten(store, s)
    PROVE  store.main \ {s} \subseteq r.store.main
  BY DEF Forgotten, Written

LEMMA RemovalsStore ==
    ASSUME NEW store \in Store, NEW s \in Sessions, NEW r \in Removals(store, s)
    PROVE  r.store \in Store /\ r.ok \in BOOLEAN
  <1>1. PICK m \in BOOLEAN, b \in BOOLEAN, ok \in BOOLEAN :
          r = [store |-> [main |-> IF m THEN store.main \ {s} ELSE store.main,
                          bak  |-> IF b THEN store.bak \ {s} ELSE store.bak],
               ok    |-> ok]
    BY DEF Removals, Removed
  <1>2. store.main \in SUBSET Sessions /\ store.bak \in SUBSET Sessions
    BY DEF Store
  <1>3. [main |-> IF m THEN store.main \ {s} ELSE store.main,
         bak  |-> IF b THEN store.bak \ {s} ELSE store.bak] \in Store
    BY <1>2 DEF Store
  <1> QED BY <1>1, <1>3

\* The journal changes for one session, and as asked if nothing failed.
Wrote(s, record, outcome) ==
    /\ journal' \in [Sessions -> Record \cup {None}] /\ faults' \in 0..MaxFaults
    /\ \A r \in Sessions : r # s => journal'[r] = journal[r]
    /\ journal'[s] \in {journal[s], record}
    /\ outcome = "ok" => journal'[s] = record

LEMMA JournalWrites ==
    ASSUME TypeOK, NEW s \in Sessions, NEW record \in Record \cup {None}, NEW outcome \in Outcomes,
           WriteJournal(s, record, outcome)
    PROVE  Wrote(s, record, outcome)
  BY SpendKeeps DEF WriteJournal, Wrote, TypeOK

-----------------------------------------------------------------------------
(* Every action keeps the invariant. *)

LEMMA ReadRecordKeeps == ASSUME Inv, NEW t \in Threads, ReadRecord(t) PROVE Inv'
  <1>1. Moved(t, "install") \/ Ended(t)
    BY GoMoves, EndEnds DEF ReadRecord, Inv, All, Steps
  <1>2. TypeOK'
    BY <1>1 DEF ReadRecord, Inv, TypeOK, Moved, Ended, All, stores, pi, history
  <1>3. Placed' /\ Exclusive'
    BY <1>1, ConstantsAssumption DEF ReadRecord, Inv, TypeOK, Placed, Exclusive, Moved, Ended, All, Holding, Deleting
  <1>4. Journalled' /\ Recovered'
    BY <1>1, ConstantsAssumption DEF ReadRecord, Inv, TypeOK, Journalled, Recovered, Moved, Ended, All, stores
  <1> QED BY <1>2, <1>3, <1>4 DEF Inv

LEMMA LockKeeps == ASSUME Inv, NEW t \in Threads, Lock(t) PROVE Inv'
  <1>1. /\ thread[t].step = "gate"
        /\ \/ Moved(t, "work") /\ entry[thread[t].s] = thread[t].e /\ thread[t].s \notin lifecycle
           \/ Ended(t)
    BY GoMoves, EndEnds DEF Lock, Inv, All, Steps
  <1>2. TypeOK'
    BY <1>1 DEF Lock, Inv, TypeOK, Moved, Ended, All, stores, pi, history
  <1>3. Placed'
    BY <1>1, ConstantsAssumption DEF Lock, Inv, TypeOK, Placed, Moved, Ended, All, Deleting
  <1>4. Exclusive'
    <2>1. ASSUME NEW u \in Threads, u # t, thread[u].s = thread[t].s, thread[u].step \in Holding,
                 entry[thread[t].s] = thread[t].e, thread[t].s \notin lifecycle
          PROVE  FALSE
      <3>1. thread[u].step = "work" /\ thread[u].e = thread[t].e
        BY <2>1 DEF Inv, Placed, Holding
      <3>2. u \in Holders(thread[t].s, thread[t].e)
        BY <3>1, <2>1 DEF Holders
      <3> QED BY <3>1, <3>2 DEF Lock, GateFree
    <2> QED BY <1>1, <2>1 DEF Inv, Exclusive, Moved, Ended, All, Holding, Deleting
  <1>5. Journalled' /\ Recovered'
    BY <1>1, ConstantsAssumption DEF Lock, Inv, TypeOK, Journalled, Recovered, Moved, Ended, All, stores
  <1> QED BY <1>2, <1>3, <1>4, <1>5 DEF Inv

LEMMA BeginKeeps == ASSUME Inv, NEW t \in Threads, Begin(t) PROVE Inv'
  <1>1. PICK kind \in Kinds, s \in Sessions :
          LET found == entry[s] # 0 /\ s \notin lifecycle
          IN thread' = [thread EXCEPT ![t] = [Idle EXCEPT !.kind = kind, !.s = s,
                           !.step = IF found THEN "gate" ELSE "read",
                           !.e = IF found THEN entry[s] ELSE 0]]
    BY DEF Begin
  <1>2. /\ thread' \in [All -> Thread]
        /\ \A u \in All : u # t => thread'[u] = thread[u]
        /\ thread'[t].s = s /\ thread'[t].step \in {"gate", "read"}
        /\ thread'[t].step = "gate" => thread'[t].e # 0
    <2> DEFINE found == entry[s] # 0 /\ s \notin lifecycle
               new   == [Idle EXCEPT !.kind = kind, !.s = s, !.step = IF found THEN "gate" ELSE "read",
                                     !.e = IF found THEN entry[s] ELSE 0]
    <2>1. entry[s] \in 0..MaxEntries /\ 0 \in 0..MaxEntries
      BY ConstantsAssumption DEF Inv, TypeOK
    <2>2. new \in Thread
      BY <2>1 DEF Thread, Idle, Steps, Answers
    <2>3. new.s = s /\ new.step \in {"gate", "read"} /\ (new.step = "gate" => new.e # 0)
      BY DEF Idle
    <2>4. thread' = [thread EXCEPT ![t] = new]
      BY <1>1
    <2> HIDE DEF new
    <2> QED BY <2>2, <2>3, <2>4 DEF Inv, TypeOK, All
  <1>3. TypeOK'
    BY <1>2 DEF Begin, Inv, TypeOK, All, stores, pi, history
  <1>4. Placed' /\ Exclusive'
    BY <1>2, ConstantsAssumption DEF Begin, Inv, TypeOK, Placed, Exclusive, All, Holding, Deleting
  <1>5. Journalled' /\ Recovered'
    BY <1>2, ConstantsAssumption DEF Begin, Inv, TypeOK, Journalled, Recovered, All, stores
  <1> QED BY <1>3, <1>4, <1>5 DEF Inv

LEMMA InstallKeeps == ASSUME Inv, NEW t \in Threads, Install(t) PROVE Inv'
  <1> DEFINE s == thread[t].s
  <1>1. thread[t].step = "install" /\ s \in Sessions /\ status = "serving"
    BY DEF Install, Inv, Placed
  <1>2. /\ entry' \in [Sessions -> 0..MaxEntries]
        /\ \A r \in Sessions : entry'[r] = entry[r] \/ entry[r] = 0
    BY <1>1, FreshName DEF Install, Make, Inv, TypeOK
  <1>3. \/ Ended(t)
        \/ /\ thread' \in [All -> Thread]
           /\ \A u \in All : u # t => thread'[u] = thread[u]
           /\ thread'[t].step = "gate" /\ thread'[t].s = s /\ thread'[t].e # 0
    <2>1. CASE s \in lifecycle
      BY <2>1, EndEnds DEF Install, Inv, All
    <2>2. CASE s \notin lifecycle
      <3>1. entry'[s] \in 1..MaxEntries
        BY <1>1, <2>2, FreshName DEF Install, Make, Inv, TypeOK
      <3> QED BY <1>1, <2>2, <3>1, ConstantsAssumption DEF Install, Inv, TypeOK, All, Thread, Steps
    <2> QED BY <2>1, <2>2
  <1> HIDE DEF s
  <1>4. TypeOK'
    BY <1>2, <1>3 DEF Install, Inv, TypeOK, Ended, All, stores, pi, history
  <1>5. Placed' /\ Exclusive'
    BY <1>1, <1>2, <1>3, ConstantsAssumption
    DEF Install, Inv, TypeOK, Placed, Exclusive, Ended, All, Holding, Deleting
  <1>6. Journalled' /\ Recovered'
    BY <1>1, <1>3, ConstantsAssumption DEF Install, Inv, TypeOK, Journalled, Recovered, Ended, All, stores
  <1> QED BY <1>4, <1>5, <1>6 DEF Inv

LEMMA UpdateObjectiveKeeps == ASSUME Inv, NEW t \in Threads, UpdateObjective(t) PROVE Inv'
  <1>1. Ended(t)
    BY EndEnds DEF UpdateObjective, Inv, All
  <1>2. thread[t].s \in Sessions
    BY DEF UpdateObjective, Inv, Placed
  <1>3. objectives' \in Store /\ faults' \in 0..MaxFaults
    <2>1. PICK outcome \in Outcomes :
            /\ Spend(outcome = "ok")
            /\ objectives' = [main |-> IF outcome \in {"ok", "late"} THEN objectives.main \cup {thread[t].s} ELSE objectives.main,
                              bak  |-> IF outcome # "lost" /\ thread[t].s \in objectives.main
                                       THEN objectives.bak \cup {thread[t].s} ELSE objectives.bak]
      BY DEF UpdateObjective
    <2>2. objectives.main \in SUBSET Sessions /\ objectives.bak \in SUBSET Sessions
      BY DEF Inv, TypeOK, Store
    <2>3. objectives' \in Store
      BY <1>2, <2>1, <2>2 DEF Store
    <2> QED BY <2>1, <2>3, SpendKeeps DEF Inv
  <1>4. TypeOK'
    BY <1>1, <1>3 DEF UpdateObjective, Inv, TypeOK, Ended, All, pi, history
  <1>5. Placed' /\ Exclusive'
    BY <1>1, ConstantsAssumption DEF UpdateObjective, Inv, TypeOK, Placed, Exclusive, Ended, All, Holding, Deleting
  <1>6. Journalled' /\ Recovered'
    BY <1>1, ConstantsAssumption DEF UpdateObjective, Inv, TypeOK, Journalled, Recovered, Ended, All
  <1> QED BY <1>4, <1>5, <1>6 DEF Inv

LEMMA QueueKeeps == ASSUME Inv, NEW t \in Threads, Queue(t) PROVE Inv'
  <1>1. Ended(t)
    BY EndEnds DEF Queue, Inv, All
  <1>2. queues' \in Store /\ faults' \in 0..MaxFaults
    <2>1. PICK outcome \in Outcomes :
            Spend(outcome = "ok") /\ queues' = Written(queues, queues.main \cup {thread[t].s}, outcome)
      BY DEF Queue
    <2>2. queues \in Store /\ queues.main \cup {thread[t].s} \in SUBSET Sessions
      BY DEF Queue, Inv, TypeOK, Placed, Store
    <2> QED BY <2>1, <2>2, WrittenStore, SpendKeeps DEF Inv
  <1>3. TypeOK'
    BY <1>1, <1>2 DEF Queue, Inv, TypeOK, Ended, All, pi, history
  <1>4. Placed' /\ Exclusive'
    BY <1>1, ConstantsAssumption DEF Queue, Inv, TypeOK, Placed, Exclusive, Ended, All, Holding, Deleting
  <1>5. Journalled' /\ Recovered'
    BY <1>1, ConstantsAssumption DEF Queue, Inv, TypeOK, Journalled, Recovered, Ended, All
  <1> QED BY <1>3, <1>4, <1>5 DEF Inv

LEMMA StartPromptKeeps == ASSUME Inv, NEW t \in Threads, StartPrompt(t) PROVE Inv'
  <1>1. (Moved(t, "running") \/ Ended(t)) /\ thread[t].step = "work"
    BY GoMoves, EndEnds DEF StartPrompt, Inv, All, Steps
  <1>2. faults' \in 0..MaxFaults
    BY SpendKeeps DEF StartPrompt, Inv, TypeOK
  <1>3. TypeOK'
    BY <1>1, <1>2 DEF StartPrompt, Inv, TypeOK, Moved, Ended, All, stores, pi, history
  <1>4. Placed' /\ Exclusive'
    BY <1>1, ConstantsAssumption
    DEF StartPrompt, Inv, TypeOK, Placed, Exclusive, Moved, Ended, All, Holding, Deleting
  <1>5. Journalled' /\ Recovered'
    BY <1>1, ConstantsAssumption DEF StartPrompt, Inv, TypeOK, Journalled, Recovered, Moved, Ended, All, stores
  <1> QED BY <1>3, <1>4, <1>5 DEF Inv

LEMMA EndPromptKeeps == ASSUME Inv, NEW t \in Threads, EndPrompt(t) PROVE Inv'
  <1>1. Ended(t)
    BY EndEnds DEF EndPrompt, Inv, All
  <1>2. TypeOK'
    BY <1>1 DEF EndPrompt, Inv, TypeOK, Ended, All, stores, pi, history
  <1>3. Placed' /\ Exclusive'
    BY <1>1, ConstantsAssumption DEF EndPrompt, Inv, TypeOK, Placed, Exclusive, Ended, All, Holding, Deleting
  <1>4. Journalled' /\ Recovered'
    BY <1>1, ConstantsAssumption DEF EndPrompt, Inv, TypeOK, Journalled, Recovered, Ended, All, stores
  <1> QED BY <1>2, <1>3, <1>4 DEF Inv

LEMMA ReserveKeeps == ASSUME Inv, NEW t \in Threads, Reserve(t) PROVE Inv'
  <1> DEFINE s == thread[t].s
  <1>1. /\ thread[t].step = "work" /\ s \in Sessions /\ status = "serving"
        /\ s \notin lifecycle /\ entry[s] = thread[t].e
    BY DEF Reserve, Inv, Placed
  <1>2. \/ Ended(t) /\ lifecycle' = lifecycle
        \/ /\ Moved(t, "attach") /\ lifecycle' = lifecycle \cup {s}
           /\ Holders(s, thread[t].e) = {t}
    BY GoMoves, EndEnds DEF Reserve, Inv, All, Steps
  <1>3. ASSUME NEW u \in Threads, u # t, thread[u].s = s, thread[u].step \in {"work", "running"},
               Holders(s, thread[t].e) = {t}
        PROVE  FALSE
    <2>1. thread[u].e = thread[t].e
      BY <1>1, <1>3 DEF Inv, Placed
    <2>2. u \in Holders(s, thread[t].e)
      BY <2>1, <1>3 DEF Holders
    <2> QED BY <1>3, <2>2
  <1>4. journal[s] = None
    BY <1>1 DEF Inv, Recovered
  <1> HIDE DEF s
  <1>5. TypeOK'
    BY <1>1, <1>2 DEF Reserve, Inv, TypeOK, Moved, Ended, All, stores, pi, history
  <1>6. Placed'
    BY <1>1, <1>2, <1>3, ConstantsAssumption DEF s, Reserve, Inv, TypeOK, Placed, Moved, Ended, All, Deleting
  <1>7. Exclusive'
    BY <1>1, <1>2, ConstantsAssumption DEF Reserve, Inv, TypeOK, Exclusive, Moved, Ended, All, Holding, Deleting
  <1>8. Journalled' /\ Recovered'
    BY <1>1, <1>2, <1>4, ConstantsAssumption
    DEF s, Reserve, Inv, TypeOK, Journalled, Recovered, Moved, Ended, All, stores
  <1> QED BY <1>5, <1>6, <1>7, <1>8 DEF Inv

LEMMA LeaseKeeps == ASSUME Inv, NEW s \in Sessions, Lease(s) PROVE Inv'
  <1>1. /\ entry' \in [Sessions -> 0..MaxEntries]
        /\ \A r \in Sessions : entry'[r] = entry[r] \/ entry[r] = 0
    BY FreshName DEF Lease, Make, Inv, TypeOK
  <1>2. TypeOK'
    BY <1>1 DEF Lease, Inv, TypeOK, stores, pi, history
  <1>3. Placed' /\ Exclusive'
    BY <1>1 DEF Lease, Inv, TypeOK, Placed, Exclusive
  <1>4. Journalled' /\ Recovered'
    BY DEF Lease, Inv, Journalled, Recovered, stores
  <1> QED BY <1>2, <1>3, <1>4 DEF Inv

LEMMA EvictKeeps == ASSUME Inv, NEW s \in Sessions, Evict(s) PROVE Inv'
  <1>1. TypeOK'
    BY ConstantsAssumption DEF Evict, Inv, TypeOK, stores, pi, history
  <1>2. Placed'
    <2>1. \A t \in Threads : thread[t].step \in {"work", "running"} => thread[t].s # s
      BY DEF Evict, Holders, Inv, Placed
    <2> QED BY <2>1 DEF Evict, Inv, TypeOK, Placed
  <1>3. Exclusive'
    BY DEF Evict, Inv, Exclusive
  <1>4. Journalled' /\ Recovered'
    BY DEF Evict, Inv, Journalled, Recovered, stores
  <1> QED BY <1>1, <1>2, <1>3, <1>4 DEF Inv

-----------------------------------------------------------------------------
(* The steps of a deletion, by Delete or by the recovery. *)

\* A deletion goes on or ends, and leaves the other sessions alone.  It gives the
\* session back only when its record is gone.
DeletionStep(t) ==
    LET s == thread[t].s
    IN /\ status' = status /\ todo' = todo
       /\ \A u \in All : u # t => thread'[u] = thread[u]
       /\ \/ thread'[t].step = "idle"
          \/ /\ thread'[t].s = s
             /\ thread'[t].step \in Deleting /\ (t = Starter => thread'[t].step \in Resuming)
       /\ \A r \in Sessions : r # s => entry'[r] = entry[r] /\ journal'[r] = journal[r]
       /\ \/ lifecycle' = lifecycle
          \/ lifecycle' = lifecycle \ {s} /\ thread'[t].step = "idle" /\ journal'[s] = None
       /\ \/ failed' = failed /\ (thread'[t].step = "idle" /\ t = Starter => journal'[s] = None)
          \/ failed' /\ t = Starter
       /\ thread'[t].step \in {"call", "answer", "confirm"} => journal'[s] # None
       /\ thread'[t].step # "attach"
       /\ thread'[t].step = "finish" /\ thread'[t].ok => journal'[s] = None
       /\ thread'[t].step = "request" \/ (thread'[t].step = "call" /\ thread'[t].pinned) =>
            thread'[t].at \in Agents

LEMMA DeletionStepKeeps ==
    ASSUME Inv, TypeOK', NEW t \in All, thread[t].step \in Deleting, DeletionStep(t)
    PROVE  Inv'
  <1> DEFINE s == thread[t].s
  <1>1. /\ s \in Sessions /\ thread[t].step # "idle"
        /\ t \in Threads => status = "serving" /\ s \in lifecycle /\ thread[Starter].step = "idle"
        /\ t = Starter => status = "recovering" /\ \A u \in Threads : thread[u].step = "idle"
    BY DEF Inv, Placed, Recovered, All, Deleting
  <1>2. \A u \in Threads : u # t /\ thread[u].s = s => thread[u].step \notin Holding \cup {"running"}
    <2>1. \A u \in Threads : thread[u].step \in {"work", "running"} => thread[u].s # s \/ t = Starter
      BY <1>1 DEF Inv, Placed, All
    <2> QED BY <1>1, <2>1 DEF Inv, Exclusive, All, Holding, Deleting
  <1>3. Placed'
    BY <1>1, <1>2, ConstantsAssumption DEF DeletionStep, Inv, Placed, All, Holding, Deleting
  <1>4. Exclusive'
    BY <1>1, <1>2, ConstantsAssumption DEF DeletionStep, Inv, Exclusive, All, Holding, Deleting
  <1>5. Journalled'
    BY <1>1, <1>2, ConstantsAssumption DEF DeletionStep, Inv, Journalled, All, Holding, Deleting, Placed
  <1>6. Recovered'
    <2>1. CASE t = Starter
      <3>1. \A r \in todo : r # s
        BY <1>1, <2>1 DEF Inv, Recovered
      <3>2. /\ status' = "recovering" /\ todo' = todo /\ \A r \in Sessions : r # s => journal'[r] = journal[r]
            /\ \/ thread'[Starter].step = "idle"
               \/ thread'[Starter].s = s /\ thread'[Starter].step \in Resuming
        BY <1>1, <2>1 DEF DeletionStep
      <3>3. ~failed' => ~failed /\ (thread'[Starter].step = "idle" => journal'[s] = None)
        BY <2>1 DEF DeletionStep
      <3>4. todo \subseteq Sessions
        BY DEF Inv, TypeOK
      <3>5. ASSUME ~failed', NEW r \in Sessions, journal'[r] # None
            PROVE  r \in todo \/ (thread'[Starter].step # "idle" /\ thread'[Starter].s = r)
        BY <1>1, <2>1, <3>2, <3>3, <3>5 DEF Inv, Recovered, Resuming
      <3>6. ASSUME NEW r \in todo
            PROVE  journal'[r] # None /\ (thread'[Starter].step # "idle" => thread'[Starter].s # r)
        BY <1>1, <2>1, <3>1, <3>2, <3>4 DEF Inv, Recovered, Resuming
      <3> QED BY <1>1, <3>2, <3>5, <3>6 DEF Recovered
    <2>2. CASE t \in Threads
      BY <1>1, <2>2, ConstantsAssumption DEF DeletionStep, Inv, Recovered, All
    <2> QED BY <2>1, <2>2 DEF All
  <1> QED BY <1>3, <1>4, <1>5, <1>6 DEF Inv

LEMMA AttachForDeleteKeeps == ASSUME Inv, NEW t \in All, AttachForDelete(t) PROVE Inv'
  <1>1. thread[t].step = "attach" /\ t \in Threads
    BY DEF AttachForDelete, Inv, Recovered, Resuming, All
  <1>2. journal[thread[t].s] = None
    BY <1>1 DEF Inv, Journalled
  <1>3. \/ /\ thread' = [thread EXCEPT ![t].step = "request", ![t].at = agent, ![t].pinned = TRUE]
           /\ agent \in Agents /\ lifecycle' = lifecycle /\ faults' = faults
        \/ Ended(t) /\ lifecycle' = lifecycle \ {thread[t].s} /\ faults' \in 0..MaxFaults
    <2>1. CASE /\ MayAttach(thread[t].s)
               /\ thread' = [thread EXCEPT ![t].step = "request", ![t].at = agent, ![t].pinned = TRUE]
               /\ UNCHANGED <<lifecycle, faults>>
      BY <2>1 DEF MayAttach, Inv, TypeOK
    <2>2. CASE Spend(~MayAttach(thread[t].s)) /\ End(t) /\ lifecycle' = lifecycle \ {thread[t].s}
      <3>1. MayAttach(thread[t].s) \in BOOLEAN
        BY DEF MayAttach
      <3> QED BY <2>2, <3>1, EndEnds, SpendKeeps DEF Inv
    <2> QED BY <2>1, <2>2 DEF AttachForDelete
  <1>4. TypeOK'
    BY <1>3 DEF AttachForDelete, Inv, TypeOK, Ended, All, Thread, Steps, stores, pi, history
  <1>5. DeletionStep(t)
    BY <1>1, <1>2, <1>3, ConstantsAssumption
    DEF AttachForDelete, DeletionStep, Inv, TypeOK, Ended, All, Thread, Deleting, stores
  <1> QED BY <1>1, <1>4, <1>5, DeletionStepKeeps DEF Deleting

LEMMA RequestKeeps == ASSUME Inv, NEW t \in All, Request(t) PROVE Inv'
  <1> DEFINE s == thread[t].s
             at == thread[t].at
  <1>1. thread[t].step = "request" /\ t \in Threads /\ s \in Sessions /\ at \in Agents
    BY DEF Request, Inv, Placed, Journalled, Recovered, Resuming, All
  <1>2. PICK outcome \in Outcomes :
          /\ IF journal[s] = None
             THEN WriteJournal(s, [agent |-> at, phase |-> "requested"], outcome)
             ELSE outcome = "ok" /\ UNCHANGED <<journal, faults>>
          /\ requestedAt' = [requestedAt EXCEPT ![s] = @ \cup {at}]
          /\ IF outcome = "ok" /\ (journal[s] = None \/ journal[s].agent = at)
             THEN Go(t, "call") /\ UNCHANGED <<lifecycle, failed>>
             ELSE GiveUp(t)
    BY DEF Request
  <1>3. /\ journal' \in [Sessions -> Record \cup {None}] /\ faults' \in 0..MaxFaults
        /\ \A r \in Sessions : r # s => journal'[r] = journal[r]
        /\ outcome = "ok" => journal'[s] # None
    <2>1. CASE journal[s] = None
      <3> DEFINE record == [agent |-> at, phase |-> "requested"]
      <3>1. record \in Record /\ record # None
        BY <1>1, ConstantsAssumption DEF Record
      <3> HIDE DEF record
      <3> QED BY <1>1, <1>2, <2>1, <3>1, JournalWrites DEF Wrote, Inv, record
    <2>2. CASE journal[s] # None
      BY <1>2, <2>2 DEF Inv, TypeOK
    <2> QED BY <2>1, <2>2
  <1>4. /\ (Moved(t, "call") /\ outcome = "ok") \/ Ended(t)
        /\ lifecycle' = lifecycle /\ failed' = failed
    BY <1>1, <1>2, ConstantsAssumption, GoMoves, GiveUpEnds DEF Inv, Steps, All
  <1>5. requestedAt' \in [Sessions -> SUBSET Agents]
    BY <1>1, <1>2 DEF Inv, TypeOK
  <1>6. TypeOK'
    BY <1>3, <1>4, <1>5 DEF Request, Inv, TypeOK, Moved, Ended, All, pi
  <1>7. DeletionStep(t)
    BY <1>1, <1>3, <1>4, ConstantsAssumption DEF Request, DeletionStep, Inv, Moved, Ended, All, Deleting
  <1> QED BY <1>1, <1>6, <1>7, DeletionStepKeeps DEF Deleting

LEMMA CallPiKeeps == ASSUME Inv, NEW t \in All, CallPi(t) PROVE Inv'
  <1>1. thread[t].step = "call" /\ thread[t].s \in Sessions /\ journal[thread[t].s] # None
    BY DEF CallPi, Inv, Placed, Journalled, Recovered, All
  <1>2. \/ /\ Moved(t, "answer") /\ lifecycle' = lifecycle /\ failed' = failed
           /\ wire' = wire \cup {[agent |-> thread[t].at, s |-> thread[t].s, live |-> TRUE]}
           /\ thread[t].at \in Agents
        \/ /\ Ended(t) /\ lifecycle' = lifecycle /\ failed' \in BOOLEAN
           /\ (t # Starter => failed' = failed) /\ (t = Starter => failed')
           /\ wire' = wire
    BY <1>1, GoMoves, GiveUpEnds DEF CallPi, Inv, Steps, Journalled, All
  <1>3. wire' \subseteq Message
    <2> DEFINE m == [agent |-> thread[t].at, s |-> thread[t].s, live |-> TRUE]
    <2>1. thread[t].at \in Agents => m \in Message
      BY <1>1 DEF Message
    <2> HIDE DEF m
    <2> QED BY <1>2, <2>1 DEF m, Inv, TypeOK
  <1>4. TypeOK'
    BY <1>1, <1>2, <1>3 DEF CallPi, Inv, TypeOK, Moved, Ended, All, stores, history
  <1>5. DeletionStep(t)
    BY <1>1, <1>2, ConstantsAssumption
    DEF CallPi, DeletionStep, Inv, Moved, Ended, All, Deleting, Resuming, stores
  <1> QED BY <1>1, <1>4, <1>5, DeletionStepKeeps DEF Deleting

LEMMA AnsweredKeeps == ASSUME Inv, NEW t \in All, Answered(t) PROVE Inv'
  <1>1. thread[t].step = "answer" /\ thread[t].s \in Sessions /\ journal[thread[t].s] # None
    BY DEF Answered, Inv, Placed, Journalled, Recovered, All
  <1>2. \/ Moved(t, "confirm") /\ lifecycle' = lifecycle /\ failed' = failed
        \/ /\ Ended(t) /\ lifecycle' = lifecycle /\ failed' \in BOOLEAN
           /\ (t # Starter => failed' = failed) /\ (t = Starter => failed')
    BY GoMoves, GiveUpEnds DEF Answered, Inv, Steps
  <1>3. TypeOK'
    BY <1>2 DEF Answered, Inv, TypeOK, Moved, Ended, All, stores, pi, history
  <1>4. DeletionStep(t)
    BY <1>1, <1>2, ConstantsAssumption
    DEF Answered, DeletionStep, Inv, Moved, Ended, All, Deleting, Resuming, stores
  <1> QED BY <1>1, <1>3, <1>4, DeletionStepKeeps DEF Deleting

LEMMA ConfirmKeeps == ASSUME Inv, NEW t \in All, Confirm(t) PROVE Inv'
  <1> DEFINE s == thread[t].s
  <1>1. thread[t].step = "confirm" /\ s \in Sessions /\ journal[s] \in Record /\ journal[s] # None
    BY DEF Confirm, Inv, TypeOK, Placed, Journalled, Recovered, All
  <1>2. PICK outcome \in Outcomes :
          /\ IF journal[s].phase = "confirmed" THEN outcome = "ok" /\ UNCHANGED <<journal, faults>>
             ELSE WriteJournal(s, [journal[s] EXCEPT !.phase = "confirmed"], outcome)
          /\ IF outcome # "ok" /\ t = Starter THEN GiveUp(t)
             ELSE /\ thread' = [thread EXCEPT ![t].step = IF t = Starter THEN "records" ELSE "drop",
                                              ![t].ok = outcome = "ok"]
                  /\ UNCHANGED <<lifecycle, failed>>
    BY DEF Confirm
  <1>3. /\ journal' \in [Sessions -> Record \cup {None}] /\ faults' \in 0..MaxFaults
        /\ \A r \in Sessions : r # s => journal'[r] = journal[r]
    <2>1. CASE journal[s].phase = "confirmed"
      BY <1>2, <2>1 DEF Inv, TypeOK
    <2>2. CASE journal[s].phase # "confirmed"
      <3> DEFINE record == [journal[s] EXCEPT !.phase = "confirmed"]
      <3>1. record \in Record
        BY <1>1 DEF Record
      <3>2. WriteJournal(s, record, outcome)
        BY <1>2, <2>2
      <3> HIDE DEF record
      <3> QED BY <1>1, <3>1, <3>2, JournalWrites DEF Wrote, Inv
    <2> QED BY <2>1, <2>2
  <1>4. \/ /\ Ended(t) /\ lifecycle' = lifecycle /\ failed' \in BOOLEAN /\ t = Starter /\ failed'
        \/ /\ thread' \in [All -> Thread] /\ \A u \in All : u # t => thread'[u] = thread[u]
           /\ thread'[t].s = s /\ thread'[t].step \in {"drop", "records"}
           /\ t = Starter => thread'[t].step = "records"
           /\ lifecycle' = lifecycle /\ failed' = failed
    <2>1. CASE outcome # "ok" /\ t = Starter
      BY <1>2, <2>1, GiveUpEnds DEF Inv
    <2>2. CASE ~(outcome # "ok" /\ t = Starter)
      <3> DEFINE step == IF t = Starter THEN "records" ELSE "drop"
                 fine == outcome = "ok"
      <3>1. step \in Steps /\ fine \in BOOLEAN /\ step \in {"drop", "records"} /\ (t = Starter => step = "records")
        BY DEF Steps
      <3>2. thread' = [thread EXCEPT ![t].step = step, ![t].ok = fine]
            /\ lifecycle' = lifecycle /\ failed' = failed
        BY <1>2, <2>2
      <3> HIDE DEF step, fine
      <3> QED BY <3>1, <3>2 DEF Inv, TypeOK, All, Thread
    <2> QED BY <2>1, <2>2
  <1>5. TypeOK'
    BY <1>3, <1>4 DEF Confirm, Inv, TypeOK, Ended, All, pi, history
  <1>6. DeletionStep(t)
    BY <1>1, <1>3, <1>4, ConstantsAssumption DEF Confirm, DeletionStep, Inv, Ended, All, Deleting, Resuming
  <1> QED BY <1>1, <1>5, <1>6, DeletionStepKeeps DEF Deleting

LEMMA DropEntryKeeps == ASSUME Inv, NEW t \in All, DropEntry(t) PROVE Inv'
  <1>1. thread[t].step = "drop" /\ t \in Threads /\ Moved(t, "records")
    BY GoMoves DEF DropEntry, Inv, Recovered, Resuming, All, Steps
  <1>2. entry' \in [Sessions -> 0..MaxEntries]
    <2>1. 0 \in 0..MaxEntries
      BY ConstantsAssumption
    <2> QED BY <2>1 DEF DropEntry, Inv, TypeOK
  <1>3. TypeOK'
    BY <1>1, <1>2 DEF DropEntry, Inv, TypeOK, Moved, All, stores, pi, history
  <1>4. DeletionStep(t)
    BY <1>1, ConstantsAssumption DEF DropEntry, DeletionStep, Inv, TypeOK, Moved, All, Deleting, stores
  <1> QED BY <1>1, <1>3, <1>4, DeletionStepKeeps DEF Deleting

\* The cleanup goes on to its next store, and remembers what failed.
LEMMA ProceedMoves ==
    ASSUME TypeOK, NEW t \in All, NEW step \in Steps, NEW ok \in BOOLEAN, Proceed(t, step, ok)
    PROVE  /\ thread' \in [All -> Thread] /\ \A u \in All : u # t => thread'[u] = thread[u]
           /\ thread'[t].s = thread[t].s /\ thread'[t].step = step
           /\ thread'[t].ok => ok
           /\ thread'[t].answer = thread[t].answer
  BY DEF Proceed, TypeOK, All, Thread

LEMMA ForgetRecordKeeps == ASSUME Inv, NEW t \in All, ForgetRecord(t) PROVE Inv'
  <1>1. thread[t].step = "records" /\ thread[t].s \in Sessions
    BY DEF ForgetRecord, Inv, Placed, Recovered, All
  <1>2. PICK r \in Forgotten(records, thread[t].s) :
          Spend(r.ok) /\ records' = r.store /\ Proceed(t, "objective", r.ok)
    BY DEF ForgetRecord
  <1>3. records' \in Store /\ r.ok \in BOOLEAN /\ faults' \in 0..MaxFaults
    BY <1>1, <1>2, ForgottenStore, SpendKeeps DEF Inv, TypeOK
  <1>4. /\ thread' \in [All -> Thread] /\ \A u \in All : u # t => thread'[u] = thread[u]
        /\ thread'[t].s = thread[t].s /\ thread'[t].step = "objective"
    BY <1>2, <1>3, ProceedMoves DEF Inv, Steps
  <1>5. TypeOK'
    BY <1>3, <1>4 DEF ForgetRecord, Inv, TypeOK, All, pi, history
  <1>6. DeletionStep(t)
    BY <1>1, <1>4 DEF ForgetRecord, DeletionStep, All, Deleting, Resuming
  <1> QED BY <1>1, <1>5, <1>6, DeletionStepKeeps DEF Deleting

LEMMA ForgetObjectiveKeeps == ASSUME Inv, NEW t \in All, ForgetObjective(t) PROVE Inv'
  <1>1. thread[t].step = "objective" /\ thread[t].s \in Sessions
    BY DEF ForgetObjective, Inv, Placed, Recovered, All
  <1>2. PICK r \in Removals(objectives, thread[t].s) :
          Spend(r.ok) /\ objectives' = r.store /\ Proceed(t, "queue", r.ok)
    BY DEF ForgetObjective
  <1>3. objectives' \in Store /\ r.ok \in BOOLEAN /\ faults' \in 0..MaxFaults
    BY <1>1, <1>2, RemovalsStore, SpendKeeps DEF Inv, TypeOK
  <1>4. /\ thread' \in [All -> Thread] /\ \A u \in All : u # t => thread'[u] = thread[u]
        /\ thread'[t].s = thread[t].s /\ thread'[t].step = "queue"
    BY <1>2, <1>3, ProceedMoves DEF Inv, Steps
  <1>5. TypeOK'
    BY <1>3, <1>4 DEF ForgetObjective, Inv, TypeOK, All, pi, history
  <1>6. DeletionStep(t)
    BY <1>1, <1>4 DEF ForgetObjective, DeletionStep, All, Deleting, Resuming
  <1> QED BY <1>1, <1>5, <1>6, DeletionStepKeeps DEF Deleting

LEMMA ForgetQueueKeeps == ASSUME Inv, NEW t \in All, ForgetQueue(t) PROVE Inv'
  <1>1. thread[t].step = "queue" /\ thread[t].s \in Sessions
    BY DEF ForgetQueue, Inv, Placed, Recovered, All
  <1>2. PICK r \in Forgotten(queues, thread[t].s) :
          Spend(r.ok) /\ queues' = r.store /\ Proceed(t, "forget", r.ok)
    BY DEF ForgetQueue
  <1>3. queues' \in Store /\ r.ok \in BOOLEAN /\ faults' \in 0..MaxFaults
    BY <1>1, <1>2, ForgottenStore, SpendKeeps DEF Inv, TypeOK
  <1>4. /\ thread' \in [All -> Thread] /\ \A u \in All : u # t => thread'[u] = thread[u]
        /\ thread'[t].s = thread[t].s /\ thread'[t].step = "forget"
    BY <1>2, <1>3, ProceedMoves DEF Inv, Steps
  <1>5. TypeOK'
    BY <1>3, <1>4 DEF ForgetQueue, Inv, TypeOK, All, pi, history
  <1>6. DeletionStep(t)
    BY <1>1, <1>4 DEF ForgetQueue, DeletionStep, All, Deleting, Resuming
  <1> QED BY <1>1, <1>5, <1>6, DeletionStepKeeps DEF Deleting

LEMMA ForgetDeletionKeeps == ASSUME Inv, NEW t \in All, ForgetDeletion(t) PROVE Inv'
  <1> DEFINE s == thread[t].s
  <1>1. thread[t].step = "forget" /\ s \in Sessions
    BY DEF ForgetDeletion, Inv, Placed, Recovered, All
  <1>2. /\ journal' \in [Sessions -> Record \cup {None}] /\ faults' \in 0..MaxFaults
        /\ \A r \in Sessions : r # s => journal'[r] = journal[r]
        /\ thread' \in [All -> Thread] /\ \A u \in All : u # t => thread'[u] = thread[u]
        /\ thread'[t].s = s /\ thread'[t].step = "finish" /\ (thread'[t].ok => journal'[s] = None)
        /\ forgotten' \subseteq Sessions
    <2>1. CASE ~thread[t].ok
      BY <1>1, <2>1, GoMoves DEF ForgetDeletion, Inv, TypeOK, Moved, Steps
    <2>2. CASE thread[t].ok
      <3>1. PICK outcome \in Outcomes :
              /\ WriteJournal(s, None, outcome)
              /\ forgotten' = IF outcome \in {"ok", "late"} THEN forgotten \cup {s} ELSE forgotten
              /\ Proceed(t, "finish", outcome = "ok")
        BY <2>2 DEF ForgetDeletion
      <3>2. Wrote(s, None, outcome)
        BY <1>1, <3>1, JournalWrites DEF Inv
      <3> DEFINE fine == outcome = "ok"
      <3>3. fine \in BOOLEAN /\ Proceed(t, "finish", fine) /\ (fine => journal'[s] = None)
        BY <3>1, <3>2 DEF Wrote
      <3> HIDE DEF fine
      <3>4. /\ thread' \in [All -> Thread] /\ \A u \in All : u # t => thread'[u] = thread[u]
            /\ thread'[t].s = s /\ thread'[t].step = "finish" /\ (thread'[t].ok => journal'[s] = None)
        BY <3>3, ProceedMoves DEF Inv, Steps
      <3> QED BY <1>1, <3>1, <3>2, <3>4 DEF Wrote, Inv, TypeOK
    <2> QED BY <2>1, <2>2
  <1>3. TypeOK'
    BY <1>2 DEF ForgetDeletion, Inv, TypeOK, All, pi
  <1>4. DeletionStep(t)
    BY <1>1, <1>2 DEF ForgetDeletion, DeletionStep, All, Deleting, Resuming
  <1> QED BY <1>1, <1>3, <1>4, DeletionStepKeeps DEF Deleting

LEMMA FinishKeeps == ASSUME Inv, NEW t \in All, Finish(t) PROVE Inv'
  <1>1. thread[t].step = "finish" /\ (thread[t].ok => journal[thread[t].s] = None)
    BY DEF Finish, Inv, Journalled, All
  <1>2. /\ Ended(t) /\ failed' \in BOOLEAN
        /\ \/ /\ lifecycle' = lifecycle \ {thread[t].s} /\ failed' = failed /\ journal[thread[t].s] = None
           \/ /\ lifecycle' = lifecycle /\ (t # Starter => failed' = failed) /\ (t = Starter => failed')
    BY <1>1, GiveUpEnds, EndEnds DEF Finish, Inv, TypeOK
  <1>3. TypeOK'
    BY <1>2 DEF Finish, Inv, TypeOK, Ended, All, stores, pi, history
  <1>4. DeletionStep(t)
    BY <1>1, <1>2, ConstantsAssumption DEF Finish, DeletionStep, Ended, All, Deleting, stores
  <1> QED BY <1>1, <1>3, <1>4, DeletionStepKeeps DEF Deleting

-----------------------------------------------------------------------------
(* The process, Pi, and the connection. *)

LEMMA StartKeeps == ASSUME Inv, Start PROVE Inv'
  <1>1. thread[Starter].step = "idle" /\ \A t \in Threads : thread[t].step = "idle"
    BY DEF Start, Inv, Placed, Recovered
  <1>2. TypeOK'
    BY DEF Start, Inv, TypeOK, stores, pi, history
  <1>3. Placed' /\ Exclusive'
    BY <1>1 DEF Start, Inv, Placed, Exclusive, Deleting, Holding
  <1>4. Journalled' /\ Recovered'
    BY <1>1 DEF Start, Inv, Journalled, Recovered, stores
  <1> QED BY <1>2, <1>3, <1>4 DEF Inv

LEMMA RecoverNextKeeps == ASSUME Inv, RecoverNext PROVE Inv'
  <1>1. /\ status = "recovering" /\ thread[Starter].step = "idle"
        /\ \A t \in Threads : thread[t].step = "idle"
    BY DEF RecoverNext, Inv, Placed
  <1>2. PICK s \in todo :
          /\ todo' = todo \ {s}
          /\ \/ /\ journal[s].phase = "confirmed" \/ MayResume(s)
                /\ thread' = [thread EXCEPT ![Starter] = [Idle EXCEPT !.kind = "delete", !.s = s, !.at = agent,
                       !.step = IF journal[s].phase = "confirmed" THEN "records" ELSE "call",
                       !.pinned = journal[s].phase = "requested"]]
                /\ UNCHANGED <<failed, faults>>
             \/ /\ journal[s].phase = "requested"
                /\ Spend(agent # None /\ ~MayResume(s))
                /\ failed' = TRUE /\ UNCHANGED thread
    BY DEF RecoverNext
  <1>3. s \in Sessions /\ journal[s] # None /\ journal[s] \in Record
    BY <1>1 DEF Inv, TypeOK, Recovered
  <1>4. \/ /\ thread' \in [All -> Thread] /\ \A t \in Threads : thread'[t] = thread[t]
           /\ thread'[Starter].s = s /\ thread'[Starter].step \in {"call", "records"}
           /\ thread'[Starter].step = "call" => thread'[Starter].at \in Agents
           /\ failed' = failed /\ faults' = faults
        \/ thread' = thread /\ failed' = TRUE /\ faults' \in 0..MaxFaults
    <2>1. CASE /\ journal[s].phase = "confirmed" \/ MayResume(s)
               /\ thread' = [thread EXCEPT ![Starter] = [Idle EXCEPT !.kind = "delete", !.s = s, !.at = agent,
                       !.step = IF journal[s].phase = "confirmed" THEN "records" ELSE "call",
                       !.pinned = journal[s].phase = "requested"]]
               /\ UNCHANGED <<failed, faults>>
      <3> DEFINE step == IF journal[s].phase = "confirmed" THEN "records" ELSE "call"
                 wanted == journal[s].phase = "requested"
                 new == [Idle EXCEPT !.kind = "delete", !.s = s, !.at = agent, !.step = step, !.pinned = wanted]
      <3>1. step \in {"call", "records"} /\ wanted \in BOOLEAN /\ (step = "call" => agent \in Agents)
        BY <1>3, <2>1 DEF MayResume, Inv, TypeOK
      <3>2. agent \in Agents \cup {None}
        BY DEF Inv, TypeOK
      <3>3. thread' = [thread EXCEPT ![Starter] = new] /\ failed' = failed /\ faults' = faults
        BY <2>1
      <3> HIDE DEF step, wanted
      <3>4. /\ new \in Thread /\ new.s = s /\ new.step \in {"call", "records"}
            /\ new.step = "call" => new.at \in Agents
        <4>1. s \in Sessions /\ 0 \in 0..MaxEntries
          BY <1>3, ConstantsAssumption
        <4>2. step \in Steps /\ agent \in Agents \cup {None}
          BY <3>1, <3>2 DEF Steps
        <4>3. new \in Thread
          BY <3>1, <4>1, <4>2 DEF Thread, Idle, Kinds, Answers
        <4>4. new.s = s /\ new.step = step /\ new.at = agent
          BY DEF Idle
        <4> QED BY <3>1, <4>3, <4>4
      <3> HIDE DEF new
      <3> QED BY <3>3, <3>4, ConstantsAssumption DEF Inv, TypeOK, All
    <2>2. CASE /\ Spend(agent # None /\ ~MayResume(s))
               /\ failed' = TRUE /\ UNCHANGED thread
      <3>1. (agent # None /\ ~MayResume(s)) \in BOOLEAN
        OBVIOUS
      <3> QED BY <2>2, <3>1, SpendKeeps DEF Inv
    <2> QED BY <1>2, <2>1, <2>2
  <1>5. TypeOK'
    BY <1>2, <1>4 DEF RecoverNext, Inv, TypeOK, All, stores, pi, history
  <1>6. Placed' /\ Exclusive'
    BY <1>1, <1>4 DEF Placed, Exclusive, Holding, Deleting
  <1>7. Journalled'
    BY <1>1, <1>3, <1>4 DEF RecoverNext, Inv, Journalled, stores
  <1>8. Recovered'
    <2>1. status' = "recovering" /\ journal' = journal
      BY <1>1 DEF RecoverNext, stores
    <2> QED BY <1>1, <1>2, <1>3, <1>4, <2>1 DEF Inv, Recovered, Resuming
  <1> QED BY <1>5, <1>6, <1>7, <1>8 DEF Inv

LEMMA OrphanedMessages == ASSUME TypeOK PROVE Orphaned \subseteq Message
  BY DEF TypeOK, Orphaned, Message

LEMMA RecoverEndKeeps == ASSUME Inv, RecoverEnd PROVE Inv'
  <1>1. thread[Starter].step = "idle" /\ \A t \in Threads : thread[t].step = "idle"
    BY DEF RecoverEnd, Inv, Placed
  <1>2. ~failed => \A s \in Sessions : journal[s] = None
    BY DEF RecoverEnd, Inv, Recovered
  <1>3. TypeOK'
    BY OrphanedMessages DEF RecoverEnd, Inv, TypeOK, stores, history
  <1>4. Placed' /\ Exclusive'
    BY <1>1 DEF RecoverEnd, Inv, Placed, Exclusive, Deleting, Holding
  <1>5. Journalled' /\ Recovered'
    BY <1>1, <1>2 DEF RecoverEnd, Inv, Journalled, Recovered, stores
  <1> QED BY <1>3, <1>4, <1>5 DEF Inv

LEMMA ExitKeeps == ASSUME Inv, Exit, faults' \in 0..MaxFaults PROVE Inv'
  <1>1. Idle \in Thread /\ Idle.step = "idle" /\ ~Idle.pinned
    BY ConstantsAssumption DEF Idle, Thread, Steps, Answers
  <1>2. DOMAIN thread = All
    BY DEF Inv, TypeOK, All
  <1>3. thread' \in [All -> Thread] /\ \A t \in All : thread'[t].step = "idle"
    BY <1>1, <1>2 DEF Exit
  <1>4. entry' \in [Sessions -> 0..MaxEntries]
    BY ConstantsAssumption DEF Exit
  <1>5. TypeOK'
    BY <1>3, <1>4, OrphanedMessages DEF Exit, Inv, TypeOK, All, stores, history
  <1>6. Placed' /\ Exclusive'
    BY <1>3 DEF Placed, Exclusive, Deleting, Holding, All
  <1>7. Journalled' /\ Recovered'
    BY <1>3 DEF Exit, Journalled, Recovered, All
  <1> QED BY <1>5, <1>6, <1>7 DEF Inv

\* The threads stay where they are; an answer may come, a connection may go.
LEMMA AnswersKeep ==
    ASSUME Inv, TypeOK', UNCHANGED <<status, lifecycle, entry, todo, failed, journal>>,
           \A t \in All : /\ thread'[t].step = thread[t].step /\ thread'[t].s = thread[t].s
                          /\ thread'[t].e = thread[t].e /\ thread'[t].at = thread[t].at
                          /\ thread'[t].ok = thread[t].ok /\ (thread'[t].pinned => thread[t].pinned)
    PROVE  Inv'
  <1>1. Placed' /\ Exclusive'
    BY DEF Inv, Placed, Exclusive, All
  <1>2. Journalled'
    BY DEF Inv, Journalled, All
  <1>3. Recovered'
    BY DEF Inv, Recovered, All
  <1> QED BY <1>1, <1>2, <1>3 DEF Inv

LEMMA DropKeeps == ASSUME Inv, Drop PROVE Inv'
  <1> DEFINE after(t) == [thread[t] EXCEPT !.pinned = FALSE,
                             !.answer = IF thread[t].step = "answer" /\ @ = "none" THEN "error" ELSE @]
  <1>1. DOMAIN thread = All /\ thread \in [All -> Thread]
    BY DEF Inv, TypeOK, All
  <1>2. \A t \in All : thread'[t] = after(t)
    BY <1>1 DEF Drop
  <1>3. \A t \in All : after(t) \in Thread
    <2>1. ASSUME NEW h \in Thread, NEW answer \in Answers
          PROVE  [h EXCEPT !.pinned = FALSE, !.answer = answer] \in Thread
      BY DEF Thread
    <2>2. ASSUME NEW t \in All PROVE after(t) \in Thread
      <3> DEFINE answer == IF thread[t].step = "answer" /\ thread[t].answer = "none" THEN "error" ELSE thread[t].answer
      <3>1. thread[t] \in Thread
        BY <1>1
      <3>2. answer \in Answers
        BY <3>1 DEF Thread, Answers
      <3>3. after(t) = [thread[t] EXCEPT !.pinned = FALSE, !.answer = answer]
        OBVIOUS
      <3> HIDE DEF answer, after
      <3> QED BY <2>1, <3>1, <3>2, <3>3
    <2> QED BY <2>2
  <1>4. thread' \in [All -> Thread]
    BY <1>1, <1>2, <1>3 DEF Drop
  <1>5. \A t \in All : /\ after(t).step = thread[t].step /\ after(t).s = thread[t].s
                       /\ after(t).e = thread[t].e /\ after(t).at = thread[t].at
                       /\ after(t).ok = thread[t].ok /\ ~after(t).pinned
    BY <1>1 DEF Thread
  <1> HIDE DEF after
  <1>6. faults' \in 0..MaxFaults
    BY SpendKeeps DEF Drop, Inv
  <1>7. TypeOK'
    BY <1>4, <1>6, OrphanedMessages DEF Drop, Inv, TypeOK, All, stores, history
  <1> QED BY <1>2, <1>5, <1>7, AnswersKeep DEF Drop, stores

LEMMA AnswerKeeps ==
    ASSUME TypeOK, NEW m \in Message, NEW what \in Answers, Answer(m, what)
    PROVE  /\ thread' \in [All -> Thread]
           /\ \A t \in All : /\ thread'[t].step = thread[t].step /\ thread'[t].s = thread[t].s
                             /\ thread'[t].e = thread[t].e /\ thread'[t].at = thread[t].at
                             /\ thread'[t].ok = thread[t].ok /\ thread'[t].pinned = thread[t].pinned
  <1>1. DOMAIN thread = All /\ thread \in [All -> Thread]
    BY DEF TypeOK, All
  <1>2. \A t \in All : thread'[t] = thread[t] \/ thread'[t] = [thread[t] EXCEPT !.answer = what]
    BY <1>1 DEF Answer
  <1>3. \A t \in All : [thread[t] EXCEPT !.answer = what] \in Thread
    BY <1>1 DEF Thread
  <1>4. thread' = [t \in All |-> thread'[t]]
    BY <1>1 DEF Answer
  <1>5. thread' \in [All -> Thread]
    BY <1>1, <1>2, <1>3, <1>4
  <1> QED BY <1>1, <1>2, <1>5 DEF Thread

LEMMA PerformKeeps == ASSUME Inv, NEW m \in wire, Perform(m) PROVE Inv'
  <1>1. m \in Message
    BY DEF Inv, TypeOK
  <1>2. piHas' \in [Agents -> SUBSET Sessions]
    <2>1. piHas' = [piHas EXCEPT ![m.agent] = @ \ {m.s}]
      BY DEF Perform
    <2>2. piHas \in [Agents -> SUBSET Sessions]
      BY DEF Inv, TypeOK
    <2> QED BY <2>1, <2>2
  <1>3. DoneAnswer(m) \in Answers
    BY DEF DoneAnswer, Answers
  <1>4. TypeOK'
    BY <1>1, <1>2, <1>3, AnswerKeeps DEF Perform, Inv, TypeOK, All, stores, history
  <1> QED BY <1>1, <1>3, <1>4, AnswerKeeps, AnswersKeep DEF Perform, Inv, stores

LEMMA FailKeeps == ASSUME Inv, NEW m \in wire, Fail(m) PROVE Inv'
  <1>1. m \in Message
    BY DEF Inv, TypeOK
  <1>2. piHas' \in [Agents -> SUBSET Sessions]
    <2>1. piHas' = piHas \/ piHas' = [piHas EXCEPT ![m.agent] = @ \ {m.s}]
      BY DEF Fail
    <2>2. piHas \in [Agents -> SUBSET Sessions]
      BY DEF Inv, TypeOK
    <2> QED BY <2>1, <2>2
  <1>3. "error" \in Answers /\ faults' \in 0..MaxFaults
    BY SpendKeeps DEF Answers, Fail, Inv
  <1>4. TypeOK'
    BY <1>1, <1>2, <1>3, AnswerKeeps DEF Fail, Inv, TypeOK, All, stores, history
  <1> QED BY <1>1, <1>3, <1>4, AnswerKeeps, AnswersKeep DEF Fail, Inv, stores

LEMMA LoseKeeps == ASSUME Inv, NEW m \in wire, Lose(m) PROVE Inv'
  <1>1. TypeOK'
    BY DEF Lose, Inv, TypeOK, process, stores, history
  <1> QED BY <1>1, AnswersKeep DEF Lose, process, stores

LEMMA ConnectKeeps == ASSUME Inv, NEW a \in Agents, Connect(a) PROVE Inv'
  <1>1. TypeOK'
    BY DEF Connect, Inv, TypeOK, process, stores, pi, history
  <1> QED BY <1>1, AnswersKeep DEF Connect, process, stores

-----------------------------------------------------------------------------
(* Every action keeps what was asked. *)

\* A thread learns nothing new.
Quiet(t) ==
    /\ thread'[t].answer = "gone" => thread[t].answer = "gone" /\ thread'[t].s = thread[t].s
    /\ thread'[t].step \in {"confirm", "drop", "records"} =>
         /\ thread'[t].s = thread[t].s
         /\ thread[t].step \in {"confirm", "drop"} \/ thread'[t].step = thread[t].step
    /\ thread'[t].step = "call" /\ thread'[t].pinned =>
         /\ thread[t].step = "call" /\ thread[t].pinned
         /\ thread'[t].s = thread[t].s /\ thread'[t].at = thread[t].at

LEMMA QuietMoves ==
    ASSUME NEW t \in All
    PROVE  /\ Ended(t) => \A u \in All : Quiet(u)
           /\ \A step \in Steps \ {"call", "confirm", "drop", "records"} :
                Moved(t, step) => \A u \in All : Quiet(u)
  BY DEF Ended, Moved, Quiet, All, Steps

\* More is asked for, and Pi has less.
LEMMA AskedStep ==
    ASSUME Inv, Asked,
           \A s \in Sessions : requestedAt[s] \subseteq requestedAt'[s],
           \A a \in Agents : piHas'[a] \subseteq piHas[a],
           \A m \in wire' : m.agent \in requestedAt'[m.s],
           \A s \in Sessions : journal'[s] # None =>
               \/ journal'[s] = journal[s]
               \/ journal'[s].agent \in requestedAt'[s] /\ (journal'[s].phase = "confirmed" => Gone(s)),
           \A t \in All :
               \/ Quiet(t)
               \/ /\ thread'[t].s \in Sessions
                  /\ thread'[t].step = "call" => thread'[t].at \in requestedAt'[thread'[t].s]
                  /\ thread'[t].step # "call" => Gone(thread[t].s)'
                  /\ thread'[t].answer = "gone" => Gone(thread[t].s)',
           \A s \in records.main : s \in records'.main \/ Gone(s)
    PROVE  Asked'
  <1>1. \A s \in Sessions : Gone(s) => Gone(s)'
    BY DEF Gone, Inv, TypeOK
  <1>2. ASSUME NEW t \in All
        PROVE  /\ thread'[t].step = "call" /\ thread'[t].pinned => thread'[t].at \in requestedAt'[thread'[t].s]
               /\ thread'[t].answer = "gone" \/ thread'[t].step \in {"confirm", "drop", "records"} =>
                    thread'[t].s \in Sessions /\ Gone(thread[t].s)'
    <2>1. CASE Quiet(t)
      <3>1. thread[t].step = "call" /\ thread[t].pinned =>
              thread[t].s \in Sessions /\ thread[t].at \in requestedAt[thread[t].s]
        BY DEF Inv, Placed, Recovered, Asked, All
      <3>2. thread[t].answer = "gone" \/ thread[t].step \in {"confirm", "drop", "records"} =>
              thread[t].s \in Sessions /\ Gone(thread[t].s)
        BY DEF Asked, All
      <3>3. ASSUME thread[t].s \in Sessions, Gone(thread[t].s), thread'[t].s = thread[t].s
            PROVE  Gone(thread[t].s)'
        <4>1. PICK s \in Sessions : s = thread[t].s
          BY <3>3
        <4>2. Gone(s) /\ thread'[t].s = s
          BY <3>3, <4>1
        <4>3. Gone(s)'
          BY <1>1, <4>2
        <4> QED BY <4>2, <4>3 DEF Gone
      <3> QED BY <2>1, <3>1, <3>2, <3>3 DEF Quiet
    <2>2. CASE ~Quiet(t)
      BY <2>2
    <2> QED BY <2>1, <2>2
  <1>3. \A s \in Sessions : journal'[s] # None =>
          journal'[s].agent \in requestedAt'[s] /\ (journal'[s].phase = "confirmed" => Gone(s)')
    BY <1>1 DEF Asked
  <1>4. NoOrphan'
    <2>1. \A s \in Sessions : s \notin records.main => Gone(s)
      BY DEF Asked, NoOrphan, Gone
    <2>2. \A s \in Sessions : s \notin records'.main => Gone(s)'
      BY <1>1, <2>1
    <2> QED BY <2>2 DEF NoOrphan, Gone
  <1>5. \A t \in All :
          /\ thread'[t].step = "call" /\ thread'[t].pinned => thread'[t].at \in requestedAt'[thread'[t].s]
          /\ thread'[t].answer = "gone" \/ thread'[t].step \in {"confirm", "drop", "records"} =>
               thread'[t].s \in Sessions /\ Gone(thread[t].s)'
    BY <1>2
  <1> QED BY <1>3, <1>4, <1>5 DEF Asked, All

\* Nothing is asked, answered or removed; messages may lose their connection.
LEMMA QuietKeeps ==
    ASSUME Inv, Asked, UNCHANGED <<requestedAt, piHas, records>>,
           \A m \in wire' : \E n \in wire : m.agent = n.agent /\ m.s = n.s,
           \A s \in Sessions : journal'[s] \in {journal[s], None},
           \A t \in All : Quiet(t)
    PROVE  Asked'
  <1>1. \A m \in wire' : m.agent \in requestedAt'[m.s]
    BY DEF Asked
  <1>2. /\ \A s \in Sessions : requestedAt[s] \subseteq requestedAt'[s]
        /\ \A a \in Agents : piHas'[a] \subseteq piHas[a]
        /\ \A s \in records.main : s \in records'.main \/ Gone(s)
        /\ \A s \in Sessions : journal'[s] # None => journal'[s] = journal[s]
    OBVIOUS
  <1> QED BY <1>1, <1>2, AskedStep

LEMMA OperationAsks == ASSUME Inv, Asked, NEW t \in Threads, Operation(t) PROVE Asked'
  <1> USE DEF Inv
  <1>1. TypeOK /\ t \in All /\ {"install", "work", "running", "attach"} \subseteq Steps
    BY DEF All, Steps
  <1>2. UNCHANGED <<requestedAt, piHas, records, wire, journal>>
    BY DEF Operation, Begin, ReadRecord, Install, Lock, UpdateObjective, Queue, StartPrompt, EndPrompt, Reserve,
           stores, pi, history
  <1>3. \A u \in All : Quiet(u)
    <2>1. CASE Begin(t)
      <3>1. PICK kind \in Kinds, s \in Sessions :
              LET found == entry[s] # 0 /\ s \notin lifecycle
              IN thread' = [thread EXCEPT ![t] = [Idle EXCEPT !.kind = kind, !.s = s,
                               !.step = IF found THEN "gate" ELSE "read",
                               !.e = IF found THEN entry[s] ELSE 0]]
        BY <2>1 DEF Begin
      <3>2. /\ \A u \in All : u # t => thread'[u] = thread[u]
            /\ thread'[t].step \in {"gate", "read"} /\ thread'[t].answer = "none"
        BY <1>1, <3>1 DEF TypeOK, Idle, All
      <3> QED BY <3>2 DEF Quiet
    <2>2. CASE Install(t)
      <3>1. Ended(t) \/ thread' = [thread EXCEPT ![t].step = "gate", ![t].e = entry'[thread[t].s]]
        BY <1>1, <2>2, EndEnds DEF Install
      <3>2. CASE thread' = [thread EXCEPT ![t].step = "gate", ![t].e = entry'[thread[t].s]]
        BY <1>1, <3>2 DEF TypeOK, Quiet, All, Thread
      <3> QED BY <1>1, <3>1, <3>2, QuietMoves
    <2>3. CASE ReadRecord(t) \/ Lock(t) \/ StartPrompt(t) \/ Reserve(t)
      <3>1. Moved(t, "install") \/ Moved(t, "work") \/ Moved(t, "running") \/ Moved(t, "attach") \/ Ended(t)
        BY <1>1, <2>3, GoMoves, EndEnds DEF ReadRecord, Lock, StartPrompt, Reserve
      <3> QED BY <1>1, <3>1, QuietMoves
    <2>4. CASE UpdateObjective(t) \/ Queue(t) \/ EndPrompt(t)
      BY <1>1, <2>4, EndEnds, QuietMoves DEF UpdateObjective, Queue, EndPrompt
    <2> QED BY <2>1, <2>2, <2>3, <2>4 DEF Operation
  <1> QED BY <1>2, <1>3, QuietKeeps

LEMMA DeleteAsks == ASSUME Inv, Asked, NEW t \in All, Delete(t) PROVE Asked'
  <1> DEFINE s == thread[t].s
  <1> USE DEF Inv
  <1>1. TypeOK
    OBVIOUS
  <1>2. CASE AttachForDelete(t)
    <2>1. UNCHANGED <<requestedAt, piHas, records, wire, journal>>
      BY <1>2 DEF AttachForDelete, stores, pi, history
    <2>2. Ended(t) \/ thread' = [thread EXCEPT ![t].step = "request", ![t].at = agent, ![t].pinned = TRUE]
      BY <1>1, <1>2, EndEnds DEF AttachForDelete
    <2>3. CASE thread' = [thread EXCEPT ![t].step = "request", ![t].at = agent, ![t].pinned = TRUE]
      <3>1. \A u \in All : Quiet(u)
        BY <1>1, <2>3 DEF TypeOK, Quiet, All, Thread
      <3> QED BY <2>1, <3>1, QuietKeeps
    <2> QED BY <2>1, <2>2, <2>3, QuietMoves, QuietKeeps
  <1>3. CASE Request(t)
    <2>1. thread[t].step = "request" /\ s \in Sessions /\ thread[t].at \in Agents
      BY <1>3 DEF Request, Placed, Journalled, Recovered, Resuming, All
    <2>2. PICK outcome \in Outcomes :
            /\ IF journal[s] = None
               THEN WriteJournal(s, [agent |-> thread[t].at, phase |-> "requested"], outcome)
               ELSE outcome = "ok" /\ UNCHANGED <<journal, faults>>
            /\ requestedAt' = [requestedAt EXCEPT ![s] = @ \cup {thread[t].at}]
            /\ IF outcome = "ok" /\ (journal[s] = None \/ journal[s].agent = thread[t].at)
               THEN Go(t, "call") /\ UNCHANGED <<lifecycle, failed>>
               ELSE GiveUp(t)
      BY <1>3 DEF Request
    <2>3. /\ \A r \in Sessions : requestedAt[r] \subseteq requestedAt'[r]
          /\ thread[t].at \in requestedAt'[s]
      BY <2>1, <2>2, <1>1 DEF TypeOK
    <2>4. Moved(t, "call") \/ Ended(t)
      BY <1>1, <2>2, GoMoves, GiveUpEnds DEF Steps
    <2>5. \A r \in Sessions : journal'[r] # None =>
            \/ journal'[r] = journal[r]
            \/ journal'[r].agent \in requestedAt'[r] /\ (journal'[r].phase = "confirmed" => Gone(r))
      <3> DEFINE record == [agent |-> thread[t].at, phase |-> "requested"]
      <3>1. journal' = journal \/ journal' = [journal EXCEPT ![s] = record]
        BY <2>2 DEF WriteJournal
      <3>2. record.agent = thread[t].at /\ record.phase # "confirmed"
        OBVIOUS
      <3> HIDE DEF record
      <3> QED BY <1>1, <2>1, <2>3, <3>1, <3>2 DEF TypeOK
    <2>6. \A u \in All :
            \/ Quiet(u)
            \/ /\ thread'[u].s \in Sessions
               /\ thread'[u].step = "call" => thread'[u].at \in requestedAt'[thread'[u].s]
               /\ thread'[u].step # "call" => Gone(thread[u].s)'
               /\ thread'[u].answer = "gone" => Gone(thread[u].s)'
      <3>1. CASE Ended(t)
        BY <3>1, QuietMoves
      <3>2. CASE Moved(t, "call")
        <4>1. Gone(s) => Gone(s)'
          BY <1>3, <2>1, <2>2, <2>3, <3>2 DEF Request, Gone, pi, Moved
        <4>2. thread[t].answer = "gone" => Gone(s)
          BY DEF Asked, All
        <4>3. \A u \in All : u # t => Quiet(u)
          BY <3>2 DEF Moved, Quiet
        <4>4. thread'[t].answer = "gone" => Gone(thread[t].s)'
          BY <4>1, <4>2, <3>2 DEF Moved
        <4> QED BY <2>1, <2>3, <3>2, <4>3, <4>4 DEF Moved
      <3> QED BY <2>4, <3>1, <3>2
    <2>7. wire' = wire /\ piHas' = piHas /\ records' = records
      BY <1>3 DEF Request, pi
    <2>8. \A m \in wire' : m.agent \in requestedAt'[m.s]
      BY <1>1, <2>3, <2>7 DEF Asked, TypeOK, Message
    <2> QED BY <2>3, <2>5, <2>6, <2>7, <2>8, AskedStep
  <1>4. CASE CallPi(t)
    <2>1. /\ UNCHANGED <<requestedAt, piHas, records, journal>>
          /\ thread[t].step = "call"
      BY <1>4 DEF CallPi, stores, history
    <2>2. \/ /\ Moved(t, "answer") /\ thread[t].pinned
             /\ wire' = wire \cup {[agent |-> thread[t].at, s |-> s, live |-> TRUE]}
          \/ Ended(t) /\ wire' = wire
      BY <1>1, <1>4, GoMoves, GiveUpEnds DEF CallPi, Steps
    <2>3. \A u \in All : Quiet(u)
      BY <2>2, QuietMoves DEF Steps
    <2>4. thread[t].pinned => thread[t].at \in requestedAt[s]
      BY <2>1 DEF Asked, All
    <2>5. \A m \in wire' : m.agent \in requestedAt'[m.s]
      BY <2>1, <2>2, <2>4 DEF Asked
    <2>6. /\ \A r \in Sessions : requestedAt[r] \subseteq requestedAt'[r]
          /\ \A a \in Agents : piHas'[a] \subseteq piHas[a]
          /\ \A r \in records.main : r \in records'.main \/ Gone(r)
          /\ \A r \in Sessions : journal'[r] # None => journal'[r] = journal[r]
      BY <2>1
    <2> QED BY <2>3, <2>5, <2>6, AskedStep
  <1>5. CASE Answered(t)
    <2>1. /\ UNCHANGED <<requestedAt, piHas, records, journal, wire>>
          /\ thread[t].step = "answer"
      BY <1>5 DEF Answered, stores, pi, history
    <2>2. (Moved(t, "confirm") /\ thread[t].answer = "gone") \/ Ended(t)
      BY <1>1, <1>5, GoMoves, GiveUpEnds DEF Answered, Steps
    <2>3. CASE Ended(t)
      BY <2>1, <2>3, QuietMoves, QuietKeeps
    <2>4. CASE Moved(t, "confirm") /\ thread[t].answer = "gone"
      <3>1. s \in Sessions /\ Gone(s)
        BY <2>4 DEF Asked, All
      <3>2. Gone(s)' /\ thread'[t].s = s /\ thread'[t].step # "call"
        BY <2>1, <2>4, <3>1 DEF Gone, Moved
      <3>3. \A u \in All :
              \/ Quiet(u)
              \/ /\ thread'[u].s \in Sessions
                 /\ thread'[u].step = "call" => thread'[u].at \in requestedAt'[thread'[u].s]
                 /\ thread'[u].step # "call" => Gone(thread[u].s)'
                 /\ thread'[u].answer = "gone" => Gone(thread[u].s)'
        <4>1. \A u \in All : u # t => Quiet(u)
          BY <2>4 DEF Moved, Quiet
        <4>2. Gone(thread[t].s)'
          BY <3>2
        <4> QED BY <3>1, <3>2, <4>1, <4>2
      <3>4. /\ \A r \in Sessions : requestedAt[r] \subseteq requestedAt'[r]
            /\ \A a \in Agents : piHas'[a] \subseteq piHas[a]
            /\ \A r \in records.main : r \in records'.main \/ Gone(r)
            /\ \A r \in Sessions : journal'[r] # None => journal'[r] = journal[r]
            /\ \A m \in wire' : m.agent \in requestedAt'[m.s]
        BY <2>1 DEF Asked
      <3> QED BY <3>3, <3>4, AskedStep
    <2> QED BY <2>2, <2>3, <2>4
  <1>6. CASE Confirm(t)
    <2>1. /\ UNCHANGED <<requestedAt, piHas, records, wire>>
          /\ thread[t].step = "confirm" /\ s \in Sessions /\ journal[s] # None
      BY <1>6 DEF Confirm, pi, history, Placed, Recovered, Journalled, All
    <2>2. Gone(s) /\ journal[s].agent \in requestedAt[s]
      BY <2>1 DEF Asked, All
    <2>3. PICK outcome \in Outcomes :
            /\ IF journal[s].phase = "confirmed" THEN outcome = "ok" /\ UNCHANGED <<journal, faults>>
               ELSE WriteJournal(s, [journal[s] EXCEPT !.phase = "confirmed"], outcome)
            /\ IF outcome # "ok" /\ t = Starter THEN GiveUp(t)
               ELSE /\ thread' = [thread EXCEPT ![t].step = IF t = Starter THEN "records" ELSE "drop",
                                                ![t].ok = outcome = "ok"]
                    /\ UNCHANGED <<lifecycle, failed>>
      BY <1>6 DEF Confirm
    <2>4. \A r \in Sessions : journal'[r] # None =>
            \/ journal'[r] = journal[r]
            \/ journal'[r].agent \in requestedAt'[r] /\ (journal'[r].phase = "confirmed" => Gone(r))
      <3> DEFINE record == [journal[s] EXCEPT !.phase = "confirmed"]
      <3>1. journal' = journal \/ journal' = [journal EXCEPT ![s] = record]
        BY <2>3 DEF WriteJournal
      <3>2. record.agent = journal[s].agent
        BY <1>1, <2>1 DEF TypeOK, Record
      <3> HIDE DEF record
      <3> QED BY <1>1, <2>1, <2>2, <3>1, <3>2 DEF TypeOK
    <2>5. \A u \in All : Quiet(u)
      <3>1. CASE outcome # "ok" /\ t = Starter
        BY <1>1, <2>3, <3>1, GiveUpEnds, QuietMoves
      <3>2. CASE ~(outcome # "ok" /\ t = Starter)
        <4> DEFINE step == IF t = Starter THEN "records" ELSE "drop"
                   fine == outcome = "ok"
        <4>1. step \in {"drop", "records"}
          OBVIOUS
        <4>2. thread' = [thread EXCEPT ![t].step = step, ![t].ok = fine]
          BY <2>3, <3>2
        <4> HIDE DEF step, fine
        <4>3. /\ \A u \in All : u # t => thread'[u] = thread[u]
              /\ thread'[t].step = step /\ thread'[t].s = s /\ thread'[t].answer = thread[t].answer
          BY <1>1, <4>2 DEF TypeOK, All, Thread
        <4> QED BY <2>1, <4>1, <4>3 DEF Quiet
      <3> QED BY <3>1, <3>2
    <2>6. /\ \A r \in Sessions : requestedAt[r] \subseteq requestedAt'[r]
          /\ \A a \in Agents : piHas'[a] \subseteq piHas[a]
          /\ \A r \in records.main : r \in records'.main \/ Gone(r)
          /\ \A m \in wire' : m.agent \in requestedAt'[m.s]
      BY <2>1 DEF Asked
    <2> QED BY <2>4, <2>5, <2>6, AskedStep
  <1>7. CASE DropEntry(t)
    <2>1. UNCHANGED <<requestedAt, piHas, records, wire, journal>> /\ thread[t].step = "drop" /\ Moved(t, "records")
      BY <1>1, <1>7, GoMoves DEF DropEntry, stores, pi, history, Steps
    <2>2. \A u \in All : Quiet(u)
      BY <2>1 DEF Moved, Quiet
    <2> QED BY <2>1, <2>2, QuietKeeps
  <1>8. CASE ForgetRecord(t)
    <2>1. /\ UNCHANGED <<requestedAt, piHas, wire, journal>>
          /\ thread[t].step = "records" /\ s \in Sessions
      BY <1>8 DEF ForgetRecord, pi, history, Placed, Recovered, All
    <2>2. PICK r \in Forgotten(records, s) :
            Spend(r.ok) /\ records' = r.store /\ Proceed(t, "objective", r.ok)
      BY <1>8 DEF ForgetRecord
    <2>3. Gone(s)
      BY <2>1 DEF Asked, All
    <2>4. \A x \in records.main : x \in records'.main \/ Gone(x)
      BY <2>1, <2>2, <2>3, ForgottenKeeps DEF TypeOK
    <2>5. \A u \in All : Quiet(u)
      BY <1>1, <2>1, <2>2, ProceedMoves, ForgottenStore DEF Quiet, TypeOK, Steps
    <2>6. /\ \A x \in Sessions : requestedAt[x] \subseteq requestedAt'[x]
          /\ \A a \in Agents : piHas'[a] \subseteq piHas[a]
          /\ \A x \in Sessions : journal'[x] # None => journal'[x] = journal[x]
          /\ \A m \in wire' : m.agent \in requestedAt'[m.s]
      BY <2>1 DEF Asked
    <2> QED BY <2>4, <2>5, <2>6, AskedStep
  <1>9. CASE ForgetObjective(t) \/ ForgetQueue(t) \/ ForgetDeletion(t)
    <2>1. UNCHANGED <<requestedAt, piHas, records, wire>>
      BY <1>9 DEF ForgetObjective, ForgetQueue, ForgetDeletion, pi, history
    <2>2. \A x \in Sessions : journal'[x] \in {journal[x], None}
      BY <1>1, <1>9 DEF ForgetObjective, ForgetQueue, ForgetDeletion, WriteJournal, TypeOK
    <2>3. \/ Moved(t, "finish")
          \/ \E ok \in BOOLEAN, step \in {"queue", "forget", "finish"} : Proceed(t, step, ok)
      <3>1. CASE ForgetObjective(t)
        <4>1. PICK r \in Removals(objectives, s) : Proceed(t, "queue", r.ok)
          BY <3>1 DEF ForgetObjective
        <4>2. r.ok \in BOOLEAN
          BY DEF Removals, Removed
        <4> QED BY <4>1, <4>2
      <3>2. CASE ForgetQueue(t)
        <4>1. PICK r \in Forgotten(queues, s) : Proceed(t, "forget", r.ok)
          BY <3>2 DEF ForgetQueue
        <4>2. r.ok \in BOOLEAN
          BY <1>1, <3>2, ForgottenStore DEF ForgetQueue, TypeOK, Placed, Recovered, All
        <4> QED BY <4>1, <4>2
      <3>3. CASE ForgetDeletion(t)
        <4>1. CASE ~thread[t].ok
          BY <1>1, <3>3, <4>1, GoMoves DEF ForgetDeletion, Steps
        <4>2. CASE thread[t].ok
          BY <3>3, <4>2 DEF ForgetDeletion
        <4> QED BY <4>1, <4>2
      <3> QED BY <1>9, <3>1, <3>2, <3>3
    <2>4. CASE \E ok \in BOOLEAN, step \in {"queue", "forget", "finish"} : Proceed(t, step, ok)
      <3>1. \A u \in All : Quiet(u)
        BY <1>1, <2>4, ProceedMoves DEF Quiet, Steps
      <3> QED BY <2>1, <2>2, <3>1, QuietKeeps
    <2>5. CASE Moved(t, "finish")
      <3>1. \A u \in All : Quiet(u)
        BY <2>5 DEF Moved, Quiet
      <3> QED BY <2>1, <2>2, <3>1, QuietKeeps
    <2> QED BY <2>3, <2>4, <2>5
  <1>10. CASE Finish(t)
    <2>1. UNCHANGED <<requestedAt, piHas, records, wire, journal>> /\ Ended(t)
      BY <1>1, <1>10, EndEnds, GiveUpEnds DEF Finish, stores, pi, history
    <2> QED BY <2>1, QuietMoves, QuietKeeps
  <1> QED BY <1>2, <1>3, <1>4, <1>5, <1>6, <1>7, <1>8, <1>9, <1>10 DEF Delete

LEMMA RecoverNextAsks == ASSUME Inv, Asked, RecoverNext PROVE Asked'
  <1>1. UNCHANGED <<requestedAt, piHas, records, wire, journal>> /\ status = "recovering"
    BY DEF RecoverNext, stores, pi, history
  <1>2. PICK s \in todo :
          \/ /\ journal[s].phase = "confirmed" \/ MayResume(s)
             /\ thread' = [thread EXCEPT ![Starter] = [Idle EXCEPT !.kind = "delete", !.s = s, !.at = agent,
                    !.step = IF journal[s].phase = "confirmed" THEN "records" ELSE "call",
                    !.pinned = journal[s].phase = "requested"]]
          \/ thread' = thread
    BY DEF RecoverNext
  <1>3. s \in Sessions /\ journal[s] # None
    BY <1>1 DEF Inv, TypeOK, Recovered
  <1>4. journal[s].agent \in requestedAt[s] /\ (journal[s].phase = "confirmed" => Gone(s))
    BY <1>3 DEF Asked
  <1>5. \A r \in Sessions : Gone(r) => Gone(r)'
    BY <1>1 DEF Gone
  <1>6. \A u \in All :
          \/ Quiet(u)
          \/ /\ thread'[u].s \in Sessions
             /\ thread'[u].step = "call" => thread'[u].at \in requestedAt'[thread'[u].s]
             /\ thread'[u].step # "call" => Gone(thread[u].s)'
             /\ thread'[u].answer = "gone" => Gone(thread[u].s)'
    <2>1. CASE thread' = thread
      BY <2>1 DEF Quiet
    <2>2. CASE /\ journal[s].phase = "confirmed" \/ MayResume(s)
               /\ thread' = [thread EXCEPT ![Starter] = [Idle EXCEPT !.kind = "delete", !.s = s, !.at = agent,
                      !.step = IF journal[s].phase = "confirmed" THEN "records" ELSE "call",
                      !.pinned = journal[s].phase = "requested"]]
      <3> DEFINE step == IF journal[s].phase = "confirmed" THEN "records" ELSE "call"
                 wanted == journal[s].phase = "requested"
                 new == [Idle EXCEPT !.kind = "delete", !.s = s, !.at = agent, !.step = step, !.pinned = wanted]
      <3>1. /\ step \in {"call", "records"}
            /\ step = "records" => Gone(s)
            /\ step = "call" => agent \in requestedAt[s]
        BY <1>4, <2>2 DEF MayResume
      <3>2. thread' = [thread EXCEPT ![Starter] = new]
        BY <2>2
      <3> HIDE DEF step, wanted
      <3>3. new.s = s /\ new.step = step /\ new.at = agent /\ new.answer = "none"
        BY DEF Idle
      <3> HIDE DEF new
      <3>4. thread'[Starter] = new /\ \A u \in All : u # Starter => thread'[u] = thread[u]
        BY <3>2 DEF Inv, TypeOK, All
      <3>5. step = "records" => Gone(thread[Starter].s)'
        BY <1>3, <1>5, <3>1, <3>3, <3>4 DEF Gone
      <3>6. \A u \in All : u # Starter => Quiet(u)
        BY <3>4 DEF Quiet
      <3> QED BY <1>1, <1>3, <3>1, <3>3, <3>4, <3>5, <3>6
    <2> QED BY <1>2, <2>1, <2>2
  <1>7. /\ \A r \in Sessions : requestedAt[r] \subseteq requestedAt'[r]
        /\ \A a \in Agents : piHas'[a] \subseteq piHas[a]
        /\ \A r \in records.main : r \in records'.main \/ Gone(r)
        /\ \A r \in Sessions : journal'[r] # None => journal'[r] = journal[r]
        /\ \A m \in wire' : m.agent \in requestedAt'[m.s]
    BY <1>1 DEF Asked
  <1> QED BY <1>6, <1>7, AskedStep

LEMMA OrphanedAsked == ASSUME TypeOK PROVE \A m \in Orphaned : \E n \in wire : m.agent = n.agent /\ m.s = n.s
  <1> SUFFICES ASSUME NEW m \in Orphaned PROVE \E n \in wire : m.agent = n.agent /\ m.s = n.s
    OBVIOUS
  <1>1. PICK n \in wire : m = [n EXCEPT !.live = FALSE]
    BY DEF Orphaned
  <1>2. n \in Message
    BY DEF TypeOK
  <1> QED BY <1>1, <1>2 DEF Message

LEMMA ExitAsks == ASSUME Inv, Asked, Exit PROVE Asked'
  <1>1. DOMAIN thread = All
    BY DEF Inv, TypeOK, All
  <1>2. \A t \in All : Quiet(t)
    BY <1>1 DEF Exit, Quiet, Idle
  <1>3. \A m \in wire' : \E n \in wire : m.agent = n.agent /\ m.s = n.s
    BY OrphanedAsked DEF Exit, Inv
  <1> QED BY <1>2, <1>3, QuietKeeps DEF Exit, stores, history

LEMMA DropAsks == ASSUME Inv, Asked, Drop PROVE Asked'
  <1>1. DOMAIN thread = All /\ thread \in [All -> Thread]
    BY DEF Inv, TypeOK, All
  <1>2. \A t \in All : Quiet(t)
    <2> DEFINE answer(t) == IF thread[t].step = "answer" /\ thread[t].answer = "none" THEN "error" ELSE thread[t].answer
    <2>1. \A t \in All : thread'[t] = [thread[t] EXCEPT !.pinned = FALSE, !.answer = answer(t)]
      BY <1>1 DEF Drop
    <2>2. \A t \in All : answer(t) \in {thread[t].answer, "error"}
      OBVIOUS
    <2> HIDE DEF answer
    <2>3. \A t \in All : /\ thread'[t].step = thread[t].step /\ thread'[t].s = thread[t].s
                         /\ ~thread'[t].pinned /\ thread'[t].answer = answer(t)
      <3> SUFFICES ASSUME NEW t \in All
                   PROVE  /\ thread'[t].step = thread[t].step /\ thread'[t].s = thread[t].s
                          /\ ~thread'[t].pinned /\ thread'[t].answer = answer(t)
        OBVIOUS
      <3>1. thread[t] \in Thread /\ thread'[t] = [thread[t] EXCEPT !.pinned = FALSE, !.answer = answer(t)]
        BY <1>1, <2>1
      <3> QED BY <3>1 DEF Thread
    <2> QED BY <2>2, <2>3 DEF Quiet
  <1>3. \A m \in wire' : \E n \in wire : m.agent = n.agent /\ m.s = n.s
    BY OrphanedAsked DEF Drop, Inv
  <1> QED BY <1>2, <1>3, QuietKeeps DEF Drop, stores, history

LEMMA PiAsks == ASSUME Inv, Asked, Pi PROVE Asked'
  <1>1. PICK m \in wire : Perform(m) \/ Fail(m) \/ Lose(m)
    BY DEF Pi
  <1>2. m \in Message /\ m.agent \in requestedAt[m.s]
    BY DEF Inv, TypeOK, Asked
  <1>3. UNCHANGED <<requestedAt, records, journal>> /\ wire' \subseteq wire
    BY <1>1 DEF Perform, Fail, Lose, stores, history
  <1>4. \A a \in Agents : piHas'[a] \subseteq piHas[a]
    BY <1>1, <1>2 DEF Perform, Fail, Lose, Inv, TypeOK, Message
  <1>5. \A t \in All :
          \/ Quiet(t)
          \/ /\ thread'[t].s \in Sessions
             /\ thread'[t].step = "call" => thread'[t].at \in requestedAt'[thread'[t].s]
             /\ thread'[t].step # "call" => Gone(thread[t].s)'
             /\ thread'[t].answer = "gone" => Gone(thread[t].s)'
    <2>1. CASE Lose(m)
      BY <2>1 DEF Lose, process, Quiet
    <2>2. CASE Fail(m)
      <3>1. DOMAIN thread = All /\ thread \in [All -> Thread]
        BY DEF Inv, TypeOK, All
      <3>2. \A t \in All : thread'[t] = thread[t] \/ thread'[t] = [thread[t] EXCEPT !.answer = "error"]
        BY <2>2, <3>1 DEF Fail, Answer
      <3>3. ASSUME NEW t \in All, thread'[t] = [thread[t] EXCEPT !.answer = "error"]
            PROVE  Quiet(t)
        <4>1. thread[t] \in Thread
          BY <3>1
        <4>2. /\ thread'[t].step = thread[t].step /\ thread'[t].s = thread[t].s /\ thread'[t].at = thread[t].at
              /\ thread'[t].pinned = thread[t].pinned /\ thread'[t].answer = "error"
          BY <3>3, <4>1 DEF Thread
        <4> QED BY <4>2 DEF Quiet
      <3>4. \A t \in All : thread'[t] = thread[t] => Quiet(t)
        BY DEF Quiet
      <3> QED BY <3>2, <3>3, <3>4
    <2>3. CASE Perform(m)
      <3>1. DOMAIN thread = All /\ thread \in [All -> Thread]
        BY DEF Inv, TypeOK, All
      <3>2. \A t \in All :
              \/ thread'[t] = thread[t]
              \/ Waits(t, m) /\ thread'[t] = [thread[t] EXCEPT !.answer = DoneAnswer(m)]
        BY <2>3, <3>1 DEF Perform, Answer
      <3>3. m.s \notin piHas'[m.agent]
        BY <1>2, <2>3 DEF Perform, Inv, TypeOK, Message
      <3>4. ASSUME NEW t \in All, Waits(t, m), thread'[t] = [thread[t] EXCEPT !.answer = DoneAnswer(m)]
            PROVE  /\ thread'[t].s \in Sessions /\ thread'[t].step # "call" /\ Gone(thread[t].s)'
        <4>1. thread'[t].s = m.s /\ thread'[t].step = "answer" /\ m.s \in Sessions
          BY <1>2, <3>1, <3>4 DEF Waits, Message, Thread
        <4>2. m.agent \in requestedAt'[m.s] /\ m.s \notin piHas'[m.agent]
          BY <1>2, <1>3, <3>3
        <4> QED BY <4>1, <4>2 DEF Gone
      <3>5. \A t \in All : thread'[t] = thread[t] => Quiet(t)
        BY DEF Quiet
      <3> QED BY <3>2, <3>4, <3>5
    <2> QED BY <1>1, <2>1, <2>2, <2>3
  <1>6. /\ \A s \in Sessions : requestedAt[s] \subseteq requestedAt'[s]
        /\ \A s \in records.main : s \in records'.main \/ Gone(s)
        /\ \A s \in Sessions : journal'[s] # None => journal'[s] = journal[s]
        /\ \A n \in wire' : n.agent \in requestedAt'[n.s]
    BY <1>3 DEF Asked
  <1> QED BY <1>4, <1>5, <1>6, AskedStep

LEMMA NextAsks == ASSUME Inv, Asked, [Next]_vars PROVE Asked'
  <1>1. CASE (\E s \in Sessions : Lease(s) \/ Evict(s)) \/ Start \/ RecoverEnd \/ UNCHANGED vars
             \/ \E a \in Agents : Connect(a)
    <2>1. UNCHANGED <<requestedAt, piHas, records, journal, thread>>
      BY <1>1 DEF Lease, Evict, Start, RecoverEnd, Connect, vars, process, stores, pi, history
    <2>2. wire' = wire \/ wire' = Orphaned
      BY <1>1 DEF Lease, Evict, Start, RecoverEnd, Connect, vars, pi
    <2>3. \A m \in wire' : \E n \in wire : m.agent = n.agent /\ m.s = n.s
      BY <2>2, OrphanedAsked DEF Inv
    <2>4. \A t \in All : Quiet(t)
      BY <2>1 DEF Quiet
    <2> QED BY <2>1, <2>3, <2>4, QuietKeeps
  <1>2. CASE Restart \/ Crash
    BY <1>2, ExitAsks DEF Restart, Crash
  <1> QED BY <1>1, <1>2, OperationAsks, DeleteAsks, RecoverNextAsks, DropAsks, PiAsks DEF Next, Process, All

-----------------------------------------------------------------------------

LEMMA InitInv == Init => Inv
  <1> SUFFICES ASSUME Init PROVE Inv
    OBVIOUS
  <1>1. Idle \in Thread /\ Idle.step = "idle"
    BY ConstantsAssumption DEF Idle, Thread, Steps, Answers
  <1>2. TypeOK
    <2>1. records \in Store /\ objectives \in Store /\ queues \in Store
      BY DEF Init, Store
    <2>2. 0 \in 0..MaxEntries /\ MaxFaults \in 0..MaxFaults
      BY ConstantsAssumption
    <2> QED BY <1>1, <2>1, <2>2 DEF Init, TypeOK
  <1>3. Placed /\ Exclusive /\ Journalled /\ Recovered
    BY <1>1 DEF Init, Placed, Exclusive, Journalled, Recovered, Deleting, Holding
  <1> QED BY <1>2, <1>3 DEF Inv

LEMMA DeleteKeeps == ASSUME Inv, NEW t \in All, Delete(t) PROVE Inv'
  BY AttachForDeleteKeeps, RequestKeeps, CallPiKeeps, AnsweredKeeps, ConfirmKeeps, DropEntryKeeps,
     ForgetRecordKeeps, ForgetObjectiveKeeps, ForgetQueueKeeps, ForgetDeletionKeeps, FinishKeeps DEF Delete

LEMMA NextKeeps == ASSUME Inv, [Next]_vars PROVE Inv'
  <1>1. CASE \E t \in Threads : Operation(t)
    BY <1>1, BeginKeeps, ReadRecordKeeps, InstallKeeps, LockKeeps, UpdateObjectiveKeeps, QueueKeeps,
       StartPromptKeeps, EndPromptKeeps, ReserveKeeps DEF Operation
  <1>2. CASE \E t \in All : Delete(t)
    BY <1>2, DeleteKeeps
  <1>3. CASE \E s \in Sessions : Lease(s) \/ Evict(s)
    BY <1>3, LeaseKeeps, EvictKeeps
  <1>4. CASE Process
    <2>1. CASE Restart
      BY <2>1, ExitKeeps DEF Restart, Inv, TypeOK
    <2> QED BY <1>4, <2>1, StartKeeps, RecoverNextKeeps, RecoverEndKeeps DEF Process
  <1>5. CASE Crash
    BY <1>5, ExitKeeps, SpendKeeps DEF Crash, Inv
  <1>6. CASE Drop
    BY <1>6, DropKeeps
  <1>7. CASE Pi
    BY <1>7, PerformKeeps, FailKeeps, LoseKeeps DEF Pi
  <1>8. CASE \E a \in Agents : Connect(a)
    BY <1>8, ConnectKeeps
  <1>9. CASE UNCHANGED vars
    <2>1. TypeOK'
      BY <1>9 DEF vars, process, stores, pi, history, Inv, TypeOK
    <2> QED BY <1>9, <2>1, AnswersKeep DEF vars, process, stores
  <1> QED BY <1>1, <1>2, <1>3, <1>4, <1>5, <1>6, <1>7, <1>8, <1>9 DEF Next, All

LEMMA InvHolds == Spec => []Inv
  <1>1. Inv /\ [Next]_vars => Inv'
    BY NextKeeps
  <1> QED BY InitInv, <1>1, PTL DEF Spec

LEMMA InitAsked == Init => Asked
  BY DEF Init, Asked, NoOrphan, Idle

LEMMA AskedHolds == Spec => []Asked
  <1>1. Inv /\ Asked /\ [Next]_vars => Asked'
    BY NextAsks
  <1> QED BY InitAsked, InvHolds, <1>1, PTL DEF Spec

\* The threads, the journal, the stores and what is under way at Pi stay within
\* their types (session_lifecycle.go, session_deletions.go).
THEOREM TypeCorrect == Spec => []TypeOK
  <1>1. Inv => TypeOK
    BY DEF Inv
  <1> QED BY <1>1, InvHolds, PTL

\* While the process serves, a session with a deletion in the journal is reserved,
\* and no prompt that began earlier still runs for it (beginLifecycle, lockEntry,
\* recoverDeletions), whatever fails, crashes, or is answered late.
THEOREM DeletionsReserve == Spec => []Reserved
  <1>1. Inv => Reserved
    BY DEF Inv, Reserved, Recovered, Placed
  <1> QED BY <1>1, InvHolds, PTL

\* The association of a session is removed only when an agent that the deletion was
\* requested at has deleted it (cleanupSessionDeletion), however the calls were lost,
\* repeated or answered late: no session is left at Pi that Pixie cannot find.
THEOREM NothingOrphaned == Spec => []NoOrphan
  <1>1. Asked => NoOrphan
    BY DEF Asked
  <1> QED BY <1>1, AskedHolds, PTL

\* A session is deleted only at an agent that the deletion was requested at: a new
\* agent at the next start is sent nothing (recoverDeletions, PiClient.DeleteSession).
THEOREM DeletesWhereRequested == Spec => WhereRequested
  <1>1. ASSUME Inv, Asked, [Next]_vars, NEW a \in Agents, NEW s \in Sessions, s \in piHas[a], s \notin piHas'[a]
        PROVE  a \in requestedAt[s]
    <2>1. PICK m \in wire : Perform(m) \/ Fail(m)
      BY <1>1 DEF Next, Operation, Delete, Process, Pi, Begin, ReadRecord, Install, Lock, UpdateObjective, Queue,
                  StartPrompt, EndPrompt, Reserve, AttachForDelete, Request, CallPi, Answered, Confirm, DropEntry,
                  ForgetRecord, ForgetObjective, ForgetQueue, ForgetDeletion, Finish, Lease, Evict, Start,
                  RecoverNext, RecoverEnd, Restart, Crash, Exit, Drop, Lose, Connect, vars, pi
    <2>2. piHas' = [piHas EXCEPT ![m.agent] = @ \ {m.s}] \/ piHas' = piHas
      BY <2>1 DEF Perform, Fail
    <2>3. piHas \in [Agents -> SUBSET Sessions]
      BY <1>1 DEF Inv, TypeOK
    <2>4. m.agent = a /\ m.s = s
      BY <1>1, <2>2, <2>3
    <2> QED BY <1>1, <2>4 DEF Asked
  <1>2. Inv /\ Asked /\ [Next]_vars =>
          [\A a \in Agents, s \in Sessions : s \in piHas[a] /\ s \notin piHas'[a] => a \in requestedAt[s]]_vars
    BY <1>1
  <1> QED BY <1>2, InvHolds, AskedHolds, PTL DEF Spec, WhereRequested

-----------------------------------------------------------------------------
(* What a deletion has cleaned up stays clean. *)

\* The sessions that a store, or the backup it may be read from, still has.
In(store) == store.main \cup store.bak

\* A cleanup without an error so far has left nothing behind, and the journal
\* forgets only sessions that no association brings back.
Cleaned ==
    /\ \A t \in All : thread[t].ok =>
         /\ thread[t].step \in {"objective", "queue", "forget"} => thread[t].s \notin In(records)
         /\ thread[t].step \in {"queue", "forget"} => thread[t].s \notin In(objectives)
         /\ thread[t].step = "forget" => thread[t].s \notin In(queues)
    /\ forgotten \cap records.main = {}

\* A thread does not get further with a cleanup.
Stays(t) ==
    thread'[t].step \in {"objective", "queue", "forget"} /\ thread'[t].ok =>
        thread[t].ok /\ thread'[t].step = thread[t].step /\ thread'[t].s = thread[t].s

LEMMA StaysCleaned ==
    ASSUME Cleaned, UNCHANGED <<records, objectives, queues, forgotten>>, \A t \in All : Stays(t)
    PROVE  Cleaned'
  BY DEF Cleaned, Stays, In

LEMMA MovesStay ==
    ASSUME NEW t \in All
    PROVE  /\ Ended(t) => \A u \in All : Stays(u)
           /\ \A step \in Steps \ {"objective", "queue", "forget"} :
                Moved(t, step) => \A u \in All : Stays(u)
  BY DEF Ended, Moved, Stays, All, Steps

LEMMA ForgottenIsOut ==
    ASSUME NEW store, NEW s, NEW r \in Forgotten(store, s)
    PROVE  In(r.store) \subseteq In(store) /\ r.store.main \subseteq store.main
           /\ (r.ok => s \notin In(r.store))
  <1> DEFINE out     == store.main \ {s}
             once(o) == Written(store, out, o)
  <1>1. \A o \in Outcomes : In(once(o)) \subseteq In(store) /\ once(o).main \subseteq store.main
    BY DEF Written, In
  <1>2. once("ok").main = out /\ "ok" \in Outcomes
    BY DEF Written, Outcomes
  <1>3. CASE r \in {[store |-> once(o), ok |-> FALSE] : o \in Outcomes \ {"ok"}}
    <2>1. PICK o \in Outcomes : r.store = once(o) /\ r.ok = FALSE
      BY <1>3
    <2> QED BY <1>1, <2>1
  <1>4. CASE r \in {[store |-> Written(once("ok"), out, o), ok |-> o = "ok"] : o \in Outcomes}
    <2>1. PICK o \in Outcomes : r.store = Written(once("ok"), out, o) /\ r.ok = (o = "ok")
      BY <1>4
    <2>2. In(r.store) \subseteq In(once("ok")) /\ r.store.main \subseteq once("ok").main
      BY <1>2, <2>1 DEF Written, In
    <2>3. ASSUME r.ok PROVE In(r.store) = out
      <3>1. o = "ok"
        BY <2>1, <2>3
      <3>2. r.store.main = out /\ r.store.bak = out
        BY <1>2, <2>1, <3>1 DEF Written
      <3> QED BY <3>2 DEF In
    <2> QED BY <1>1, <1>2, <2>2, <2>3
  <1> QED BY <1>3, <1>4 DEF Forgotten

LEMMA RemovedIsOut ==
    ASSUME NEW store, NEW s, NEW r \in Removals(store, s)
    PROVE  In(r.store) \subseteq In(store) /\ (r.ok => s \notin In(r.store))
  BY DEF Removals, Removed, In

\* An operation adds to a store only for the session that it holds the gate of.
LEMMA OperationCleaned == ASSUME Inv, Cleaned, NEW t \in Threads, Operation(t) PROVE Cleaned'
  <1> USE DEF Inv
  <1>1. TypeOK /\ t \in All /\ {"install", "work", "running", "attach"} \subseteq Steps
    BY DEF All, Steps
  <1>2. UNCHANGED <<records, forgotten>>
    BY DEF Operation, Begin, ReadRecord, Install, Lock, UpdateObjective, Queue, StartPrompt, EndPrompt, Reserve,
           stores, history
  <1>3. \A u \in All : Stays(u)
    <2>1. CASE Begin(t)
      <3>1. PICK kind \in Kinds, s \in Sessions :
              LET found == entry[s] # 0 /\ s \notin lifecycle
              IN thread' = [thread EXCEPT ![t] = [Idle EXCEPT !.kind = kind, !.s = s,
                               !.step = IF found THEN "gate" ELSE "read",
                               !.e = IF found THEN entry[s] ELSE 0]]
        BY <2>1 DEF Begin
      <3>2. /\ \A u \in All : u # t => thread'[u] = thread[u]
            /\ thread'[t].step \in {"gate", "read"}
        BY <1>1, <3>1 DEF TypeOK, Idle, All
      <3> QED BY <3>2 DEF Stays
    <2>2. CASE Install(t)
      <3>1. Ended(t) \/ thread' = [thread EXCEPT ![t].step = "gate", ![t].e = entry'[thread[t].s]]
        BY <1>1, <2>2, EndEnds DEF Install
      <3>2. CASE thread' = [thread EXCEPT ![t].step = "gate", ![t].e = entry'[thread[t].s]]
        BY <1>1, <3>2 DEF TypeOK, Stays, All, Thread
      <3> QED BY <1>1, <3>1, <3>2, MovesStay
    <2>3. CASE ReadRecord(t) \/ Lock(t) \/ UpdateObjective(t) \/ Queue(t) \/ StartPrompt(t) \/ EndPrompt(t) \/ Reserve(t)
      <3>1. Ended(t) \/ \E step \in {"install", "work", "running", "attach"} : Moved(t, step)
        BY <1>1, <2>3, EndEnds, GoMoves
        DEF ReadRecord, Lock, UpdateObjective, Queue, StartPrompt, EndPrompt, Reserve
      <3> QED BY <1>1, <3>1, MovesStay
    <2> QED BY <2>1, <2>2, <2>3 DEF Operation
  <1>4. CASE UpdateObjective(t) \/ Queue(t)
    <2>1. thread[t].step = "work" /\ status = "serving" /\ thread[Starter].step = "idle"
      BY <1>4 DEF UpdateObjective, Queue, Placed, Recovered
    <2>2. \A u \in All : thread[u].step \in {"objective", "queue", "forget"} => thread[u].s # thread[t].s
      BY <2>1 DEF Exclusive, Holding, Deleting, All
    <2>3. In(objectives') \subseteq In(objectives) \cup {thread[t].s}
      BY <1>4 DEF UpdateObjective, Queue, In
    <2>4. In(queues') \subseteq In(queues) \cup {thread[t].s}
      BY <1>4 DEF UpdateObjective, Queue, In, Written
    <2> QED BY <1>2, <1>3, <2>2, <2>3, <2>4 DEF Cleaned, Stays
  <1>5. CASE ~(UpdateObjective(t) \/ Queue(t))
    <2>1. UNCHANGED <<objectives, queues>>
      BY <1>5 DEF Operation, Begin, ReadRecord, Install, Lock, StartPrompt, EndPrompt, Reserve, stores
    <2> QED BY <1>2, <1>3, <2>1, StaysCleaned
  <1> QED BY <1>4, <1>5

\* A step of the cleanup goes on, and remembers that something failed.
LEMMA ProceedStays ==
    ASSUME TypeOK, NEW t \in All, NEW step \in Steps, NEW ok \in BOOLEAN, Proceed(t, step, ok)
    PROVE  /\ \A u \in All : u # t => thread'[u] = thread[u]
           /\ thread'[t].s = thread[t].s /\ thread'[t].step = step
           /\ thread'[t].ok => thread[t].ok /\ ok
  BY DEF Proceed, TypeOK, All, Thread

LEMMA DeleteCleaned == ASSUME Inv, Cleaned, NEW t \in All, Delete(t) PROVE Cleaned'
  <1> USE DEF Inv
  <1> DEFINE s == thread[t].s
  <1>1. CASE AttachForDelete(t) \/ Request(t) \/ CallPi(t) \/ Answered(t) \/ Confirm(t) \/ DropEntry(t) \/ Finish(t)
    <2>1. UNCHANGED <<records, objectives, queues, forgotten>>
      BY <1>1 DEF AttachForDelete, Request, CallPi, Answered, Confirm, DropEntry, Finish, stores, history
    <2>2. /\ \A u \in All : u # t => thread'[u] = thread[u]
          /\ thread'[t].step \notin {"objective", "queue", "forget"}
      <3>1. CASE AttachForDelete(t)
        <4>1. Ended(t) \/ thread' = [thread EXCEPT ![t].step = "request", ![t].at = agent, ![t].pinned = TRUE]
          BY <3>1, EndEnds DEF AttachForDelete
        <4> QED BY <4>1 DEF Ended, TypeOK, All, Thread
      <3>2. CASE Confirm(t)
        <4>1. PICK ok \in BOOLEAN :
                Ended(t) \/ thread' = [thread EXCEPT ![t].step = IF t = Starter THEN "records" ELSE "drop", ![t].ok = ok]
          BY <3>2, GiveUpEnds DEF Confirm
        <4> QED BY <4>1 DEF Ended, TypeOK, All, Thread
      <3>3. CASE Request(t) \/ CallPi(t) \/ Answered(t) \/ DropEntry(t) \/ Finish(t)
        <4>1. Ended(t) \/ \E step \in {"call", "answer", "confirm", "records"} : Moved(t, step)
          BY <3>3, EndEnds, GiveUpEnds, GoMoves DEF Request, CallPi, Answered, DropEntry, Finish, Steps
        <4> QED BY <4>1 DEF Ended, Moved
      <3> QED BY <1>1, <3>1, <3>2, <3>3
    <2> QED BY <2>1, <2>2, StaysCleaned DEF Stays
  <1>2. CASE ForgetRecord(t)
    <2>1. PICK r \in Forgotten(records, s) : records' = r.store /\ Proceed(t, "objective", r.ok)
      BY <1>2 DEF ForgetRecord
    <2>2. s \in Sessions /\ UNCHANGED <<objectives, queues, forgotten>>
      BY <1>2 DEF ForgetRecord, history, Placed, Recovered, All
    <2>3. r.ok \in BOOLEAN
      BY <2>2, ForgottenStore DEF TypeOK
    <2>4. /\ \A u \in All : u # t => thread'[u] = thread[u]
          /\ thread'[t].s = s /\ thread'[t].step = "objective" /\ (thread'[t].ok => r.ok)
      BY <2>1, <2>3, ProceedStays DEF Steps
    <2>5. /\ In(records') \subseteq In(records) /\ records'.main \subseteq records.main
          /\ r.ok => s \notin In(records')
      BY <2>1, ForgottenIsOut
    <2> QED BY <2>2, <2>4, <2>5 DEF Cleaned
  <1>3. CASE ForgetObjective(t)
    <2>1. PICK r \in Removals(objectives, s) : objectives' = r.store /\ Proceed(t, "queue", r.ok)
      BY <1>3 DEF ForgetObjective
    <2>2. s \in Sessions /\ UNCHANGED <<records, queues, forgotten>> /\ thread[t].step = "objective"
      BY <1>3 DEF ForgetObjective, history, Placed, Recovered, All
    <2>3. r.ok \in BOOLEAN
      BY <2>2, RemovalsStore DEF TypeOK
    <2>4. /\ \A u \in All : u # t => thread'[u] = thread[u]
          /\ thread'[t].s = s /\ thread'[t].step = "queue" /\ (thread'[t].ok => thread[t].ok /\ r.ok)
      BY <2>1, <2>3, ProceedStays DEF Steps
    <2>5. In(objectives') \subseteq In(objectives) /\ (r.ok => s \notin In(objectives'))
      BY <2>1, RemovedIsOut
    <2> QED BY <2>2, <2>4, <2>5 DEF Cleaned
  <1>4. CASE ForgetQueue(t)
    <2>1. PICK r \in Forgotten(queues, s) : queues' = r.store /\ Proceed(t, "forget", r.ok)
      BY <1>4 DEF ForgetQueue
    <2>2. s \in Sessions /\ UNCHANGED <<records, objectives, forgotten>> /\ thread[t].step = "queue"
      BY <1>4 DEF ForgetQueue, history, Placed, Recovered, All
    <2>3. r.ok \in BOOLEAN
      BY <2>2, ForgottenStore DEF TypeOK
    <2>4. /\ \A u \in All : u # t => thread'[u] = thread[u]
          /\ thread'[t].s = s /\ thread'[t].step = "forget" /\ (thread'[t].ok => thread[t].ok /\ r.ok)
      BY <2>1, <2>3, ProceedStays DEF Steps
    <2>5. In(queues') \subseteq In(queues) /\ (r.ok => s \notin In(queues'))
      BY <2>1, ForgottenIsOut
    <2> QED BY <2>2, <2>4, <2>5 DEF Cleaned
  <1>5. CASE ForgetDeletion(t)
    <2>1. UNCHANGED <<records, objectives, queues>> /\ thread[t].step = "forget"
      BY <1>5 DEF ForgetDeletion
    <2>2. /\ \A u \in All : u # t => thread'[u] = thread[u]
          /\ thread'[t].step = "finish"
      <3>1. CASE Go(t, "finish")
        <4>1. "finish" \in Steps
          BY DEF Steps
        <4> QED BY <3>1, <4>1, GoMoves DEF Moved
      <3>2. ASSUME NEW ok \in BOOLEAN, Proceed(t, "finish", ok)
            PROVE  /\ \A u \in All : u # t => thread'[u] = thread[u]
                   /\ thread'[t].step = "finish"
        <4>1. thread \in [All -> Thread]
          BY DEF TypeOK, All
        <4> QED BY <3>2, <4>1 DEF Proceed, Thread
      <3> QED BY <1>5, <3>1, <3>2 DEF ForgetDeletion
    <2>3. forgotten' = forgotten \/ (thread[t].ok /\ forgotten' = forgotten \cup {s})
      BY <1>5 DEF ForgetDeletion
    <2>4. thread[t].ok => s \notin In(records)
      BY <2>1 DEF Cleaned
    <2> QED BY <2>1, <2>2, <2>3, <2>4 DEF Cleaned, In
  <1> QED BY <1>1, <1>2, <1>3, <1>4, <1>5 DEF Delete

LEMMA NextCleaned == ASSUME Inv, Cleaned, [Next]_vars PROVE Cleaned'
  <1> USE DEF Inv
  <1>1. CASE \E t \in Threads : Operation(t)
    BY <1>1, OperationCleaned
  <1>2. CASE \E t \in All : Delete(t)
    BY <1>2, DeleteCleaned
  <1>3. ASSUME ~(\E t \in Threads : Operation(t)), ~(\E t \in All : Delete(t))
        PROVE  Cleaned'
    <2>1. UNCHANGED <<records, objectives, queues, forgotten>>
      BY <1>3 DEF Next, All, Process, Pi, Lease, Evict, Start, RecoverNext, RecoverEnd, Restart, Crash, Exit, Drop,
                  Perform, Fail, Lose, Connect, vars, process, stores, pi, history
    <2>2. \A t \in All : Stays(t)
      <3> DEFINE Same(t) == thread'[t].step = thread[t].step /\ thread'[t].s = thread[t].s /\ thread'[t].ok = thread[t].ok
      <3>0. DOMAIN thread = All /\ \A t \in All : thread[t] \in Thread
        BY DEF TypeOK, All
      <3>1. CASE Restart \/ Crash
        <4>1. \A t \in All : thread'[t] = Idle
          BY <3>0, <3>1 DEF Restart, Crash, Exit
        <4> QED BY <4>1 DEF Stays, Idle
      <3>2. CASE Drop
        <4>1. \A t \in All : thread'[t] =
                [thread[t] EXCEPT !.pinned = FALSE,
                                  !.answer = IF thread[t].step = "answer" /\ @ = "none" THEN "error" ELSE @]
          BY <3>0, <3>2 DEF Drop
        <4>2. \A t \in All : Same(t)
          <5>1. ASSUME NEW t \in All PROVE Same(t)
            <6>1. DOMAIN thread[t] = {"kind", "s", "step", "e", "at", "pinned", "answer", "ok"}
              BY <3>0 DEF Thread
            <6> QED BY <4>1, <6>1
          <5> QED BY <5>1
        <4> QED BY <4>2 DEF Stays
      <3>3. CASE Pi
        <4>1. PICK m \in wire : Perform(m) \/ Fail(m) \/ Lose(m)
          BY <3>3 DEF Pi
        <4>2. CASE Lose(m)
          BY <4>2 DEF Lose, process, Stays
        <4>3. ASSUME NEW what, Answer(m, what)
              PROVE  \A t \in All : Same(t)
          <5>1. \A t \in All : thread'[t] = thread[t] \/ thread'[t] = [thread[t] EXCEPT !.answer = what]
            BY <3>0, <4>3 DEF Answer
          <5> QED BY <3>0, <5>1 DEF Thread
        <4>4. Perform(m) \/ Fail(m) => \A t \in All : Same(t)
          BY <4>3 DEF Perform, Fail
        <4> QED BY <4>1, <4>2, <4>4 DEF Stays
      <3>4. CASE RecoverNext
        <4>1. CASE UNCHANGED thread
          BY <4>1 DEF Stays
        <4>2. CASE \E u \in todo :
                thread' = [thread EXCEPT ![Starter] = [Idle EXCEPT !.kind = "delete", !.s = u, !.at = agent,
                             !.step = IF journal[u].phase = "confirmed" THEN "records" ELSE "call",
                             !.pinned = journal[u].phase = "requested"]]
          <5>1. /\ \A t \in All : t # Starter => thread'[t] = thread[t]
                /\ thread'[Starter].step \in {"records", "call"}
            BY <3>0, <4>2 DEF Idle, All
          <5> QED BY <5>1 DEF Stays
        <4> QED BY <3>4, <4>1, <4>2 DEF RecoverNext
      <3>5. CASE UNCHANGED thread
        BY <3>5 DEF Stays
      <3> QED BY <1>3, <3>1, <3>2, <3>3, <3>4, <3>5
          DEF Next, All, Process, Lease, Evict, Start, RecoverEnd, Connect, vars, process
    <2> QED BY <2>1, <2>2, StaysCleaned
  <1> QED BY <1>1, <1>2, <1>3

LEMMA CleanedHolds == Spec => []Cleaned
  <1>1. Init => Cleaned
    BY DEF Init, Cleaned, Idle, All
  <1>2. Inv /\ Cleaned /\ [Next]_vars => Cleaned'
    BY NextCleaned
  <1> QED BY <1>1, <1>2, InvHolds, PTL DEF Spec

\* A step to "running" is the start of a prompt.
LEMMA OnlyPromptsRun ==
    ASSUME Inv, [Next]_vars, NEW t \in Threads, thread[t].step # "running", thread'[t].step = "running"
    PROVE  /\ thread[t].step = "work" /\ MayAttach(thread[t].s)
  <1> USE DEF Inv
  <1>1. DOMAIN thread = All /\ t \in All /\ TypeOK /\ \A u \in All : thread[u] \in Thread
    BY DEF TypeOK, All
  <1>2. ASSUME NEW u \in All, Delete(u)
        PROVE  FALSE
    <2>1. thread[u].step \in Deleting /\ (thread'[u].step # "running") /\ \A v \in All : v # u => thread'[v] = thread[v]
      <3>1. CASE AttachForDelete(u)
        <4>1. Ended(u) \/ thread' = [thread EXCEPT ![u].step = "request", ![u].at = agent, ![u].pinned = TRUE]
          BY <3>1, EndEnds DEF AttachForDelete
        <4> QED BY <1>1, <3>1, <4>1 DEF AttachForDelete, Ended, Thread, Deleting
      <3>2. CASE Confirm(u)
        <4>1. PICK ok \in BOOLEAN :
                Ended(u) \/ thread' = [thread EXCEPT ![u].step = IF u = Starter THEN "records" ELSE "drop", ![u].ok = ok]
          BY <3>2, GiveUpEnds DEF Confirm
        <4> QED BY <1>1, <3>2, <4>1 DEF Confirm, Ended, Thread, Deleting
      <3>3. CASE Request(u) \/ CallPi(u) \/ Answered(u) \/ DropEntry(u) \/ Finish(u)
        <4>1. Ended(u) \/ \E step \in {"call", "answer", "confirm", "records"} : Moved(u, step)
          BY <3>3, EndEnds, GiveUpEnds, GoMoves DEF Request, CallPi, Answered, DropEntry, Finish, Steps
        <4> QED BY <3>3, <4>1 DEF Ended, Moved, Request, CallPi, Answered, DropEntry, Finish, Deleting
      <3>4. CASE ForgetRecord(u) \/ ForgetObjective(u) \/ ForgetQueue(u) \/ ForgetDeletion(u)
        BY <1>1, <3>4 DEF ForgetRecord, ForgetObjective, ForgetQueue, ForgetDeletion, Proceed, Go, Thread, Deleting
      <3> QED BY <1>2, <3>1, <3>2, <3>3, <3>4 DEF Delete
    <2> QED BY <1>1, <2>1
  <1>3. ASSUME NEW u \in Threads, Operation(u)
        PROVE  StartPrompt(u) /\ u = t /\ MayAttach(thread[u].s)
    <2>1. u \in All /\ {"install", "work", "attach", "running"} \subseteq Steps
      BY DEF All, Steps
    <2>2. CASE Begin(u)
      <3>1. PICK kind \in Kinds, s \in Sessions :
              LET found == entry[s] # 0 /\ s \notin lifecycle
              IN thread' = [thread EXCEPT ![u] = [Idle EXCEPT !.kind = kind, !.s = s,
                               !.step = IF found THEN "gate" ELSE "read",
                               !.e = IF found THEN entry[s] ELSE 0]]
        BY <2>2 DEF Begin
      <3>2. /\ \A v \in All : v # u => thread'[v] = thread[v]
            /\ thread'[u].step \in {"gate", "read"}
        BY <1>1, <2>1, <3>1 DEF Idle
      <3> QED BY <1>1, <3>2
    <2>3. CASE Install(u)
      <3>1. Ended(u) \/ thread' = [thread EXCEPT ![u].step = "gate", ![u].e = entry'[thread[u].s]]
        BY <1>1, <2>1, <2>3, EndEnds DEF Install
      <3>2. thread'[u].step # "running" /\ \A v \in All : v # u => thread'[v] = thread[v]
        BY <1>1, <2>1, <3>1 DEF Ended, Thread
      <3> QED BY <1>1, <3>2
    <2>4. CASE ReadRecord(u) \/ Lock(u) \/ UpdateObjective(u) \/ Queue(u) \/ EndPrompt(u) \/ Reserve(u)
      <3>1. Ended(u) \/ \E step \in {"install", "work", "attach"} : Moved(u, step)
        BY <1>1, <2>1, <2>4, EndEnds, GoMoves DEF ReadRecord, Lock, UpdateObjective, Queue, EndPrompt, Reserve
      <3> QED BY <1>1, <3>1 DEF Ended, Moved
    <2>5. CASE StartPrompt(u)
      <3>1. Ended(u) \/ (Moved(u, "running") /\ MayAttach(thread[u].s))
        BY <1>1, <2>1, <2>5, EndEnds, GoMoves DEF StartPrompt
      <3> QED BY <1>1, <2>5, <3>1 DEF Ended, Moved
    <2> QED BY <1>3, <2>2, <2>3, <2>4, <2>5 DEF Operation
  <1>4. CASE (\E s \in Sessions : Lease(s) \/ Evict(s)) \/ Start \/ RecoverEnd \/ UNCHANGED vars
             \/ \E a \in Agents : Connect(a)
    BY <1>4 DEF Lease, Evict, Start, RecoverEnd, Connect, vars, process
  <1>5. CASE Restart \/ Crash \/ RecoverNext
    <2>1. thread'[t] = thread[t] \/ thread'[t] = Idle
      BY <1>1, <1>5, ConstantsAssumption DEF Restart, Crash, RecoverNext, Exit
    <2> QED BY <2>1 DEF Idle
  <1>6. CASE Drop
    <2>1. thread'[t].step = thread[t].step
      BY <1>1, <1>6 DEF Drop, Thread
    <2> QED BY <2>1
  <1>7. CASE Pi
    <2>1. PICK m \in wire : Perform(m) \/ Fail(m) \/ Lose(m)
      BY <1>7 DEF Pi
    <2>2. thread' = thread \/ \E what : Answer(m, what)
      BY <2>1 DEF Perform, Fail, Lose, process
    <2>3. ASSUME NEW what, Answer(m, what)
          PROVE  thread'[t].step = thread[t].step
      BY <1>1, <2>3 DEF Answer, Thread
    <2> QED BY <2>2, <2>3
  <1> QED BY <1>2, <1>3, <1>4, <1>5, <1>6, <1>7 DEF Next, Process, All, StartPrompt

\* A step by which the journal loses a record is the end of a cleanup.
LEMMA OnlyForgetting ==
    ASSUME Inv, [Next]_vars, NEW s \in Sessions, journal[s] # None, journal'[s] = None
    PROVE  \E t \in All : ForgetDeletion(t) /\ thread[t].ok /\ thread[t].s = s
  <1> USE DEF Inv
  <1>1. journal \in [Sessions -> Record \cup {None}]
    BY DEF TypeOK
  <1>2. PICK t \in All : Request(t) \/ Confirm(t) \/ ForgetDeletion(t)
    BY DEF Next, Operation, Delete, Process, Pi, Begin, ReadRecord, Install, Lock, UpdateObjective, Queue,
           StartPrompt, EndPrompt, Reserve, AttachForDelete, CallPi, Answered, DropEntry, ForgetRecord,
           ForgetObjective, ForgetQueue, Finish, Lease, Evict, Start, RecoverNext, RecoverEnd, Restart, Crash,
           Exit, Drop, Perform, Fail, Lose, Connect, vars, process, stores, pi, All
  <1>3. CASE Request(t)
    <2>1. thread[t].at \in Agents /\ thread[t].s \in Sessions
      BY <1>3 DEF Request, Placed, Journalled, Recovered, Resuming, All
    <2>2. \A agt \in Agents : [agent |-> agt, phase |-> "requested"] # None
      BY ConstantsAssumption DEF Record
    <2> QED BY <1>1, <1>3, <2>1, <2>2 DEF Request, WriteJournal
  <1>4. CASE Confirm(t)
    <2>1. thread[t].s \in Sessions /\ journal[thread[t].s] \in Record
      BY <1>1, <1>4 DEF Confirm, Placed, Journalled, Recovered, All
    <2>2. [journal[thread[t].s] EXCEPT !.phase = "confirmed"] \in Record
      BY <2>1 DEF Record
    <2>3. [journal[thread[t].s] EXCEPT !.phase = "confirmed"] # None
      BY <2>2, ConstantsAssumption
    <2> QED BY <1>1, <1>4, <2>1, <2>3 DEF Confirm, WriteJournal
  <1>5. CASE ForgetDeletion(t)
    BY <1>1, <1>5 DEF ForgetDeletion, WriteJournal
  <1> QED BY <1>2, <1>3, <1>4, <1>5

\* A deletion is final, over crashes, failed writes and late answers: no prompt is
\* given to Pi for a session that is being deleted or was (lockEntry, attachLocked),
\* and the journal forgets a deletion only when no store, and no backup of one, has
\* the session any more (cleanupSessionDeletion).
THEOREM DeletionsFinal == Spec => DeletionsAreFinal
  <1>1. ASSUME Inv, Cleaned, [Next]_vars, NEW t \in Threads,
               thread[t].step # "running", thread'[t].step = "running"
        PROVE  journal[thread[t].s] = None /\ thread[t].s \notin forgotten
    <2>1. thread[t].step = "work" /\ MayAttach(thread[t].s)
      BY <1>1, OnlyPromptsRun
    <2> QED BY <1>1, <2>1 DEF Inv, Placed, Recovered, Cleaned, MayAttach
  <1>2. ASSUME Inv, Cleaned, [Next]_vars, NEW s \in Sessions, journal[s] # None, journal'[s] = None
        PROVE  \A store \in {records, objectives, queues} : s \notin store.main \cup store.bak
    <2>1. PICK t \in All : ForgetDeletion(t) /\ thread[t].ok /\ thread[t].s = s
      BY <1>2, OnlyForgetting
    <2>2. \A store \in {records, objectives, queues} : s \notin In(store)
      BY <1>2, <2>1 DEF ForgetDeletion, Cleaned
    <2> QED BY <2>2 DEF In
  <1>3. Inv /\ Cleaned /\ [Next]_vars =>
          [\A t \in Threads : thread[t].step # "running" /\ thread'[t].step = "running" =>
              journal[thread[t].s] = None /\ thread[t].s \notin forgotten]_vars
    BY <1>1
  <1>4. Inv /\ Cleaned /\ [Next]_vars =>
          [\A s \in Sessions : journal[s] # None /\ journal'[s] = None =>
              \A store \in {records, objectives, queues} : s \notin store.main \cup store.bak]_vars
    BY <1>2
  <1> QED BY <1>3, <1>4, InvHolds, CleanedHolds, PTL DEF Spec, DeletionsAreFinal, NoWorkAfterDelete, ForgetsLast
=============================================================================
