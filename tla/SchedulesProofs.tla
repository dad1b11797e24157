--------------------------- MODULE SchedulesProofs ---------------------------
(***************************************************************************)
(* Proofs about Schedules, for every value of its constants: that its       *)
(* state stays well typed, that the runs of a job never overlap, that the   *)
(* file holds the open claim of every run at work and no claim of another,  *)
(* that no occurrence is dispatched twice or replayed unasked, and that a   *)
(* repeated request changes nothing.                                        *)
(*                                                                         *)
(* They rest on four invariants, each inductive with the first, Inv: a run  *)
(* is at work only under its job's entry in `running', a run that waits for *)
(* its end to be recorded keeps that entry and has no goroutine any more,   *)
(* and only FinishLocked closes a run and gives the entry up.  Books says   *)
(* what the ledger holds of each run, Dispatches when a job was started and *)
(* may be again, Identities which requests have a stored result.  The last  *)
(* one holds while no stored result has been dropped for its age.           *)
(***************************************************************************)
EXTENDS Schedules, FiniteSetTheorems, SequenceTheorems, TLAPS

Ledger(js) == DOMAIN js \subseteq Ids /\ \A i \in DOMAIN js : js[i] \in Job

\* Who holds a job, in the memory.
Claims ==
    /\ IsFiniteSet(DOMAIN running) /\ Cardinality(DOMAIN running) <= MaxRunning
    /\ DOMAIN running \subseteq DOMAIN jobs
    /\ \A r \in DOMAIN workers :
         /\ workers[r].job \in DOMAIN running /\ running[workers[r].job] = r
         /\ workers[r].run.id = r
    /\ \A id \in DOMAIN pending :
         /\ id \in DOMAIN running
         /\ \A r \in DOMAIN workers : workers[r].job # id
    /\ ~up => running = Nothing /\ workers = Nothing /\ pending = Nothing

\* What the ledger says of the runs at work, in the memory and in the file.
Open == \A r \in DOMAIN workers : /\ HasOpenRun(jobs, workers[r].job, r)
                                  /\ HasOpenRun(disk.jobs, workers[r].job, r)

Inv == TypeOK /\ Claims /\ Open

-----------------------------------------------------------------------------
(* The helpers of the model. *)

\* First keeps a sequence's type and, where there is one, its first element.
LEMMA FirstOfSeq ==
    ASSUME NEW S, NEW s \in Seq(S), NEW n \in Nat \ {0}
    PROVE  /\ First(s, n) \in Seq(S)
           /\ s # <<>> => 1 \in DOMAIN First(s, n) /\ First(s, n)[1] = s[1]
  <1> DEFINE m == IF Len(s) > n THEN n ELSE Len(s)
  <1>1. m \in Int /\ m <= Len(s) /\ \A i \in 1..m : s[i] \in S
    OBVIOUS
  <1>2. /\ SubSeq(s, 1, m) \in Seq(S)
        /\ Len(SubSeq(s, 1, m)) = IF 1 <= m THEN m - 1 + 1 ELSE 0
        /\ \A i \in 1 .. m - 1 + 1 : SubSeq(s, 1, m)[i] = s[1 + i - 1]
    <2> HIDE DEF m
    <2> QED BY <1>1, SubSeqProperties
  <1>3. s # <<>> => m >= 1
    OBVIOUS
  <1>4. First(s, n) = SubSeq(s, 1, m)
    BY DEF First
  <1> HIDE DEF m
  <1>5. QED
    BY <1>1, <1>2, <1>3, <1>4

\* Last keeps a sequence's type.
LEMMA LastOfSeq ==
    ASSUME NEW S, NEW s \in Seq(S), NEW n \in Nat
    PROVE  Last(s, n) \in Seq(S)
  <1> DEFINE m == IF Len(s) > n THEN Len(s) - n + 1 ELSE 1
  <1>1. m \in Int /\ \A i \in m..Len(s) : s[i] \in S
    OBVIOUS
  <1> HIDE DEF m
  <1>2. SubSeq(s, m, Len(s)) \in Seq(S)
    BY <1>1, SubSeqProperties
  <1> QED BY <1>2 DEF Last, m

\* Replace changes the runs with the given run's ID, and no others.
LEMMA ReplaceRun ==
    ASSUME NEW runs \in Seq(Run), NEW run \in Run
    PROVE  /\ Replace(runs, run) \in Seq(Run)
           /\ DOMAIN Replace(runs, run) = DOMAIN runs
           /\ \A i \in DOMAIN runs :
                Replace(runs, run)[i] = IF runs[i].id = run.id THEN run ELSE runs[i]
  <1>1. Replace(runs, run) \in [1..Len(runs) -> Run]
    BY DEF Replace
  <1>2. Len(runs) \in Nat
    OBVIOUS
  <1>3. Replace(runs, run) \in Seq(Run)
    BY <1>1, <1>2
  <1> QED BY <1>3 DEF Replace

-----------------------------------------------------------------------------
(* Steps that leave the ledger alone. *)

Unwritten == UNCHANGED <<jobs, operations, disk>>

\* A step of one goroutine that keeps its job and the ID of its run.
LEMMA WorkerStep ==
    ASSUME Inv, NEW r \in DOMAIN workers, NEW w \in Worker,
           w.job = workers[r].job, w.run.id = r,
           workers' = [workers EXCEPT ![r] = w],
           atWork' \subseteq RunIds, prompted' \subseteq RunIds,
           UNCHANGED <<up, closed, tickAt, running, pending, failures, now,
                       dispatched, replies, ambiguous>>, Unwritten
    PROVE  Inv'
  <1>1. /\ DOMAIN workers' = DOMAIN workers
        /\ workers'[r] = w
        /\ \A q \in DOMAIN workers : q # r => workers'[q] = workers[q]
    OBVIOUS
  <1>2. \A q \in DOMAIN workers : workers'[q].job = workers[q].job
    BY <1>1
  <1>3. TypeOK'
    BY <1>1 DEF Inv, TypeOK, Unwritten
  <1>4. Claims'
    <2>1. up
      BY DEF Inv, Claims, Nothing
    <2> QED BY <1>1, <1>2, <2>1 DEF Inv, Claims, Unwritten
  <1>5. Open'
    <2>1. \A q \in DOMAIN workers' : /\ HasOpenRun(jobs, workers'[q].job, q)
                                     /\ HasOpenRun(disk.jobs, workers'[q].job, q)
      BY <1>1, <1>2 DEF Inv, Open
    <2>2. jobs' = jobs /\ disk' = disk
      BY DEF Unwritten
    <2> QED BY <2>1, <2>2 DEF Open
  <1> QED BY <1>3, <1>4, <1>5 DEF Inv

\* A goroutine's next phase.
LEMMA StepInv ==
    ASSUME Inv, NEW r \in RunIds, NEW from, NEW to \in Phases, Step(r, from, to),
           atWork' \subseteq RunIds, prompted' \subseteq RunIds,
           OnlyWorkers, UNCHANGED <<dispatched, replies, ambiguous>>
    PROVE  Inv'
  <1> DEFINE w == [workers[r] EXCEPT !.phase = to]
  <1>1. r \in DOMAIN workers /\ workers[r] \in Worker /\ workers[r].run.id = r
    BY DEF Step, Inv, TypeOK, Claims
  <1>2. w \in Worker /\ w.job = workers[r].job /\ w.run.id = r
    BY <1>1 DEF Worker
  <1>3. workers' = [workers EXCEPT ![r] = w]
    BY DEF Step
  <1> HIDE DEF w
  <1> QED BY <1>1, <1>2, <1>3, WorkerStep DEF OnlyWorkers, Unwritten

\* The end of a goroutine's work.
LEMMA SettleInv ==
    ASSUME Inv, NEW r \in RunIds, NEW from, NEW status \in Statuses, Settle(r, from, status),
           atWork' \subseteq RunIds, prompted' \subseteq RunIds,
           OnlyWorkers, UNCHANGED <<dispatched, replies, ambiguous>>
    PROVE  Inv'
  <1> DEFINE s == IF workers[r].cancelled THEN "interrupted" ELSE status
             w == [workers[r] EXCEPT !.phase = "record", !.run.status = s]
  <1>1. r \in DOMAIN workers /\ workers[r] \in Worker /\ workers[r].run.id = r
    BY DEF Settle, Inv, TypeOK, Claims
  <1>2. s \in Statuses
    BY DEF Statuses
  <1>3. workers' = [workers EXCEPT ![r] = w]
    BY DEF Settle
  <1>4. w \in Worker /\ w.job = workers[r].job /\ w.run.id = r
    <2> HIDE DEF s
    <2> QED BY <1>1, <1>2 DEF Worker, Phases, Run
  <1> HIDE DEF w
  <1> QED BY <1>1, <1>3, <1>4, WorkerStep DEF OnlyWorkers, Unwritten

\* The steps of a goroutine that take no mutex.
LEMMA GoroutineInv ==
    ASSUME Inv, NEW r \in RunIds,
           \/ ValidateRoot(r) \/ CreateSession(r) \/ CheckContext(r)
           \/ SubmitPrompt(r) \/ PromptDone(r) \/ PromptAborted(r)
    PROVE  Inv'
  <1>0. atWork \subseteq RunIds /\ prompted \subseteq RunIds
    BY DEF Inv, TypeOK
  <1>1. CASE ValidateRoot(r)
    BY <1>0, <1>1, StepInv, SettleInv DEF ValidateRoot, Phases, Statuses, history
  <1>2. CASE CreateSession(r)
    BY <1>0, <1>2, StepInv, SettleInv DEF CreateSession, Phases, Statuses, history
  <1>3. CASE CheckContext(r)
    BY <1>0, <1>3, StepInv, SettleInv DEF CheckContext, Phases, Statuses, history
  <1>4. CASE SubmitPrompt(r)
    BY <1>0, <1>4, StepInv, SettleInv DEF SubmitPrompt, Phases, Statuses
  <1>5. CASE PromptDone(r)
    BY <1>0, <1>5, SettleInv DEF PromptDone, Phases, Statuses, history
  <1>6. CASE PromptAborted(r)
    <2>1. atWork' \subseteq RunIds /\ prompted' \subseteq RunIds
      BY <1>0, <1>6 DEF PromptAborted, history
    <2> QED BY <2>1, <1>6, SettleInv DEF PromptAborted, Statuses, history
  <1> QED BY <1>1, <1>2, <1>3, <1>4, <1>5, <1>6

-----------------------------------------------------------------------------
(* Writing the ledger. *)

\* A write leaves memory and file well typed, however it ends.
LEMMA WriteTypes ==
    ASSUME TypeOK, NEW js, Ledger(js), NEW ops \in Seq(Operation), NEW outcome,
           Write(js, ops, outcome)
    PROVE  /\ Ledger(jobs') /\ operations' \in Seq(Operation)
           /\ Ledger(disk'.jobs) /\ disk'.operations \in Seq(Operation)
           /\ disk' = [jobs |-> disk'.jobs, operations |-> disk'.operations]
  BY DEF TypeOK, Write, Ledger

\* Nor does it lose a job, or close a run, that the new ledger keeps.
LEMMA WriteKeeps ==
    ASSUME NEW js, NEW ops, NEW outcome, Write(js, ops, outcome)
    PROVE  /\ \A S : S \subseteq DOMAIN jobs /\ S \subseteq DOMAIN js => S \subseteq DOMAIN jobs'
           /\ \A id, r : HasOpenRun(js, id, r) /\ HasOpenRun(jobs, id, r) => HasOpenRun(jobs', id, r)
           /\ \A id, r : HasOpenRun(js, id, r) /\ HasOpenRun(disk.jobs, id, r)
                            => HasOpenRun(disk'.jobs, id, r)
  BY DEF Write

\* A job put into the ledger leaves the open runs of the others, and its own if
\* it keeps its runs.
LEMMA PutOpen ==
    ASSUME NEW js, NEW k, NEW job, NEW id, NEW r, HasOpenRun(js, id, r),
           id = k => job.runs = js[k].runs
    PROVE  HasOpenRun(Put(js, k, job), id, r)
  <1>1. CASE id # k
    BY <1>1 DEF HasOpenRun, Put
  <1>2. CASE id = k
    BY <1>2 DEF HasOpenRun, Put
  <1> QED BY <1>1, <1>2

\* A job put into a well-typed ledger.
LEMMA PutLedger ==
    ASSUME NEW js, Ledger(js), NEW k \in Ids, NEW job \in Job
    PROVE  Ledger(Put(js, k, job))
  BY DEF Ledger, Put

LEMMA DropLedger ==
    ASSUME NEW js, Ledger(js), NEW k
    PROVE  Ledger(Drop(js, k))
  BY DEF Ledger, Drop

\* A mutation's result joins the stored ones.
LEMMA RecordedType ==
    ASSUME TypeOK, ConstantsAssumption, NEW req \in Requests, NEW result \in Result
    PROVE  Recorded(req, result) \in Seq(Operation)
  <1>1. CASE req.key = NoKey
    BY <1>1 DEF Recorded, TypeOK
  <1>2. CASE req.key # NoKey
    <2>1. [request |-> req, result |-> result] \in Operation
      BY DEF Operation, ConstantsAssumption
    <2>2. operations \in Seq(Operation)
      BY DEF TypeOK
    <2>3. Append(operations, [request |-> req, result |-> result]) \in Seq(Operation)
      BY <2>1, <2>2, AppendProperties
    <2>4. MaxOps \in Nat
      BY DEF ConstantsAssumption
    <2> QED BY <1>2, <2>3, <2>4, LastOfSeq DEF Recorded
  <1> QED BY <1>1, <1>2

LEMMA ReplyType ==
    ASSUME TypeOK, ConstantsAssumption, NEW req \in Requests, NEW result \in Result, NEW outcome,
           Reply(req, result, outcome)
    PROVE  replies' \subseteq [request : Request, result : Result]
  BY DEF TypeOK, Reply, ConstantsAssumption

\* The backoff of a failed job.
LEMMA FailedType ==
    ASSUME TypeOK, ConstantsAssumption, NEW id \in Ids, NEW at \in Nat, NEW outcome,
           Failed(id, at, outcome)
    PROVE  DOMAIN failures' \subseteq Ids /\ \A i \in DOMAIN failures' : failures'[i] \in Nat
  <1>1. at + Backoff \in Nat
    BY DEF ConstantsAssumption
  <1> QED BY <1>1 DEF TypeOK, Failed, Put, Drop

\* The claim opens a run in the ledger.
LEMMA ClaimedType ==
    ASSUME ConstantsAssumption, OccurrenceAssumption,
           NEW job \in Job, NEW r \in RunIds, NEW at \in Instants
    PROVE  /\ Claimed(job, r, at) \in Job
           /\ \E k \in DOMAIN Claimed(job, r, at).runs :
                Claimed(job, r, at).runs[k].id = r /\ Claimed(job, r, at).runs[k].status = "running"
  <1> DEFINE new  == [id |-> r, status |-> "running", session |-> FALSE]
             runs == <<new>> \o job.runs
             kept == First(runs, MaxRuns)
  <1>1. new \in Run /\ new.id = r /\ new.status = "running"
    BY DEF Run, Statuses
  <1>2. job.runs \in Seq(Run) /\ <<new>> \in Seq(Run) /\ job.cron \in Crons
    <2> HIDE DEF new
    <2> QED BY <1>1 DEF Job
  <1>3. runs \in Seq(Run) /\ runs # <<>> /\ runs[1] = new
    <2> HIDE DEF new
    <2>1. /\ runs \in Seq(Run) /\ Len(runs) = Len(<<new>>) + Len(job.runs)
          /\ \A i \in 1 .. Len(<<new>>) + Len(job.runs) :
               runs[i] = IF i <= Len(<<new>>) THEN <<new>>[i] ELSE job.runs[i - Len(<<new>>)]
      BY <1>2, ConcatProperties
    <2>2. Len(<<new>>) = 1 /\ <<new>>[1] = new /\ Len(job.runs) \in Nat
      BY <1>2
    <2>3. Len(runs) \in Nat \ {0} /\ runs[1] = new
      <3> HIDE DEF runs
      <3> QED BY <2>1, <2>2
    <2> HIDE DEF runs
    <2> QED BY <2>1, <2>3
  <1>4. MaxRuns \in Nat \ {0}
    BY DEF ConstantsAssumption
  <1>5. kept \in Seq(Run) /\ 1 \in DOMAIN kept /\ kept[1] = new
    <2> HIDE DEF new, runs
    <2> QED BY <1>3, <1>4, FirstOfSeq
  <1>6. Occurrence[job.cron][at] \in Nat
    BY <1>2 DEF OccurrenceAssumption
  <1>7. Claimed(job, r, at) = [job EXCEPT !.nextRun = Occurrence[job.cron][at], !.runs = kept]
    BY DEF Claimed
  <1> HIDE DEF new, runs, kept
  <1>8. Claimed(job, r, at) \in Job /\ Claimed(job, r, at).runs = kept
    BY <1>5, <1>6, <1>7 DEF Job
  <1> QED BY <1>1, <1>5, <1>8

-----------------------------------------------------------------------------
(* Dispatch and completion. *)

\* startLocked, from a tick or by hand: the new goroutine is the only one of a
\* job that nobody held.
LEMMA StartInv ==
    ASSUME Inv, up, ConstantsAssumption, OccurrenceAssumption,
           NEW id, NEW at \in Instants, NEW ops \in Seq(Operation),
           NEW by \in Keys \cup {NoKey}, NEW occurrence \in Nat \cup {None},
           NEW outcome, StartLocked(id, at, ops, by, occurrence, outcome),
           DOMAIN failures' \subseteq Ids, \A i \in DOMAIN failures' : failures'[i] \in Nat,
           replies' \subseteq [request : Request, result : Result],
           UNCHANGED <<up, closed, tickAt, pending, now, atWork, prompted, ambiguous>>
    PROVE  Inv'
  <1>1. PICK r \in UnusedRuns :
          /\ Write(Put(jobs, id, Claimed(jobs[id], r, at)), ops, outcome)
          /\ IF outcome = "ok"
             THEN /\ running' = Put(running, id, r)
                  /\ workers' = Put(workers, r,
                       [job |-> id, phase |-> "validate", cancelled |-> FALSE,
                        run |-> [id |-> r, status |-> "running", session |-> FALSE]])
                  /\ dispatched' = dispatched \cup
                       {[run |-> r, job |-> id, by |-> by, occurrence |-> occurrence]}
             ELSE UNCHANGED <<running, workers, dispatched>>
    BY DEF StartLocked
  <1> DEFINE js == Put(jobs, id, Claimed(jobs[id], r, at))
             w  == [job |-> id, phase |-> "validate", cancelled |-> FALSE,
                    run |-> [id |-> r, status |-> "running", session |-> FALSE]]
  <1>2. /\ id \in DOMAIN jobs /\ id \in Ids /\ jobs[id] \in Job /\ r \in RunIds
        /\ id \notin DOMAIN running /\ Cardinality(DOMAIN running) < MaxRunning
    BY DEF StartLocked, MayStart, UnusedRuns, Inv, TypeOK
  <1>3. Ledger(js) /\ HasOpenRun(js, id, r)
    <2> DEFINE job == Claimed(jobs[id], r, at)
    <2>1. /\ job \in Job
          /\ \E k \in DOMAIN job.runs : job.runs[k].id = r /\ job.runs[k].status = "running"
      BY <1>2, ClaimedType
    <2>2. Ledger(jobs)
      BY DEF Inv, TypeOK, Ledger
    <2> HIDE DEF job
    <2>3. Ledger(Put(jobs, id, job))
      BY <1>2, <2>1, <2>2, PutLedger
    <2>4. HasOpenRun(Put(jobs, id, job), id, r)
      BY <2>1 DEF HasOpenRun, Put
    <2> QED BY <2>3, <2>4 DEF job
  <1>4. \A q \in DOMAIN workers : HasOpenRun(js, workers[q].job, q)
    <2> HIDE DEF js
    <2> SUFFICES ASSUME NEW q \in DOMAIN workers
                 PROVE  HasOpenRun(js, workers[q].job, q)
      OBVIOUS
    <2>1. workers[q].job # id /\ HasOpenRun(jobs, workers[q].job, q)
      BY <1>2 DEF Inv, Claims, Open
    <2> QED BY <2>1, PutOpen DEF js
  <1>5. DOMAIN js = DOMAIN jobs
    BY <1>2 DEF Put
  <1>6. Write(js, ops, outcome)
    BY <1>1
  <1>7. w \in Worker /\ w.job = id /\ w.run.id = r
    BY <1>2 DEF Worker, Phases, Run, Statuses
  <1> HIDE DEF js
  <1>8. /\ Ledger(jobs') /\ operations' \in Seq(Operation)
        /\ Ledger(disk'.jobs) /\ disk'.operations \in Seq(Operation)
        /\ disk' = [jobs |-> disk'.jobs, operations |-> disk'.operations]
    BY <1>3, <1>6, WriteTypes DEF Inv
  <1>9. /\ DOMAIN running \subseteq DOMAIN jobs'
        /\ \A q \in DOMAIN workers : /\ HasOpenRun(jobs', workers[q].job, q)
                                     /\ HasOpenRun(disk'.jobs, workers[q].job, q)
    BY <1>4, <1>5, <1>6, WriteKeeps DEF Inv, Claims, Open
  <1>10. CASE outcome # "ok"
    <2>1. UNCHANGED <<running, workers, dispatched>>
      BY <1>1, <1>10
    <2>2. TypeOK'
      BY <1>8, <2>1 DEF Inv, TypeOK, Ledger
    <2>3. Claims'
      BY <1>9, <2>1 DEF Inv, Claims
    <2>4. Open'
      BY <1>9, <2>1 DEF Open
    <2> QED BY <2>2, <2>3, <2>4 DEF Inv
  <1>11. CASE outcome = "ok"
    <2>1. /\ running' = Put(running, id, r) /\ workers' = Put(workers, r, w)
          /\ dispatched' = dispatched \cup
                 {[run |-> r, job |-> id, by |-> by, occurrence |-> occurrence]}
      BY <1>1, <1>11
    <2>2. jobs' = js /\ disk'.jobs = js
      BY <1>6, <1>11 DEF Write
    <2> HIDE DEF w
    <2>3. TypeOK'
      BY <1>2, <1>7, <1>8, <2>1 DEF Inv, TypeOK, Ledger, Put
    <2>4. IsFiniteSet(DOMAIN running') /\ Cardinality(DOMAIN running') <= MaxRunning
      <3>1. DOMAIN running' = DOMAIN running \cup {id}
        BY <2>1 DEF Put
      <3>2. IsFiniteSet(DOMAIN running) /\ Cardinality(DOMAIN running) \in Nat
        BY FS_CardinalityType DEF Inv, Claims
      <3>3. /\ IsFiniteSet(DOMAIN running \cup {id})
            /\ Cardinality(DOMAIN running \cup {id}) = Cardinality(DOMAIN running) + 1
        BY <1>2, <3>2, FS_AddElement
      <3>4. MaxRunning \in Nat
        BY DEF ConstantsAssumption
      <3> QED BY <1>2, <3>1, <3>2, <3>3, <3>4
    <2>5. Claims'
      <3>1. DOMAIN running' \subseteq DOMAIN jobs'
        BY <1>2, <1>5, <2>1, <2>2 DEF Put, Inv, Claims
      <3>2. \A q \in DOMAIN workers' :
              /\ workers'[q].job \in DOMAIN running' /\ running'[workers'[q].job] = q
              /\ workers'[q].run.id = q
        BY <1>2, <1>7, <2>1 DEF Put, Inv, Claims
      <3>3. \A p \in DOMAIN pending' :
              p \in DOMAIN running' /\ \A q \in DOMAIN workers' : workers'[q].job # p
        BY <1>2, <1>7, <2>1 DEF Put, Inv, Claims
      <3> QED BY <2>4, <3>1, <3>2, <3>3 DEF Claims
    <2>6. Open'
      BY <1>3, <1>4, <1>7, <2>1, <2>2 DEF Open, Put
    <2> QED BY <2>3, <2>5, <2>6 DEF Inv
  <1> QED BY <1>10, <1>11

\* finishLocked closes the given run of a job and releases the job's claim, if
\* the write succeeds, and leaves every other run as it is.
LEMMA FinishFacts ==
    ASSUME Inv, NEW id \in DOMAIN running, NEW run \in Run, NEW outcome,
           FinishLocked(id, run, outcome)
    PROVE  /\ Ledger(jobs') /\ operations' \in Seq(Operation)
           /\ Ledger(disk'.jobs) /\ disk'.operations \in Seq(Operation)
           /\ disk' = [jobs |-> disk'.jobs, operations |-> disk'.operations]
           /\ \A q \in DOMAIN workers : workers[q].job # id =>
                  /\ HasOpenRun(jobs', workers[q].job, q)
                  /\ HasOpenRun(disk'.jobs, workers[q].job, q)
           /\ running' = IF outcome = "ok" THEN Drop(running, id) ELSE running
           /\ IsFiniteSet(DOMAIN running') /\ Cardinality(DOMAIN running') <= MaxRunning
           /\ DOMAIN running' \subseteq DOMAIN jobs'
  <1> DEFINE job == [jobs[id] EXCEPT !.runs = Replace(@, run)]
             js  == Put(jobs, id, job)
  <1>1. id \in DOMAIN jobs /\ id \in Ids /\ jobs[id] \in Job
    BY DEF Inv, TypeOK, Claims
  <1>2. job \in Job
    <2>1. Replace(jobs[id].runs, run) \in Seq(Run)
      BY <1>1, ReplaceRun DEF Job
    <2> QED BY <1>1, <2>1 DEF Job
  <1>3. Write(js, operations, outcome) /\ running' = IF outcome = "ok" THEN Drop(running, id) ELSE running
    BY DEF FinishLocked
  <1> HIDE DEF job
  <1>4. Ledger(js)
    BY <1>1, <1>2, PutLedger DEF Inv, TypeOK, Ledger
  <1>5. DOMAIN js = DOMAIN jobs
    BY <1>1 DEF Put
  <1>6. \A q \in DOMAIN workers : workers[q].job # id => HasOpenRun(js, workers[q].job, q)
    <2> HIDE DEF js
    <2> SUFFICES ASSUME NEW q \in DOMAIN workers, workers[q].job # id
                 PROVE  HasOpenRun(js, workers[q].job, q)
      OBVIOUS
    <2>1. HasOpenRun(jobs, workers[q].job, q)
      BY DEF Inv, Open
    <2> QED BY <2>1, PutOpen DEF js
  <1> HIDE DEF js
  <1>7. /\ Ledger(jobs') /\ operations' \in Seq(Operation)
        /\ Ledger(disk'.jobs) /\ disk'.operations \in Seq(Operation)
        /\ disk' = [jobs |-> disk'.jobs, operations |-> disk'.operations]
    <2>1. TypeOK /\ operations \in Seq(Operation)
      BY DEF Inv, TypeOK
    <2> QED BY <2>1, <1>3, <1>4, WriteTypes
  <1>8. /\ DOMAIN running \subseteq DOMAIN jobs'
        /\ \A q \in DOMAIN workers : workers[q].job # id =>
              /\ HasOpenRun(jobs', workers[q].job, q)
              /\ HasOpenRun(disk'.jobs, workers[q].job, q)
    BY <1>3, <1>5, <1>6, WriteKeeps DEF Inv, Claims, Open
  <1>9. IsFiniteSet(DOMAIN running') /\ Cardinality(DOMAIN running') <= MaxRunning
    <2>1. IsFiniteSet(DOMAIN running) /\ Cardinality(DOMAIN running) <= MaxRunning
      BY DEF Inv, Claims
    <2>2. DOMAIN running' \in SUBSET DOMAIN running
      BY <1>3 DEF Drop
    <2>3. /\ IsFiniteSet(DOMAIN running')
          /\ Cardinality(DOMAIN running') <= Cardinality(DOMAIN running)
      BY <2>1, <2>2, FS_Subset
    <2>4. Cardinality(DOMAIN running) \in Nat /\ Cardinality(DOMAIN running') \in Nat /\ MaxRunning \in Nat
      BY <2>1, <2>3, FS_CardinalityType, ConstantsAssumption DEF ConstantsAssumption
    <2> QED BY <2>1, <2>3, <2>4
  <1>10. DOMAIN running' \subseteq DOMAIN jobs'
    BY <1>3, <1>8 DEF Drop
  <1> QED BY <1>3, <1>7, <1>8, <1>9, <1>10

\* The ticker records an end that was pending.
LEMMA TickFinishInv ==
    ASSUME Inv, TickFinish
    PROVE  Inv'
  <1>1. PICK id \in ToRecord, outcome \in Outcomes :
          /\ FinishLocked(id, pending[id], outcome)
          /\ pending' = IF outcome = "ok" THEN Drop(pending, id) ELSE pending
          /\ Failed(id, tickAt, outcome)
    BY DEF TickFinish
  <1>2. /\ id \in DOMAIN pending /\ id \in DOMAIN running /\ id \in Ids /\ pending[id] \in Run
        /\ \A q \in DOMAIN workers : workers[q].job # id
    BY DEF ToRecord, Inv, TypeOK, Claims
  <1>3. tickAt \in Nat
    BY ConstantsAssumption DEF TickFinish, Inv, TypeOK, Instants, ConstantsAssumption
  <1>4. DOMAIN failures' \subseteq Ids /\ \A i \in DOMAIN failures' : failures'[i] \in Nat
    BY <1>1, <1>2, <1>3, FailedType, ConstantsAssumption DEF Inv
  <1>5. UNCHANGED <<up, closed, tickAt, workers, now, atWork, history>>
    BY DEF TickFinish
  <1>6. /\ Ledger(jobs') /\ operations' \in Seq(Operation)
        /\ Ledger(disk'.jobs) /\ disk'.operations \in Seq(Operation)
        /\ disk' = [jobs |-> disk'.jobs, operations |-> disk'.operations]
        /\ \A q \in DOMAIN workers : /\ HasOpenRun(jobs', workers[q].job, q)
                                     /\ HasOpenRun(disk'.jobs, workers[q].job, q)
        /\ running' = IF outcome = "ok" THEN Drop(running, id) ELSE running
        /\ IsFiniteSet(DOMAIN running') /\ Cardinality(DOMAIN running') <= MaxRunning
        /\ DOMAIN running' \subseteq DOMAIN jobs'
    BY <1>1, <1>2, FinishFacts
  <1>7. TypeOK'
    BY <1>1, <1>4, <1>5, <1>6 DEF Inv, TypeOK, Ledger, Drop, history
  <1>8. Claims'
    <2>1. \A q \in DOMAIN workers' :
            /\ workers'[q].job \in DOMAIN running' /\ running'[workers'[q].job] = q
            /\ workers'[q].run.id = q
      BY <1>2, <1>5, <1>6 DEF Drop, Inv, Claims
    <2>2. \A p \in DOMAIN pending' :
            p \in DOMAIN running' /\ \A q \in DOMAIN workers' : workers'[q].job # p
      BY <1>1, <1>5, <1>6 DEF Drop, Inv, Claims
    <2>3. up'
      BY <1>5 DEF TickFinish
    <2> QED BY <1>6, <2>1, <2>2, <2>3 DEF Claims
  <1>9. Open'
    BY <1>5, <1>6 DEF Open
  <1> QED BY <1>7, <1>8, <1>9 DEF Inv

\* A goroutine records its end, or leaves it pending.
LEMMA RecordEndInv ==
    ASSUME Inv, NEW r \in RunIds, RecordEnd(r)
    PROVE  Inv'
  <1> DEFINE w == workers[r]
  <1>1. PICK outcome \in Outcomes :
          /\ FinishLocked(w.job, w.run, outcome)
          /\ IF outcome = "ok"
             THEN pending' = Drop(pending, w.job) /\ UNCHANGED failures
             ELSE pending' = Put(pending, w.job, w.run) /\ Failed(w.job, now, outcome)
    BY DEF RecordEnd
  <1>2. /\ r \in DOMAIN workers /\ w \in Worker /\ w.job \in Ids /\ w.run \in Run
        /\ w.job \in DOMAIN running /\ running[w.job] = r
    BY DEF RecordEnd, Inv, TypeOK, Claims, Worker
  <1>3. \A q \in DOMAIN workers : q # r => workers[q].job # w.job
    BY <1>2 DEF Inv, Claims
  <1>4. DOMAIN failures' \subseteq Ids /\ \A i \in DOMAIN failures' : failures'[i] \in Nat
    <2>1. now \in Nat
      BY ConstantsAssumption DEF Inv, TypeOK, Instants, ConstantsAssumption
    <2>2. CASE outcome = "ok"
      BY <1>1, <2>2 DEF Inv, TypeOK
    <2>3. CASE outcome # "ok"
      <3> HIDE DEF w
      <3> QED BY <1>1, <1>2, <2>1, <2>3, FailedType, ConstantsAssumption DEF Inv
    <2> QED BY <2>2, <2>3
  <1>5. workers' = Drop(workers, r) /\ UNCHANGED <<up, closed, tickAt, now, atWork, history>> /\ up
    BY DEF RecordEnd, Free
  <1>6. /\ Ledger(jobs') /\ operations' \in Seq(Operation)
        /\ Ledger(disk'.jobs) /\ disk'.operations \in Seq(Operation)
        /\ disk' = [jobs |-> disk'.jobs, operations |-> disk'.operations]
        /\ \A q \in DOMAIN workers : q # r =>
              /\ HasOpenRun(jobs', workers[q].job, q)
              /\ HasOpenRun(disk'.jobs, workers[q].job, q)
        /\ running' = IF outcome = "ok" THEN Drop(running, w.job) ELSE running
        /\ IsFiniteSet(DOMAIN running') /\ Cardinality(DOMAIN running') <= MaxRunning
        /\ DOMAIN running' \subseteq DOMAIN jobs'
    <2> HIDE DEF w
    <2> QED BY <1>1, <1>2, <1>3, FinishFacts
  <1>7. TypeOK'
    <2> HIDE DEF w
    <2>1. DOMAIN running' \subseteq Ids /\ \A i \in DOMAIN running' : running'[i] \in RunIds
      BY <1>6 DEF Inv, TypeOK, Drop
    <2>2. DOMAIN pending' \subseteq Ids /\ \A i \in DOMAIN pending' : pending'[i] \in Run
      BY <1>1, <1>2 DEF Inv, TypeOK, Drop, Put
    <2>3. DOMAIN workers' \subseteq RunIds /\ \A q \in DOMAIN workers' : workers'[q] \in Worker
      BY <1>5 DEF Inv, TypeOK, Drop
    <2> QED BY <1>4, <1>5, <1>6, <2>1, <2>2, <2>3 DEF Inv, TypeOK, Ledger, history
  <1>8. Claims'
    <2> HIDE DEF w
    <2>1. \A q \in DOMAIN workers' :
            /\ workers'[q].job \in DOMAIN running' /\ running'[workers'[q].job] = q
            /\ workers'[q].run.id = q
      BY <1>3, <1>5, <1>6 DEF Drop, Inv, Claims
    <2>2. \A p \in DOMAIN pending' :
            p \in DOMAIN running' /\ \A q \in DOMAIN workers' : workers'[q].job # p
      BY <1>1, <1>2, <1>3, <1>5, <1>6 DEF Drop, Put, Inv, Claims
    <2> QED BY <1>5, <1>6, <2>1, <2>2 DEF Claims
  <1>9. Open'
    BY <1>5, <1>6 DEF Open, Drop
  <1> QED BY <1>7, <1>8, <1>9 DEF Inv

\* A write that keeps the claimed jobs and the open runs of the goroutines.
LEMMA WriteFacts ==
    ASSUME Inv, NEW js, Ledger(js), DOMAIN running \subseteq DOMAIN js,
           \A q \in DOMAIN workers : HasOpenRun(js, workers[q].job, q),
           NEW ops \in Seq(Operation), NEW outcome, Write(js, ops, outcome)
    PROVE  /\ Ledger(jobs') /\ operations' \in Seq(Operation)
           /\ Ledger(disk'.jobs) /\ disk'.operations \in Seq(Operation)
           /\ disk' = [jobs |-> disk'.jobs, operations |-> disk'.operations]
           /\ DOMAIN running \subseteq DOMAIN jobs'
           /\ \A q \in DOMAIN workers : /\ HasOpenRun(jobs', workers[q].job, q)
                                        /\ HasOpenRun(disk'.jobs, workers[q].job, q)
  <1>1. TypeOK
    BY DEF Inv
  <1>2. DOMAIN running \subseteq DOMAIN jobs'
    BY WriteKeeps DEF Inv, Claims
  <1>3. \A q \in DOMAIN workers : /\ HasOpenRun(jobs', workers[q].job, q)
                                  /\ HasOpenRun(disk'.jobs, workers[q].job, q)
    BY WriteKeeps DEF Inv, Open
  <1> QED BY <1>1, <1>2, <1>3, WriteTypes

\* A mutation that does no more than such a write.
LEMMA MutationInv ==
    ASSUME Inv, NEW js, Ledger(js), DOMAIN running \subseteq DOMAIN js,
           \A q \in DOMAIN workers : HasOpenRun(js, workers[q].job, q),
           NEW ops \in Seq(Operation), NEW outcome, Write(js, ops, outcome), up,
           DOMAIN failures' \subseteq Ids, \A i \in DOMAIN failures' : failures'[i] \in Nat,
           replies' \subseteq [request : Request, result : Result], ambiguous' \subseteq Ids,
           UNCHANGED <<up, closed, tickAt, running, pending, workers, now, atWork, dispatched, prompted>>
    PROVE  Inv'
  <1>1. /\ Ledger(jobs') /\ operations' \in Seq(Operation)
        /\ Ledger(disk'.jobs) /\ disk'.operations \in Seq(Operation)
        /\ disk' = [jobs |-> disk'.jobs, operations |-> disk'.operations]
        /\ DOMAIN running \subseteq DOMAIN jobs'
        /\ \A q \in DOMAIN workers : /\ HasOpenRun(jobs', workers[q].job, q)
                                     /\ HasOpenRun(disk'.jobs, workers[q].job, q)
    BY WriteFacts
  <1>2. TypeOK'
    BY <1>1 DEF Inv, TypeOK, Ledger
  <1>3. Claims'
    BY <1>1 DEF Inv, Claims
  <1>4. Open'
    BY <1>1 DEF Open
  <1> QED BY <1>2, <1>3, <1>4 DEF Inv

\* The session's ID is stored: the run stays open, or its goroutine gives up.
LEMMA AdmittedInv ==
    ASSUME Inv, NEW r \in RunIds, Admitted(r)
    PROVE  Inv'
  <1> DEFINE w   == workers[r]
             run == [id |-> r, status |-> "running", session |-> TRUE]
             job == [jobs[w.job] EXCEPT !.runs = Replace(@, run)]
             js  == Put(jobs, w.job, job)
             s   == IF w.cancelled THEN "interrupted" ELSE "failed"
             ok  == [w EXCEPT !.phase = "check", !.run = run]
             bad == [w EXCEPT !.phase = "record", !.run.status = s]
  <1>1. PICK outcome \in Outcomes :
          /\ Write(js, operations, outcome)
          /\ workers' = [workers EXCEPT ![r] = IF outcome = "ok" THEN ok ELSE bad]
    BY DEF Admitted
  <1>2. /\ r \in DOMAIN workers /\ w \in Worker /\ w.job \in Ids /\ w.run \in Run /\ w.run.id = r
        /\ w.job \in DOMAIN running /\ running[w.job] = r
        /\ w.job \in DOMAIN jobs /\ jobs[w.job] \in Job
    BY DEF Admitted, Inv, TypeOK, Claims, Worker
  <1>3. /\ up /\ UNCHANGED <<up, closed, tickAt, running, pending, failures, now, atWork, history>>
    BY DEF Admitted, Free
  <1>4. run \in Run /\ run.id = r /\ run.status = "running"
    BY DEF Run, Statuses
  <1>5. /\ ok \in Worker /\ ok.job = w.job /\ ok.run.id = r
        /\ bad \in Worker /\ bad.job = w.job /\ bad.run.id = r
    <2>1. s \in Statuses
      BY DEF Statuses
    <2> HIDE DEF w, run, s
    <2> QED BY <1>2, <1>4, <2>1 DEF Worker, Phases, Run
  <1>6. /\ Replace(jobs[w.job].runs, run) \in Seq(Run)
        /\ DOMAIN Replace(jobs[w.job].runs, run) = DOMAIN jobs[w.job].runs
        /\ \A i \in DOMAIN jobs[w.job].runs :
             Replace(jobs[w.job].runs, run)[i] =
               IF jobs[w.job].runs[i].id = run.id THEN run ELSE jobs[w.job].runs[i]
    <2>1. jobs[w.job].runs \in Seq(Run)
      BY <1>2 DEF Job
    <2> HIDE DEF w, run
    <2> QED BY <1>4, <2>1, ReplaceRun
  <1>7. job \in Job /\ job.runs = Replace(jobs[w.job].runs, run)
    <2> HIDE DEF w, run
    <2> QED BY <1>2, <1>6 DEF Job
  <1>8. HasOpenRun(js, w.job, r)
    <2>1. HasOpenRun(jobs, w.job, r)
      BY <1>2 DEF Inv, Open
    <2> HIDE DEF w, run, job
    <2>2. js[w.job] = job /\ w.job \in DOMAIN js
      BY DEF Put
    <2> HIDE DEF js
    <2> QED BY <1>4, <1>6, <1>7, <2>1, <2>2 DEF HasOpenRun
  <1> HIDE DEF run, job, ok, bad, s
  <1>9. Ledger(js) /\ DOMAIN running \subseteq DOMAIN js
    BY <1>2, <1>7, PutLedger DEF Inv, TypeOK, Ledger, Claims, Put
  <1>10. \A q \in DOMAIN workers : HasOpenRun(js, workers[q].job, q)
    <2> SUFFICES ASSUME NEW q \in DOMAIN workers, q # r
                 PROVE  HasOpenRun(js, workers[q].job, q)
      BY <1>8
    <2>1. workers[q].job # w.job /\ HasOpenRun(jobs, workers[q].job, q)
      BY <1>2 DEF Inv, Claims, Open
    <2> HIDE DEF w
    <2> QED BY <2>1, PutOpen
  <1> HIDE DEF js
  <1>11. /\ Ledger(jobs') /\ operations' \in Seq(Operation)
         /\ Ledger(disk'.jobs) /\ disk'.operations \in Seq(Operation)
         /\ disk' = [jobs |-> disk'.jobs, operations |-> disk'.operations]
         /\ DOMAIN running \subseteq DOMAIN jobs'
         /\ \A q \in DOMAIN workers : /\ HasOpenRun(jobs', workers[q].job, q)
                                      /\ HasOpenRun(disk'.jobs, workers[q].job, q)
    <2>1. operations \in Seq(Operation)
      BY DEF Inv, TypeOK
    <2> QED BY <1>1, <1>9, <1>10, <2>1, WriteFacts
  <1>12. /\ DOMAIN workers' = DOMAIN workers
         /\ \A q \in DOMAIN workers : /\ workers'[q] \in Worker /\ workers'[q].job = workers[q].job
                                      /\ workers'[q].run.id = q
    BY <1>1, <1>2, <1>5 DEF Inv, TypeOK, Claims
  <1> HIDE DEF w
  <1>13. TypeOK'
    BY <1>3, <1>11, <1>12 DEF Inv, TypeOK, Ledger, history
  <1>14. Claims'
    BY <1>3, <1>11, <1>12 DEF Inv, Claims
  <1>15. Open'
    BY <1>11, <1>12 DEF Open
  <1> QED BY <1>13, <1>14, <1>15 DEF Inv

-----------------------------------------------------------------------------
(* The mutations. *)

LEMMA CreateInv ==
    ASSUME Inv, NEW req \in Requests, Create(req)
    PROVE  Inv'
  <1> DEFINE next   == Occurrence[req.cron][now]
  <1>1. PICK id \in UnusedIds, outcome \in Outcomes :
          LET result == [job |-> id, nextRun |-> next]
              job    == [cron |-> req.cron, paused |-> FALSE, nextRun |-> next,
                         runs |-> <<>>, by |-> req.key]
          IN /\ Write(Put(jobs, id, job), Recorded(req, result), outcome)
             /\ Reply(req, result, outcome)
    BY DEF Create
  <1> DEFINE result == [job |-> id, nextRun |-> next]
             job    == [cron |-> req.cron, paused |-> FALSE, nextRun |-> next,
                        runs |-> <<>>, by |-> req.key]
             js     == Put(jobs, id, job)
  <1>2. Write(js, Recorded(req, result), outcome) /\ Reply(req, result, outcome)
    BY <1>1
  <1>3. /\ id \in Ids /\ id \notin DOMAIN jobs /\ req.cron \in Crons /\ req.key \in Keys \cup {NoKey}
        /\ now \in Instants /\ up
    BY ConstantsAssumption
       DEF UnusedIds, Create, Handle, Free, Inv, TypeOK, ConstantsAssumption, Request
  <1>4. next \in Nat
    BY <1>3, OccurrenceAssumption DEF OccurrenceAssumption
  <1> HIDE DEF next
  <1>5. result \in Result /\ job \in Job
    BY <1>3, <1>4 DEF Result, Job
  <1> HIDE DEF result, job
  <1>6. Ledger(js) /\ DOMAIN running \subseteq DOMAIN js
    BY <1>3, <1>5, PutLedger DEF Inv, TypeOK, Ledger, Claims, Put
  <1>7. \A q \in DOMAIN workers : HasOpenRun(js, workers[q].job, q)
    <2> SUFFICES ASSUME NEW q \in DOMAIN workers
                 PROVE  HasOpenRun(js, workers[q].job, q)
      OBVIOUS
    <2>1. workers[q].job # id /\ HasOpenRun(jobs, workers[q].job, q)
      BY <1>3 DEF Inv, Claims, Open
    <2> QED BY <2>1, PutOpen
  <1>8. Recorded(req, result) \in Seq(Operation) /\ replies' \subseteq [request : Request, result : Result]
    BY <1>2, <1>5, RecordedType, ReplyType, ConstantsAssumption DEF Inv
  <1>9. /\ UNCHANGED <<up, closed, tickAt, running, pending, workers, now, atWork, dispatched, prompted>>
        /\ UNCHANGED <<failures, ambiguous>>
    BY DEF Create
  <1>10. /\ DOMAIN failures' \subseteq Ids /\ \A i \in DOMAIN failures' : failures'[i] \in Nat
         /\ ambiguous' \subseteq Ids
    BY <1>9 DEF Inv, TypeOK
  <1> HIDE DEF js
  <1> QED BY <1>2, <1>3, <1>6, <1>7, <1>8, <1>9, <1>10, MutationInv

LEMMA UpdateInv ==
    ASSUME Inv, NEW req \in Requests, Update(req)
    PROVE  Inv'
  <1> DEFINE old    == jobs[req.job]
             cron   == IF req.cron = None THEN old.cron ELSE req.cron
             next   == Occurrence[cron][now]
             result == [job |-> req.job, nextRun |-> next]
             paused == IF req.pause = None THEN old.paused ELSE req.pause
             job    == [old EXCEPT !.cron = cron, !.nextRun = next, !.paused = paused]
             js     == Put(jobs, req.job, job)
  <1>1. PICK outcome \in Outcomes :
          /\ Write(js, Recorded(req, result), outcome)
          /\ Reply(req, result, outcome)
          /\ ambiguous' = IF req.pause = FALSE /\ outcome # "lost"
                          THEN ambiguous \ {req.job} ELSE ambiguous
    BY DEF Update
  <1>2. /\ req.job \in DOMAIN jobs /\ req.job \in Ids /\ old \in Job /\ now \in Instants /\ up
        /\ req.cron \in Crons \cup {None} /\ req.pause \in BOOLEAN \cup {None}
    BY ConstantsAssumption DEF Update, Handle, Free, Inv, TypeOK, ConstantsAssumption, Request
  <1>3. cron \in Crons /\ paused \in BOOLEAN
    BY <1>2 DEF Job
  <1>4. next \in Nat
    BY <1>2, <1>3, OccurrenceAssumption DEF OccurrenceAssumption
  <1> HIDE DEF next, cron, paused
  <1>5. result \in Result /\ job \in Job /\ job.runs = old.runs
    <2> HIDE DEF old
    <2> QED BY <1>2, <1>3, <1>4 DEF Result, Job
  <1> HIDE DEF result, job
  <1>6. Ledger(js) /\ DOMAIN running \subseteq DOMAIN js
    BY <1>2, <1>5, PutLedger DEF Inv, TypeOK, Ledger, Claims, Put
  <1>7. \A q \in DOMAIN workers : HasOpenRun(js, workers[q].job, q)
    BY <1>5, PutOpen DEF Inv, Open
  <1>8. Recorded(req, result) \in Seq(Operation) /\ replies' \subseteq [request : Request, result : Result]
    BY <1>1, <1>5, RecordedType, ReplyType, ConstantsAssumption DEF Inv
  <1>9. UNCHANGED <<up, closed, tickAt, running, pending, failures, workers, now, atWork, dispatched, prompted>>
    BY DEF Update
  <1>10. /\ DOMAIN failures' \subseteq Ids /\ \A i \in DOMAIN failures' : failures'[i] \in Nat
         /\ ambiguous' \subseteq Ids
    BY <1>1, <1>9 DEF Inv, TypeOK
  <1> HIDE DEF js
  <1> QED BY <1>1, <1>2, <1>6, <1>7, <1>8, <1>9, <1>10, MutationInv

LEMMA DeleteInv ==
    ASSUME Inv, NEW req \in Requests, Delete(req)
    PROVE  Inv'
  <1> DEFINE js == Drop(jobs, req.job)
  <1>1. PICK outcome \in Outcomes :
          /\ Write(js, Recorded(req, None), outcome)
          /\ Reply(req, None, outcome)
          /\ failures' = IF outcome = "ok" THEN Drop(failures, req.job) ELSE failures
    BY DEF Delete
  <1>2. req.job \in DOMAIN jobs /\ req.job \notin DOMAIN running /\ up
    BY DEF Delete, Handle, Free
  <1>3. Ledger(js) /\ DOMAIN running \subseteq DOMAIN js
    BY <1>2, DropLedger DEF Inv, TypeOK, Ledger, Claims, Drop
  <1>4. \A q \in DOMAIN workers : HasOpenRun(js, workers[q].job, q)
    BY <1>2 DEF Inv, Claims, Open, HasOpenRun, Drop
  <1>5. None \in Result
    BY DEF Result
  <1>6. Recorded(req, None) \in Seq(Operation) /\ replies' \subseteq [request : Request, result : Result]
    BY <1>1, <1>5, RecordedType, ReplyType, ConstantsAssumption DEF Inv
  <1>7. /\ UNCHANGED <<up, closed, tickAt, running, pending, workers, now, atWork, dispatched, prompted>>
        /\ UNCHANGED ambiguous
    BY DEF Delete
  <1>8. /\ DOMAIN failures' \subseteq Ids /\ \A i \in DOMAIN failures' : failures'[i] \in Nat
        /\ ambiguous' \subseteq Ids
    BY <1>1, <1>7 DEF Inv, TypeOK, Drop
  <1> HIDE DEF js
  <1> QED BY <1>1, <1>2, <1>3, <1>4, <1>6, <1>7, <1>8, MutationInv

LEMMA RunNowInv ==
    ASSUME Inv, NEW req \in Requests, RunNow(req)
    PROVE  Inv'
  <1>1. PICK outcome \in Outcomes :
          /\ StartLocked(req.job, now, Recorded(req, None), req.key, None, outcome)
          /\ Reply(req, None, outcome)
    BY DEF RunNow
  <1>2. None \in Result
    BY DEF Result
  <1>3. Recorded(req, None) \in Seq(Operation) /\ replies' \subseteq [request : Request, result : Result]
    BY <1>1, <1>2, RecordedType, ReplyType, ConstantsAssumption DEF Inv
  <1>4. up /\ now \in Instants /\ req.key \in Keys \cup {NoKey}
    BY ConstantsAssumption DEF RunNow, Handle, Free, Inv, TypeOK, ConstantsAssumption, Request
  <1>5. UNCHANGED <<up, closed, tickAt, pending, now, atWork, prompted, ambiguous>> /\ UNCHANGED failures
    BY DEF RunNow
  <1>6. DOMAIN failures' \subseteq Ids /\ \A i \in DOMAIN failures' : failures'[i] \in Nat
    BY <1>5 DEF Inv, TypeOK
  <1> QED BY <1>1, <1>3, <1>4, <1>5, <1>6, StartInv, ConstantsAssumption, OccurrenceAssumption

\* Cancelling changes nothing that the invariant is about.
LEMMA CancelFacts ==
    ASSUME Inv, NEW ids, Cancel(ids)
    PROVE  /\ DOMAIN workers' = DOMAIN workers
           /\ \A q \in DOMAIN workers : /\ workers'[q] \in Worker /\ workers'[q].job = workers[q].job
                                        /\ workers'[q].run = workers[q].run
  <1> SUFFICES ASSUME NEW q \in DOMAIN workers
               PROVE  /\ workers'[q] \in Worker /\ workers'[q].job = workers[q].job
                      /\ workers'[q].run = workers[q].run
    BY DEF Cancel
  <1>1. workers[q] \in Worker
    BY DEF Inv, TypeOK
  <1>2. workers'[q] \in {workers[q], [workers[q] EXCEPT !.cancelled = TRUE]}
    BY DEF Cancel
  <1> QED BY <1>1, <1>2 DEF Worker

LEMMA StopInv ==
    ASSUME Inv, NEW req \in Requests, Stop(req)
    PROVE  Inv'
  <1>1. PICK outcome \in Outcomes :
          /\ Write(jobs, Recorded(req, None), outcome)
          /\ Reply(req, None, outcome)
          /\ IF outcome = "ok" THEN Cancel({req.job}) ELSE UNCHANGED workers
    BY DEF Stop
  <1>2. None \in Result
    BY DEF Result
  <1>3. Recorded(req, None) \in Seq(Operation) /\ replies' \subseteq [request : Request, result : Result]
    BY <1>1, <1>2, RecordedType, ReplyType, ConstantsAssumption DEF Inv
  <1>4. Ledger(jobs) /\ DOMAIN running \subseteq DOMAIN jobs
        /\ \A q \in DOMAIN workers : HasOpenRun(jobs, workers[q].job, q)
    BY DEF Inv, TypeOK, Ledger, Claims, Open
  <1>5. /\ Ledger(jobs') /\ operations' \in Seq(Operation)
        /\ Ledger(disk'.jobs) /\ disk'.operations \in Seq(Operation)
        /\ disk' = [jobs |-> disk'.jobs, operations |-> disk'.operations]
        /\ DOMAIN running \subseteq DOMAIN jobs'
        /\ \A q \in DOMAIN workers : /\ HasOpenRun(jobs', workers[q].job, q)
                                     /\ HasOpenRun(disk'.jobs, workers[q].job, q)
    BY <1>1, <1>3, <1>4, WriteFacts
  <1>6. /\ DOMAIN workers' = DOMAIN workers
        /\ \A q \in DOMAIN workers : /\ workers'[q] \in Worker /\ workers'[q].job = workers[q].job
                                     /\ workers'[q].run = workers[q].run
    <2>1. CASE outcome = "ok"
      BY <1>1, <2>1, CancelFacts
    <2>2. CASE outcome # "ok"
      BY <1>1, <2>2 DEF Inv, TypeOK
    <2> QED BY <2>1, <2>2
  <1>7. /\ up /\ UNCHANGED <<up, closed, tickAt, running, pending, failures, now, atWork>>
        /\ UNCHANGED <<dispatched, prompted, ambiguous>>
    BY DEF Stop, Handle, Free
  <1>8. TypeOK'
    BY <1>3, <1>5, <1>6, <1>7 DEF Inv, TypeOK, Ledger
  <1>9. Claims'
    BY <1>5, <1>6, <1>7 DEF Inv, Claims
  <1>10. Open'
    BY <1>5, <1>6 DEF Open
  <1> QED BY <1>8, <1>9, <1>10 DEF Inv

-----------------------------------------------------------------------------
(* The ticker's other steps, and the life of the process. *)

LEMMA TickStartInv ==
    ASSUME Inv, TickStart
    PROVE  Inv'
  <1>1. PICK id \in ToStart, outcome \in Outcomes :
          /\ StartLocked(id, tickAt, operations, NoKey, jobs[id].nextRun, outcome)
          /\ Failed(id, tickAt, outcome)
    BY DEF TickStart
  <1>2. id \in DOMAIN jobs /\ id \in Ids /\ jobs[id] \in Job
    BY DEF ToStart, Inv, TypeOK
  <1>3. tickAt \in Instants /\ tickAt \in Nat /\ up
    BY ConstantsAssumption DEF TickStart, Inv, TypeOK, Instants, ConstantsAssumption
  <1>4. DOMAIN failures' \subseteq Ids /\ \A i \in DOMAIN failures' : failures'[i] \in Nat
    BY <1>1, <1>2, <1>3, FailedType, ConstantsAssumption DEF Inv
  <1>5. /\ UNCHANGED <<up, closed, tickAt, pending, now, atWork, prompted, ambiguous>>
        /\ UNCHANGED replies
    BY DEF TickStart
  <1>6. operations \in Seq(Operation) /\ replies' \subseteq [request : Request, result : Result]
    BY <1>5 DEF Inv, TypeOK
  <1>7. jobs[id].nextRun \in Nat \cup {None}
    BY <1>2 DEF Job
  <1> QED BY <1>1, <1>3, <1>4, <1>5, <1>6, <1>7, StartInv, ConstantsAssumption, OccurrenceAssumption

\* Steps that change neither the ledger nor who holds what.
LEMMA QuietInv ==
    ASSUME Inv, TickBegin \/ TickEnd \/ Replay \/ Clock \/ (\E r \in RunIds : AgentDone(r)) \/ UNCHANGED vars
    PROVE  Inv'
  <1>1. UNCHANGED <<up, jobs, operations, running, pending, failures, workers, disk>>
    BY DEF TickBegin, TickEnd, Replay, Clock, AgentDone, vars, process
  <1>2. tickAt' \in Instants \cup {None}
    BY DEF TickBegin, TickEnd, Replay, Clock, AgentDone, vars, process, Inv, TypeOK
  <1>3. now' \in Instants
    BY ConstantsAssumption
       DEF TickBegin, TickEnd, Replay, Clock, AgentDone, vars, Inv, TypeOK, Instants, ConstantsAssumption
  <1>4. replies' \subseteq [request : Request, result : Result]
    <2>1. CASE Replay
      <3>1. PICK k \in DOMAIN operations : replies' = replies \cup {operations[k]}
        BY <2>1 DEF Replay
      <3>2. operations[k] \in Operation
        BY DEF Inv, TypeOK
      <3> QED BY <3>1, <3>2 DEF Inv, TypeOK, Operation
    <2>2. CASE ~Replay
      BY <2>2 DEF TickBegin, TickEnd, Clock, AgentDone, vars, history, Inv, TypeOK
    <2> QED BY <2>1, <2>2
  <1>5. closed' \in BOOLEAN /\ atWork' \subseteq RunIds
    BY DEF TickBegin, TickEnd, Replay, Clock, AgentDone, vars, process, Inv, TypeOK
  <1>6. UNCHANGED <<dispatched, prompted, ambiguous>>
    BY DEF TickBegin, TickEnd, Replay, Clock, AgentDone, vars, history
  <1>7. TypeOK'
    BY <1>1, <1>2, <1>3, <1>4, <1>5, <1>6 DEF Inv, TypeOK
  <1>8. Claims'
    BY <1>1 DEF Inv, Claims
  <1>9. Open'
    BY <1>1 DEF Inv, Open, HasOpenRun
  <1> QED BY <1>7, <1>8, <1>9 DEF Inv

LEMMA CloseInv ==
    ASSUME Inv, Close
    PROVE  Inv'
  <1>1. /\ DOMAIN workers' = DOMAIN workers
        /\ \A q \in DOMAIN workers : /\ workers'[q] \in Worker /\ workers'[q].job = workers[q].job
                                     /\ workers'[q].run = workers[q].run
    BY CancelFacts DEF Close
  <1>2. /\ up /\ closed' = TRUE
        /\ UNCHANGED <<up, tickAt, jobs, operations, running, pending, failures, disk, now, atWork, history>>
    BY DEF Close, Free
  <1>3. /\ up' = up /\ running' = running /\ pending' = pending /\ jobs' = jobs /\ disk' = disk
        /\ DOMAIN workers' = DOMAIN workers
    BY <1>1, <1>2
  <1>4. TypeOK'
    <2>1. /\ closed' \in BOOLEAN
          /\ DOMAIN workers' \subseteq RunIds /\ \A q \in DOMAIN workers' : workers'[q] \in Worker
      BY <1>1, <1>2 DEF Inv, TypeOK
    <2> QED BY <1>2, <2>1 DEF Inv, TypeOK, history
  <1>5. Claims'
    <2>1. \A q \in DOMAIN workers' : /\ workers'[q].job \in DOMAIN running /\ running[workers'[q].job] = q
                                     /\ workers'[q].run.id = q
      BY <1>1 DEF Inv, Claims
    <2>2. \A id \in DOMAIN pending : /\ id \in DOMAIN running
                                    /\ \A q \in DOMAIN workers' : workers'[q].job # id
      BY <1>1 DEF Inv, Claims
    <2> QED BY <1>2, <1>3, <2>1, <2>2 DEF Inv, Claims
  <1>6. Open'
    <2>1. \A q \in DOMAIN workers' : /\ HasOpenRun(jobs, workers'[q].job, q)
                                     /\ HasOpenRun(disk.jobs, workers'[q].job, q)
      BY <1>1 DEF Inv, Open
    <2> QED BY <1>3, <2>1 DEF Open
  <1> QED BY <1>4, <1>5, <1>6 DEF Inv

\* The claims of a process die with it.
LEMMA CrashInv ==
    ASSUME Inv, Crash
    PROVE  Inv'
  <1>1. DOMAIN Nothing = {} /\ IsFiniteSet({}) /\ Cardinality({}) = 0
    BY FS_EmptySet DEF Nothing
  <1>2. <<>> \in Seq(Operation)
    OBVIOUS
  <1>3. ambiguous' \subseteq Ids
    BY DEF Crash, Inv, TypeOK
  <1>4. TypeOK'
    BY <1>1, <1>2, <1>3 DEF Crash, Inv, TypeOK
  <1>5. 0 <= MaxRunning
    BY ConstantsAssumption DEF ConstantsAssumption
  <1>6. Claims'
    BY <1>1, <1>5 DEF Crash, Claims
  <1>7. Open'
    BY <1>1 DEF Crash, Open
  <1> QED BY <1>4, <1>6, <1>7 DEF Inv

LEMMA RestartInv ==
    ASSUME Inv, Restart
    PROVE  Inv'
  <1> DEFINE js == [id \in DOMAIN disk.jobs |-> Interrupted(disk.jobs[id])]
  <1>1. PICK outcome \in Outcomes : Write(js, disk.operations, outcome) /\ up' = (outcome = "ok")
    BY DEF Restart
  <1>2. ASSUME NEW job \in Job
        PROVE  Interrupted(job) \in Job
    <2> DEFINE paused == job.paused \/ \E k \in DOMAIN job.runs : job.runs[k].status = "running"
               runs == [k \in DOMAIN job.runs |-> IF job.runs[k].status = "running"
                          THEN [job.runs[k] EXCEPT !.status = "interrupted"] ELSE job.runs[k]]
    <2>1. job.runs \in Seq(Run) /\ Len(job.runs) \in Nat /\ job.paused \in BOOLEAN
      BY DEF Job
    <2>2. ASSUME NEW k \in DOMAIN job.runs
          PROVE  /\ job.runs[k] \in Run
                 /\ [job.runs[k] EXCEPT !.status = "interrupted"] \in Run
      <3>1. job.runs[k] \in Run
        BY <2>1
      <3> QED BY <3>1 DEF Run, Statuses
    <2>3. runs \in [1..Len(job.runs) -> Run]
      <3>1. DOMAIN job.runs = 1..Len(job.runs)
        BY <2>1
      <3>2. \A k \in DOMAIN job.runs : runs[k] \in Run
        BY <2>2
      <3> QED BY <3>1, <3>2
    <2>4. runs \in Seq(Run) /\ paused \in BOOLEAN
      <3> HIDE DEF runs
      <3> QED BY <2>1, <2>3
    <2>5. Interrupted(job) = [job EXCEPT !.paused = paused, !.runs = runs]
      BY DEF Interrupted
    <2> HIDE DEF paused, runs
    <2> QED BY <2>4, <2>5 DEF Job
  <1>3. Ledger(js)
    BY <1>2 DEF Inv, TypeOK, Ledger
  <1>4. TypeOK /\ disk.operations \in Seq(Operation)
    BY DEF Inv, TypeOK
  <1> HIDE DEF js
  <1>5. /\ Ledger(jobs') /\ operations' \in Seq(Operation)
        /\ Ledger(disk'.jobs) /\ disk'.operations \in Seq(Operation)
        /\ disk' = [jobs |-> disk'.jobs, operations |-> disk'.operations]
    BY <1>1, <1>3, <1>4, WriteTypes
  <1>6. UNCHANGED <<closed, tickAt, running, pending, failures, workers, now, atWork, history>> /\ ~up
    BY DEF Restart
  <1>7. TypeOK'
    BY <1>1, <1>5, <1>6 DEF Inv, TypeOK, Ledger, history
  <1>8. DOMAIN running = {} /\ DOMAIN workers = {} /\ DOMAIN pending = {}
    BY <1>6 DEF Inv, Claims, Nothing
  <1>9. Claims'
    BY <1>6, <1>8 DEF Inv, Claims
  <1>10. Open'
    BY <1>6, <1>8 DEF Open
  <1> QED BY <1>7, <1>9, <1>10 DEF Inv

-----------------------------------------------------------------------------
(* The theorems. *)

LEMMA InitInv == Init => Inv
  <1> SUFFICES ASSUME Init PROVE Inv
    OBVIOUS
  <1>1. DOMAIN Nothing = {} /\ IsFiniteSet({}) /\ Cardinality({}) = 0
    BY FS_EmptySet DEF Nothing
  <1>2. 0 \in Instants /\ 0 <= MaxRunning
    BY ConstantsAssumption DEF Instants, ConstantsAssumption
  <1>3. TypeOK
    <2>1. operations \in Seq(Operation) /\ disk.operations \in Seq(Operation)
      BY DEF Init
    <2>2. disk = [jobs |-> disk.jobs, operations |-> disk.operations] /\ disk.jobs = Nothing
      BY DEF Init
    <2> QED BY <1>1, <1>2, <2>1, <2>2 DEF Init, TypeOK
  <1>4. Claims
    BY <1>1, <1>2 DEF Init, Claims
  <1>5. Open
    BY <1>1 DEF Init, Open
  <1> QED BY <1>3, <1>4, <1>5 DEF Inv

LEMMA NextInv == Inv /\ [Next]_vars => Inv'
  <1> SUFFICES ASSUME Inv, [Next]_vars PROVE Inv'
    OBVIOUS
  <1>1. CASE Tick
    BY <1>1, QuietInv, TickFinishInv, TickStartInv DEF Tick
  <1>2. ASSUME NEW r \in RunIds, Work(r) \/ PromptDone(r) \/ AgentDone(r)
        PROVE  Inv'
    BY <1>2, GoroutineInv, AdmittedInv, RecordEndInv, QuietInv DEF Work
  <1>3. ASSUME NEW req \in Requests, Mutate(req)
        PROVE  Inv'
    BY <1>3, CreateInv, UpdateInv, DeleteInv, RunNowInv, StopInv DEF Mutate
  <1>4. CASE Replay \/ Clock \/ UNCHANGED vars
    BY <1>4, QuietInv
  <1>5. CASE Close
    BY <1>5, CloseInv
  <1>6. CASE Crash
    BY <1>6, CrashInv
  <1>7. CASE Restart
    BY <1>7, RestartInv
  <1> QED BY <1>1, <1>2, <1>3, <1>4, <1>5, <1>6, <1>7 DEF Next

\* The inductive invariant holds in every reachable state.
THEOREM Invariance == Spec => []Inv
  BY InitInv, NextInv, PTL DEF Spec

\* Every variable of the runner keeps its type, through failed writes, crashes
\* and restarts.
THEOREM TypeCorrect == Spec => []TypeOK
  <1>1. Inv => TypeOK
    BY DEF Inv
  <1> QED BY <1>1, Invariance, PTL

\* While a run's goroutine works, the file holds the run's claim, still open, in
\* its own job, however many writes failed: the start after a crash finds it.
THEOREM ClaimsAreOnDisk == Spec => []ClaimedOnDisk
  <1>1. Inv => ClaimedOnDisk
    BY DEF Inv, Open, ClaimedOnDisk
  <1> QED BY <1>1, Invariance, PTL

\* At no time do two runs of one job work, nor more than MaxRunning runs.
THEOREM RunsDoNotOverlap == Spec => []NoOverlap
  <1>1. Inv => NoOverlap
    <2> SUFFICES ASSUME Inv PROVE NoOverlap
      OBVIOUS
    <2>1. \A r, q \in DOMAIN workers : workers[r].job = workers[q].job => r = q
      BY DEF Inv, Claims
    <2>2. Cardinality(DOMAIN workers) <= MaxRunning
      <3> DEFINE f == [r \in DOMAIN workers |-> workers[r].job]
      <3>1. f \in Injection(DOMAIN workers, DOMAIN running)
        BY <2>1 DEF Inv, Claims, Injection, IsInjective
      <3>2. IsFiniteSet(DOMAIN running) /\ Cardinality(DOMAIN running) <= MaxRunning
        BY DEF Inv, Claims
      <3> HIDE DEF f
      <3>3. /\ IsFiniteSet(DOMAIN workers)
            /\ Cardinality(DOMAIN workers) <= Cardinality(DOMAIN running)
        BY <3>1, <3>2, FS_Injection
      <3>4. /\ Cardinality(DOMAIN workers) \in Nat /\ Cardinality(DOMAIN running) \in Nat
            /\ MaxRunning \in Nat
        BY <3>2, <3>3, FS_CardinalityType, ConstantsAssumption DEF ConstantsAssumption
      <3> QED BY <3>2, <3>3, <3>4
    <2> QED BY <2>1, <2>2 DEF NoOverlap
  <1> QED BY <1>1, Invariance, PTL

-----------------------------------------------------------------------------
(* What the runs are known by.  Three more invariants, each inductive with  *)
(* the first: what the ledger says of a run, when a job was dispatched and  *)
(* may be again, and which identities have been seen.                       *)

\* A run's ID is in one place of a ledger.
Distinct(js) ==
    \A i, j \in DOMAIN js : \A k \in DOMAIN js[i].runs, l \in DOMAIN js[j].runs :
        js[i].runs[k].id = js[j].runs[l].id => i = j /\ k = l

\* The entries of the runs in S have a session.
Stored(js, S) ==
    \A id \in DOMAIN js : \A k \in DOMAIN js[id].runs :
        js[id].runs[k].id \in S => js[id].runs[k].session

\* A run is open in a ledger exactly while its job is held.
Matches(js, held) ==
    \A id \in DOMAIN js : \A k \in DOMAIN js[id].runs :
        js[id].runs[k].status = "running" <=> id \in DOMAIN held /\ held[id] = js[id].runs[k].id

\* The run of every claim is in the ledger.
HasRun(js, id, r) == id \in DOMAIN js /\ \E k \in DOMAIN js[id].runs : js[id].runs[k].id = r
Held(js, held) == \A id \in DOMAIN held : HasRun(js, id, held[id])

\* The runs whose prompt was submitted, or may be without another write.
Early == {"validate", "create", "admit"}
Ready == {"check", "clear", "wait"}
Bound == prompted \cup {r \in DOMAIN workers : workers[r].phase \in Ready}

Books ==
    /\ \A js \in {jobs, disk.jobs} : Distinct(js) /\ Stored(js, Bound) /\ Held(js, running)
    /\ up => Matches(jobs, running)
    /\ \A r \in DOMAIN workers :
         /\ workers[r].phase = "record" => workers[r].run.status # "running"
         /\ r \in Bound => workers[r].run.session
         /\ workers[r].phase \in Early => r \notin prompted
    /\ \A id \in DOMAIN pending :
         /\ pending[id].id = running[id] /\ pending[id].status # "running"
         /\ pending[id].id \in Bound => pending[id].session
    /\ prompted \cup DOMAIN workers \subseteq {d.run : d \in dispatched}

\* The next occurrence of a job is later than those that were dispatched.
Ahead(js) ==
    \A d \in dispatched : d.occurrence # None /\ d.job \in DOMAIN js => js[d.job].nextRun > d.occurrence

\* An ambiguous job is paused in the ledger.
Paused(js) == \A id \in ambiguous \cap DOMAIN js : js[id].paused

Dispatches ==
    /\ \A js \in {jobs, disk.jobs} : Ahead(js)
    /\ \A d \in dispatched : d.occurrence # None => d.occurrence <= now
    /\ tickAt # None => tickAt <= now
    /\ OccurrenceOnce
    /\ \A d, e \in dispatched : d.run = e.run => d = e
    /\ \A r \in DOMAIN workers : \E d \in dispatched : d.run = r /\ d.job = workers[r].job
    /\ \A id \in DOMAIN pending : \E d \in dispatched : d.run = pending[id].id /\ d.job = id
    /\ up => Paused(jobs) /\ Paused(disk.jobs)
    /\ ~up => /\ jobs = Nothing
              /\ \A id \in ambiguous \cap DOMAIN disk.jobs :
                   disk.jobs[id].paused \/ \E r \in RunIds : HasOpenRun(disk.jobs, id, r)
    /\ ambiguous \subseteq {d.job : d \in dispatched}

\* Every identity is in a store of results once, and no result has been dropped.
Keyed(ops) ==
    /\ \A k \in DOMAIN ops : ops[k].request.key \in Keys
    /\ \A k, l \in DOMAIN ops : ops[k].request.key = ops[l].request.key => k = l

KeysOf(ops) == {ops[k].request.key : k \in DOMAIN ops}
Stores(ops) == {ops[k] : k \in DOMAIN ops}

\* The jobs of a ledger have identities that are stored in it, each its own.
Owned(js, ops) ==
    /\ \A i \in DOMAIN js : js[i].by # NoKey => js[i].by \in KeysOf(ops)
    /\ \A i, j \in DOMAIN js : js[i].by = js[j].by /\ js[i].by # NoKey => i = j

Identities ==
    /\ Keyed(operations) /\ Keyed(disk.operations)
    /\ Stores(operations) \subseteq Stores(disk.operations)
    /\ Owned(jobs, operations) /\ Owned(disk.jobs, disk.operations)
    /\ \A ops \in {disk.operations} \cup (IF up THEN {operations} ELSE {}) :
         /\ replies \subseteq Stores(ops)
         /\ \A d \in dispatched : d.by # NoKey => d.by \in KeysOf(ops)
    /\ \A d, e \in dispatched : d.by = e.by /\ d.by # NoKey => d = e
    /\ ~up => jobs = Nothing /\ operations = <<>>

-----------------------------------------------------------------------------
(* Ledgers that a step writes, and what they say of their runs. *)

\* A write leaves the memory and the file with the old ledger or with the new one.
LEMMA WriteCases ==
    ASSUME NEW js, NEW ops, NEW outcome, Write(js, ops, outcome)
    PROVE  /\ outcome = "ok" => /\ jobs' = js /\ disk'.jobs = js
                                /\ operations' = ops /\ disk'.operations = ops
           /\ outcome # "ok" => jobs' = jobs /\ operations' = operations
           /\ \/ disk'.jobs = disk.jobs /\ disk'.operations = disk.operations
              \/ disk'.jobs = js /\ disk'.operations = ops
  BY DEF Write

\* The runs of a job are left alone.
LEMMA PutRuns ==
    ASSUME NEW js, NEW k \in DOMAIN js, NEW job, job.runs = js[k].runs
    PROVE  /\ Distinct(js) => Distinct(Put(js, k, job))
           /\ \A S : Stored(js, S) => Stored(Put(js, k, job), S)
           /\ \A held : Matches(js, held) => Matches(Put(js, k, job), held)
           /\ \A held : Held(js, held) => Held(Put(js, k, job), held)
  <1> DEFINE new == Put(js, k, job)
  <1>1. DOMAIN new = DOMAIN js /\ \A i \in DOMAIN js : new[i].runs = js[i].runs
    BY DEF Put
  <1> HIDE DEF new
  <1>2. Distinct(js) => Distinct(new)
    BY <1>1 DEF Distinct
  <1>3. \A S : Stored(js, S) => Stored(new, S)
    BY <1>1 DEF Stored
  <1>4. \A held : Matches(js, held) => Matches(new, held)
    BY <1>1 DEF Matches
  <1>5. \A held : Held(js, held) => Held(new, held)
    BY <1>1 DEF Held, HasRun
  <1> QED BY <1>2, <1>3, <1>4, <1>5 DEF new

\* A job that is new has no runs.
LEMMA PutNew ==
    ASSUME NEW js, NEW k, k \notin DOMAIN js, NEW job, job.runs = <<>>
    PROVE  /\ Distinct(js) => Distinct(Put(js, k, job))
           /\ \A S : Stored(js, S) => Stored(Put(js, k, job), S)
           /\ \A held : Matches(js, held) => Matches(Put(js, k, job), held)
           /\ \A held : Held(js, held) => Held(Put(js, k, job), held)
  <1> DEFINE new == Put(js, k, job)
  <1>1. /\ DOMAIN new = DOMAIN js \cup {k} /\ \A i \in DOMAIN js : new[i].runs = js[i].runs
        /\ DOMAIN new[k].runs = {}
    BY DEF Put
  <1> HIDE DEF new
  <1>2. Distinct(js) => Distinct(new)
    BY <1>1 DEF Distinct
  <1>3. \A S : Stored(js, S) => Stored(new, S)
    BY <1>1 DEF Stored
  <1>4. \A held : Matches(js, held) => Matches(new, held)
    BY <1>1 DEF Matches
  <1>5. \A held : Held(js, held) => Held(new, held)
    BY <1>1 DEF Held, HasRun
  <1> QED BY <1>2, <1>3, <1>4, <1>5 DEF new

\* A job is deleted with its runs.
LEMMA DropRuns ==
    ASSUME NEW js, NEW k
    PROVE  /\ Distinct(js) => Distinct(Drop(js, k))
           /\ \A S : Stored(js, S) => Stored(Drop(js, k), S)
           /\ \A held : Matches(js, held) => Matches(Drop(js, k), held)
           /\ \A held : Held(js, held) /\ k \notin DOMAIN held => Held(Drop(js, k), held)
  <1>1. Distinct(js) => Distinct(Drop(js, k))
    BY DEF Distinct, Drop
  <1>2. \A S : Stored(js, S) => Stored(Drop(js, k), S)
    BY DEF Stored, Drop
  <1>3. \A held : Matches(js, held) => Matches(Drop(js, k), held)
    BY DEF Matches, Drop
  <1>4. \A held : Held(js, held) /\ k \notin DOMAIN held => Held(Drop(js, k), held)
    BY DEF Held, HasRun, Drop
  <1> QED BY <1>1, <1>2, <1>3, <1>4

\* The entry of one run is replaced.
LEMMA PutReplaced ==
    ASSUME NEW js, Ledger(js), NEW k \in DOMAIN js, NEW run \in Run,
           NEW job, job.runs = Replace(js[k].runs, run)
    PROVE  /\ Distinct(js) => Distinct(Put(js, k, job))
           /\ \A S : Stored(js, S) /\ (run.id \in S => run.session) => Stored(Put(js, k, job), S)
           /\ \A held : Matches(js, held) /\ k \in DOMAIN held /\ held[k] = run.id =>
                /\ run.status = "running" => Matches(Put(js, k, job), held)
                /\ run.status # "running" => Matches(Put(js, k, job), Drop(held, k))
           /\ \A held : Held(js, held) => Held(Put(js, k, job), held)
  <1> DEFINE new == Put(js, k, job)
  <1>1. /\ DOMAIN new = DOMAIN js
        /\ \A i \in DOMAIN js : i # k => new[i] = js[i]
        /\ new[k].runs = Replace(js[k].runs, run)
    BY DEF Put
  <1>2. /\ DOMAIN new[k].runs = DOMAIN js[k].runs
        /\ \A n \in DOMAIN js[k].runs :
             new[k].runs[n] = IF js[k].runs[n].id = run.id THEN run ELSE js[k].runs[n]
    <2>1. js[k].runs \in Seq(Run)
      BY DEF Ledger, Job
    <2>2. /\ DOMAIN Replace(js[k].runs, run) = DOMAIN js[k].runs
          /\ \A n \in DOMAIN js[k].runs :
               Replace(js[k].runs, run)[n] = IF js[k].runs[n].id = run.id THEN run ELSE js[k].runs[n]
      BY <2>1, ReplaceRun
    <2> HIDE DEF new
    <2> QED BY <1>1, <2>2
  <1>3. \A i \in DOMAIN js : /\ DOMAIN new[i].runs = DOMAIN js[i].runs
                             /\ \A n \in DOMAIN js[i].runs :
                                  /\ new[i].runs[n].id = js[i].runs[n].id
                                  /\ new[i].runs[n] \in {js[i].runs[n], run}
    BY <1>1, <1>2
  <1> HIDE DEF new
  <1>4. Distinct(js) => Distinct(new)
    BY <1>1, <1>3 DEF Distinct
  <1>5. \A S : Stored(js, S) /\ (run.id \in S => run.session) => Stored(new, S)
    BY <1>1, <1>3 DEF Stored
  <1>6. ASSUME NEW held, Matches(js, held), k \in DOMAIN held, held[k] = run.id
        PROVE  /\ run.status = "running" => Matches(new, held)
               /\ run.status # "running" => Matches(new, Drop(held, k))
    <2>1. ASSUME run.status = "running" PROVE Matches(new, held)
      BY <1>1, <1>2, <1>6, <2>1 DEF Matches
    <2>2. ASSUME run.status # "running" PROVE Matches(new, Drop(held, k))
      <3> DEFINE rest == Drop(held, k)
      <3>1. DOMAIN rest = DOMAIN held \ {k} /\ \A i \in DOMAIN rest : rest[i] = held[i]
        BY DEF Drop
      <3> HIDE DEF rest
      <3> SUFFICES ASSUME NEW i \in DOMAIN js, NEW n \in DOMAIN new[i].runs
                   PROVE  new[i].runs[n].status = "running"
                            <=> i \in DOMAIN rest /\ rest[i] = new[i].runs[n].id
        BY <1>1 DEF Matches, rest
      <3>2. CASE i = k
        BY <1>2, <1>6, <2>2, <3>1, <3>2 DEF Matches
      <3>3. CASE i # k
        BY <1>1, <1>6, <3>1, <3>3 DEF Matches
      <3> QED BY <3>2, <3>3
    <2> QED BY <2>1, <2>2
  <1>7. \A held : Held(js, held) => Held(new, held)
    BY <1>1, <1>3 DEF Held, HasRun
  <1> QED BY <1>4, <1>5, <1>6, <1>7 DEF new

\* The runs of a claimed job are the new one and some that it had.
LEMMA ClaimedRuns ==
    ASSUME ConstantsAssumption, NEW job \in Job, NEW r \in RunIds, NEW at
    PROVE  LET runs == Claimed(job, r, at).runs IN
           /\ runs[1] = [id |-> r, status |-> "running", session |-> FALSE]
           /\ \A k \in DOMAIN runs : k # 1 => k - 1 \in DOMAIN job.runs /\ runs[k] = job.runs[k - 1]
           /\ DOMAIN runs \subseteq Nat /\ 1 \in DOMAIN runs
  <1> DEFINE new  == [id |-> r, status |-> "running", session |-> FALSE]
             runs == <<new>> \o job.runs
             m    == IF Len(runs) > MaxRuns THEN MaxRuns ELSE Len(runs)
             kept == SubSeq(runs, 1, m)
  <1>1. new \in Run
    BY DEF Run, Statuses
  <1> HIDE DEF new
  <1>2. job.runs \in Seq(Run) /\ <<new>> \in Seq(Run) /\ Len(job.runs) \in Nat
    BY <1>1 DEF Job
  <1>3. /\ runs \in Seq(Run) /\ Len(runs) = Len(<<new>>) + Len(job.runs)
        /\ \A i \in 1 .. Len(<<new>>) + Len(job.runs) :
             runs[i] = IF i <= Len(<<new>>) THEN <<new>>[i] ELSE job.runs[i - Len(<<new>>)]
    BY <1>2, ConcatProperties
  <1>4. Len(<<new>>) = 1 /\ <<new>>[1] = new
    OBVIOUS
  <1> HIDE DEF runs
  <1>5. Len(runs) \in Nat /\ \A i \in 1..Len(runs) : runs[i] \in Run
    BY <1>3
  <1>6. m \in Nat /\ m >= 1 /\ m <= Len(runs)
    BY <1>2, <1>3, <1>4 DEF ConstantsAssumption
  <1> HIDE DEF m
  <1>7. Len(kept) = m /\ kept \in Seq(Run) /\ \A i \in 1..m : kept[i] = runs[i]
    <2>1. \A i \in 1..m : runs[i] \in Run
      BY <1>5, <1>6
    <2>2. /\ kept \in Seq(Run) /\ Len(kept) = IF 1 <= m THEN m - 1 + 1 ELSE 0
          /\ \A i \in 1 .. m - 1 + 1 : kept[i] = runs[1 + i - 1]
      BY <1>6, <2>1, SubSeqProperties
    <2> HIDE DEF kept
    <2> QED BY <1>6, <2>2
  <1> HIDE DEF kept
  <1>8. DOMAIN kept = 1..m /\ 1 \in 1..m
    BY <1>6, <1>7
  <1>9. kept[1] = new
    BY <1>2, <1>3, <1>4, <1>6, <1>7
  <1>10. \A k \in DOMAIN kept : k # 1 => k - 1 \in DOMAIN job.runs /\ kept[k] = job.runs[k - 1]
    <2> SUFFICES ASSUME NEW k \in 1..m, k # 1
                 PROVE  k - 1 \in DOMAIN job.runs /\ kept[k] = job.runs[k - 1]
      BY <1>8
    <2>1. k \in 1 .. Len(<<new>>) + Len(job.runs) /\ k > Len(<<new>>) /\ kept[k] = runs[k]
      BY <1>2, <1>3, <1>4, <1>6, <1>7
    <2>2. runs[k] = job.runs[k - 1]
      BY <1>2, <1>3, <1>4, <2>1
    <2>3. k - 1 \in 1..Len(job.runs) /\ DOMAIN job.runs = 1..Len(job.runs)
      BY <1>2, <1>4, <2>1
    <2> QED BY <2>1, <2>2, <2>3
  <1>11. Claimed(job, r, at).runs = kept
    <2>1. First(runs, MaxRuns) = kept
      BY DEF First, m, kept
    <2>2. Claimed(job, r, at) = [job EXCEPT !.nextRun = Occurrence[job.cron][at], !.runs = kept]
      BY <2>1 DEF Claimed, runs, new
    <2> HIDE DEF kept
    <2> QED BY <2>2 DEF Job
  <1> QED BY <1>8, <1>9, <1>10, <1>11 DEF new

\* A job that nobody holds is claimed for a run whose ID is new.
LEMMA PutClaimed ==
    ASSUME ConstantsAssumption, NEW js, Ledger(js), NEW k \in DOMAIN js, NEW r \in RunIds, NEW at,
           \A i \in DOMAIN js : \A n \in DOMAIN js[i].runs : js[i].runs[n].id # r
    PROVE  LET new == Put(js, k, Claimed(js[k], r, at)) IN
           /\ Distinct(js) => Distinct(new)
           /\ \A S : Stored(js, S) /\ r \notin S => Stored(new, S)
           /\ \A held : Matches(js, held) /\ k \notin DOMAIN held => Matches(new, Put(held, k, r))
           /\ \A held : Held(js, held) /\ k \notin DOMAIN held =>
                Held(new, held) /\ Held(new, Put(held, k, r))
  <1> DEFINE runs == Claimed(js[k], r, at).runs
             new  == Put(js, k, Claimed(js[k], r, at))
  <1>1. /\ runs[1] = [id |-> r, status |-> "running", session |-> FALSE]
        /\ \A n \in DOMAIN runs : n # 1 => n - 1 \in DOMAIN js[k].runs /\ runs[n] = js[k].runs[n - 1]
        /\ DOMAIN runs \subseteq Nat /\ 1 \in DOMAIN runs
    <2>1. js[k] \in Job
      BY DEF Ledger
    <2> QED BY <2>1, ClaimedRuns
  <1>2. /\ DOMAIN new = DOMAIN js /\ new[k].runs = runs
        /\ \A i \in DOMAIN js : i # k => new[i] = js[i]
    BY DEF Put
  <1>3. runs[1].id = r /\ runs[1].status = "running"
    BY <1>1
  <1> HIDE DEF runs, new
  <1>4. \A n \in DOMAIN runs : runs[n].id = r => n = 1
    BY <1>1
  <1>5. ASSUME Distinct(js) PROVE Distinct(new)
    <2> SUFFICES ASSUME NEW i \in DOMAIN js, NEW j \in DOMAIN js,
                        NEW n \in DOMAIN new[i].runs, NEW l \in DOMAIN new[j].runs,
                        new[i].runs[n].id = new[j].runs[l].id
                 PROVE  i = j /\ n = l
      BY <1>2 DEF Distinct
    <2>1. CASE i # k /\ j # k
      BY <1>2, <1>5, <2>1 DEF Distinct
    <2>2. CASE i = k /\ j # k
      <3>1. n # 1
        BY <1>2, <1>3, <2>2
      <3> QED BY <1>1, <1>2, <1>5, <2>2, <3>1 DEF Distinct
    <2>3. CASE i # k /\ j = k
      <3>1. l # 1
        BY <1>2, <1>3, <2>3
      <3> QED BY <1>1, <1>2, <1>5, <2>3, <3>1 DEF Distinct
    <2>4. CASE i = k /\ j = k
      <3>1. CASE n = 1 \/ l = 1
        BY <1>2, <1>3, <1>4, <2>4, <3>1
      <3>2. CASE n # 1 /\ l # 1
        <4>1. n - 1 = l - 1 /\ n \in Nat /\ l \in Nat
          BY <1>1, <1>2, <1>5, <2>4, <3>2 DEF Distinct
        <4> QED BY <2>4, <4>1
      <3> QED BY <3>1, <3>2
    <2> QED BY <2>1, <2>2, <2>3, <2>4
  <1>6. ASSUME NEW S, Stored(js, S), r \notin S PROVE Stored(new, S)
    <2> SUFFICES ASSUME NEW i \in DOMAIN js, NEW n \in DOMAIN new[i].runs, new[i].runs[n].id \in S
                 PROVE  new[i].runs[n].session
      BY <1>2 DEF Stored
    <2>1. CASE i # k
      BY <1>2, <1>6, <2>1 DEF Stored
    <2>2. CASE i = k
      <3>1. n # 1
        BY <1>2, <1>3, <1>6, <2>2
      <3> QED BY <1>1, <1>2, <1>6, <2>2, <3>1 DEF Stored
    <2> QED BY <2>1, <2>2
  <1>7. ASSUME NEW held, Matches(js, held), k \notin DOMAIN held PROVE Matches(new, Put(held, k, r))
    <2> DEFINE more == Put(held, k, r)
    <2>1. DOMAIN more = DOMAIN held \cup {k} /\ more[k] = r /\ \A i \in DOMAIN held : more[i] = held[i]
      BY <1>7 DEF Put
    <2> HIDE DEF more
    <2> SUFFICES ASSUME NEW i \in DOMAIN js, NEW n \in DOMAIN new[i].runs
                 PROVE  new[i].runs[n].status = "running"
                          <=> i \in DOMAIN more /\ more[i] = new[i].runs[n].id
      BY <1>2 DEF Matches, more
    <2>2. CASE i # k
      BY <1>2, <1>7, <2>1, <2>2 DEF Matches
    <2>3. CASE i = k /\ n = 1
      BY <1>2, <1>3, <2>1, <2>3
    <2>4. CASE i = k /\ n # 1
      <3>1. n - 1 \in DOMAIN js[k].runs /\ new[i].runs[n] = js[k].runs[n - 1]
        BY <1>1, <1>2, <2>4
      <3>2. js[k].runs[n - 1].status # "running" /\ js[k].runs[n - 1].id # r
        BY <1>7, <3>1 DEF Matches
      <3> QED BY <2>1, <2>4, <3>1, <3>2
    <2> QED BY <2>2, <2>3, <2>4
  <1>8. ASSUME NEW held, Held(js, held), k \notin DOMAIN held
        PROVE  Held(new, held) /\ Held(new, Put(held, k, r))
    <2> DEFINE more == Put(held, k, r)
    <2>1. DOMAIN more = DOMAIN held \cup {k} /\ more[k] = r /\ \A i \in DOMAIN held : more[i] = held[i]
      BY <1>8 DEF Put
    <2> HIDE DEF more
    <2>2. HasRun(new, k, r)
      BY <1>1, <1>2, <1>3 DEF HasRun
    <2>3. \A i \in DOMAIN held : HasRun(new, i, held[i])
      BY <1>2, <1>8 DEF Held, HasRun
    <2> QED BY <2>1, <2>2, <2>3 DEF Held, more
  <1> QED BY <1>5, <1>6, <1>7, <1>8 DEF new

\* The start of the process ends the runs that were open.
LEMMA InterruptedRuns ==
    ASSUME NEW js
    PROVE  LET new == [id \in DOMAIN js |-> Interrupted(js[id])] IN
           /\ Ledger(js) /\ Distinct(js) => Distinct(new)
           /\ \A S : Ledger(js) /\ Stored(js, S) => Stored(new, S)
           /\ Ledger(js) => Matches(new, Nothing)
  <1> DEFINE new == [id \in DOMAIN js |-> Interrupted(js[id])]
  <1>1. DOMAIN new = DOMAIN js
    OBVIOUS
  <1>2. ASSUME Ledger(js), NEW i \in DOMAIN js
        PROVE  /\ DOMAIN new[i].runs = DOMAIN js[i].runs
               /\ \A n \in DOMAIN js[i].runs : /\ new[i].runs[n].id = js[i].runs[n].id
                                               /\ new[i].runs[n].session = js[i].runs[n].session
                                               /\ new[i].runs[n].status # "running"
    <2> DEFINE runs == [k \in DOMAIN js[i].runs |-> IF js[i].runs[k].status = "running"
                          THEN [js[i].runs[k] EXCEPT !.status = "interrupted"] ELSE js[i].runs[k]]
               paused == js[i].paused \/ \E k \in DOMAIN js[i].runs : js[i].runs[k].status = "running"
    <2>1. js[i] \in Job /\ js[i].runs \in Seq(Run)
      BY <1>2 DEF Ledger, Job
    <2>2. Interrupted(js[i]) = [js[i] EXCEPT !.paused = paused, !.runs = runs]
      BY DEF Interrupted
    <2>3. new[i].runs = runs
      <3> HIDE DEF runs, paused
      <3> QED BY <2>1, <2>2 DEF Job
    <2>4. ASSUME NEW n \in DOMAIN js[i].runs
          PROVE  /\ runs[n].id = js[i].runs[n].id /\ runs[n].session = js[i].runs[n].session
                 /\ runs[n].status # "running"
      <3>1. js[i].runs[n] \in Run
        BY <2>1
      <3> QED BY <3>1 DEF Run
    <2>5. DOMAIN runs = DOMAIN js[i].runs
      OBVIOUS
    <2> HIDE DEF new, runs
    <2> QED BY <2>3, <2>4, <2>5
  <1> HIDE DEF new
  <1>3. Ledger(js) /\ Distinct(js) => Distinct(new)
    BY <1>1, <1>2 DEF Distinct
  <1>4. \A S : Ledger(js) /\ Stored(js, S) => Stored(new, S)
    BY <1>1, <1>2 DEF Stored
  <1>5. Ledger(js) => Matches(new, Nothing)
    BY <1>1, <1>2 DEF Matches, Nothing
  <1> QED BY <1>3, <1>4, <1>5 DEF new

-----------------------------------------------------------------------------
(* The books: what the ledger says of each run. *)

\* A write of a ledger that is in order, by which no run becomes ready and no
\* claim is added.
LEMMA BooksWritten ==
    ASSUME Books, NEW js, NEW ops, NEW outcome, Write(js, ops, outcome),
           Distinct(js), Stored(js, Bound), Held(js, running), Bound' \subseteq Bound,
           \A i \in DOMAIN running' : i \in DOMAIN running /\ running'[i] = running[i]
    PROVE  \A l \in {jobs', disk'.jobs} : Distinct(l) /\ Stored(l, Bound') /\ Held(l, running')
  <1>1. \A l \in {jobs', disk'.jobs} : l \in {jobs, disk.jobs, js}
    BY WriteCases
  <1>2. \A l : Stored(l, Bound) => Stored(l, Bound')
    BY DEF Stored
  <1>3. \A l : Held(l, running) => Held(l, running')
    BY DEF Held
  <1> QED BY <1>1, <1>2, <1>3 DEF Books

\* One goroutine's step: it may submit what it was ready to submit.
LEMMA BooksWorker ==
    ASSUME Inv, Books, NEW r \in DOMAIN workers, NEW w \in Worker,
           workers' = [workers EXCEPT ![r] = w], Unwritten,
           UNCHANGED <<up, running, pending, dispatched>>,
           w.phase = "record" => w.run.status # "running",
           w.run.session = workers[r].run.session,
           prompted' \in {prompted, prompted \cup {r}},
           w.phase \in Ready \/ r \in prompted' => r \in Bound,
           w.phase \in Early => workers[r].phase \in Early /\ prompted' = prompted
    PROVE  Books'
  <1>1. /\ DOMAIN workers' = DOMAIN workers /\ workers'[r] = w
        /\ \A q \in DOMAIN workers : q # r => workers'[q] = workers[q]
    OBVIOUS
  <1>2. Bound' \subseteq Bound
    BY <1>1 DEF Bound
  <1>3. \A js \in {jobs', disk'.jobs} : Distinct(js) /\ Stored(js, Bound') /\ Held(js, running')
    <2>1. \A l : Stored(l, Bound) => Stored(l, Bound')
      BY <1>2 DEF Stored
    <2> QED BY <2>1 DEF Books, Unwritten
  <1>4. up' => Matches(jobs', running')
    BY DEF Books, Unwritten
  <1>5. \A q \in DOMAIN workers' :
          /\ workers'[q].phase = "record" => workers'[q].run.status # "running"
          /\ q \in Bound' => workers'[q].run.session
          /\ workers'[q].phase \in Early => q \notin prompted'
    <2> SUFFICES ASSUME NEW q \in DOMAIN workers
                 PROVE  /\ workers'[q].phase = "record" => workers'[q].run.status # "running"
                        /\ q \in Bound' => workers'[q].run.session
                        /\ workers'[q].phase \in Early => q \notin prompted'
      BY <1>1
    <2>1. CASE q # r
      BY <1>1, <1>2, <2>1 DEF Books
    <2>2. CASE q = r
      BY <1>1, <1>2, <2>2 DEF Books
    <2> QED BY <2>1, <2>2
  <1>6. \A id \in DOMAIN pending' :
          /\ pending'[id].id = running'[id] /\ pending'[id].status # "running"
          /\ pending'[id].id \in Bound' => pending'[id].session
    BY <1>2 DEF Books
  <1>7. prompted' \cup DOMAIN workers' \subseteq {d.run : d \in dispatched'}
    BY <1>1 DEF Books
  <1> QED BY <1>3, <1>4, <1>5, <1>6, <1>7 DEF Books

LEMMA BooksStep ==
    ASSUME Inv, Books, NEW r \in RunIds, NEW from, NEW to, Step(r, from, to),
           <<from, to>> \in {<<"validate", "create">>, <<"create", "admit">>, <<"check", "clear">>,
                             <<"clear", "wait">>},
           prompted' = IF from = "clear" THEN prompted \cup {r} ELSE prompted,
           OnlyWorkers, UNCHANGED dispatched
    PROVE  Books'
  <1> DEFINE w == [workers[r] EXCEPT !.phase = to]
  <1>1. r \in DOMAIN workers /\ workers[r] \in Worker /\ workers[r].phase = from
    BY DEF Step, Inv, TypeOK
  <1>2. to \in Phases
    BY DEF Phases
  <1>3. w \in Worker /\ w.run = workers[r].run /\ w.phase = to
    BY <1>1, <1>2 DEF Worker
  <1>4. workers' = [workers EXCEPT ![r] = w]
    BY DEF Step
  <1> HIDE DEF w
  <1>5. w.phase \in Ready \/ r \in prompted' => r \in Bound
    BY <1>1, <1>3 DEF Ready, Bound
  <1>6. w.phase \in Early => workers[r].phase \in Early /\ prompted' = prompted
    BY <1>1, <1>3 DEF Early
  <1>7. w.phase # "record"
    BY <1>3
  <1> QED BY <1>1, <1>3, <1>4, <1>5, <1>6, <1>7, BooksWorker DEF OnlyWorkers, Unwritten

LEMMA BooksSettle ==
    ASSUME Inv, Books, NEW r \in RunIds, NEW from, NEW status \in Statuses \ {"running"},
           Settle(r, from, status), OnlyWorkers, UNCHANGED <<dispatched, prompted>>
    PROVE  Books'
  <1> DEFINE s == IF workers[r].cancelled THEN "interrupted" ELSE status
             w == [workers[r] EXCEPT !.phase = "record", !.run.status = s]
  <1>1. r \in DOMAIN workers /\ workers[r] \in Worker
    BY DEF Settle, Inv, TypeOK
  <1>2. s \in Statuses \ {"running"}
    BY DEF Statuses
  <1>3. workers' = [workers EXCEPT ![r] = w]
    BY DEF Settle
  <1>4. /\ w \in Worker /\ w.phase = "record" /\ w.run.status = s
        /\ w.run.session = workers[r].run.session
    <2> HIDE DEF s
    <2> QED BY <1>1, <1>2 DEF Worker, Phases, Run
  <1> HIDE DEF w, s
  <1>5. /\ w.phase \in Ready \/ r \in prompted' => r \in Bound
        /\ w.phase \notin Early
    BY <1>4 DEF Ready, Early, Bound
  <1> QED BY <1>1, <1>2, <1>3, <1>4, <1>5, BooksWorker DEF OnlyWorkers, Unwritten

LEMMA BooksGoroutine ==
    ASSUME Inv, Books, NEW r \in RunIds,
           \/ ValidateRoot(r) \/ CreateSession(r) \/ CheckContext(r)
           \/ SubmitPrompt(r) \/ PromptDone(r) \/ PromptAborted(r)
    PROVE  Books'
  <1>0. {"completed", "failed", "interrupted"} = Statuses \ {"running"}
    BY DEF Statuses
  <1>1. CASE ValidateRoot(r)
    BY <1>0, <1>1, BooksStep, BooksSettle DEF ValidateRoot, history
  <1>2. CASE CreateSession(r)
    BY <1>0, <1>2, BooksStep, BooksSettle DEF CreateSession, history
  <1>3. CASE CheckContext(r)
    BY <1>0, <1>3, BooksStep, BooksSettle DEF CheckContext, history
  <1>4. CASE SubmitPrompt(r)
    BY <1>0, <1>4, BooksStep, BooksSettle DEF SubmitPrompt
  <1>5. CASE PromptDone(r)
    BY <1>0, <1>5, BooksSettle DEF PromptDone, history
  <1>6. CASE PromptAborted(r)
    BY <1>0, <1>6, BooksSettle DEF PromptAborted, history
  <1> QED BY <1>1, <1>2, <1>3, <1>4, <1>5, <1>6

\* Goroutines that are cancelled, or none that is touched; the ledger may be
\* written.
LEMMA BooksKept ==
    ASSUME Books, DOMAIN workers' = DOMAIN workers,
           \A q \in DOMAIN workers : /\ workers'[q].phase = workers[q].phase
                                     /\ workers'[q].run = workers[q].run,
           UNCHANGED <<running, pending, prompted, dispatched>>,
           Unwritten \/ \E js, ops, outcome : /\ Write(js, ops, outcome)
                                              /\ Distinct(js) /\ Stored(js, Bound) /\ Held(js, running)
                                              /\ up => Matches(js, running),
           up' => up
    PROVE  Books'
  <1>1. /\ Bound' = Bound
        /\ \A i \in DOMAIN running' : i \in DOMAIN running /\ running'[i] = running[i]
    BY DEF Bound
  <1>2. \A js \in {jobs', disk'.jobs} : Distinct(js) /\ Stored(js, Bound') /\ Held(js, running')
    <2>1. CASE Unwritten
      BY <1>1, <2>1 DEF Books, Unwritten
    <2>2. ASSUME NEW js, NEW ops, NEW outcome, Write(js, ops, outcome), Distinct(js), Stored(js, Bound),
                 Held(js, running)
          PROVE  \A l \in {jobs', disk'.jobs} : Distinct(l) /\ Stored(l, Bound') /\ Held(l, running')
      BY <1>1, <2>2, BooksWritten
    <2> QED BY <2>1, <2>2
  <1>3. up' => Matches(jobs', running')
    <2>1. CASE Unwritten
      BY <2>1 DEF Books, Unwritten
    <2>2. ASSUME NEW js, NEW ops, NEW outcome, Write(js, ops, outcome), up => Matches(js, running)
          PROVE  up' => Matches(jobs', running')
      <3>1. jobs' \in {jobs, js}
        BY <2>2, WriteCases
      <3> QED BY <2>2, <3>1 DEF Books
    <2> QED BY <2>1, <2>2
  <1>4. \A q \in DOMAIN workers' :
          /\ workers'[q].phase = "record" => workers'[q].run.status # "running"
          /\ q \in Bound' => workers'[q].run.session
          /\ workers'[q].phase \in Early => q \notin prompted'
    BY <1>1 DEF Books
  <1>5. \A id \in DOMAIN pending' :
          /\ pending'[id].id = running'[id] /\ pending'[id].status # "running"
          /\ pending'[id].id \in Bound' => pending'[id].session
    BY <1>1 DEF Books
  <1>6. prompted' \cup DOMAIN workers' \subseteq {d.run : d \in dispatched'}
    BY DEF Books
  <1> QED BY <1>2, <1>3, <1>4, <1>5, <1>6 DEF Books

\* startLocked.
LEMMA BooksStart ==
    ASSUME Inv, Books, up, ConstantsAssumption, NEW id, NEW at, NEW ops,
           NEW by, NEW occurrence, NEW outcome,
           StartLocked(id, at, ops, by, occurrence, outcome), UNCHANGED <<up, pending, prompted>>
    PROVE  Books'
  <1>1. PICK r \in UnusedRuns :
          /\ Write(Put(jobs, id, Claimed(jobs[id], r, at)), ops, outcome)
          /\ IF outcome = "ok"
             THEN /\ running' = Put(running, id, r)
                  /\ workers' = Put(workers, r,
                       [job |-> id, phase |-> "validate", cancelled |-> FALSE,
                        run |-> [id |-> r, status |-> "running", session |-> FALSE]])
                  /\ dispatched' = dispatched \cup
                       {[run |-> r, job |-> id, by |-> by, occurrence |-> occurrence]}
             ELSE UNCHANGED <<running, workers, dispatched>>
    BY DEF StartLocked
  <1> DEFINE js == Put(jobs, id, Claimed(jobs[id], r, at))
             w  == [job |-> id, phase |-> "validate", cancelled |-> FALSE,
                    run |-> [id |-> r, status |-> "running", session |-> FALSE]]
  <1>2. /\ id \in DOMAIN jobs /\ r \in RunIds /\ id \notin DOMAIN running /\ Ledger(jobs)
        /\ \A i \in DOMAIN jobs : \A k \in DOMAIN jobs[i].runs : jobs[i].runs[k].id # r
        /\ \A d \in dispatched : d.run # r
    BY DEF StartLocked, MayStart, UnusedRuns, Inv, TypeOK, Ledger
  <1>3. r \notin DOMAIN workers /\ r \notin prompted /\ r \notin Bound
    BY <1>2 DEF Books, Bound
  <1>4. /\ Distinct(js) /\ Stored(js, Bound) /\ Matches(js, Put(running, id, r))
        /\ Held(js, running) /\ Held(js, Put(running, id, r))
    <2>1. Distinct(jobs) /\ Stored(jobs, Bound) /\ Matches(jobs, running) /\ Held(jobs, running)
      BY DEF Books
    <2> QED BY <1>2, <1>3, <2>1, PutClaimed
  <1>5. Write(js, ops, outcome)
    BY <1>1
  <1> HIDE DEF js
  <1>6. CASE outcome # "ok"
    <2>1. UNCHANGED <<running, workers, dispatched>> /\ jobs' = jobs
      BY <1>1, <1>5, <1>6, WriteCases
    <2>2. Bound' = Bound
      BY <2>1 DEF Bound
    <2>3. \A l \in {jobs', disk'.jobs} : Distinct(l) /\ Stored(l, Bound') /\ Held(l, running')
      <3>1. \A i \in DOMAIN running' : i \in DOMAIN running /\ running'[i] = running[i]
        BY <2>1
      <3> QED BY <1>4, <1>5, <2>2, <3>1, BooksWritten
    <2>4. up' => Matches(jobs', running')
      BY <2>1 DEF Books
    <2> QED BY <2>1, <2>2, <2>3, <2>4 DEF Books
  <1>7. CASE outcome = "ok"
    <2>1. /\ running' = Put(running, id, r) /\ workers' = Put(workers, r, w)
          /\ dispatched' = dispatched \cup
               {[run |-> r, job |-> id, by |-> by, occurrence |-> occurrence]}
          /\ jobs' = js /\ disk'.jobs = js
      BY <1>1, <1>5, <1>7, WriteCases
    <2>2. w.phase = "validate" /\ w.run.session = FALSE
      OBVIOUS
    <2> HIDE DEF w
    <2>3. /\ DOMAIN workers' = DOMAIN workers \cup {r} /\ workers'[r] = w
          /\ \A q \in DOMAIN workers : workers'[q] = workers[q]
      BY <1>3, <2>1 DEF Put
    <2>4. Bound' = Bound
      BY <1>3, <2>2, <2>3 DEF Bound, Ready
    <2>5. \A l \in {jobs', disk'.jobs} : Distinct(l) /\ Stored(l, Bound') /\ Held(l, running')
      BY <1>4, <2>1, <2>4
    <2>6. up' => Matches(jobs', running')
      BY <1>4, <2>1
    <2>7. \A q \in DOMAIN workers' :
            /\ workers'[q].phase = "record" => workers'[q].run.status # "running"
            /\ q \in Bound' => workers'[q].run.session
            /\ workers'[q].phase \in Early => q \notin prompted'
      <3> SUFFICES ASSUME NEW q \in DOMAIN workers'
                   PROVE  /\ workers'[q].phase = "record" => workers'[q].run.status # "running"
                          /\ q \in Bound' => workers'[q].run.session
                          /\ workers'[q].phase \in Early => q \notin prompted'
        OBVIOUS
      <3>1. CASE q = r
        BY <1>3, <2>2, <2>3, <2>4, <3>1
      <3>2. CASE q # r
        BY <2>3, <2>4, <3>2 DEF Books
      <3> QED BY <3>1, <3>2
    <2>8. \A p \in DOMAIN pending' :
            /\ pending'[p].id = running'[p] /\ pending'[p].status # "running"
            /\ pending'[p].id \in Bound' => pending'[p].session
      <3>1. \A p \in DOMAIN pending : p # id /\ p \in DOMAIN running
        BY <1>2 DEF Inv, Claims
      <3> QED BY <2>1, <2>4, <3>1 DEF Books, Put
    <2>9. prompted' \cup DOMAIN workers' \subseteq {d.run : d \in dispatched'}
      <3>1. [run |-> r, job |-> id, by |-> by, occurrence |-> occurrence].run = r
        OBVIOUS
      <3>2. r \in {d.run : d \in dispatched'}
        BY <2>1, <3>1
      <3>3. {d.run : d \in dispatched} \subseteq {d.run : d \in dispatched'}
        BY <2>1
      <3> QED BY <2>3, <3>2, <3>3 DEF Books
    <2> QED BY <2>5, <2>6, <2>7, <2>8, <2>9 DEF Books
  <1> QED BY <1>6, <1>7

\* finishLocked: the entry of the run that holds the job is closed with it.
LEMMA BooksFinish ==
    ASSUME Inv, Books, up, NEW id \in DOMAIN running, NEW run \in Run, run.id = running[id],
           run.status # "running", run.id \in Bound => run.session,
           NEW outcome, FinishLocked(id, run, outcome), Bound' \subseteq Bound
    PROVE  /\ \A l \in {jobs', disk'.jobs} : Distinct(l) /\ Stored(l, Bound') /\ Held(l, running')
           /\ Matches(jobs', running')
           /\ \A i \in DOMAIN running' : i \in DOMAIN running /\ running'[i] = running[i]
  <1> DEFINE job == [jobs[id] EXCEPT !.runs = Replace(@, run)]
             js  == Put(jobs, id, job)
  <1>1. id \in DOMAIN jobs /\ jobs[id] \in Job /\ Ledger(jobs)
    BY DEF Inv, TypeOK, Claims, Ledger
  <1>2. job.runs = Replace(jobs[id].runs, run)
    BY <1>1 DEF Job
  <1>3. Write(js, operations, outcome) /\ running' = IF outcome = "ok" THEN Drop(running, id) ELSE running
    BY DEF FinishLocked
  <1> HIDE DEF job
  <1>4. /\ Distinct(js) /\ Stored(js, Bound) /\ Matches(js, Drop(running, id)) /\ Held(js, running)
    <2>1. Distinct(jobs) /\ Stored(jobs, Bound) /\ Matches(jobs, running) /\ Held(jobs, running)
      BY DEF Books
    <2> QED BY <1>1, <1>2, <2>1, PutReplaced
  <1> HIDE DEF js
  <1>5. \A i \in DOMAIN running' : i \in DOMAIN running /\ running'[i] = running[i]
    BY <1>3 DEF Drop
  <1>6. Matches(jobs', running')
    <2>1. CASE outcome = "ok"
      BY <1>3, <1>4, <2>1, WriteCases
    <2>2. CASE outcome # "ok"
      BY <1>3, <2>2, WriteCases DEF Books
    <2> QED BY <2>1, <2>2
  <1>7. \A l \in {jobs', disk'.jobs} : Distinct(l) /\ Stored(l, Bound') /\ Held(l, running')
    BY <1>3, <1>4, <1>5, BooksWritten
  <1> QED BY <1>5, <1>6, <1>7

LEMMA BooksTickFinish ==
    ASSUME Inv, Books, TickFinish
    PROVE  Books'
  <1>1. PICK id \in ToRecord, outcome \in Outcomes :
          /\ FinishLocked(id, pending[id], outcome)
          /\ pending' = IF outcome = "ok" THEN Drop(pending, id) ELSE pending
    BY DEF TickFinish
  <1>2. /\ id \in DOMAIN pending /\ id \in DOMAIN running /\ pending[id] \in Run
        /\ pending[id].id = running[id] /\ pending[id].status # "running"
        /\ pending[id].id \in Bound => pending[id].session
    BY DEF ToRecord, Inv, TypeOK, Claims, Books
  <1>3. up /\ UNCHANGED <<up, workers, prompted, dispatched>>
    BY DEF TickFinish, history
  <1>4. Bound' = Bound
    BY <1>3 DEF Bound
  <1>5. /\ \A l \in {jobs', disk'.jobs} : Distinct(l) /\ Stored(l, Bound') /\ Held(l, running')
        /\ Matches(jobs', running')
        /\ \A i \in DOMAIN running' : i \in DOMAIN running /\ running'[i] = running[i]
    BY <1>1, <1>2, <1>3, <1>4, BooksFinish
  <1>6. \A i \in DOMAIN pending' : i \in DOMAIN pending /\ pending'[i] = pending[i]
    BY <1>1 DEF Drop
  <1>7. \A i \in DOMAIN pending' : i \in DOMAIN running'
    BY TickFinishInv DEF Inv, Claims
  <1>8. \A i \in DOMAIN pending' :
          /\ pending'[i].id = running'[i] /\ pending'[i].status # "running"
          /\ pending'[i].id \in Bound' => pending'[i].session
    BY <1>4, <1>5, <1>6, <1>7 DEF Books
  <1> QED BY <1>3, <1>4, <1>5, <1>8 DEF Books

LEMMA BooksRecordEnd ==
    ASSUME Inv, Books, NEW r \in RunIds, RecordEnd(r)
    PROVE  Books'
  <1> DEFINE w == workers[r]
  <1>1. PICK outcome \in Outcomes :
          /\ FinishLocked(w.job, w.run, outcome)
          /\ pending' = IF outcome = "ok" THEN Drop(pending, w.job) ELSE Put(pending, w.job, w.run)
    BY DEF RecordEnd
  <1>2. /\ r \in DOMAIN workers /\ w.job \in DOMAIN running /\ w.run \in Run
        /\ w.run.id = running[w.job] /\ w.run.status # "running" /\ w.run.id = r
        /\ r \in Bound => w.run.session
    BY DEF RecordEnd, Inv, TypeOK, Claims, Books, Worker
  <1>3. /\ up /\ workers' = Drop(workers, r) /\ UNCHANGED <<up, prompted, dispatched>>
    BY DEF RecordEnd, Free, history
  <1>4. /\ DOMAIN workers' \subseteq DOMAIN workers
        /\ \A q \in DOMAIN workers' : workers'[q] = workers[q]
    BY <1>3 DEF Drop
  <1>5. Bound' \subseteq Bound
    BY <1>3, <1>4 DEF Bound
  <1> HIDE DEF w
  <1>6. /\ \A l \in {jobs', disk'.jobs} : Distinct(l) /\ Stored(l, Bound') /\ Held(l, running')
        /\ Matches(jobs', running')
        /\ \A i \in DOMAIN running' : i \in DOMAIN running /\ running'[i] = running[i]
    BY <1>1, <1>2, <1>3, <1>5, BooksFinish
  <1>7. \A i \in DOMAIN pending' : \/ i \in DOMAIN pending /\ pending'[i] = pending[i]
                                   \/ i = w.job /\ pending'[i] = w.run
    BY <1>1 DEF Drop, Put
  <1>8. \A i \in DOMAIN pending' : i \in DOMAIN running'
    BY RecordEndInv DEF Inv, Claims
  <1>9. \A i \in DOMAIN pending' :
          /\ pending'[i].id = running'[i] /\ pending'[i].status # "running"
          /\ pending'[i].id \in Bound' => pending'[i].session
    <2>1. ASSUME NEW i \in DOMAIN pending'
          PROVE  /\ pending'[i].id = running'[i] /\ pending'[i].status # "running"
                 /\ pending'[i].id \in Bound' => pending'[i].session
      <3>1. running'[i] = running[i]
        BY <1>6, <1>8
      <3>2. CASE i \in DOMAIN pending /\ pending'[i] = pending[i]
        BY <1>5, <3>1, <3>2 DEF Books
      <3>3. CASE i = w.job /\ pending'[i] = w.run
        <4>1. /\ w.run.id = running[w.job] /\ w.run.status # "running"
              /\ w.run.id \in Bound => w.run.session
          BY <1>2, Zenon
        <4>2. w.run.id \in Bound' => w.run.id \in Bound
          BY <1>5, Zenon
        <4>3. pending'[i].id = running'[i] /\ pending'[i].status # "running"
          BY <3>1, <3>3, <4>1
        <4>4. ASSUME pending'[i].id \in Bound'
              PROVE  pending'[i].session
          <5>1. w.run.id \in Bound'
            BY <3>3, <4>4
          <5>2. w.run.session
            BY <4>1, <4>2, <5>1, Zenon
          <5> QED BY <3>3, <5>2
        <4> QED BY <4>3, <4>4
      <3> QED BY <1>7, <3>2, <3>3
    <2> QED BY <2>1
  <1>10. \A q \in DOMAIN workers' :
           /\ workers'[q].phase = "record" => workers'[q].run.status # "running"
           /\ q \in Bound' => workers'[q].run.session
           /\ workers'[q].phase \in Early => q \notin prompted'
    BY <1>3, <1>4, <1>5 DEF Books
  <1>11. prompted' \cup DOMAIN workers' \subseteq {d.run : d \in dispatched'}
    BY <1>3, <1>4 DEF Books
  <1> QED BY <1>6, <1>9, <1>10, <1>11 DEF Books

\* The session's ID is in both ledgers before the prompt may be submitted.
LEMMA BooksAdmitted ==
    ASSUME Inv, Books, NEW r \in RunIds, Admitted(r)
    PROVE  Books'
  <1> DEFINE w   == workers[r]
             run == [id |-> r, status |-> "running", session |-> TRUE]
             job == [jobs[w.job] EXCEPT !.runs = Replace(@, run)]
             js  == Put(jobs, w.job, job)
             s   == IF w.cancelled THEN "interrupted" ELSE "failed"
             ok  == [w EXCEPT !.phase = "check", !.run = run]
             bad == [w EXCEPT !.phase = "record", !.run.status = s]
             All == Bound \cup {r}
  <1>1. PICK outcome \in Outcomes :
          /\ Write(js, operations, outcome)
          /\ workers' = [workers EXCEPT ![r] = IF outcome = "ok" THEN ok ELSE bad]
    BY DEF Admitted
  <1>2. /\ r \in DOMAIN workers /\ w \in Worker /\ w.phase = "admit" /\ w.run \in Run
        /\ w.job \in DOMAIN running /\ running[w.job] = r /\ w.job \in DOMAIN jobs
        /\ jobs[w.job] \in Job /\ Ledger(jobs)
    BY DEF Admitted, Inv, TypeOK, Claims, Worker, Ledger
  <1>3. up /\ UNCHANGED <<up, running, pending, prompted, dispatched>>
    BY DEF Admitted, Free, history
  <1>4. run \in Run /\ run.id = r /\ run.session = TRUE /\ run.status = "running"
    BY DEF Run, Statuses
  <1>5. /\ ok.phase = "check" /\ ok.run = run
        /\ bad.phase = "record" /\ bad.run.status \in Statuses \ {"running"}
    <2>1. s \in Statuses \ {"running"}
      BY DEF Statuses
    <2> HIDE DEF w, run, s
    <2> QED BY <1>2, <2>1 DEF Worker, Run
  <1>6. job.runs = Replace(jobs[w.job].runs, run)
    BY <1>2 DEF Job
  <1> HIDE DEF run, job, ok, bad, s, w
  <1>7. Distinct(js) /\ Matches(js, running) /\ Stored(js, Bound) /\ Held(js, running)
    <2>1. Distinct(jobs) /\ Matches(jobs, running) /\ Stored(jobs, Bound) /\ Held(jobs, running)
      BY <1>3 DEF Books
    <2> QED BY <1>2, <1>4, <1>6, <2>1, PutReplaced
  <1>8. Stored(js, All)
    <2> SUFFICES ASSUME NEW i \in DOMAIN js, NEW n \in DOMAIN js[i].runs, js[i].runs[n].id = r
                 PROVE  js[i].runs[n].session
      BY <1>7 DEF Stored
    <2>1. PICK m \in DOMAIN jobs[w.job].runs : jobs[w.job].runs[m].id = r
      BY <1>2 DEF Inv, Open, HasOpenRun, w
    <2>2. js[w.job] = job /\ w.job \in DOMAIN js
      BY DEF Put
    <2>3. /\ DOMAIN job.runs = DOMAIN jobs[w.job].runs
          /\ \A k \in DOMAIN job.runs :
               job.runs[k] = IF jobs[w.job].runs[k].id = run.id THEN run ELSE jobs[w.job].runs[k]
      <3>1. jobs[w.job].runs \in Seq(Run)
        BY <1>2 DEF Job
      <3>2. /\ DOMAIN Replace(jobs[w.job].runs, run) = DOMAIN jobs[w.job].runs
            /\ \A k \in DOMAIN jobs[w.job].runs :
                 Replace(jobs[w.job].runs, run)[k] =
                   IF jobs[w.job].runs[k].id = run.id THEN run ELSE jobs[w.job].runs[k]
        BY <1>4, <3>1, ReplaceRun
      <3> QED BY <1>6, <3>2
    <2> HIDE DEF js
    <2>4. m \in DOMAIN js[w.job].runs /\ js[w.job].runs[m] = run
      BY <1>4, <2>1, <2>2, <2>3
    <2>5. i = w.job /\ n = m
      BY <1>4, <1>7, <2>2, <2>4 DEF Distinct
    <2> QED BY <1>4, <2>4, <2>5
  <1> HIDE DEF js
  <1>9. r \notin prompted
    BY <1>2 DEF Books, Early, w
  <1>10. \A q \in DOMAIN workers : q # r => workers'[q] = workers[q]
    BY <1>1
  <1>11. DOMAIN workers' = DOMAIN workers
    BY <1>1
  <1>12. CASE outcome = "ok"
    <2>1. jobs' = js /\ disk'.jobs = js /\ workers'[r] = ok
      BY <1>1, <1>2, <1>12, WriteCases
    <2>2. Bound' \subseteq All
      BY <1>3, <1>10, <1>11 DEF Bound
    <2> HIDE DEF All
    <2>3. Stored(js, Bound')
      BY <1>8, <2>2 DEF Stored
    <2>4. \A q \in DOMAIN workers' :
            /\ workers'[q].phase = "record" => workers'[q].run.status # "running"
            /\ q \in Bound' => workers'[q].run.session
            /\ workers'[q].phase \in Early => q \notin prompted'
      <3> SUFFICES ASSUME NEW q \in DOMAIN workers
                   PROVE  /\ workers'[q].phase = "record" => workers'[q].run.status # "running"
                          /\ q \in Bound' => workers'[q].run.session
                          /\ workers'[q].phase \in Early => q \notin prompted'
        BY <1>11
      <3>1. CASE q = r
        BY <1>4, <1>5, <2>1, <3>1 DEF Early
      <3>2. CASE q # r
        BY <1>3, <1>10, <2>2, <3>2 DEF Books, All
      <3> QED BY <3>1, <3>2
    <2>5. \A p \in DOMAIN pending' :
            /\ pending'[p].id = running'[p] /\ pending'[p].status # "running"
            /\ pending'[p].id \in Bound' => pending'[p].session
      <3> SUFFICES ASSUME NEW p \in DOMAIN pending
                   PROVE  /\ pending[p].id = running[p] /\ pending[p].status # "running"
                          /\ pending[p].id \in Bound' => pending[p].session
        BY <1>3
      <3>1. p # w.job
        BY <1>2 DEF Inv, Claims, w
      <3>2. pending[p].id # r
        <4>1. pending[p].id = running[p] /\ p \in DOMAIN running
          BY DEF Books, Inv, Claims
        <4>2. HasRun(jobs, p, running[p]) /\ HasRun(jobs, w.job, r) /\ Distinct(jobs)
          BY <1>2, <4>1 DEF Books, Held
        <4> QED BY <3>1, <4>1, <4>2 DEF HasRun, Distinct
      <3> QED BY <2>2, <3>2 DEF Books, All
    <2> QED BY <1>3, <1>7, <1>11, <2>1, <2>3, <2>4, <2>5 DEF Books
  <1>13. CASE outcome # "ok"
    <2>1. jobs' = jobs /\ workers'[r] = bad
      BY <1>1, <1>2, <1>13, WriteCases
    <2>2. Bound' = Bound
      <3>1. bad.phase \notin Ready /\ workers[r].phase \notin Ready
        BY <1>2, <1>5 DEF Ready, w
      <3> QED BY <1>3, <1>10, <1>11, <2>1, <3>1 DEF Bound
    <2>3. r \notin Bound
      BY <1>2, <1>9 DEF Bound, Ready, w
    <2>4. \A l \in {jobs', disk'.jobs} : Distinct(l) /\ Stored(l, Bound') /\ Held(l, running')
      <3>1. \A i \in DOMAIN running' : i \in DOMAIN running /\ running'[i] = running[i]
        BY <1>3
      <3> QED BY <1>1, <1>7, <2>2, <3>1, BooksWritten
    <2>5. \A q \in DOMAIN workers' :
            /\ workers'[q].phase = "record" => workers'[q].run.status # "running"
            /\ q \in Bound' => workers'[q].run.session
            /\ workers'[q].phase \in Early => q \notin prompted'
      <3> SUFFICES ASSUME NEW q \in DOMAIN workers
                   PROVE  /\ workers'[q].phase = "record" => workers'[q].run.status # "running"
                          /\ q \in Bound' => workers'[q].run.session
                          /\ workers'[q].phase \in Early => q \notin prompted'
        BY <1>11
      <3>1. CASE q = r
        BY <1>5, <2>1, <2>2, <2>3, <3>1 DEF Early
      <3>2. CASE q # r
        BY <1>3, <1>10, <2>2, <3>2 DEF Books
      <3> QED BY <3>1, <3>2
    <2> QED BY <1>3, <1>11, <2>1, <2>2, <2>4, <2>5 DEF Books
  <1> QED BY <1>12, <1>13

\* The mutations other than a start.
LEMMA BooksMutation ==
    ASSUME Inv, Books, NEW req \in Requests,
           Create(req) \/ Update(req) \/ Delete(req) \/ Stop(req)
    PROVE  Books'
  <1>1. /\ Distinct(jobs) /\ Stored(jobs, Bound) /\ Held(jobs, running) /\ Matches(jobs, running)
        /\ up /\ Ledger(jobs)
    BY DEF Books, Create, Update, Delete, Stop, Handle, Free, Inv, TypeOK, Ledger
  <1>2. UNCHANGED <<up, running, pending, prompted, dispatched>>
    BY DEF Create, Update, Delete, Stop
  <1>3. /\ DOMAIN workers' = DOMAIN workers
        /\ \A q \in DOMAIN workers : /\ workers'[q].phase = workers[q].phase
                                     /\ workers'[q].run = workers[q].run
    <2>1. CASE ~Stop(req)
      BY <2>1 DEF Create, Update, Delete
    <2>2. CASE Stop(req)
      <3>1. UNCHANGED workers \/ Cancel({req.job})
        BY <2>2 DEF Stop
      <3>2. CASE UNCHANGED workers
        BY <3>2
      <3>3. CASE Cancel({req.job})
        <4>1. DOMAIN workers' = DOMAIN workers
          BY <3>3 DEF Cancel
        <4>2. \A q \in DOMAIN workers : workers[q] \in Worker
          BY DEF Inv, TypeOK
        <4>3. \A q \in DOMAIN workers : workers'[q] \in {workers[q], [workers[q] EXCEPT !.cancelled = TRUE]}
          BY <3>3 DEF Cancel
        <4> QED BY <4>1, <4>2, <4>3 DEF Worker
      <3> QED BY <3>1, <3>2, <3>3
    <2> QED BY <2>1, <2>2
  <1>4. \E js, ops, outcome : /\ Write(js, ops, outcome)
                              /\ Distinct(js) /\ Stored(js, Bound) /\ Held(js, running)
                              /\ Matches(js, running)
    <2>1. CASE Create(req)
      <3> DEFINE next == Occurrence[req.cron][now]
                 job == [cron |-> req.cron, paused |-> FALSE, nextRun |-> next,
                         runs |-> <<>>, by |-> req.key]
      <3>1. PICK id \in UnusedIds, outcome \in Outcomes :
              Write(Put(jobs, id, job), Recorded(req, [job |-> id, nextRun |-> next]), outcome)
        BY <2>1 DEF Create
      <3>2. id \notin DOMAIN jobs /\ job.runs = <<>>
        BY DEF UnusedIds
      <3> HIDE DEF job
      <3> QED BY <1>1, <3>1, <3>2, PutNew
    <2>2. CASE Update(req)
      <3> DEFINE old  == jobs[req.job]
                 cron == IF req.cron = None THEN old.cron ELSE req.cron
                 next == Occurrence[cron][now]
                 job  == [old EXCEPT !.cron = cron, !.nextRun = next,
                                     !.paused = IF req.pause = None THEN @ ELSE req.pause]
      <3>1. PICK outcome \in Outcomes :
              Write(Put(jobs, req.job, job), Recorded(req, [job |-> req.job, nextRun |-> next]), outcome)
        BY <2>2 DEF Update
      <3>2. req.job \in DOMAIN jobs /\ old \in Job
        BY <1>1, <2>2 DEF Update, Ledger
      <3>3. job.runs = jobs[req.job].runs
        BY <3>2 DEF Job
      <3> HIDE DEF job
      <3> QED BY <1>1, <3>1, <3>2, <3>3, PutRuns
    <2>3. CASE Delete(req)
      <3>1. PICK outcome \in Outcomes : Write(Drop(jobs, req.job), Recorded(req, None), outcome)
        BY <2>3 DEF Delete
      <3>2. req.job \notin DOMAIN running
        BY <2>3 DEF Delete
      <3> QED BY <1>1, <3>1, <3>2, DropRuns
    <2>4. CASE Stop(req)
      <3>1. PICK outcome \in Outcomes : Write(jobs, Recorded(req, None), outcome)
        BY <2>4 DEF Stop
      <3> QED BY <1>1, <3>1
    <2> QED BY <2>1, <2>2, <2>3, <2>4
  <1> QED BY <1>2, <1>3, <1>4, BooksKept

LEMMA BooksQuiet ==
    ASSUME Inv, Books,
           \/ TickBegin \/ TickEnd \/ Replay \/ Clock \/ (\E r \in RunIds : AgentDone(r))
           \/ Close \/ UNCHANGED vars
    PROVE  Books'
  <1>1. /\ UNCHANGED <<up, jobs, operations, disk, running, pending, prompted, dispatched>>
    BY DEF TickBegin, TickEnd, Replay, Clock, AgentDone, Close, vars, process, history
  <1>2. /\ DOMAIN workers' = DOMAIN workers
        /\ \A q \in DOMAIN workers : /\ workers'[q].phase = workers[q].phase
                                     /\ workers'[q].run = workers[q].run
    <2>1. CASE ~Close
      BY <2>1 DEF TickBegin, TickEnd, Replay, Clock, AgentDone, vars, process
    <2>2. CASE Close
      <3>1. Cancel(DOMAIN running)
        BY <2>2 DEF Close
      <3>2. DOMAIN workers' = DOMAIN workers
        BY <3>1 DEF Cancel
      <3>3. \A q \in DOMAIN workers : workers[q] \in Worker
        BY DEF Inv, TypeOK
      <3>4. \A q \in DOMAIN workers : workers'[q] \in {workers[q], [workers[q] EXCEPT !.cancelled = TRUE]}
        BY <3>1 DEF Cancel
      <3> QED BY <3>2, <3>3, <3>4 DEF Worker
    <2> QED BY <2>1, <2>2
  <1> QED BY <1>1, <1>2, BooksKept DEF Unwritten

LEMMA BooksCrash ==
    ASSUME Inv, Books, Crash
    PROVE  Books'
  <1>1. /\ DOMAIN Nothing = {} /\ jobs' = Nothing /\ workers' = Nothing /\ running' = Nothing
        /\ pending' = Nothing /\ ~up' /\ UNCHANGED <<disk, prompted, dispatched>>
    BY DEF Crash, Nothing
  <1>2. Bound' \subseteq Bound
    BY <1>1 DEF Bound
  <1>3. Distinct(jobs') /\ Stored(jobs', Bound') /\ Held(jobs', running')
    BY <1>1 DEF Distinct, Stored, Held
  <1>4. Distinct(disk'.jobs) /\ Stored(disk'.jobs, Bound') /\ Held(disk'.jobs, running')
    <2>1. Stored(disk.jobs, Bound) => Stored(disk.jobs, Bound')
      BY <1>2 DEF Stored
    <2> QED BY <1>1, <2>1 DEF Books, Held
  <1> QED BY <1>1, <1>3, <1>4 DEF Books

LEMMA BooksRestart ==
    ASSUME Inv, Books, Restart
    PROVE  Books'
  <1> DEFINE js == [id \in DOMAIN disk.jobs |-> Interrupted(disk.jobs[id])]
  <1>1. PICK outcome \in Outcomes : Write(js, disk.operations, outcome) /\ up' = (outcome = "ok")
    BY DEF Restart
  <1>2. /\ running = Nothing /\ workers = Nothing /\ pending = Nothing /\ DOMAIN Nothing = {}
        /\ UNCHANGED <<running, workers, pending, prompted, dispatched>> /\ Ledger(disk.jobs)
    BY DEF Restart, Inv, Claims, TypeOK, Ledger, Nothing, history
  <1>3. Distinct(js) /\ Stored(js, Bound) /\ Matches(js, running) /\ Held(js, running)
    <2>1. Distinct(disk.jobs) /\ Stored(disk.jobs, Bound)
      BY DEF Books
    <2>2. Distinct(js) /\ Stored(js, Bound) /\ Matches(js, running)
      <3> HIDE DEF js
      <3> QED BY <1>2, <2>1, InterruptedRuns DEF js
    <2>3. Held(js, running)
      BY <1>2 DEF Held
    <2> QED BY <2>2, <2>3
  <1> HIDE DEF js
  <1>4. /\ Bound' = Bound
        /\ \A i \in DOMAIN running' : i \in DOMAIN running /\ running'[i] = running[i]
    BY <1>2 DEF Bound
  <1>5. \A l \in {jobs', disk'.jobs} : Distinct(l) /\ Stored(l, Bound') /\ Held(l, running')
    BY <1>1, <1>3, <1>4, BooksWritten
  <1>6. up' => Matches(jobs', running')
    BY <1>1, <1>2, <1>3, WriteCases
  <1>7. prompted' \cup DOMAIN workers' \subseteq {d.run : d \in dispatched'}
    BY <1>2 DEF Books
  <1> QED BY <1>2, <1>5, <1>6, <1>7 DEF Books

LEMMA BooksInit == Init => Books
  <1> SUFFICES ASSUME Init PROVE Books
    OBVIOUS
  <1>1. /\ DOMAIN Nothing = {} /\ jobs = Nothing /\ disk.jobs = Nothing /\ workers = Nothing
        /\ running = Nothing /\ pending = Nothing /\ ~up /\ prompted = {}
    BY DEF Init, Nothing
  <1>2. \A js \in {jobs, disk.jobs} : Distinct(js) /\ Stored(js, Bound) /\ Held(js, running)
    BY <1>1 DEF Distinct, Stored, Held
  <1> QED BY <1>1, <1>2 DEF Books

LEMMA BooksNext == Inv /\ Books /\ [Next]_vars => Books'
  <1> SUFFICES ASSUME Inv, Books, [Next]_vars PROVE Books'
    OBVIOUS
  <1>1. CASE TickStart
    <2>1. PICK id \in ToStart, outcome \in Outcomes :
            StartLocked(id, tickAt, operations, NoKey, jobs[id].nextRun, outcome)
      BY <1>1 DEF TickStart
    <2>2. up /\ UNCHANGED <<up, pending, prompted>>
      BY <1>1 DEF TickStart
    <2> QED BY <2>1, <2>2, BooksStart, ConstantsAssumption
  <1>2. CASE TickBegin \/ TickEnd \/ TickFinish
    BY <1>2, BooksQuiet, BooksTickFinish
  <1>3. ASSUME NEW r \in RunIds, Work(r) \/ PromptDone(r) \/ AgentDone(r)
        PROVE  Books'
    BY <1>3, BooksGoroutine, BooksAdmitted, BooksRecordEnd, BooksQuiet DEF Work
  <1>4. ASSUME NEW req \in Requests, RunNow(req)
        PROVE  Books'
    <2>1. PICK outcome \in Outcomes : StartLocked(req.job, now, Recorded(req, None), req.key, None, outcome)
      BY <1>4 DEF RunNow
    <2>2. up /\ UNCHANGED <<up, pending, prompted>>
      BY <1>4 DEF RunNow, Handle, Free
    <2> QED BY <2>1, <2>2, BooksStart, ConstantsAssumption
  <1>5. ASSUME NEW req \in Requests, Mutate(req), ~RunNow(req)
        PROVE  Books'
    BY <1>5, BooksMutation DEF Mutate
  <1>6. CASE Replay \/ Clock \/ Close \/ UNCHANGED vars
    BY <1>6, BooksQuiet
  <1>7. CASE Crash \/ Restart
    BY <1>7, BooksCrash, BooksRestart
  <1> QED BY <1>1, <1>2, <1>3, <1>4, <1>5, <1>6, <1>7 DEF Next, Tick

\* In the memory a run is open in the ledger exactly while its job is held, and no
\* ledger, in the memory or in the file, has the entry of a prompted run without
\* its session: through failed writes, edits in between, crashes and restarts.
THEOREM LedgerTrue == Spec => []LedgerIsTrue
  <1>1. Inv /\ Books => LedgerIsTrue
    <2>1. Books => LedgerMatchesClaims
      BY DEF Books, LedgerMatchesClaims, Matches
    <2>2. Books => PromptedHasSession
      BY DEF Books, PromptedHasSession, Stored, Bound
    <2> QED BY <2>1, <2>2 DEF LedgerIsTrue
  <1> QED BY <1>1, Invariance, BooksInit, BooksNext, PTL DEF Spec

-----------------------------------------------------------------------------
(* When a job was dispatched, and may be again. *)

\* A step of a process that runs, by which nothing is dispatched.
LEMMA DispatchesKept ==
    ASSUME Inv, Dispatches, up, up', UNCHANGED dispatched, ambiguous' \subseteq ambiguous,
           \A l \in {jobs', disk'.jobs} :
               Ahead(l) /\ \A id \in ambiguous' \cap DOMAIN l : l[id].paused,
           now' \in Instants, now <= now', tickAt' \in Instants \cup {None},
           tickAt' # None => tickAt' <= now',
           \A r \in DOMAIN workers' : r \in DOMAIN workers /\ workers'[r].job = workers[r].job,
           \A id \in DOMAIN pending' :
               \/ id \in DOMAIN pending /\ pending'[id].id = pending[id].id
               \/ \E r \in DOMAIN workers : workers[r].job = id /\ pending'[id].id = r
    PROVE  Dispatches'
  <1>1. \A l \in {jobs', disk'.jobs} :
          \A d \in dispatched' : d.occurrence # None /\ d.job \in DOMAIN l => l[d.job].nextRun > d.occurrence
    BY DEF Ahead
  <1>2. \A d \in dispatched' : d.occurrence # None => d.occurrence <= now'
    <2>1. \A d \in dispatched : d.occurrence \in Nat \cup {None}
      BY DEF Inv, TypeOK
    <2>2. now \in Nat /\ now' \in Nat
      BY ConstantsAssumption DEF Inv, TypeOK, Instants, ConstantsAssumption
    <2> QED BY <2>1, <2>2 DEF Dispatches
  <1>3. OccurrenceOnce' /\ \A d, e \in dispatched' : d.run = e.run => d = e
    BY DEF Dispatches, OccurrenceOnce
  <1>4. \A r \in DOMAIN workers' : \E d \in dispatched' : d.run = r /\ d.job = workers'[r].job
    BY DEF Dispatches
  <1>5. \A id \in DOMAIN pending' : \E d \in dispatched' : d.run = pending'[id].id /\ d.job = id
    BY DEF Dispatches
  <1>6. ambiguous' \subseteq {d.job : d \in dispatched'}
    BY DEF Dispatches
  <1>7. Paused(jobs)' /\ Paused(disk.jobs)'
    BY DEF Paused
  <1>8. \A l \in {jobs', disk'.jobs} : l \in {jobs', disk'.jobs}
    OBVIOUS
  <1>9. Ahead(jobs)' /\ Ahead(disk.jobs)'
    BY <1>1 DEF Ahead
  <1> QED BY <1>2, <1>3, <1>4, <1>5, <1>6, <1>7, <1>9 DEF Dispatches

\* A ledger that is written by such a step.
LEMMA WrittenAhead ==
    ASSUME Inv, Dispatches, up, NEW js, Ledger(js), NEW ops, NEW outcome, Write(js, ops, outcome),
           \A id \in DOMAIN js :
               \/ \A d \in dispatched : d.job # id
               \/ /\ id \in DOMAIN jobs
                  /\ js[id].nextRun = jobs[id].nextRun \/ js[id].nextRun > now
                  /\ js[id].paused = jobs[id].paused
    PROVE  \A l \in {jobs', disk'.jobs} :
               Ahead(l) /\ \A id \in ambiguous \cap DOMAIN l : l[id].paused
  <1>1. \A l \in {jobs', disk'.jobs} : l \in {jobs, disk.jobs, js}
    BY WriteCases
  <1>2. Ahead(js)
    <2> SUFFICES ASSUME NEW d \in dispatched, d.occurrence # None, d.job \in DOMAIN js
                 PROVE  js[d.job].nextRun > d.occurrence
      BY DEF Ahead
    <2>1. /\ d.job \in DOMAIN jobs
          /\ js[d.job].nextRun = jobs[d.job].nextRun \/ js[d.job].nextRun > now
      OBVIOUS
    <2>2. jobs[d.job].nextRun > d.occurrence /\ d.occurrence <= now
      BY <2>1 DEF Dispatches, Ahead
    <2>3. d.occurrence \in Nat /\ now \in Nat /\ js[d.job].nextRun \in Nat
      BY ConstantsAssumption DEF Inv, TypeOK, Instants, ConstantsAssumption, Ledger, Job
    <2> QED BY <2>1, <2>2, <2>3
  <1>3. \A id \in ambiguous \cap DOMAIN js : js[id].paused
    <2> SUFFICES ASSUME NEW id \in ambiguous, id \in DOMAIN js
                 PROVE  js[id].paused
      OBVIOUS
    <2>1. \E d \in dispatched : d.job = id
      BY DEF Dispatches
    <2> QED BY <2>1 DEF Dispatches, Paused
  <1> QED BY <1>1, <1>2, <1>3 DEF Dispatches, Paused

\* The goroutines' steps that write nothing, and Close.
LEMMA DispatchesUnwritten ==
    ASSUME Inv, Dispatches, up, up', Unwritten, UNCHANGED <<dispatched, ambiguous, pending>>,
           now' \in Instants, now <= now', tickAt' \in Instants \cup {None},
           tickAt' # None => tickAt' <= now',
           \A r \in DOMAIN workers' : r \in DOMAIN workers /\ workers'[r].job = workers[r].job
    PROVE  Dispatches'
  <1>1. \A l \in {jobs', disk'.jobs} :
          Ahead(l) /\ \A id \in ambiguous' \cap DOMAIN l : l[id].paused
    BY DEF Dispatches, Unwritten, Paused
  <1> QED BY <1>1, DispatchesKept

LEMMA DispatchesGoroutine ==
    ASSUME Inv, Dispatches, NEW r \in RunIds,
           \/ ValidateRoot(r) \/ CreateSession(r) \/ CheckContext(r)
           \/ SubmitPrompt(r) \/ PromptDone(r) \/ PromptAborted(r)
    PROVE  Dispatches'
  <1>1. OnlyWorkers /\ UNCHANGED <<dispatched, ambiguous>>
    BY DEF ValidateRoot, CreateSession, CheckContext, SubmitPrompt, PromptDone, PromptAborted, history
  <1>2. (\E from, to : Step(r, from, to)) \/ (\E from, status : Settle(r, from, status))
    BY DEF ValidateRoot, CreateSession, CheckContext, SubmitPrompt, PromptDone, PromptAborted
  <1>3. r \in DOMAIN workers /\ workers[r] \in Worker /\ up
    BY <1>2 DEF Step, Settle, Inv, TypeOK
  <1>4. \A q \in DOMAIN workers' : q \in DOMAIN workers /\ workers'[q].job = workers[q].job
    <2>1. ASSUME NEW from, NEW to, Step(r, from, to)
          PROVE  \A q \in DOMAIN workers' : q \in DOMAIN workers /\ workers'[q].job = workers[q].job
      BY <1>3, <2>1 DEF Step, Worker
    <2>2. ASSUME NEW from, NEW status, Settle(r, from, status)
          PROVE  \A q \in DOMAIN workers' : q \in DOMAIN workers /\ workers'[q].job = workers[q].job
      BY <1>3, <2>2 DEF Settle, Worker
    <2> QED BY <1>2, <2>1, <2>2
  <1>5. now' \in Instants /\ now <= now' /\ tickAt' \in Instants \cup {None}
    BY <1>1, ConstantsAssumption DEF OnlyWorkers, Inv, TypeOK, Instants, ConstantsAssumption
  <1>6. tickAt' # None => tickAt' <= now'
    BY <1>1 DEF OnlyWorkers, Dispatches
  <1> QED BY <1>1, <1>3, <1>4, <1>5, <1>6, DispatchesUnwritten DEF OnlyWorkers, Unwritten

LEMMA DispatchesQuiet ==
    ASSUME Inv, Dispatches,
           \/ TickBegin \/ TickEnd \/ Replay \/ Clock \/ (\E r \in RunIds : AgentDone(r))
           \/ Close \/ UNCHANGED vars
    PROVE  Dispatches'
  <1>1. UNCHANGED <<up, jobs, disk, pending, dispatched, ambiguous>>
    BY DEF TickBegin, TickEnd, Replay, Clock, AgentDone, Close, vars, process, history
  <1>2. DOMAIN workers' = DOMAIN workers /\ \A q \in DOMAIN workers : workers'[q].job = workers[q].job
    <2>1. CASE ~Close
      BY <2>1 DEF TickBegin, TickEnd, Replay, Clock, AgentDone, vars, process
    <2>2. CASE Close
      BY <2>2, CancelFacts DEF Close
    <2> QED BY <2>1, <2>2
  <1>3. now \in Nat /\ now' \in Nat /\ now <= now'
    BY ConstantsAssumption DEF TickBegin, TickEnd, Replay, Clock, AgentDone, Close, vars, Inv, TypeOK,
         Instants, ConstantsAssumption
  <1>4. tickAt' # None => tickAt' <= now'
    <2>1. tickAt' \in {tickAt, None} \/ (tickAt' = now /\ now' = now)
      BY DEF TickBegin, TickEnd, Replay, Clock, AgentDone, Close, vars, process
    <2>2. tickAt \in Nat \cup {None}
      BY ConstantsAssumption DEF Inv, TypeOK, Instants, ConstantsAssumption
    <2> QED BY <1>3, <2>1, <2>2 DEF Dispatches
  <1>5. \A d \in dispatched' : d.occurrence # None => d.occurrence <= now'
    <2>1. \A d \in dispatched : d.occurrence \in Nat \cup {None}
      BY DEF Inv, TypeOK
    <2> QED BY <1>1, <1>3, <2>1 DEF Dispatches
  <1>6. OccurrenceOnce'
    BY <1>1 DEF Dispatches, OccurrenceOnce
  <1>7. \A js \in {jobs', disk'.jobs} : Ahead(js)'
    BY <1>1 DEF Dispatches, Ahead
  <1>8. up' => Paused(jobs)' /\ Paused(disk.jobs)'
    BY <1>1 DEF Dispatches, Paused
  <1>9. ~up' => /\ jobs' = Nothing
                /\ \A id \in ambiguous' \cap DOMAIN disk'.jobs :
                     disk'.jobs[id].paused \/ \E r \in RunIds : HasOpenRun(disk'.jobs, id, r)
    BY <1>1 DEF Dispatches
  <1>10. (\A js \in {jobs, disk.jobs} : Ahead(js))'
    BY <1>1 DEF Dispatches, Ahead
  <1> QED BY <1>1, <1>2, <1>4, <1>5, <1>6, <1>8, <1>9, <1>10 DEF Dispatches

\* The writes that replace one entry: the end of a run, recorded by the ticker or
\* by its goroutine, and the session's ID.
LEMMA EntryWritten ==
    ASSUME Inv, TickFinish \/ \E r \in RunIds : RecordEnd(r) \/ Admitted(r)
    PROVE  \E id \in DOMAIN running, run \in Run, outcome \in Outcomes :
             Write(Put(jobs, id, [jobs[id] EXCEPT !.runs = Replace(@, run)]), operations, outcome)
  <1>1. CASE TickFinish
    <2>1. PICK id \in ToRecord, outcome \in Outcomes : FinishLocked(id, pending[id], outcome)
      BY <1>1 DEF TickFinish
    <2>2. id \in DOMAIN running /\ pending[id] \in Run
      BY DEF ToRecord, Inv, TypeOK, Claims
    <2> QED BY <2>1, <2>2 DEF FinishLocked
  <1>2. ASSUME NEW r \in RunIds, RecordEnd(r)
        PROVE  \E id \in DOMAIN running, run \in Run, outcome \in Outcomes :
                 Write(Put(jobs, id, [jobs[id] EXCEPT !.runs = Replace(@, run)]), operations, outcome)
    <2>1. PICK outcome \in Outcomes : FinishLocked(workers[r].job, workers[r].run, outcome)
      BY <1>2 DEF RecordEnd
    <2>2. workers[r].job \in DOMAIN running /\ workers[r].run \in Run
      BY <1>2 DEF RecordEnd, Inv, TypeOK, Claims, Worker
    <2> QED BY <2>1, <2>2 DEF FinishLocked
  <1>3. ASSUME NEW r \in RunIds, Admitted(r)
        PROVE  \E id \in DOMAIN running, run \in Run, outcome \in Outcomes :
                 Write(Put(jobs, id, [jobs[id] EXCEPT !.runs = Replace(@, run)]), operations, outcome)
    <2> DEFINE run == [id |-> r, status |-> "running", session |-> TRUE]
    <2>1. PICK outcome \in Outcomes :
            Write(Put(jobs, workers[r].job, [jobs[workers[r].job] EXCEPT !.runs = Replace(@, run)]),
                  operations, outcome)
      BY <1>3 DEF Admitted
    <2>2. workers[r].job \in DOMAIN running /\ run \in Run
      BY <1>3 DEF Admitted, Inv, Claims, Run, Statuses
    <2> HIDE DEF run
    <2> QED BY <2>1, <2>2
  <1> QED BY <1>1, <1>2, <1>3

\* The end of a run, recorded by the ticker or by its goroutine, and the session's
\* ID.
LEMMA DispatchesRecorded ==
    ASSUME Inv, Books, Dispatches,
           TickFinish \/ \E r \in RunIds : RecordEnd(r) \/ Admitted(r)
    PROVE  Dispatches'
  <1>1. up /\ up' /\ UNCHANGED <<dispatched, ambiguous, now, tickAt>>
    <2>1. CASE TickFinish
      BY <2>1 DEF TickFinish, history
    <2>2. ASSUME NEW r \in RunIds, RecordEnd(r)
          PROVE  up /\ up' /\ UNCHANGED <<dispatched, ambiguous, now, tickAt>>
      BY <2>2 DEF RecordEnd, Free, history
    <2>3. ASSUME NEW r \in RunIds, Admitted(r)
          PROVE  up /\ up' /\ UNCHANGED <<dispatched, ambiguous, now, tickAt>>
      BY <2>3 DEF Admitted, Free, history
    <2> QED BY <2>1, <2>2, <2>3
  <1>3. PICK id \in DOMAIN running, run \in Run, outcome \in Outcomes :
          Write(Put(jobs, id, [jobs[id] EXCEPT !.runs = Replace(@, run)]), operations, outcome)
    BY EntryWritten
  <1> DEFINE job == [jobs[id] EXCEPT !.runs = Replace(@, run)]
             js  == Put(jobs, id, job)
  <1>4. id \in DOMAIN jobs /\ id \in Ids /\ jobs[id] \in Job /\ Ledger(jobs)
    BY DEF Inv, TypeOK, Claims, Ledger
  <1>5. job \in Job /\ job.nextRun = jobs[id].nextRun /\ job.paused = jobs[id].paused
    <2>1. Replace(jobs[id].runs, run) \in Seq(Run)
      BY <1>4, ReplaceRun DEF Job
    <2> QED BY <1>4, <2>1 DEF Job
  <1> HIDE DEF job
  <1>6. /\ Ledger(js)
        /\ \A i \in DOMAIN js : /\ i \in DOMAIN jobs /\ js[i].nextRun = jobs[i].nextRun
                                /\ js[i].paused = jobs[i].paused
    <2>1. Ledger(js)
      BY <1>4, <1>5, PutLedger
    <2> QED BY <1>4, <1>5, <2>1 DEF Put
  <1>7. Write(js, operations, outcome)
    BY <1>3 DEF job
  <1> HIDE DEF js
  <1>8. \A l \in {jobs', disk'.jobs} : Ahead(l) /\ \A i \in ambiguous \cap DOMAIN l : l[i].paused
    BY <1>1, <1>6, <1>7, WrittenAhead
  <1>9. \A q \in DOMAIN workers' : q \in DOMAIN workers /\ workers'[q].job = workers[q].job
    <2>1. CASE TickFinish
      BY <2>1 DEF TickFinish
    <2>2. ASSUME NEW r \in RunIds, RecordEnd(r)
          PROVE  \A q \in DOMAIN workers' : q \in DOMAIN workers /\ workers'[q].job = workers[q].job
      BY <2>2 DEF RecordEnd, Drop
    <2>3. ASSUME NEW r \in RunIds, Admitted(r)
          PROVE  \A q \in DOMAIN workers' : q \in DOMAIN workers /\ workers'[q].job = workers[q].job
      <3> DEFINE w   == workers[r]
                 new == [id |-> r, status |-> "running", session |-> TRUE]
                 s   == IF w.cancelled THEN "interrupted" ELSE "failed"
                 ok  == [w EXCEPT !.phase = "check", !.run = new]
                 bad == [w EXCEPT !.phase = "record", !.run.status = s]
      <3>1. \E o \in Outcomes : workers' = [workers EXCEPT ![r] = IF o = "ok" THEN ok ELSE bad]
        BY <2>3 DEF Admitted
      <3>2. w \in Worker /\ r \in DOMAIN workers
        BY <2>3 DEF Admitted, Inv, TypeOK
      <3>3. ok.job = w.job /\ bad.job = w.job
        <4> HIDE DEF w, new, s
        <4> QED BY <3>2 DEF Worker
      <3> HIDE DEF ok, bad
      <3> QED BY <3>1, <3>2, <3>3
    <2> QED BY <2>1, <2>2, <2>3
  <1>10. \A p \in DOMAIN pending' :
           \/ p \in DOMAIN pending /\ pending'[p].id = pending[p].id
           \/ \E r \in DOMAIN workers : workers[r].job = p /\ pending'[p].id = r
    <2>1. CASE TickFinish
      BY <2>1 DEF TickFinish, Drop
    <2>2. ASSUME NEW r \in RunIds, RecordEnd(r)
          PROVE  \A p \in DOMAIN pending' :
                   \/ p \in DOMAIN pending /\ pending'[p].id = pending[p].id
                   \/ \E q \in DOMAIN workers : workers[q].job = p /\ pending'[p].id = q
      <3>1. \/ pending' = Drop(pending, workers[r].job)
            \/ pending' = Put(pending, workers[r].job, workers[r].run)
        BY <2>2 DEF RecordEnd
      <3>2. r \in DOMAIN workers /\ workers[r].run.id = r
        BY <2>2 DEF RecordEnd, Inv, Claims
      <3> QED BY <3>1, <3>2 DEF Drop, Put
    <2>3. ASSUME NEW r \in RunIds, Admitted(r)
          PROVE  pending' = pending
      BY <2>3 DEF Admitted
    <2> QED BY <2>1, <2>2, <2>3
  <1>11. now' \in Instants /\ now <= now' /\ tickAt' \in Instants \cup {None}
    BY <1>1, ConstantsAssumption DEF Inv, TypeOK, Instants, ConstantsAssumption
  <1>12. tickAt' # None => tickAt' <= now'
    BY <1>1 DEF Dispatches
  <1> QED BY <1>1, <1>8, <1>9, <1>10, <1>11, <1>12, DispatchesKept

\* The mutations other than a start.  Only one that resumes a job takes it out of
\* the ambiguous ones, and it is the one that may write it unpaused.
LEMMA DispatchesMutation ==
    ASSUME Inv, Dispatches, NEW req \in Requests,
           Create(req) \/ Update(req) \/ Delete(req) \/ Stop(req)
    PROVE  Dispatches'
  <1>1. /\ up /\ up' /\ UNCHANGED <<dispatched, now, tickAt, pending>> /\ Ledger(jobs)
        /\ now \in Instants /\ tickAt \in Instants \cup {None}
    BY DEF Create, Update, Delete, Stop, Handle, Free, Inv, TypeOK, Ledger
  <1>2. \A q \in DOMAIN workers' : q \in DOMAIN workers /\ workers'[q].job = workers[q].job
    <2>1. CASE ~Stop(req)
      BY <2>1 DEF Create, Update, Delete
    <2>2. CASE Stop(req)
      <3>1. UNCHANGED workers \/ Cancel({req.job})
        BY <2>2 DEF Stop
      <3> QED BY <3>1, CancelFacts
    <2> QED BY <2>1, <2>2
  <1>3. /\ ambiguous' \subseteq ambiguous
        /\ \A l \in {jobs', disk'.jobs} : Ahead(l) /\ \A id \in ambiguous' \cap DOMAIN l : l[id].paused
    <2>1. CASE Create(req)
      <3> DEFINE next == Occurrence[req.cron][now]
                 job == [cron |-> req.cron, paused |-> FALSE, nextRun |-> next,
                         runs |-> <<>>, by |-> req.key]
      <3>1. PICK id \in UnusedIds, outcome \in Outcomes :
              Write(Put(jobs, id, job), Recorded(req, [job |-> id, nextRun |-> next]), outcome)
        BY <2>1 DEF Create
      <3>2. /\ id \in Ids /\ id \notin DOMAIN jobs /\ (\A d \in dispatched : d.job # id)
            /\ req.cron \in Crons /\ req.key \in Keys \cup {NoKey}
        BY <2>1, ConstantsAssumption DEF UnusedIds, Create, ConstantsAssumption, Request
      <3>3. job \in Job
        <4>1. next \in Nat
          BY <1>1, <3>2, OccurrenceAssumption DEF OccurrenceAssumption
        <4> HIDE DEF next
        <4> QED BY <3>2, <4>1 DEF Job
      <3> HIDE DEF job
      <3>4. Ledger(Put(jobs, id, job))
        BY <1>1, <3>2, <3>3, PutLedger
      <3>5. \A i \in DOMAIN Put(jobs, id, job) :
              \/ \A d \in dispatched : d.job # i
              \/ /\ i \in DOMAIN jobs /\ Put(jobs, id, job)[i].nextRun = jobs[i].nextRun
                 /\ Put(jobs, id, job)[i].paused = jobs[i].paused
        BY <3>2 DEF Put
      <3>6. UNCHANGED ambiguous
        BY <2>1 DEF Create
      <3> QED BY <1>1, <3>1, <3>4, <3>5, <3>6, WrittenAhead
    <2>2. CASE Update(req)
      <3> DEFINE old  == jobs[req.job]
                 cron == IF req.cron = None THEN old.cron ELSE req.cron
                 next == Occurrence[cron][now]
                 stop == IF req.pause = None THEN old.paused ELSE req.pause
                 job  == [old EXCEPT !.cron = cron, !.nextRun = next, !.paused = stop]
                 js   == Put(jobs, req.job, job)
      <3>1. PICK outcome \in Outcomes :
              /\ Write(js, Recorded(req, [job |-> req.job, nextRun |-> next]), outcome)
              /\ ambiguous' = IF req.pause = FALSE /\ outcome # "lost"
                              THEN ambiguous \ {req.job} ELSE ambiguous
        BY <2>2 DEF Update
      <3>2. /\ req.job \in DOMAIN jobs /\ req.job \in Ids /\ old \in Job
            /\ req.cron \in Crons \cup {None} /\ req.pause \in BOOLEAN \cup {None}
        BY <1>1, <2>2, ConstantsAssumption DEF Update, Ledger, ConstantsAssumption, Request
      <3>3. cron \in Crons /\ stop \in BOOLEAN
        BY <3>2 DEF Job
      <3>4. next \in Nat /\ next > now
        BY <1>1, <3>3, OccurrenceAssumption DEF OccurrenceAssumption
      <3>5. job.nextRun = next /\ job.paused = stop
        <4> HIDE DEF old, cron, next, stop
        <4> QED BY <3>2 DEF Job
      <3>6. /\ DOMAIN js = DOMAIN jobs /\ js[req.job] = job
            /\ \A i \in DOMAIN jobs : i # req.job => js[i] = jobs[i]
        BY <3>2 DEF Put
      <3> HIDE DEF job, cron, next, js
      <3>7. Ahead(js)
        <4> SUFFICES ASSUME NEW d \in dispatched, d.occurrence # None, d.job \in DOMAIN js
                     PROVE  js[d.job].nextRun > d.occurrence
          BY DEF Ahead
        <4>1. CASE d.job # req.job
          BY <3>6, <4>1 DEF Dispatches, Ahead
        <4>2. CASE d.job = req.job
          <5>1. d.occurrence \in Nat /\ now \in Nat /\ d.occurrence <= now
            BY ConstantsAssumption DEF Inv, TypeOK, Instants, ConstantsAssumption, Dispatches
          <5> QED BY <3>4, <3>5, <3>6, <4>2, <5>1
        <4> QED BY <4>1, <4>2
      <3>8. \A l \in {jobs', disk'.jobs} : l \in {jobs, disk.jobs, js}
        BY <3>1, WriteCases
      <3>9. outcome = "lost" => \A l \in {jobs', disk'.jobs} : l \in {jobs, disk.jobs}
        BY <3>1 DEF Write
      <3>10. ~(req.pause = FALSE) => \A id \in ambiguous \cap DOMAIN js : js[id].paused
        <4>1. ~(req.pause = FALSE) => stop \in {TRUE, old.paused}
          BY <3>2
        <4> QED BY <1>1, <3>5, <3>6, <4>1 DEF Dispatches, Paused
      <3>11. \A id \in (ambiguous \ {req.job}) \cap DOMAIN js : js[id].paused
        BY <1>1, <3>6 DEF Dispatches, Paused
      <3>12. \A l \in {jobs, disk.jobs} : Ahead(l) /\ \A id \in ambiguous \cap DOMAIN l : l[id].paused
        BY <1>1 DEF Dispatches, Paused
      <3>13. CASE req.pause = FALSE /\ outcome # "lost"
        BY <3>1, <3>7, <3>8, <3>11, <3>12, <3>13
      <3>14. CASE req.pause = FALSE /\ outcome = "lost"
        BY <3>1, <3>9, <3>12, <3>14
      <3>15. CASE ~(req.pause = FALSE)
        BY <3>1, <3>7, <3>8, <3>10, <3>12, <3>15
      <3> QED BY <3>13, <3>14, <3>15
    <2>3. CASE Delete(req)
      <3> DEFINE js == Drop(jobs, req.job)
      <3>1. PICK outcome \in Outcomes : Write(js, Recorded(req, None), outcome)
        BY <2>3 DEF Delete
      <3>2. UNCHANGED ambiguous
        BY <2>3 DEF Delete
      <3>3. Ledger(js) /\ \A i \in DOMAIN js : i \in DOMAIN jobs /\ js[i] = jobs[i]
        BY <1>1, DropLedger DEF Drop
      <3> HIDE DEF js
      <3> QED BY <1>1, <3>1, <3>2, <3>3, WrittenAhead
    <2>4. CASE Stop(req)
      <3>1. PICK outcome \in Outcomes : Write(jobs, Recorded(req, None), outcome)
        BY <2>4 DEF Stop
      <3>2. UNCHANGED ambiguous
        BY <2>4 DEF Stop
      <3> QED BY <1>1, <3>1, <3>2, WrittenAhead
    <2> QED BY <2>1, <2>2, <2>3, <2>4
  <1>4. now <= now' /\ now' \in Instants /\ tickAt' \in Instants \cup {None}
    BY <1>1, ConstantsAssumption DEF Instants, ConstantsAssumption
  <1>5. tickAt' # None => tickAt' <= now'
    BY <1>1 DEF Dispatches
  <1> QED BY <1>1, <1>2, <1>3, <1>4, <1>5, DispatchesKept

\* startLocked.  An occurrence that is dispatched is the job's next one, which has
\* come; the claim that is written with it is for a later one.
LEMMA DispatchesStart ==
    ASSUME Inv, Dispatches, up, ConstantsAssumption, OccurrenceAssumption,
           NEW id, NEW at \in Instants, NEW ops, NEW by, NEW occurrence, NEW outcome,
           StartLocked(id, at, ops, by, occurrence, outcome),
           \/ occurrence = None /\ at = now
           \/ occurrence = jobs[id].nextRun /\ jobs[id].nextRun <= at /\ at <= now,
           UNCHANGED <<up, pending, now, tickAt, ambiguous>>
    PROVE  Dispatches'
  <1>1. PICK r \in UnusedRuns :
          /\ Write(Put(jobs, id, Claimed(jobs[id], r, at)), ops, outcome)
          /\ IF outcome = "ok"
             THEN /\ running' = Put(running, id, r)
                  /\ workers' = Put(workers, r,
                       [job |-> id, phase |-> "validate", cancelled |-> FALSE,
                        run |-> [id |-> r, status |-> "running", session |-> FALSE]])
                  /\ dispatched' = dispatched \cup
                       {[run |-> r, job |-> id, by |-> by, occurrence |-> occurrence]}
             ELSE UNCHANGED <<running, workers, dispatched>>
    BY DEF StartLocked
  <1> DEFINE job == Claimed(jobs[id], r, at)
             js  == Put(jobs, id, job)
             new == [run |-> r, job |-> id, by |-> by, occurrence |-> occurrence]
             w   == [job |-> id, phase |-> "validate", cancelled |-> FALSE,
                     run |-> [id |-> r, status |-> "running", session |-> FALSE]]
  <1>2. /\ id \in DOMAIN jobs /\ id \in Ids /\ r \in RunIds /\ jobs[id] \in Job /\ Ledger(jobs)
        /\ \A d \in dispatched : d.run # r
    BY DEF StartLocked, MayStart, UnusedRuns, Inv, TypeOK, Ledger
  <1>3. /\ now \in Nat /\ at \in Nat /\ jobs[id].nextRun \in Nat
        /\ \A d \in dispatched : d.occurrence \in Nat \cup {None}
    BY <1>2, ConstantsAssumption DEF Inv, TypeOK, Instants, ConstantsAssumption, Job
  <1>4. job \in Job /\ job.nextRun > at /\ job.paused = jobs[id].paused
    <2>1. Claimed(jobs[id], r, at) \in Job
      BY <1>2, ClaimedType
    <2>2. Occurrence[jobs[id].cron][at] > at
      BY <1>2, OccurrenceAssumption DEF OccurrenceAssumption, Job
    <2>3. job.nextRun = Occurrence[jobs[id].cron][at] /\ job.paused = jobs[id].paused
      BY <1>2 DEF Claimed, Job
    <2> QED BY <2>1, <2>2, <2>3
  <1> HIDE DEF job
  <1>5. Write(js, ops, outcome)
    BY <1>1 DEF job
  <1>6. /\ DOMAIN js = DOMAIN jobs /\ js[id] = job /\ Ledger(js)
        /\ \A i \in DOMAIN jobs : i # id => js[i] = jobs[i]
    <2>1. Ledger(js)
      BY <1>2, <1>4, PutLedger
    <2> QED BY <1>2, <2>1 DEF Put
  <1> HIDE DEF js
  <1>7. \A d \in dispatched : d.occurrence # None /\ d.job \in DOMAIN js => js[d.job].nextRun > d.occurrence
    <2> SUFFICES ASSUME NEW d \in dispatched, d.occurrence # None, d.job \in DOMAIN js
                 PROVE  js[d.job].nextRun > d.occurrence
      OBVIOUS
    <2>1. jobs[d.job].nextRun > d.occurrence /\ d.occurrence <= now
      BY <1>6 DEF Dispatches, Ahead
    <2>2. CASE d.job # id
      BY <1>6, <2>1, <2>2
    <2>3. CASE d.job = id
      <3>1. job.nextRun \in Nat /\ d.occurrence \in Nat
        BY <1>3, <1>4 DEF Job
      <3> QED BY <1>3, <1>4, <1>6, <2>1, <2>3, <3>1
    <2> QED BY <2>2, <2>3
  <1>8. \A i \in ambiguous \cap DOMAIN js : js[i].paused
    BY <1>4, <1>6 DEF Dispatches, Paused
  <1>9. \A l \in {jobs', disk'.jobs} : l \in {jobs, disk.jobs, js}
    BY <1>5, WriteCases
  <1>10. CASE outcome # "ok"
    <2>1. UNCHANGED <<running, workers, dispatched>>
      BY <1>1, <1>10
    <2>2. \A l \in {jobs', disk'.jobs} : Ahead(l) /\ \A i \in ambiguous' \cap DOMAIN l : l[i].paused
      BY <1>7, <1>8, <1>9 DEF Dispatches, Paused, Ahead
    <2>3. now' \in Instants /\ now <= now' /\ tickAt' \in Instants \cup {None}
      BY <1>3 DEF Inv, TypeOK
    <2>4. tickAt' # None => tickAt' <= now'
      BY DEF Dispatches
    <2> QED BY <2>1, <2>2, <2>3, <2>4, DispatchesKept
  <1>11. CASE outcome = "ok"
    <2>1. /\ workers' = Put(workers, r, w) /\ dispatched' = dispatched \cup {new}
          /\ jobs' = js /\ disk'.jobs = js
      BY <1>1, <1>5, <1>11, WriteCases
    <2>2. new.run = r /\ new.job = id /\ new.occurrence = occurrence /\ w.job = id
      OBVIOUS
    <2> HIDE DEF new, w
    <2>3. \A d \in dispatched' : d.occurrence # None /\ d.job \in DOMAIN js => js[d.job].nextRun > d.occurrence
      <3>1. occurrence # None => js[id].nextRun > occurrence
        <4>1. job.nextRun \in Nat
          BY <1>4 DEF Job
        <4> QED BY <1>3, <1>4, <1>6, <4>1
      <3> QED BY <1>7, <2>1, <2>2, <3>1
    <2>4. \A d \in dispatched' : d.occurrence # None => d.occurrence <= now'
      BY <1>3, <2>1, <2>2 DEF Dispatches
    <2>5. OccurrenceOnce'
      <3>1. \A d \in dispatched : d.job = id /\ d.occurrence # None => d.occurrence # occurrence
        <4> SUFFICES ASSUME NEW d \in dispatched, d.job = id, d.occurrence # None, occurrence # None
                     PROVE  d.occurrence # occurrence
          OBVIOUS
        <4>1. jobs[id].nextRun > d.occurrence /\ d.occurrence \in Nat
          BY <1>2, <1>3 DEF Dispatches, Ahead
        <4> QED BY <1>3, <4>1
      <3> QED BY <2>1, <2>2, <3>1 DEF Dispatches, OccurrenceOnce
    <2>6. \A d, e \in dispatched' : d.run = e.run => d = e
      BY <1>2, <2>1, <2>2 DEF Dispatches
    <2>7. \A q \in DOMAIN workers' : \E d \in dispatched' : d.run = q /\ d.job = workers'[q].job
      <3> SUFFICES ASSUME NEW q \in DOMAIN workers'
                   PROVE  \E d \in dispatched' : d.run = q /\ d.job = workers'[q].job
        OBVIOUS
      <3>1. CASE q = r
        BY <2>1, <2>2, <3>1 DEF Put
      <3>2. CASE q # r
        BY <2>1, <3>2 DEF Put, Dispatches
      <3> QED BY <3>1, <3>2
    <2>8. \A p \in DOMAIN pending' : \E d \in dispatched' : d.run = pending'[p].id /\ d.job = p
      BY <2>1 DEF Dispatches
    <2>9. ambiguous' \subseteq {d.job : d \in dispatched'}
      BY <2>1 DEF Dispatches
    <2>10. Paused(jobs)' /\ Paused(disk.jobs)'
      BY <1>8, <2>1 DEF Paused
    <2>11. (\A l \in {jobs, disk.jobs} : Ahead(l))'
      BY <2>1, <2>3 DEF Ahead
    <2>12. tickAt' # None => tickAt' <= now'
      BY DEF Dispatches
    <2> QED BY <2>4, <2>5, <2>6, <2>7, <2>8, <2>9, <2>10, <2>11, <2>12 DEF Dispatches
  <1> QED BY <1>10, <1>11

\* The process dies.  A claim that it cut off is open in the file.
LEMMA DispatchesCrash ==
    ASSUME Inv, Books, Dispatches, Crash
    PROVE  Dispatches'
  <1>1. /\ up /\ ~up' /\ jobs' = Nothing /\ DOMAIN Nothing = {} /\ workers' = Nothing /\ pending' = Nothing
        /\ tickAt' = None /\ UNCHANGED <<disk, now, dispatched>>
    BY DEF Crash, Nothing
  <1> DEFINE cut == {e \in dispatched :
                       /\ e.run \in DOMAIN workers \cup {pending[id].id : id \in DOMAIN pending}
                       /\ ~RecordedEnd(e.run)}
  <1>2. ambiguous' = ambiguous \cup {d.job : d \in cut}
    BY DEF Crash
  <1>3. ASSUME NEW d \in cut, d.job \in DOMAIN disk.jobs
        PROVE  \E r \in RunIds : HasOpenRun(disk.jobs, d.job, r)
    <2>1. d \in dispatched /\ ~RecordedEnd(d.run) /\ d.run \in RunIds
      BY DEF Inv, TypeOK
    <2>2. CASE d.run \in DOMAIN workers
      <3>1. workers[d.run].job = d.job
        BY <2>1, <2>2 DEF Dispatches
      <3> QED BY <2>1, <2>2, <3>1 DEF Inv, Open
    <2>3. ASSUME NEW id \in DOMAIN pending, d.run = pending[id].id
          PROVE  \E r \in RunIds : HasOpenRun(disk.jobs, d.job, r)
      <3>1. d.job = id
        BY <2>1, <2>3 DEF Dispatches
      <3>2. HasRun(disk.jobs, id, d.run)
        BY <2>3 DEF Books, Held, Inv, Claims
      <3>3. HasOpenRun(disk.jobs, id, d.run)
        BY <2>1, <3>2 DEF HasRun, HasOpenRun, RecordedEnd
      <3> QED BY <2>1, <3>1, <3>3
    <2> QED BY <2>2, <2>3
  <1>4. \A id \in ambiguous' \cap DOMAIN disk'.jobs :
          disk'.jobs[id].paused \/ \E r \in RunIds : HasOpenRun(disk'.jobs, id, r)
    <2> HIDE DEF cut
    <2> QED BY <1>1, <1>2, <1>3 DEF Dispatches, Paused
  <1>5. ambiguous' \subseteq {d.job : d \in dispatched'}
    BY <1>1, <1>2 DEF Dispatches
  <1>6. (\A js \in {jobs, disk.jobs} : Ahead(js))'
    BY <1>1 DEF Dispatches, Ahead
  <1>7. OccurrenceOnce'
    BY <1>1 DEF Dispatches, OccurrenceOnce
  <1> HIDE DEF cut
  <1> QED BY <1>1, <1>4, <1>5, <1>6, <1>7 DEF Dispatches

\* The process starts.  What was cut off is paused before anything is served.
LEMMA DispatchesRestart ==
    ASSUME Inv, Dispatches, Restart
    PROVE  Dispatches'
  <1> DEFINE js == [id \in DOMAIN disk.jobs |-> Interrupted(disk.jobs[id])]
  <1>1. PICK outcome \in Outcomes : Write(js, disk.operations, outcome) /\ up' = (outcome = "ok")
    BY DEF Restart
  <1>2. /\ ~up /\ workers = Nothing /\ pending = Nothing /\ DOMAIN Nothing = {} /\ jobs = Nothing
        /\ UNCHANGED <<workers, pending, dispatched, ambiguous, now, tickAt>> /\ Ledger(disk.jobs)
    BY DEF Restart, Inv, Claims, TypeOK, Ledger, Nothing, history, Dispatches
  <1>3. /\ DOMAIN js = DOMAIN disk.jobs
        /\ \A id \in DOMAIN js :
             /\ js[id].nextRun = disk.jobs[id].nextRun
             /\ disk.jobs[id].paused \/ (\E r \in RunIds : HasOpenRun(disk.jobs, id, r)) => js[id].paused
    <2> SUFFICES ASSUME NEW id \in DOMAIN disk.jobs
                 PROVE  /\ js[id].nextRun = disk.jobs[id].nextRun
                        /\ disk.jobs[id].paused \/ (\E r \in RunIds : HasOpenRun(disk.jobs, id, r))
                             => js[id].paused
      OBVIOUS
    <2> DEFINE job == disk.jobs[id]
               some == \E k \in DOMAIN job.runs : job.runs[k].status = "running"
               runs == [k \in DOMAIN job.runs |-> IF job.runs[k].status = "running"
                          THEN [job.runs[k] EXCEPT !.status = "interrupted"] ELSE job.runs[k]]
    <2>1. job \in Job
      BY <1>2 DEF Ledger
    <2>2. js[id] = [job EXCEPT !.paused = job.paused \/ some, !.runs = runs]
      BY DEF Interrupted
    <2>3. (\E r \in RunIds : HasOpenRun(disk.jobs, id, r)) => some
      BY DEF HasOpenRun
    <2> HIDE DEF some, runs, js
    <2>4. js[id].nextRun = job.nextRun /\ js[id].paused = (job.paused \/ some)
      <3> HIDE DEF job
      <3> QED BY <2>1, <2>2 DEF Job
    <2> QED BY <2>3, <2>4
  <1> HIDE DEF js
  <1>4. Ahead(js) /\ \A id \in ambiguous \cap DOMAIN js : js[id].paused
    BY <1>2, <1>3 DEF Dispatches, Ahead
  <1>5. OccurrenceOnce'
    BY <1>2 DEF Dispatches, OccurrenceOnce
  <1>6. (\A l \in {jobs, disk.jobs} : Ahead(l))'
    <2>1. \A l \in {jobs', disk'.jobs} : l \in {jobs, disk.jobs, js}
      BY <1>1, WriteCases
    <2> QED BY <1>2, <1>4, <2>1 DEF Dispatches, Ahead
  <1>7. up' => Paused(jobs)' /\ Paused(disk.jobs)'
    <2> SUFFICES ASSUME up' PROVE Paused(jobs)' /\ Paused(disk.jobs)'
      OBVIOUS
    <2>1. outcome = "ok"
      BY <1>1
    <2>2. jobs' = js /\ disk'.jobs = js
      BY <1>1, <2>1, WriteCases
    <2> QED BY <1>2, <1>4, <2>2 DEF Paused
  <1>8. ~up' => /\ jobs' = Nothing
                /\ \A id \in ambiguous' \cap DOMAIN disk'.jobs :
                     disk'.jobs[id].paused \/ \E r \in RunIds : HasOpenRun(disk'.jobs, id, r)
    <2> SUFFICES ASSUME ~up'
                 PROVE  /\ jobs' = Nothing
                        /\ \A id \in ambiguous' \cap DOMAIN disk'.jobs :
                             disk'.jobs[id].paused \/ \E r \in RunIds : HasOpenRun(disk'.jobs, id, r)
      OBVIOUS
    <2>0. outcome # "ok"
      BY <1>1
    <2>1. jobs' = Nothing /\ disk'.jobs \in {disk.jobs, js}
      BY <1>1, <1>2, <2>0, WriteCases
    <2>2. CASE disk'.jobs = disk.jobs
      BY <1>2, <2>1, <2>2 DEF Dispatches
    <2>3. CASE disk'.jobs = js
      BY <1>2, <1>4, <2>1, <2>3
    <2> QED BY <2>1, <2>2, <2>3
  <1> QED BY <1>2, <1>5, <1>6, <1>7, <1>8 DEF Dispatches

LEMMA DispatchesInit == Init => Dispatches
  <1> SUFFICES ASSUME Init PROVE Dispatches
    OBVIOUS
  <1>1. DOMAIN Nothing = {} /\ disk.jobs = Nothing
    BY DEF Init, Nothing
  <1> QED BY <1>1 DEF Init, Dispatches, Ahead, OccurrenceOnce

LEMMA DispatchesNext == Inv /\ Books /\ Dispatches /\ [Next]_vars => Dispatches'
  <1> SUFFICES ASSUME Inv, Books, Dispatches, [Next]_vars PROVE Dispatches'
    OBVIOUS
  <1>1. CASE TickStart
    <2>1. PICK id \in ToStart, outcome \in Outcomes :
            StartLocked(id, tickAt, operations, NoKey, jobs[id].nextRun, outcome)
      BY <1>1 DEF TickStart
    <2>2. /\ up /\ UNCHANGED <<up, pending, now, tickAt, ambiguous>>
          /\ tickAt \in Instants /\ tickAt <= now /\ jobs[id].nextRun <= tickAt
      BY <1>1 DEF TickStart, ToStart, Inv, TypeOK, Dispatches
    <2> QED BY <2>1, <2>2, DispatchesStart, ConstantsAssumption, OccurrenceAssumption
  <1>2. CASE TickBegin \/ TickEnd \/ TickFinish
    BY <1>2, DispatchesQuiet, DispatchesRecorded
  <1>3. ASSUME NEW r \in RunIds, Work(r) \/ PromptDone(r) \/ AgentDone(r)
        PROVE  Dispatches'
    BY <1>3, DispatchesGoroutine, DispatchesRecorded, DispatchesQuiet DEF Work
  <1>4. ASSUME NEW req \in Requests, RunNow(req)
        PROVE  Dispatches'
    <2>1. PICK outcome \in Outcomes : StartLocked(req.job, now, Recorded(req, None), req.key, None, outcome)
      BY <1>4 DEF RunNow
    <2>2. up /\ now \in Instants /\ UNCHANGED <<up, pending, now, tickAt, ambiguous>>
      BY <1>4 DEF RunNow, Handle, Free, Inv, TypeOK
    <2> QED BY <2>1, <2>2, DispatchesStart, ConstantsAssumption, OccurrenceAssumption
  <1>5. ASSUME NEW req \in Requests, Mutate(req), ~RunNow(req)
        PROVE  Dispatches'
    BY <1>5, DispatchesMutation DEF Mutate
  <1>6. CASE Replay \/ Clock \/ Close \/ UNCHANGED vars
    BY <1>6, DispatchesQuiet
  <1>7. CASE Crash \/ Restart
    BY <1>7, DispatchesCrash, DispatchesRestart
  <1> QED BY <1>1, <1>2, <1>3, <1>4, <1>5, <1>6, <1>7 DEF Next, Tick

\* The three invariants together, as PTL needs them.
LEMMA DispatchesInvariant == Spec => [](Inv /\ Books /\ Dispatches)
  BY InitInv, NextInv, BooksInit, BooksNext, DispatchesInit, DispatchesNext, PTL DEF Spec

\* No two runs of a job are for the same occurrence, however many ticks, failed
\* writes, edits, crashes and restarts there were between them.
THEOREM OccurrencesOnce == Spec => []OccurrenceOnce
  <1>1. Dispatches => OccurrenceOnce
    BY DEF Dispatches
  <1> QED BY <1>1, DispatchesInvariant, PTL

\* The ticker starts no job whose last claim a crash cut off, until somebody
\* resumed the job.
THEOREM ReplaysAreAsked == Spec => NoSilentReplay
  <1>1. ASSUME Inv, Dispatches, [Next]_vars
        PROVE  \A d \in dispatched' \ dispatched : d.occurrence # None => d.job \notin ambiguous
    <2> DEFINE Asked == \A d \in dispatched' \ dispatched : d.occurrence # None => d.job \notin ambiguous
    <2>1. CASE TickStart
      <3>1. PICK id \in ToStart, outcome \in Outcomes :
              StartLocked(id, tickAt, operations, NoKey, jobs[id].nextRun, outcome)
        BY <2>1 DEF TickStart
      <3>2. id \in DOMAIN jobs /\ ~jobs[id].paused /\ up
        BY <2>1 DEF ToStart, TickStart
      <3>3. id \notin ambiguous
        BY <1>1, <3>2 DEF Dispatches, Paused
      <3>4. \A d \in dispatched' \ dispatched : d.job = id
        BY <3>1 DEF StartLocked
      <3> QED BY <3>3, <3>4
    <2>2. ASSUME NEW req \in Requests, RunNow(req)
          PROVE  Asked
      <3>1. PICK outcome \in Outcomes : StartLocked(req.job, now, Recorded(req, None), req.key, None, outcome)
        BY <2>2 DEF RunNow
      <3> QED BY <3>1 DEF StartLocked
    <2>3. CASE dispatched' = dispatched
      BY <2>3
    <2>4. ASSUME NEW r \in RunIds, Work(r) \/ PromptDone(r) \/ AgentDone(r)
          PROVE  dispatched' = dispatched
      <3>1. CASE ValidateRoot(r) \/ CreateSession(r) \/ CheckContext(r) \/ SubmitPrompt(r)
        BY <3>1 DEF ValidateRoot, CreateSession, CheckContext, SubmitPrompt, history
      <3>2. CASE PromptDone(r) \/ PromptAborted(r) \/ AgentDone(r)
        BY <3>2 DEF PromptDone, PromptAborted, AgentDone, history
      <3>3. CASE Admitted(r)
        BY <3>3 DEF Admitted, history
      <3>4. CASE RecordEnd(r)
        BY <3>4 DEF RecordEnd, history
      <3> QED BY <2>4, <3>1, <3>2, <3>3, <3>4 DEF Work
    <2>5. ASSUME NEW req \in Requests, Mutate(req), ~RunNow(req)
          PROVE  dispatched' = dispatched
      BY <2>5 DEF Mutate, Create, Update, Delete, Stop
    <2>6. ASSUME (Tick /\ ~TickStart) \/ Replay \/ Close \/ Crash \/ Restart \/ Clock \/ UNCHANGED vars
          PROVE  dispatched' = dispatched
      BY <2>6 DEF Tick, TickBegin, TickFinish, TickEnd, Replay, Close, Crash, Restart, Clock, vars, history
    <2> HIDE DEF Asked
    <2> QED BY <1>1, <2>1, <2>2, <2>3, <2>4, <2>5, <2>6 DEF Next, Asked
  <1>2. Inv /\ Dispatches /\ [Next]_vars =>
          [\A d \in dispatched' \ dispatched : d.occurrence # None => d.job \notin ambiguous]_vars
    BY <1>1
  <1> QED BY <1>2, DispatchesInvariant, PTL DEF Spec, NoSilentReplay

-----------------------------------------------------------------------------
(* Which identities have been seen. *)

\* No identity ages out: the store has room for the results of all of them.
NoneAgedOut == IsFiniteSet(Keys) /\ Cardinality(Keys) <= MaxOps

\* A result that is recorded joins those of before, of which none is dropped.
LEMMA RecordedFacts ==
    ASSUME NoneAgedOut, ConstantsAssumption, TypeOK, Keyed(operations),
           NEW req \in Requests, ~Known(req), NEW result \in Result
    PROVE  /\ Recorded(req, result) \in Seq(Operation) /\ Keyed(Recorded(req, result))
           /\ Stores(operations) \subseteq Stores(Recorded(req, result))
           /\ req.key # NoKey =>
                /\ [request |-> req, result |-> result] \in Stores(Recorded(req, result))
                /\ req.key \in KeysOf(Recorded(req, result)) \ KeysOf(operations)
  <1>1. operations \in Seq(Operation) /\ req \in Request /\ Recorded(req, result) \in Seq(Operation)
    BY RecordedType DEF TypeOK, ConstantsAssumption
  <1>2. CASE req.key = NoKey
    BY <1>1, <1>2 DEF Recorded
  <1>3. CASE req.key # NoKey
    <2> DEFINE op  == [request |-> req, result |-> result]
               ops == Append(operations, op)
               n   == Len(operations)
    <2>1. op \in Operation /\ op.request = req /\ req.key \in Keys
      BY <1>1, <1>3 DEF Operation, Request, ConstantsAssumption
    <2> HIDE DEF op
    <2>2. /\ n \in Nat /\ DOMAIN operations = 1..n
          /\ ops \in Seq(Operation) /\ Len(ops) = n + 1 /\ ops[n + 1] = op
          /\ \A k \in 1..n : ops[k] = operations[k]
      BY <1>1, <2>1, AppendProperties
    <2>3. DOMAIN ops = 1..(n + 1)
      <3> HIDE DEF ops, n
      <3> QED BY <2>2
    <2> HIDE DEF ops, n
    <2>4. \A k \in DOMAIN operations : operations[k].request.key # req.key
      BY <1>3 DEF Known
    <2>5. Keyed(ops)
      BY <2>1, <2>2, <2>3, <2>4 DEF Keyed
    <2>6. n + 1 <= MaxOps
      <3> DEFINE f == [k \in 1..(n + 1) |-> ops[k].request.key]
      <3>1. f \in Injection(1..(n + 1), Keys)
        BY <2>3, <2>5 DEF Keyed, Injection, IsInjective
      <3>2. 1..(n + 1) = DOMAIN f /\ n + 1 \in Int
        BY <2>2
      <3> HIDE DEF f
      <3>3. Cardinality(1..(n + 1)) <= Cardinality(Keys)
        BY <3>1, FS_Injection DEF NoneAgedOut
      <3>4. Cardinality(1..(n + 1)) = n + 1
        BY <2>2, FS_Interval
      <3>5. Cardinality(Keys) \in Nat /\ MaxOps \in Nat
        BY FS_CardinalityType DEF NoneAgedOut, ConstantsAssumption
      <3> QED BY <2>2, <3>3, <3>4, <3>5 DEF NoneAgedOut
    <2>7. Recorded(req, result) = ops
      <3>1. Recorded(req, result) = Last(ops, MaxOps)
        BY <1>3 DEF Recorded, ops, op
      <3>2. Last(ops, MaxOps) = SubSeq(ops, 1, Len(ops))
        <4>1. MaxOps \in Nat /\ Len(ops) \in Nat /\ Len(ops) <= MaxOps
          BY <2>2, <2>6 DEF ConstantsAssumption
        <4>2. ~(Len(ops) > MaxOps)
          BY <4>1
        <4> QED BY <4>2, Zenon DEF Last
      <3>3. SubSeq(ops, 1, Len(ops)) = ops
        BY <2>2, SubSeqFull
      <3> QED BY <3>1, <3>2, <3>3
    <2>8. Stores(operations) \subseteq Stores(ops) /\ op \in Stores(ops)
      BY <2>2, <2>3 DEF Stores
    <2>9. req.key \in KeysOf(ops) /\ req.key \notin KeysOf(operations)
      BY <2>1, <2>2, <2>3, <2>4 DEF KeysOf
    <2> QED BY <1>1, <2>5, <2>7, <2>8, <2>9 DEF op
  <1> QED BY <1>2, <1>3

\* The identities of the results that a store has.
LEMMA KeysOfMore ==
    ASSUME NEW s, NEW t, Stores(s) \subseteq Stores(t)
    PROVE  KeysOf(s) \subseteq KeysOf(t)
  <1>1. \A u : KeysOf(u) = {x.request.key : x \in Stores(u)}
    BY DEF KeysOf, Stores
  <1> QED BY <1>1

\* Jobs keep the identities that created them.
LEMMA OwnedKept ==
    ASSUME NEW js, NEW new, NEW s, NEW t, Owned(js, s), KeysOf(s) \subseteq KeysOf(t),
           \A i \in DOMAIN new : i \in DOMAIN js /\ new[i].by = js[i].by
    PROVE  Owned(new, t)
  BY DEF Owned

\* The parts of the invariant, after a step that leaves the process running.
LEMMA IdentitiesMet ==
    ASSUME up', Keyed(operations'), Keyed(disk'.operations),
           Stores(operations') \subseteq Stores(disk'.operations),
           Owned(jobs', operations'), Owned(disk'.jobs, disk'.operations),
           replies' \subseteq Stores(operations'),
           \A d \in dispatched' : d.by # NoKey => d.by \in KeysOf(operations'),
           \A d, e \in dispatched' : d.by = e.by /\ d.by # NoKey => d = e
    PROVE  Identities'
  <1>1. KeysOf(operations') \subseteq KeysOf(disk'.operations)
    BY KeysOfMore
  <1>2. \A ops \in {disk'.operations, operations'} :
          /\ replies' \subseteq Stores(ops)
          /\ \A d \in dispatched' : d.by # NoKey => d.by \in KeysOf(ops)
    BY <1>1
  <1>3. \A ops \in ({disk.operations} \cup (IF up THEN {operations} ELSE {}))' :
          /\ replies' \subseteq Stores(ops)
          /\ \A d \in dispatched' : d.by # NoKey => d.by \in KeysOf(ops)
    BY <1>2
  <1> QED BY <1>3 DEF Identities

\* A write of a ledger and a store that agree, with what was answered and
\* dispatched if it succeeds.
LEMMA IdentitiesWritten ==
    ASSUME Identities, up, up', NEW js, NEW ops, NEW outcome, Write(js, ops, outcome),
           Keyed(ops), Owned(js, ops), Stores(operations) \subseteq Stores(ops),
           outcome # "ok" => UNCHANGED <<replies, dispatched>>,
           replies' \subseteq Stores(ops),
           \A d \in dispatched' : d.by # NoKey => d.by \in KeysOf(ops),
           \A d, e \in dispatched' : d.by = e.by /\ d.by # NoKey => d = e
    PROVE  Identities'
  <1>1. /\ outcome = "ok" => /\ jobs' = js /\ disk'.jobs = js
                             /\ operations' = ops /\ disk'.operations = ops
        /\ outcome # "ok" => jobs' = jobs /\ operations' = operations
        /\ \/ disk'.jobs = disk.jobs /\ disk'.operations = disk.operations
           \/ disk'.jobs = js /\ disk'.operations = ops
    BY WriteCases
  <1>2. CASE outcome = "ok"
    <2>1. /\ Keyed(operations') /\ Keyed(disk'.operations)
          /\ Stores(operations') \subseteq Stores(disk'.operations)
          /\ Owned(jobs', operations') /\ Owned(disk'.jobs, disk'.operations)
      BY <1>1, <1>2
    <2>2. /\ replies' \subseteq Stores(operations')
          /\ \A d \in dispatched' : d.by # NoKey => d.by \in KeysOf(operations')
      BY <1>1, <1>2
    <2> QED BY <2>1, <2>2, IdentitiesMet
  <1>3. CASE outcome # "ok"
    <2>1. Keyed(disk'.operations) /\ Owned(disk'.jobs, disk'.operations)
      BY <1>1, <1>3 DEF Identities
    <2>2. Stores(operations') \subseteq Stores(disk'.operations)
      BY <1>1, <1>3 DEF Identities
    <2>3. KeysOf(operations') \subseteq KeysOf(disk'.operations)
      BY <2>2, KeysOfMore
    <2>4. /\ replies' \subseteq Stores(operations')
          /\ \A d \in dispatched' : d.by # NoKey => d.by \in KeysOf(operations')
      BY <1>1, <1>3 DEF Identities
    <2>5. Keyed(operations') /\ Owned(jobs', operations')
      BY <1>1, <1>3 DEF Identities
    <2>6. \A d, e \in dispatched' : d.by = e.by /\ d.by # NoKey => d = e
      BY <1>3 DEF Identities
    <2> QED BY <2>1, <2>2, <2>4, <2>5, <2>6, IdentitiesMet
  <1> QED BY <1>2, <1>3

LEMMA IdentitiesFacts ==
    ASSUME Identities, up
    PROVE  /\ Keyed(operations) /\ Owned(jobs, operations)
           /\ replies \subseteq Stores(operations)
           /\ \A d \in dispatched : d.by # NoKey => d.by \in KeysOf(operations)
           /\ \A d, e \in dispatched : d.by = e.by /\ d.by # NoKey => d = e
  BY DEF Identities

\* A mutation carried out under its identity: jobs keep theirs, and a new one has
\* this one.
LEMMA IdentitiesMutation ==
    ASSUME Identities, Inv, NoneAgedOut, up, up', NEW req \in Requests, ~Known(req),
           NEW result \in Result, NEW js, NEW outcome, Write(js, Recorded(req, result), outcome),
           Reply(req, result, outcome),
           \A i \in DOMAIN js : i \in DOMAIN jobs => js[i].by = jobs[i].by,
           \A i, j \in DOMAIN js : i \notin DOMAIN jobs /\ j \notin DOMAIN jobs => i = j,
           \A i \in DOMAIN js : i \notin DOMAIN jobs => js[i].by = req.key,
           \/ UNCHANGED dispatched
           \/ /\ outcome = "ok"
              /\ \E d : d.by = req.key /\ dispatched' = dispatched \cup {d}
    PROVE  Identities'
  <1> DEFINE ops == Recorded(req, result)
  <1>1. /\ Keyed(operations) /\ Owned(jobs, operations)
        /\ replies \subseteq Stores(operations)
        /\ \A d \in dispatched : d.by # NoKey => d.by \in KeysOf(operations)
        /\ \A d, e \in dispatched : d.by = e.by /\ d.by # NoKey => d = e
    BY IdentitiesFacts
  <1>2. /\ Keyed(ops) /\ Stores(operations) \subseteq Stores(ops)
        /\ req.key # NoKey => /\ [request |-> req, result |-> result] \in Stores(ops)
                              /\ req.key \in KeysOf(ops) \ KeysOf(operations)
    BY <1>1, RecordedFacts, ConstantsAssumption DEF Inv
  <1> HIDE DEF ops
  <1>3. KeysOf(operations) \subseteq KeysOf(ops)
    BY <1>2, KeysOfMore
  <1>4. Owned(js, ops)
    BY <1>1, <1>2, <1>3 DEF Owned
  <1>5. replies' \subseteq Stores(ops) /\ (outcome # "ok" => UNCHANGED <<replies, dispatched>>)
    BY <1>1, <1>2 DEF Reply
  <1>6. /\ \A d \in dispatched' : d.by # NoKey => d.by \in KeysOf(ops)
        /\ \A d, e \in dispatched' : d.by = e.by /\ d.by # NoKey => d = e
    BY <1>1, <1>2, <1>3
  <1>7. Write(js, ops, outcome)
    BY DEF ops
  <1> QED BY <1>2, <1>4, <1>5, <1>6, <1>7, IdentitiesWritten

LEMMA IdentitiesMutate ==
    ASSUME Identities, Inv, NoneAgedOut, NEW req \in Requests, Mutate(req)
    PROVE  Identities'
  <1>1. up /\ up' /\ ~Known(req) /\ Ledger(jobs)
    BY DEF Mutate, Create, Update, Delete, RunNow, Stop, Handle, Free, Inv, TypeOK, Ledger
  <1>2. None \in Result
    BY DEF Result
  <1>3. CASE Create(req)
    <2> DEFINE next == Occurrence[req.cron][now]
               job  == [cron |-> req.cron, paused |-> FALSE, nextRun |-> next,
                        runs |-> <<>>, by |-> req.key]
    <2>1. PICK id \in UnusedIds, outcome \in Outcomes :
            /\ Write(Put(jobs, id, job), Recorded(req, [job |-> id, nextRun |-> next]), outcome)
            /\ Reply(req, [job |-> id, nextRun |-> next], outcome)
      BY <1>3 DEF Create
    <2>2. id \in Ids /\ id \notin DOMAIN jobs /\ req.cron \in Crons /\ now \in Instants
      BY <1>3, ConstantsAssumption DEF UnusedIds, Create, ConstantsAssumption, Request, Inv, TypeOK
    <2>3. next \in Nat
      BY <2>2, OccurrenceAssumption DEF OccurrenceAssumption
    <2>4. job.by = req.key
      OBVIOUS
    <2> HIDE DEF next, job
    <2>5. [job |-> id, nextRun |-> next] \in Result
      BY <2>2, <2>3 DEF Result
    <2>6. /\ \A i \in DOMAIN Put(jobs, id, job) : i \in DOMAIN jobs => Put(jobs, id, job)[i].by = jobs[i].by
          /\ \A i, j \in DOMAIN Put(jobs, id, job) : i \notin DOMAIN jobs /\ j \notin DOMAIN jobs => i = j
          /\ \A i \in DOMAIN Put(jobs, id, job) : i \notin DOMAIN jobs => Put(jobs, id, job)[i].by = req.key
      BY <2>2, <2>4 DEF Put
    <2>7. UNCHANGED dispatched
      BY <1>3 DEF Create
    <2> QED BY <1>1, <2>1, <2>5, <2>6, <2>7, IdentitiesMutation
  <1>4. CASE Update(req)
    <2> DEFINE old  == jobs[req.job]
               cron == IF req.cron = None THEN old.cron ELSE req.cron
               next == Occurrence[cron][now]
               stop == IF req.pause = None THEN old.paused ELSE req.pause
               job  == [old EXCEPT !.cron = cron, !.nextRun = next, !.paused = stop]
               result == [job |-> req.job, nextRun |-> next]
    <2>1. PICK outcome \in Outcomes :
            /\ Write(Put(jobs, req.job, job), Recorded(req, result), outcome)
            /\ Reply(req, result, outcome)
      BY <1>4 DEF Update
    <2>2. /\ req.job \in DOMAIN jobs /\ req.job \in Ids /\ old \in Job /\ now \in Instants
          /\ req.cron \in Crons \cup {None}
      BY <1>1, <1>4, ConstantsAssumption DEF Update, Ledger, ConstantsAssumption, Request, Inv, TypeOK
    <2>3. next \in Nat
      <3>1. cron \in Crons
        BY <2>2 DEF Job
      <3> QED BY <2>2, <3>1, OccurrenceAssumption DEF OccurrenceAssumption
    <2>4. job.by = jobs[req.job].by
      BY <2>2 DEF Job
    <2> HIDE DEF next, job
    <2>5. result \in Result
      BY <2>2, <2>3 DEF Result
    <2>6. \A i \in DOMAIN Put(jobs, req.job, job) : i \in DOMAIN jobs /\ Put(jobs, req.job, job)[i].by = jobs[i].by
      BY <2>2, <2>4 DEF Put
    <2>7. UNCHANGED dispatched
      BY <1>4 DEF Update
    <2> HIDE DEF result
    <2> QED BY <1>1, <2>1, <2>5, <2>6, <2>7, IdentitiesMutation
  <1>5. CASE Delete(req)
    <2>1. PICK outcome \in Outcomes :
            Write(Drop(jobs, req.job), Recorded(req, None), outcome) /\ Reply(req, None, outcome)
      BY <1>5 DEF Delete
    <2>2. \A i \in DOMAIN Drop(jobs, req.job) : i \in DOMAIN jobs /\ Drop(jobs, req.job)[i].by = jobs[i].by
      BY DEF Drop
    <2>3. UNCHANGED dispatched
      BY <1>5 DEF Delete
    <2> QED BY <1>1, <1>2, <2>1, <2>2, <2>3, IdentitiesMutation
  <1>6. CASE Stop(req)
    <2>1. PICK outcome \in Outcomes :
            Write(jobs, Recorded(req, None), outcome) /\ Reply(req, None, outcome)
      BY <1>6 DEF Stop
    <2>2. UNCHANGED dispatched
      BY <1>6 DEF Stop
    <2> QED BY <1>1, <1>2, <2>1, <2>2, IdentitiesMutation
  <1>7. CASE RunNow(req)
    <2>1. PICK outcome \in Outcomes :
            /\ StartLocked(req.job, now, Recorded(req, None), req.key, None, outcome)
            /\ Reply(req, None, outcome)
      BY <1>7 DEF RunNow
    <2>2. PICK r \in UnusedRuns :
            /\ Write(Put(jobs, req.job, Claimed(jobs[req.job], r, now)), Recorded(req, None), outcome)
            /\ IF outcome = "ok"
               THEN dispatched' = dispatched \cup
                      {[run |-> r, job |-> req.job, by |-> req.key, occurrence |-> None]}
               ELSE UNCHANGED dispatched
      BY <2>1 DEF StartLocked
    <2> DEFINE d  == [run |-> r, job |-> req.job, by |-> req.key, occurrence |-> None]
               js == Put(jobs, req.job, Claimed(jobs[req.job], r, now))
    <2>3. d.by = req.key
      OBVIOUS
    <2>4. req.job \in DOMAIN jobs
      BY <2>1 DEF StartLocked, MayStart
    <2>5. \A i \in DOMAIN js : i \in DOMAIN jobs /\ js[i].by = jobs[i].by
      <3>1. Claimed(jobs[req.job], r, now).by = jobs[req.job].by
        BY <1>1, <2>4 DEF Claimed, Ledger, Job
      <3> QED BY <2>4, <3>1 DEF Put
    <2>6. Write(js, Recorded(req, None), outcome) /\ Reply(req, None, outcome)
      BY <2>1, <2>2
    <2>7. UNCHANGED dispatched \/ (outcome = "ok" /\ dispatched' = dispatched \cup {d})
      BY <2>2
    <2> HIDE DEF d, js
    <2>8. \/ UNCHANGED dispatched
          \/ outcome = "ok" /\ \E e : e.by = req.key /\ dispatched' = dispatched \cup {e}
      BY <2>3, <2>7
    <2> QED BY <1>1, <1>2, <2>5, <2>6, <2>8, IdentitiesMutation
  <1> QED BY <1>3, <1>4, <1>5, <1>6, <1>7 DEF Mutate

\* Writes that are not a mutation's record nothing.
LEMMA IdentitiesUnrecorded ==
    ASSUME Identities, up, up', NEW js, NEW outcome, Write(js, operations, outcome),
           \A i \in DOMAIN js : i \in DOMAIN jobs /\ js[i].by = jobs[i].by,
           UNCHANGED replies,
           \/ UNCHANGED dispatched
           \/ outcome = "ok" /\ \E d : d.by = NoKey /\ dispatched' = dispatched \cup {d}
    PROVE  Identities'
  <1>1. /\ Keyed(operations) /\ Owned(jobs, operations)
        /\ replies \subseteq Stores(operations)
        /\ \A d \in dispatched : d.by # NoKey => d.by \in KeysOf(operations)
        /\ \A d, e \in dispatched : d.by = e.by /\ d.by # NoKey => d = e
    BY IdentitiesFacts
  <1>2. Owned(js, operations)
    BY <1>1, OwnedKept
  <1>3. /\ \A d \in dispatched' : d.by # NoKey => d.by \in KeysOf(operations)
        /\ \A d, e \in dispatched' : d.by = e.by /\ d.by # NoKey => d = e
        /\ outcome # "ok" => UNCHANGED <<replies, dispatched>>
    BY <1>1
  <1> QED BY <1>1, <1>2, <1>3, IdentitiesWritten

LEMMA IdentitiesTick ==
    ASSUME Identities, Inv, TickStart \/ TickFinish \/ \E r \in RunIds : RecordEnd(r) \/ Admitted(r)
    PROVE  Identities'
  <1>1. Ledger(jobs) /\ DOMAIN running \subseteq DOMAIN jobs
    BY DEF Inv, TypeOK, Ledger, Claims
  <1>2. CASE TickStart
    <2>1. PICK id \in ToStart, outcome \in Outcomes :
            StartLocked(id, tickAt, operations, NoKey, jobs[id].nextRun, outcome)
      BY <1>2 DEF TickStart
    <2>2. PICK r \in UnusedRuns :
            /\ Write(Put(jobs, id, Claimed(jobs[id], r, tickAt)), operations, outcome)
            /\ IF outcome = "ok"
               THEN dispatched' = dispatched \cup
                      {[run |-> r, job |-> id, by |-> NoKey, occurrence |-> jobs[id].nextRun]}
               ELSE UNCHANGED dispatched
      BY <2>1 DEF StartLocked
    <2> DEFINE d  == [run |-> r, job |-> id, by |-> NoKey, occurrence |-> jobs[id].nextRun]
               js == Put(jobs, id, Claimed(jobs[id], r, tickAt))
    <2>3. d.by = NoKey /\ id \in DOMAIN jobs /\ up /\ up' /\ UNCHANGED replies
      BY <1>2 DEF ToStart, TickStart
    <2>4. \A i \in DOMAIN js : i \in DOMAIN jobs /\ js[i].by = jobs[i].by
      <3>1. Claimed(jobs[id], r, tickAt).by = jobs[id].by
        BY <1>1, <2>3 DEF Claimed, Ledger, Job
      <3> QED BY <2>3, <3>1 DEF Put
    <2>5. Write(js, operations, outcome)
      BY <2>2
    <2>6. UNCHANGED dispatched \/ (outcome = "ok" /\ dispatched' = dispatched \cup {d})
      BY <2>2
    <2> HIDE DEF d, js
    <2>7. \/ UNCHANGED dispatched
          \/ outcome = "ok" /\ \E e : e.by = NoKey /\ dispatched' = dispatched \cup {e}
      BY <2>3, <2>6
    <2> QED BY <2>3, <2>4, <2>5, <2>7, IdentitiesUnrecorded
  <1>3. CASE TickFinish \/ \E r \in RunIds : RecordEnd(r) \/ Admitted(r)
    <2>1. up /\ up' /\ UNCHANGED <<replies, dispatched>>
      <3>1. CASE TickFinish
        BY <3>1 DEF TickFinish, history
      <3>2. ASSUME NEW r \in RunIds, RecordEnd(r)
            PROVE  up /\ up' /\ UNCHANGED <<replies, dispatched>>
        BY <3>2 DEF RecordEnd, Free, history
      <3>3. ASSUME NEW r \in RunIds, Admitted(r)
            PROVE  up /\ up' /\ UNCHANGED <<replies, dispatched>>
        BY <3>3 DEF Admitted, Free, history
      <3> QED BY <1>3, <3>1, <3>2, <3>3
    <2>2. PICK id \in DOMAIN running, run \in Run, outcome \in Outcomes :
            Write(Put(jobs, id, [jobs[id] EXCEPT !.runs = Replace(@, run)]), operations, outcome)
      BY <1>3, EntryWritten
    <2> DEFINE js == Put(jobs, id, [jobs[id] EXCEPT !.runs = Replace(@, run)])
    <2>3. \A i \in DOMAIN js : i \in DOMAIN jobs /\ js[i].by = jobs[i].by
      BY <1>1 DEF Put, Ledger, Job
    <2> HIDE DEF js
    <2>4. Write(js, operations, outcome)
      BY <2>2 DEF js
    <2> QED BY <2>1, <2>3, <2>4, IdentitiesUnrecorded
  <1> QED BY <1>2, <1>3

\* Steps that write nothing.  An answer from the store is one of its results.
LEMMA IdentitiesUnwritten ==
    ASSUME Identities, Unwritten, UNCHANGED <<up, dispatched>>,
           replies' = replies \/ (up /\ \E k \in DOMAIN operations : replies' = replies \cup {operations[k]})
    PROVE  Identities'
  <1>1. /\ jobs' = jobs /\ operations' = operations /\ disk' = disk
        /\ up' = up /\ dispatched' = dispatched
    BY DEF Unwritten
  <1>2. \A ops \in {disk.operations} \cup (IF up THEN {operations} ELSE {}) :
          /\ replies' \subseteq Stores(ops)
          /\ \A d \in dispatched : d.by # NoKey => d.by \in KeysOf(ops)
    <2>1. up => \A k \in DOMAIN operations : operations[k] \in Stores(operations)
                                               /\ operations[k] \in Stores(disk.operations)
      BY DEF Identities, Stores
    <2> QED BY <2>1 DEF Identities
  <1>3. CASE up
    BY <1>1, <1>2, <1>3, IdentitiesMet DEF Identities
  <1>4. CASE ~up
    <2>1. replies' = replies
      BY <1>4
    <2> QED BY <1>1, <1>4, <2>1 DEF Identities
  <1> QED BY <1>3, <1>4

LEMMA IdentitiesQuiet ==
    ASSUME Identities,
           \/ TickBegin \/ TickEnd \/ Replay \/ Clock \/ Close \/ UNCHANGED vars
           \/ \E r \in RunIds : \/ AgentDone(r) \/ ValidateRoot(r) \/ CreateSession(r) \/ CheckContext(r)
                                \/ SubmitPrompt(r) \/ PromptDone(r) \/ PromptAborted(r)
    PROVE  Identities'
  <1>1. CASE TickBegin \/ TickEnd \/ Replay \/ Clock \/ Close \/ UNCHANGED vars
    <2>1. Unwritten /\ UNCHANGED <<up, dispatched>>
      BY <1>1 DEF TickBegin, TickEnd, Replay, Clock, Close, vars, process, history, Unwritten
    <2>2. replies' = replies \/ (up /\ \E k \in DOMAIN operations : replies' = replies \cup {operations[k]})
      BY <1>1 DEF TickBegin, TickEnd, Replay, Free, Clock, Close, vars, history
    <2> QED BY <2>1, <2>2, IdentitiesUnwritten
  <1>2. ASSUME NEW r \in RunIds,
               \/ AgentDone(r) \/ ValidateRoot(r) \/ CreateSession(r) \/ CheckContext(r)
               \/ SubmitPrompt(r) \/ PromptDone(r) \/ PromptAborted(r)
        PROVE  Identities'
    <2>1. Unwritten /\ UNCHANGED <<up, dispatched, replies>>
      BY <1>2 DEF AgentDone, ValidateRoot, CreateSession, CheckContext, SubmitPrompt, PromptDone,
           PromptAborted, OnlyWorkers, Unwritten, process, history
    <2> QED BY <2>1, IdentitiesUnwritten
  <1> QED BY <1>1, <1>2

LEMMA IdentitiesCrash ==
    ASSUME Identities, Crash
    PROVE  Identities'
  <1>1. /\ ~up' /\ jobs' = Nothing /\ operations' = <<>> /\ DOMAIN Nothing = {} /\ DOMAIN operations' = {}
        /\ UNCHANGED <<disk, dispatched, replies>>
    BY DEF Crash, Nothing
  <1>2. Keyed(operations') /\ Owned(jobs', operations') /\ Stores(operations') = {}
    BY <1>1 DEF Keyed, Owned, Stores
  <1> QED BY <1>1, <1>2 DEF Identities, Keyed, Owned, Stores, KeysOf

LEMMA IdentitiesRestart ==
    ASSUME Identities, Inv, Restart
    PROVE  Identities'
  <1> DEFINE js == [id \in DOMAIN disk.jobs |-> Interrupted(disk.jobs[id])]
  <1>1. PICK outcome \in Outcomes : Write(js, disk.operations, outcome) /\ up' = (outcome = "ok")
    BY DEF Restart
  <1>2. /\ ~up /\ UNCHANGED <<dispatched, replies>> /\ Ledger(disk.jobs)
        /\ jobs = Nothing /\ operations = <<>>
    BY DEF Restart, history, Inv, TypeOK, Ledger, Identities
  <1>3. \A i \in DOMAIN js : i \in DOMAIN disk.jobs /\ js[i].by = disk.jobs[i].by
    BY <1>2 DEF Interrupted, Ledger, Job
  <1> HIDE DEF js
  <1>4. Owned(js, disk.operations)
    BY <1>3, OwnedKept DEF Identities
  <1>5. CASE outcome = "ok"
    <2>1. /\ jobs' = js /\ disk'.jobs = js
          /\ operations' = disk.operations /\ disk'.operations = disk.operations
      BY <1>1, <1>5, WriteCases
    <2>2. up'
      BY <1>1, <1>5
    <2>3. /\ Keyed(disk.operations) /\ replies' \subseteq Stores(disk.operations)
          /\ \A d \in dispatched' : d.by # NoKey => d.by \in KeysOf(disk.operations)
          /\ \A d, e \in dispatched' : d.by = e.by /\ d.by # NoKey => d = e
      BY <1>2 DEF Identities
    <2> QED BY <1>4, <2>1, <2>2, <2>3, IdentitiesMet
  <1>6. CASE outcome # "ok"
    <2>1. /\ jobs' = jobs /\ operations' = operations
          /\ disk'.jobs \in {disk.jobs, js} /\ disk'.operations = disk.operations
      BY <1>1, <1>6, WriteCases
    <2>2. ~up'
      BY <1>1, <1>6
    <2>3. Owned(disk'.jobs, disk.operations)
      BY <1>4, <2>1 DEF Identities
    <2> QED BY <1>2, <2>1, <2>2, <2>3 DEF Identities, Keyed, Owned, Stores, KeysOf
  <1> QED BY <1>5, <1>6

LEMMA IdentitiesInit == Init => Identities
  <1> SUFFICES ASSUME Init PROVE Identities
    OBVIOUS
  <1>1. /\ jobs = Nothing /\ disk.jobs = Nothing /\ DOMAIN Nothing = {} /\ operations = <<>>
        /\ disk.operations = <<>> /\ replies = {} /\ dispatched = {}
    BY DEF Init, Nothing
  <1>2. \A s : s = <<>> => DOMAIN s = {}
    OBVIOUS
  <1> QED BY <1>1, <1>2 DEF Identities, Keyed, Owned, Stores

LEMMA IdentitiesNext == NoneAgedOut /\ Inv /\ Identities /\ [Next]_vars => Identities'
  <1> SUFFICES ASSUME NoneAgedOut, Inv, Identities, [Next]_vars PROVE Identities'
    OBVIOUS
  <1>1. CASE Tick
    BY <1>1, IdentitiesTick, IdentitiesQuiet DEF Tick
  <1>2. ASSUME NEW r \in RunIds, Work(r) \/ PromptDone(r) \/ AgentDone(r)
        PROVE  Identities'
    BY <1>2, IdentitiesTick, IdentitiesQuiet DEF Work
  <1>3. ASSUME NEW req \in Requests, Mutate(req)
        PROVE  Identities'
    BY <1>3, IdentitiesMutate
  <1>4. CASE Replay \/ Clock \/ Close \/ UNCHANGED vars
    BY <1>4, IdentitiesQuiet
  <1>5. CASE Crash \/ Restart
    BY <1>5, IdentitiesCrash, IdentitiesRestart
  <1> QED BY <1>1, <1>2, <1>3, <1>4, <1>5 DEF Next

\* A mutation repeated under its identity creates no second job, starts no second
\* run and has no second answer, the answer that a client saw is in the file, and
\* no two runs of a job work: as long as the store has room for every identity.
THEOREM RepeatsHarmless ==
    ASSUME NoneAgedOut
    PROVE  Spec => []RepeatsAreHarmless
  <1>1. Identities => IdentityOnce /\ AnswersAreDurable
    <2> SUFFICES ASSUME Identities PROVE IdentityOnce /\ AnswersAreDurable
      OBVIOUS
    <2>1. replies \subseteq Stores(disk.operations)
      BY DEF Identities
    <2>2. AnswersAreDurable
      BY <2>1 DEF AnswersAreDurable, Stores
    <2>3. \A p, q \in replies : p.request.key = q.request.key => p = q
      BY <2>1 DEF Stores, Identities, Keyed
    <2> QED BY <2>2, <2>3 DEF IdentityOnce, Identities, Owned
  <1>2. Spec => []Identities
    BY IdentitiesInit, IdentitiesNext, Invariance, PTL DEF Spec
  <1> QED BY <1>1, <1>2, RunsDoNotOverlap, PTL DEF RepeatsAreHarmless
=============================================================================
