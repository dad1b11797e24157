------------------------------ MODULE Schedules ------------------------------
(****************************************************************************)
(* The schedule runner of pixie/internal/controller/schedules.go: a ledger  *)
(* of cron jobs and of their runs, kept in memory behind one mutex and      *)
(* written through to one file.  A due job is claimed in the ledger before  *)
(* its run is dispatched; the run's goroutine creates a Pi session, stores  *)
(* the session's ID, prompts it, waits, and records how it ended.  Writes   *)
(* fail, clients repeat their mutations, the process closes, crashes and    *)
(* starts again.                                                            *)
(*                                                                          *)
(* Abstractions.  Prompt, model, root and project of a job are left out: no *)
(* guard but a validation reads them, and a validation that fails changes   *)
(* nothing.  Cron and timezone are one value `cron', and Occurrence is the  *)
(* parsed expression's Next.  The mutex is free between two actions, save   *)
(* during a tick, which is several writes long and may be cut by a crash.   *)
(****************************************************************************)
EXTENDS Integers, Sequences, FiniteSets

CONSTANTS
    Ids,         \* schedule IDs that identifier.New can return
    RunIds,      \* run IDs that identifier.New can return
    Requests,    \* the mutations the clients send, see Request below
    Keys,        \* mutation identities
    NoKey,       \* a mutation without an identity
    Crons,       \* cron expressions with their timezone
    Occurrence,  \* Occurrence[c][t] is the first occurrence of c after t
    MaxRunning,  \* runs at a time (8 in the code)
    MaxRuns,     \* runs kept per job (100)
    MaxOps,      \* mutation identities kept (512)
    MaxJobs,     \* jobs a ledger may hold (1000)
    Backoff,     \* instants a failed job is left alone (30 s)
    MaxTime,     \* bound: the clock stops here
    None         \* no job, no result, nobody holds the mutex

Instants == 0..MaxTime
Methods  == {"create", "update", "delete", "runNow", "stop"}

\* `cron' and `pause' are None when an update leaves them alone.
Request == [key : Keys \cup {NoKey}, method : Methods, job : Ids \cup {None},
            cron : Crons \cup {None}, pause : BOOLEAN \cup {None}]

ASSUME ConstantsAssumption ==
    /\ MaxTime \in Nat /\ Backoff \in Nat \ {0}
    /\ MaxRunning \in Nat \ {0} /\ MaxRuns \in Nat \ {0}
    /\ MaxOps \in Nat \ {0} /\ MaxJobs \in Nat \ {0}
    /\ NoKey \notin Keys
    /\ None \notin Ids /\ None \notin Crons /\ None \notin BOOLEAN /\ None \notin Nat
    /\ Requests \subseteq Request
    /\ \A req \in Requests : req.method = "create" => req.cron # None

ASSUME OccurrenceAssumption ==
    \A c \in Crons, t \in Instants :
        Occurrence[c][t] \in Nat /\ Occurrence[c][t] > t

VARIABLES
    \* the process
    up,          \* it runs
    closed,      \* Close was called
    tickAt,      \* the instant of the tick that holds the mutex, or None
    jobs,        \* s.jobs
    operations,  \* s.operations
    running,     \* s.running: job ID |-> the run whose cancel it holds
    pending,     \* s.pending: job ID |-> the finished run not yet recorded
    failures,    \* s.failures: job ID |-> the instant it may be tried again
    workers,     \* run ID |-> the goroutine of that run
    \* outside the process
    disk,        \* schedules.json
    now,         \* the clock
    atWork,      \* the runs whose prompt Pi works on
    \* history, read by the properties only
    dispatched,  \* the runs whose goroutine was ever started
    prompted,    \* the runs whose prompt was ever submitted to Pi
    replies,     \* the successful results ever returned under an identity
    ambiguous    \* jobs whose claim a crash cut off, and nobody resumed since

process == <<up, closed, tickAt, jobs, operations, running, pending, failures, workers>>
history == <<dispatched, prompted, replies, ambiguous>>
vars    == <<up, closed, tickAt, jobs, operations, running, pending, failures,
             workers, disk, now, atWork, dispatched, prompted, replies, ambiguous>>

-----------------------------------------------------------------------------
(* Values. *)

Statuses == {"running", "completed", "failed", "interrupted"}
Run      == [id : RunIds, status : Statuses, session : BOOLEAN]
Job      == [cron : Crons, paused : BOOLEAN, nextRun : Nat, runs : Seq(Run),
             by : Keys \cup {NoKey}]   \* `by': history, the create's identity
Result   == [job : Ids, nextRun : Nat] \cup {None}
Operation == [request : Request, result : Result]

\* "clear" has passed the check of its context that precedes the prompt.
Phases == {"validate", "create", "admit", "check", "clear", "wait", "record"}
Worker == [job : Ids, phase : Phases, cancelled : BOOLEAN, run : Run]

Put(f, k, v) == [x \in DOMAIN f \cup {k} |-> IF x = k THEN v ELSE f[x]]
Drop(f, k)   == [x \in DOMAIN f \ {k} |-> f[x]]
First(s, n)  == SubSeq(s, 1, IF Len(s) > n THEN n ELSE Len(s))
Last(s, n)   == SubSeq(s, IF Len(s) > n THEN Len(s) - n + 1 ELSE 1, Len(s))
Replace(runs, run) == [i \in DOMAIN runs |-> IF runs[i].id = run.id THEN run ELSE runs[i]]

Nothing == [x \in {} |-> None]
Free    == up /\ tickAt = None

TypeOK ==
    /\ up \in BOOLEAN /\ closed \in BOOLEAN
    /\ tickAt \in Instants \cup {None}
    /\ DOMAIN jobs \subseteq Ids /\ \A i \in DOMAIN jobs : jobs[i] \in Job
    /\ operations \in Seq(Operation)
    /\ DOMAIN running \subseteq Ids /\ \A i \in DOMAIN running : running[i] \in RunIds
    /\ DOMAIN pending \subseteq Ids /\ \A i \in DOMAIN pending : pending[i] \in Run
    /\ DOMAIN failures \subseteq Ids /\ \A i \in DOMAIN failures : failures[i] \in Nat
    /\ DOMAIN workers \subseteq RunIds /\ \A r \in DOMAIN workers : workers[r] \in Worker
    /\ DOMAIN disk.jobs \subseteq Ids /\ \A i \in DOMAIN disk.jobs : disk.jobs[i] \in Job
    /\ disk = [jobs |-> disk.jobs, operations |-> disk.operations]
    /\ disk.operations \in Seq(Operation)
    /\ now \in Instants
    /\ atWork \subseteq RunIds /\ prompted \subseteq RunIds
    /\ dispatched \subseteq [run : RunIds, job : Ids, by : Keys \cup {NoKey}, occurrence : Nat \cup {None}]
    /\ replies \subseteq [request : Request, result : Result]
    /\ ambiguous \subseteq Ids

-----------------------------------------------------------------------------
(* Writing the ledger.  persist.Write replaces the file atomically, and may *)
(* report an error before the replacement ("lost") or after it, when the    *)
(* directory cannot be synced ("late").                                     *)

Outcomes == {"ok", "lost", "late"}

\* Bound: a write fails only while the clock leaves room for the next attempt.
MayFail == now + Backoff <= MaxTime

\* save and write: the memory keeps its old content when the write fails.
Write(js, ops, outcome) ==
    /\ outcome # "ok" => MayFail
    /\ Cardinality(DOMAIN js) <= MaxJobs
    /\ disk' = IF outcome = "lost" THEN disk ELSE [jobs |-> js, operations |-> ops]
    /\ jobs' = IF outcome = "ok" THEN js ELSE jobs
    /\ operations' = IF outcome = "ok" THEN ops ELSE operations

\* The result of a mutation is stored by the write that carries out the mutation.
Recorded(req, result) ==
    IF req.key = NoKey THEN operations
    ELSE Last(Append(operations, [request |-> req, result |-> result]), MaxOps)

\* Mutant: the answer is given whatever became of the write.
ReplyAnyway(req, result, outcome) ==
    replies' = IF req.key # NoKey THEN replies \cup {[request |-> req, result |-> result]} ELSE replies

Reply(req, result, outcome) ==
    replies' = IF outcome = "ok" /\ req.key # NoKey THEN replies \cup {[request |-> req, result |-> result]}
               ELSE replies

\* Mutant: the backoff is taken from the instant.
FailedBackwards(id, at, outcome) ==
    failures' = IF outcome = "ok" THEN Drop(failures, id) ELSE Put(failures, id, at - Backoff)

\* failed(id, at, err)
Failed(id, at, outcome) ==
    failures' = IF outcome = "ok" THEN Drop(failures, id)
                ELSE Put(failures, id, at + Backoff)

\* Mutant: a failure is never forgotten.
HeldOffForever(id, at) == id \in DOMAIN failures

HeldOff(id, at) == id \in DOMAIN failures /\ at < failures[id]

-----------------------------------------------------------------------------
(* Dispatch and completion. *)

\* Mutant: nobody asks whether the job is held.
MayStartTwice(id) == Cardinality(DOMAIN running) < MaxRunning /\ id \in DOMAIN jobs

\* Mutant: one run too many.
MayStartOver(id) == /\ Cardinality(DOMAIN running) <= MaxRunning
                    /\ id \notin DOMAIN running /\ id \in DOMAIN jobs

MayStart(id) == /\ Cardinality(DOMAIN running) < MaxRunning
                /\ id \notin DOMAIN running
                /\ id \in DOMAIN jobs

UnusedRuns ==
    {r \in RunIds : /\ r \notin {d.run : d \in dispatched}
                    /\ \A js \in {jobs, disk.jobs} : \A i \in DOMAIN js :
                         \A k \in DOMAIN js[i].runs : js[i].runs[k].id # r}

\* Mutant: the claim leaves the next occurrence as it is.
ClaimedAgain(job, r, at) ==
    [job EXCEPT !.runs = First(<<[id |-> r, status |-> "running", session |-> FALSE]>> \o @, MaxRuns)]

Claimed(job, r, at) ==
    [job EXCEPT !.nextRun = Occurrence[job.cron][at],
                !.runs = First(<<[id |-> r, status |-> "running", session |-> FALSE]>> \o job.runs, MaxRuns)]

\* startLocked: the claim is saved, then the goroutine is started.
StartLocked(id, at, ops, by, occurrence, outcome) ==
    /\ MayStart(id)
    /\ \E r \in UnusedRuns :
        /\ Write(Put(jobs, id, Claimed(jobs[id], r, at)), ops, outcome)
        /\ IF outcome = "ok"
           THEN /\ running' = Put(running, id, r)
                /\ workers' = Put(workers, r,
                     [job |-> id, phase |-> "validate", cancelled |-> FALSE,
                      run |-> [id |-> r, status |-> "running", session |-> FALSE]])
                /\ dispatched' = dispatched \cup
                     {[run |-> r, job |-> id, by |-> by, occurrence |-> occurrence]}
           ELSE UNCHANGED <<running, workers, dispatched>>

\* Mutant: the claim is released whatever became of the write.
FinishAnyway(id, run, outcome) ==
    /\ Write(Put(jobs, id, [jobs[id] EXCEPT !.runs = Replace(@, run)]), operations, outcome)
    /\ running' = Drop(running, id)

\* finishLocked: the claim is released once the run's end is recorded.
FinishLocked(id, run, outcome) ==
    /\ Write(Put(jobs, id, [jobs[id] EXCEPT !.runs = Replace(@, run)]), operations, outcome)
    /\ running' = IF outcome = "ok" THEN Drop(running, id) ELSE running

-----------------------------------------------------------------------------
(* The ticker.  tick holds the mutex while it first records the ends that *)
(* are pending and then starts what is due, each job once.                *)

TickBegin ==
    /\ Free /\ ~closed
    /\ tickAt' = now
    /\ UNCHANGED <<up, closed, jobs, operations, running, pending, failures, workers, disk, now, atWork, history>>

ToRecord == {id \in DOMAIN pending : ~HeldOff(id, tickAt)}

ToStart == IF Cardinality(DOMAIN running) >= MaxRunning THEN {}
           ELSE {id \in DOMAIN jobs : /\ ~jobs[id].paused
                                      /\ jobs[id].nextRun <= tickAt
                                      /\ id \notin DOMAIN running
                                      /\ ~HeldOff(id, tickAt)}

TickFinish ==
    /\ up /\ tickAt # None
    /\ \E id \in ToRecord, outcome \in Outcomes :
        /\ FinishLocked(id, pending[id], outcome)
        /\ pending' = IF outcome = "ok" THEN Drop(pending, id) ELSE pending
        /\ Failed(id, tickAt, outcome)
    /\ UNCHANGED <<up, closed, tickAt, workers, now, atWork, history>>

TickStart ==
    /\ up /\ tickAt # None /\ ToRecord = {}
    /\ \E id \in ToStart, outcome \in Outcomes :
        /\ StartLocked(id, tickAt, operations, NoKey, jobs[id].nextRun, outcome)
        /\ Failed(id, tickAt, outcome)
    /\ UNCHANGED <<up, closed, tickAt, pending, now, atWork, prompted, replies, ambiguous>>

TickEnd ==
    /\ up /\ tickAt # None /\ ToRecord = {}
    /\ ToStart = {} \/ UnusedRuns = {}   \* bound: no run ID is left
    /\ tickAt' = None
    /\ UNCHANGED <<up, closed, jobs, operations, running, pending, failures, workers, disk, now, atWork, history>>

-----------------------------------------------------------------------------
(* The goroutine of a run: startLocked's closure and runSchedule.        *)

Step(r, from, to) ==
    /\ up /\ r \in DOMAIN workers /\ workers[r].phase = from
    /\ workers' = [workers EXCEPT ![r].phase = to]

\* The closure's end: how the run ended, before the mutex is asked for.
Settle(r, from, status) ==
    /\ up /\ r \in DOMAIN workers /\ workers[r].phase = from
    /\ workers' = [workers EXCEPT ![r].phase = "record",
                    ![r].run.status = IF workers[r].cancelled THEN "interrupted" ELSE status]

OnlyWorkers == UNCHANGED <<up, closed, tickAt, jobs, operations, running, pending, failures, disk, now>>

\* The root is checked again.
ValidateRoot(r) ==
    /\ Step(r, "validate", "create") \/ Settle(r, "validate", "failed")
    /\ OnlyWorkers /\ UNCHANGED <<atWork, history>>

\* Mutant: the prompt follows without the session's ID being stored.
CreateSessionUnstored(r) ==
    /\ Step(r, "create", "check") \/ Settle(r, "create", "failed")
    /\ OnlyWorkers /\ UNCHANGED <<atWork, history>>

CreateSession(r) ==
    /\ Step(r, "create", "admit") \/ Settle(r, "create", "failed")
    /\ OnlyWorkers /\ UNCHANGED <<atWork, history>>

\* The callback `admitted': the session's ID is stored before the prompt.
Admitted(r) ==
    /\ Free /\ r \in DOMAIN workers /\ workers[r].phase = "admit"
    /\ LET w   == workers[r]
           run == [id |-> r, status |-> "running", session |-> TRUE]
       IN \E outcome \in Outcomes :
            /\ Write(Put(jobs, w.job, [jobs[w.job] EXCEPT !.runs = Replace(@, run)]), operations, outcome)
            /\ workers' = [workers EXCEPT ![r] =
                 IF outcome = "ok" THEN [w EXCEPT !.phase = "check", !.run = run]
                 ELSE [w EXCEPT !.phase = "record",
                          !.run.status = IF w.cancelled THEN "interrupted" ELSE "failed"]]
    /\ UNCHANGED <<up, closed, tickAt, running, pending, failures, now, atWork, history>>

\* ctx.Err() before the prompt.
CheckContext(r) ==
    /\ \/ r \in DOMAIN workers /\ ~workers[r].cancelled /\ Step(r, "check", "clear")
       \/ r \in DOMAIN workers /\ workers[r].cancelled /\ Settle(r, "check", "interrupted")
    /\ OnlyWorkers /\ UNCHANGED <<atWork, history>>

\* Prompt may still be admitted when the context was cancelled after the check.
SubmitPrompt(r) ==
    /\ \/ /\ Step(r, "clear", "wait")
          /\ prompted' = prompted \cup {r} /\ atWork' = atWork \cup {r}
       \/ Settle(r, "clear", "failed") /\ UNCHANGED <<prompted, atWork>>
    /\ OnlyWorkers /\ UNCHANGED <<dispatched, replies, ambiguous>>

\* promptDone: the agent may take as long as it likes, and may never answer; a
\* lost connection ends the wait with an error, and the agent works on.
PromptDone(r) ==
    /\ \/ r \notin atWork /\ \E status \in {"completed", "failed", "interrupted"} : Settle(r, "wait", status)
       \/ r \in atWork /\ Settle(r, "wait", "failed")
    /\ OnlyWorkers /\ UNCHANGED <<atWork, history>>

AgentDone(r) ==
    /\ r \in atWork /\ atWork' = atWork \ {r}
    /\ UNCHANGED <<process, disk, now, history>>

\* Mutant: the abort waits for the agent for as long as it takes.
PromptAbortedWaits(r) ==
    /\ r \in DOMAIN workers /\ workers[r].cancelled /\ r \notin atWork
    /\ Settle(r, "wait", "interrupted")
    /\ OnlyWorkers /\ UNCHANGED <<atWork, history>>

\* The cancelled context: the abort awaits the agent for a while, and its error
\* is dropped.
PromptAborted(r) ==
    /\ r \in DOMAIN workers /\ workers[r].cancelled
    /\ Settle(r, "wait", "interrupted")
    /\ \E aborted \in BOOLEAN : atWork' = IF aborted THEN atWork \ {r} ELSE atWork
    /\ OnlyWorkers /\ UNCHANGED history

\* The end is recorded; a failed write keeps the claim and leaves the end pending.
RecordEnd(r) ==
    /\ Free /\ r \in DOMAIN workers /\ workers[r].phase = "record"
    /\ LET w == workers[r]
       IN \E outcome \in Outcomes :
            /\ FinishLocked(w.job, w.run, outcome)
            /\ IF outcome = "ok"
               THEN pending' = Drop(pending, w.job) /\ UNCHANGED failures
               ELSE pending' = Put(pending, w.job, w.run) /\ Failed(w.job, now, outcome)
    /\ workers' = Drop(workers, r)
    /\ UNCHANGED <<up, closed, tickAt, now, atWork, history>>

-----------------------------------------------------------------------------
(* The mutations.  Handle holds the mutex from its first line to its last. *)
(* A request that is refused changes nothing and is not modelled.          *)

\* Mutant: an identity is known only with the same input.
KnownByInput(req) == \E k \in DOMAIN operations : operations[k].request = req

Known(req) == req.key # NoKey /\ \E k \in DOMAIN operations : operations[k].request.key = req.key

Handle(req) == Free /\ ~closed /\ ~Known(req)

\* An identity seen before returns the stored result; with other input it is refused.
Replay ==
    /\ Free /\ ~closed
    /\ \E k \in DOMAIN operations :
        replies' = replies \cup {operations[k]}
    /\ UNCHANGED <<process, disk, now, atWork, dispatched, prompted, ambiguous>>

UnusedIds == {id \in Ids : /\ id \notin DOMAIN jobs \cup DOMAIN disk.jobs
                           /\ \A d \in dispatched : d.job # id
                           /\ \A p \in replies : p.result # None => p.result.job # id}

Create(req) ==
    /\ Handle(req) /\ req.method = "create"
    /\ \E id \in UnusedIds, outcome \in Outcomes :
        LET next   == Occurrence[req.cron][now]
            result == [job |-> id, nextRun |-> next]
            job    == [cron |-> req.cron, paused |-> FALSE, nextRun |-> next,
                       runs |-> <<>>, by |-> req.key]
        IN /\ Write(Put(jobs, id, job), Recorded(req, result), outcome)
           /\ Reply(req, result, outcome)
    /\ UNCHANGED <<up, closed, tickAt, running, pending, failures, workers, now, atWork,
                   dispatched, prompted, ambiguous>>

\* A running job may be paused and resumed, and not edited otherwise.
Update(req) ==
    /\ Handle(req) /\ req.method = "update"
    /\ req.job \in DOMAIN jobs
    /\ req.job \in DOMAIN running => req.cron = None
    /\ \E outcome \in Outcomes :
        LET old    == jobs[req.job]
            cron   == IF req.cron = None THEN old.cron ELSE req.cron
            next   == Occurrence[cron][now]
            result == [job |-> req.job, nextRun |-> next]
        IN /\ Write(Put(jobs, req.job,
                        [old EXCEPT !.cron = cron, !.nextRun = next,
                                    !.paused = IF req.pause = None THEN @ ELSE req.pause]),
                    Recorded(req, result), outcome)
           /\ Reply(req, result, outcome)
           /\ ambiguous' = IF req.pause = FALSE /\ outcome # "lost"
                           THEN ambiguous \ {req.job} ELSE ambiguous
    /\ UNCHANGED <<up, closed, tickAt, running, pending, failures, workers, now, atWork, dispatched, prompted>>

\* Mutant: a running job may be deleted.
DeleteRunning(req) ==
    /\ Handle(req) /\ req.method = "delete" /\ req.job \in DOMAIN jobs
    /\ \E outcome \in Outcomes :
        /\ Write(Drop(jobs, req.job), Recorded(req, None), outcome)
        /\ Reply(req, None, outcome)
    /\ UNCHANGED <<up, closed, tickAt, running, pending, failures, workers, now, atWork,
                   dispatched, prompted, ambiguous>>

Delete(req) ==
    /\ Handle(req) /\ req.method = "delete"
    /\ req.job \in DOMAIN jobs /\ req.job \notin DOMAIN running
    /\ \E outcome \in Outcomes :
        /\ Write(Drop(jobs, req.job), Recorded(req, None), outcome)
        /\ Reply(req, None, outcome)
        /\ failures' = IF outcome = "ok" THEN Drop(failures, req.job) ELSE failures
    /\ UNCHANGED <<up, closed, tickAt, running, pending, workers, now, atWork, dispatched, prompted, ambiguous>>

\* An explicit start looks neither at `paused' nor at the backoff.
RunNow(req) ==
    /\ Handle(req) /\ req.method = "runNow"
    /\ \E outcome \in Outcomes :
        /\ StartLocked(req.job, now, Recorded(req, None), req.key, None, outcome)
        /\ Reply(req, None, outcome)
    /\ UNCHANGED <<up, closed, tickAt, pending, failures, now, atWork, prompted, ambiguous>>

\* The stop is recorded before the run is cancelled.
Cancel(ids) ==
    workers' = [r \in DOMAIN workers |->
                  IF \E id \in ids : id \in DOMAIN running /\ running[id] = r
                  THEN [workers[r] EXCEPT !.cancelled = TRUE] ELSE workers[r]]

Stop(req) ==
    /\ Handle(req) /\ req.method = "stop"
    /\ req.job \in DOMAIN jobs
    /\ \E outcome \in Outcomes :
        /\ Write(jobs, Recorded(req, None), outcome)
        /\ Reply(req, None, outcome)
        /\ IF outcome = "ok" THEN Cancel({req.job}) ELSE UNCHANGED workers
    /\ UNCHANGED <<up, closed, tickAt, running, pending, failures, now, atWork, dispatched, prompted, ambiguous>>

-----------------------------------------------------------------------------
(* The life of the process. *)

Close ==
    /\ Free /\ ~closed
    /\ closed' = TRUE
    /\ Cancel(DOMAIN running)
    /\ UNCHANGED <<up, tickAt, jobs, operations, running, pending, failures, disk, now, atWork, history>>

\* The process exits, after Close or without it, and whatever it is doing.
RecordedEnd(r) == \E id \in DOMAIN disk.jobs : \E k \in DOMAIN disk.jobs[id].runs :
                    disk.jobs[id].runs[k].id = r /\ disk.jobs[id].runs[k].status # "running"

Crash ==
    /\ up
    /\ up' = FALSE /\ closed' = FALSE /\ tickAt' = None
    /\ jobs' = Nothing /\ operations' = <<>>
    /\ running' = Nothing /\ pending' = Nothing /\ failures' = Nothing /\ workers' = Nothing
    /\ ambiguous' = ambiguous \cup {d.job : d \in {e \in dispatched :
                        e.run \in DOMAIN workers \cup {pending[id].id : id \in DOMAIN pending}
                        /\ ~RecordedEnd(e.run)}}
    /\ UNCHANGED <<disk, now, atWork, dispatched, prompted, replies>>

\* Mutant: the job of an interrupted run goes on.
InterruptedOnly(job) ==
    [job EXCEPT !.runs = [k \in DOMAIN @ |-> IF @[k].status = "running"
                                             THEN [@[k] EXCEPT !.status = "interrupted"] ELSE @[k]]]

Interrupted(job) ==
    [job EXCEPT !.paused = @ \/ \E k \in DOMAIN job.runs : job.runs[k].status = "running",
                !.runs = [k \in DOMAIN @ |-> IF @[k].status = "running"
                                             THEN [@[k] EXCEPT !.status = "interrupted"] ELSE @[k]]]

\* NewSchedules: an ambiguous claim is interrupted and its job paused, and both
\* are saved before the process serves anything.
Restart ==
    /\ ~up
    /\ LET js == [id \in DOMAIN disk.jobs |-> Interrupted(disk.jobs[id])]
       IN \E outcome \in Outcomes :
            /\ js = disk.jobs => outcome = "ok"
            /\ Write(js, disk.operations, outcome)
            /\ up' = (outcome = "ok")
    /\ UNCHANGED <<closed, tickAt, running, pending, failures, workers, now, atWork, history>>

Clock ==
    /\ now < MaxTime
    /\ now' = now + 1
    /\ UNCHANGED <<process, disk, atWork, history>>

-----------------------------------------------------------------------------

Init ==
    /\ up = FALSE /\ closed = FALSE /\ tickAt = None
    /\ jobs = Nothing /\ operations = <<>>
    /\ running = Nothing /\ pending = Nothing /\ failures = Nothing /\ workers = Nothing
    /\ disk = [jobs |-> Nothing, operations |-> <<>>]
    /\ now = 0 /\ atWork = {}
    /\ dispatched = {} /\ prompted = {} /\ replies = {} /\ ambiguous = {}

Tick == TickBegin \/ TickFinish \/ TickStart \/ TickEnd

Work(r) == \/ ValidateRoot(r) \/ CreateSession(r) \/ Admitted(r) \/ CheckContext(r)
           \/ SubmitPrompt(r) \/ PromptAborted(r) \/ RecordEnd(r)

Mutate(req) == Create(req) \/ Update(req) \/ Delete(req) \/ RunNow(req) \/ Stop(req)

Next ==
    \/ Tick
    \/ \E r \in RunIds : Work(r) \/ PromptDone(r) \/ AgentDone(r)
    \/ \E req \in Requests : Mutate(req)
    \/ Replay
    \/ Close \/ Crash \/ Restart \/ Clock

Spec == Init /\ [][Next]_vars

\* The ticker ticks, the goroutines run, time passes; nobody has to send a
\* request, Pi does not have to answer, and the process may stay down.
Fairness == /\ WF_vars(Tick) /\ WF_vars(Clock)
            /\ \A r \in RunIds : SF_vars(Work(r))

FairSpec == Spec /\ Fairness
-----------------------------------------------------------------------------
(* Properties. *)

HasOpenRun(js, id, r) ==
    /\ id \in DOMAIN js
    /\ \E k \in DOMAIN js[id].runs : js[id].runs[k].id = r /\ js[id].runs[k].status = "running"

\* While a run works, the file holds its claim, still open, in its own job: a
\* crash at any instant leaves the evidence that Restart looks for.
ClaimedOnDisk ==
    \A r \in DOMAIN workers : HasOpenRun(disk.jobs, workers[r].job, r)

\* In the memory, a run is open in the ledger exactly while its job is held:
\* neither a failed write nor an edit in between closes one without the other.
LedgerMatchesClaims ==
    up => \A id \in DOMAIN jobs : \A k \in DOMAIN jobs[id].runs :
            jobs[id].runs[k].status = "running"
                <=> id \in DOMAIN running /\ running[id] = jobs[id].runs[k].id

\* Runs of a job never overlap, and at most MaxRunning jobs run.
NoOverlap ==
    /\ \A r, q \in DOMAIN workers : workers[r].job = workers[q].job => r = q
    /\ Cardinality(DOMAIN workers) <= MaxRunning

\* Whatever became of a run whose prompt Pi was given, no ledger, not even the
\* one a failed write left behind, has its entry without the session's ID.
PromptedHasSession ==
    \A js \in {jobs, disk.jobs} : \A id \in DOMAIN js : \A k \in DOMAIN js[id].runs :
        js[id].runs[k].id \in prompted => js[id].runs[k].session

\* An occurrence is dispatched once, however many ticks, failed writes, edits
\* and restarts follow, and those missed meanwhile are one.
OccurrenceOnce ==
    \A d, e \in dispatched :
        d.job = e.job /\ d.occurrence # None /\ d.occurrence = e.occurrence => d = e

\* A mutation repeated under its identity, after a lost answer, a failed write
\* or a restart, neither creates a second job, nor starts a second run, nor
\* gives a second answer.  (The identity must not have aged out: MaxOps.)
IdentityOnce ==
    /\ \A js \in {jobs, disk.jobs} : \A i, j \in DOMAIN js :
            js[i].by = js[j].by /\ js[i].by # NoKey => i = j
    /\ \A d, e \in dispatched : d.by = e.by /\ d.by # NoKey => d = e
    /\ \A p, q \in replies : p.request.key = q.request.key => p = q

\* A success that a client saw is in the file with its result.
AnswersAreDurable ==
    \A p \in replies : \E k \in DOMAIN disk.operations : disk.operations[k] = p

\* The ticker never starts a job whose last claim a crash cut off, until
\* somebody resumed the job.
NoSilentReplay ==
    [][\A d \in dispatched' \ dispatched : d.occurrence # None => d.job \notin ambiguous]_vars

\* "Schedules do not overlap": Pi never works on two prompts of one job.
AgentsNeverOverlap ==
    \A d, e \in dispatched : d.job = e.job /\ {d.run, e.run} \subseteq atWork => d = e

\* The end of a run whose write failed is recorded in the end.
EndsAreRecorded ==
    \A id \in Ids : id \in DOMAIN pending ~> (id \notin DOMAIN pending \/ closed \/ ~up)

\* A stopped run ends, whatever Pi does, and after Close every run does.
StoppedRunsEnd ==
    /\ \A r \in RunIds : (r \in DOMAIN workers /\ workers[r].cancelled) ~> r \notin DOMAIN workers
    /\ closed ~> (workers = Nothing)

\* The ledger agrees with the claims, and with what Pi was given, at every step of
\* a run (startLocked, finishLocked, Session of schedules.go).
LedgerIsTrue == LedgerMatchesClaims /\ PromptedHasSession

\* Repeating a mutation is harmless, also that of a start while the slots for runs
\* are taken (Handle and startLocked of schedules.go).
RepeatsAreHarmless == IdentityOnce /\ AnswersAreDurable /\ NoOverlap

\* What has begun comes to its end (tick, startLocked, Close of schedules.go).
RunsEnd == EndsAreRecorded /\ StoppedRunsEnd
=============================================================================
