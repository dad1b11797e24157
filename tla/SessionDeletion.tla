---------------------------- MODULE SessionDeletion ----------------------------
(*****************************************************************************)
(* Deleting a session: session_deletions.go and Delete, cleanup and          *)
(* recoverDeletions of session_lifecycle.go in pixie/internal/controller.    *)
(*                                                                           *)
(* A deletion is requested in a journal, carried out by the Pi host, and     *)
(* confirmed in the journal; then the local records of the session are       *)
(* removed from three stores, and the journal forgets it.  A deletion whose  *)
(* outcome is not known keeps the session reserved until the next start      *)
(* reconciles the journal.  Beside it run the operations that could act for  *)
(* the session meanwhile: prompts, queued messages, objective updates, and   *)
(* whatever creates a projection (an "entry") of the session.                *)
(*                                                                           *)
(* Abstractions.  An operation is a thread that goes through queueEntry, the *)
(* session's gate and its own work.  An agent stands for a deletion binding  *)
(* (identity, endpoint and secret).  The content of records, queues and      *)
(* objectives is left out: a store is the set of sessions it has a record    *)
(* of, and its backup another.                                               *)
(*****************************************************************************)
EXTENDS Integers, FiniteSets

CONSTANTS
    Sessions,
    Threads,       \* operations at a time
    Starter,       \* names the recovery at the start of the process
    Agents,        \* deletion bindings that Pi may be reached under
    MaxEntries,    \* names of a session's projections: one more than operations
    MaxFaults,     \* bound: failed writes and calls, drops and crashes
    None

\* What the journal has of a session (sessionDeletion).
Record == [agent : Agents, phase : {"requested", "confirmed"}]

ASSUME ConstantsAssumption ==
    /\ IsFiniteSet(Threads) /\ Starter \notin Threads /\ None \notin Agents \cup Sessions \cup Record
    /\ MaxEntries \in Nat \ {0} /\ MaxEntries > Cardinality(Threads) /\ MaxFaults \in Nat

VARIABLES
    \* the process
    status,      \* "down", "recovering" (recoverDeletions), "serving"
    entry,       \* m.sessions: names the session's projection, or 0
    lifecycle,   \* m.lifecycle: the reserved sessions
    thread,      \* the operations under way, and the recovery
    todo,        \* the journal's records that recovery still has to visit
    failed,      \* whether recovery met an error
    \* outside the process
    agent,       \* the agent that Pixie is connected to, or None
    journal,     \* pi-session-deletions.json: session |-> its record, or None
    records,     \* pi-project-sessions.json and its backup
    objectives,  \* the objectives' files and their backups
    queues,      \* pi-session-queues.json and its backup
    wire,        \* deletions that an agent has not carried out
    piHas,       \* the sessions of each agent
    faults,      \* faults left
    \* history, read by the properties only
    requestedAt, \* the agents that a session's deletion was requested at
    forgotten    \* the sessions whose journal record was removed

process == <<status, entry, lifecycle, thread, todo, failed>>
stores  == <<journal, records, objectives, queues>>
pi      == <<wire, piHas>>
history == <<requestedAt, forgotten>>
vars    == <<process, agent, stores, pi, faults, history>>

Store  == [main : SUBSET Sessions, bak : SUBSET Sessions]

\* `live': the connection that carried it is still there.
Message == [agent : Agents, s : Sessions, live : BOOLEAN]

Kinds == {"objective", "queue", "prompt", "delete"}
Steps == {"idle", "read", "install", "gate", "work", "running", "attach", "request", "call", "answer",
          "confirm", "drop", "records", "objective", "queue", "forget", "finish"}
Entering == {"read", "install", "gate"}
Answers == {"none", "gone", "error"}
Thread == [kind : Kinds \cup {None}, s : Sessions \cup {None}, step : Steps, e : 0..MaxEntries,
           at : Agents \cup {None}, pinned : BOOLEAN, answer : Answers, ok : BOOLEAN]
Idle   == [kind |-> None, s |-> None, step |-> "idle", e |-> 0, at |-> None,
           pinned |-> FALSE, answer |-> "none", ok |-> TRUE]

TypeOK ==
    /\ status \in {"down", "recovering", "serving"}
    /\ entry \in [Sessions -> 0..MaxEntries]
    /\ lifecycle \subseteq Sessions
    /\ thread \in [Threads \cup {Starter} -> Thread]
    /\ todo \subseteq Sessions /\ failed \in BOOLEAN
    /\ agent \in Agents \cup {None}
    /\ journal \in [Sessions -> Record \cup {None}]
    /\ records \in Store /\ objectives \in Store /\ queues \in Store
    /\ wire \subseteq Message
    /\ piHas \in [Agents -> SUBSET Sessions]
    /\ faults \in 0..MaxFaults
    /\ requestedAt \in [Sessions -> SUBSET Agents] /\ forgotten \subseteq Sessions

-----------------------------------------------------------------------------
(* Writing.  persist.Write replaces the backup and then the file: it fails *)
(* before either ("lost"), between them ("half"), or after both ("late").  *)

Outcomes == {"ok", "lost", "half", "late"}

Spend(fine) == (fine \/ faults > 0) /\ faults' = IF fine THEN faults ELSE faults - 1

Written(store, main, outcome) ==
    [main |-> IF outcome \in {"ok", "late"} THEN main ELSE store.main,
     bak  |-> IF outcome = "lost" THEN store.bak ELSE store.main]

\* Mutant: one write is enough.
ForgottenOnce(store, s) ==
    {[store |-> Written(store, store.main \ {s}, o), ok |-> o = "ok"] : o \in Outcomes}

\* SessionRecords.Forget and SessionQueues.Forget: the content is written twice,
\* so that the backup does not have the session either.
Forgotten(store, s) ==
    LET once(o) == Written(store, store.main \ {s}, o)
    IN {[store |-> once(o), ok |-> FALSE] : o \in Outcomes \ {"ok"}}
       \cup {[store |-> Written(once("ok"), store.main \ {s}, o), ok |-> o = "ok"] : o \in Outcomes}

\* removeStoredGenerations: each file is removed, or not; a failed sync of the
\* directory is an error after both.
Removed(store, s) ==
    {[store |-> [main |-> IF m THEN store.main \ {s} ELSE store.main,
                 bak  |-> IF b THEN store.bak \ {s} ELSE store.bak],
      ok    |-> ok] : m \in BOOLEAN, b \in BOOLEAN, ok \in BOOLEAN}
Removals(store, s) == {r \in Removed(store, s) : r.ok => s \notin r.store.main \cup r.store.bak}

WriteJournal(s, record, outcome) ==
    /\ Spend(outcome = "ok")
    /\ journal' = IF outcome \in {"ok", "late"} THEN [journal EXCEPT ![s] = record] ELSE journal

-----------------------------------------------------------------------------
(* Entries, references, and the gate.                                    *)

\* References to an entry; the gate is held by one of them.
Holders(s, e) == {t \in Threads : thread[t].s = s /\ thread[t].e = e
                                  /\ thread[t].step \notin {"idle", "read", "install"}}
GateFree(s, e) == \A t \in Holders(s, e) : thread[t].step \in {"gate", "running"}

Go(t, step) == thread' = [thread EXCEPT ![t].step = step]
End(t)      == thread' = [thread EXCEPT ![t] = Idle]

\* entry: what is not loaded, or reserved, is looked up in the records.
Begin(t) ==
    /\ status = "serving" /\ thread[t].step = "idle"
    /\ \E kind \in Kinds, s \in Sessions :
        LET found == entry[s] # 0 /\ s \notin lifecycle
        IN thread' = [thread EXCEPT ![t] = [Idle EXCEPT !.kind = kind, !.s = s,
                         !.step = IF found THEN "gate" ELSE "read",
                         !.e = IF found THEN entry[s] ELSE 0]]
    /\ UNCHANGED <<status, entry, lifecycle, todo, failed, agent, stores, pi, faults, history>>

\* queueEntry, without a lock.
ReadRecord(t) ==
    /\ thread[t].step = "read"
    /\ IF thread[t].s \in records.main THEN Go(t, "install") ELSE End(t)
    /\ UNCHANGED <<status, entry, lifecycle, todo, failed, agent, stores, pi, faults, history>>

\* A name that no reference has.
Fresh(s) == CHOOSE e \in 1..MaxEntries : Holders(s, e) = {}
Make(s)  == entry' = [entry EXCEPT ![s] = Fresh(s)]

\* queueEntry, under m.mu: the record may be out of date by now.
Install(t) ==
    /\ thread[t].step = "install"
    /\ LET s == thread[t].s
       IN IF s \in lifecycle THEN End(t) /\ UNCHANGED entry
          ELSE /\ IF entry[s] = 0 THEN Make(s) ELSE UNCHANGED entry
               /\ thread' = [thread EXCEPT ![t].step = "gate", ![t].e = entry'[s]]
    /\ UNCHANGED <<status, lifecycle, todo, failed, agent, stores, pi, faults, history>>

\* SetLeases and prepareQueueResume, which read the records under m.mu.
Lease(s) ==
    /\ status = "serving" /\ s \in records.main /\ entry[s] = 0 /\ s \notin lifecycle
    /\ Make(s)
    /\ UNCHANGED <<status, lifecycle, thread, todo, failed, agent, stores, pi, faults, history>>

\* evictLocked
Evict(s) ==
    /\ entry[s] # 0 /\ Holders(s, entry[s]) = {}
    /\ entry' = [entry EXCEPT ![s] = 0]
    /\ UNCHANGED <<status, lifecycle, thread, todo, failed, agent, stores, pi, faults, history>>

\* lockEntry: an entry that was replaced or reserved meanwhile grants nothing.
Lock(t) ==
    /\ thread[t].step = "gate" /\ GateFree(thread[t].s, thread[t].e)
    /\ IF entry[thread[t].s] = thread[t].e /\ thread[t].s \notin lifecycle THEN Go(t, "work") ELSE End(t)
    /\ UNCHANGED <<status, entry, lifecycle, todo, failed, agent, stores, pi, faults, history>>

-----------------------------------------------------------------------------
(* What else is done for a session.                                      *)

\* UpdateObjective, with the objective's first write or a later one.
UpdateObjective(t) ==
    /\ thread[t].kind = "objective" /\ thread[t].step = "work"
    /\ LET s == thread[t].s
       IN \E outcome \in Outcomes :
            /\ Spend(outcome = "ok")
            /\ objectives' = [main |-> IF outcome \in {"ok", "late"} THEN objectives.main \cup {s} ELSE objectives.main,
                              bak  |-> IF outcome # "lost" /\ s \in objectives.main
                                       THEN objectives.bak \cup {s} ELSE objectives.bak]
    /\ End(t)
    /\ UNCHANGED <<status, entry, lifecycle, todo, failed, agent, journal, records, queues, pi, history>>

\* Queue: the session's queue is saved with the message.
Queue(t) ==
    /\ thread[t].kind = "queue" /\ thread[t].step = "work"
    /\ \E outcome \in Outcomes :
        /\ Spend(outcome = "ok")
        /\ queues' = Written(queues, queues.main \cup {thread[t].s}, outcome)
    /\ End(t)
    /\ UNCHANGED <<status, entry, lifecycle, todo, failed, agent, journal, records, objectives, pi, history>>

\* Mutant: the association is not asked for.
MayAttachUnknown(s) == agent # None /\ s \in piHas[agent]

\* attachLocked: the session is on record, and Pi loads it.
MayAttach(s) == s \in records.main /\ agent # None /\ s \in piHas[agent]

\* Prompt keeps its reference while Pi works; it gives the gate back.
StartPrompt(t) ==
    /\ thread[t].kind = "prompt" /\ thread[t].step = "work"
    /\ \/ MayAttach(thread[t].s) /\ Go(t, "running") /\ UNCHANGED faults
       \/ ~MayAttach(thread[t].s) /\ End(t) /\ UNCHANGED faults
       \/ End(t) /\ Spend(FALSE)
    /\ UNCHANGED <<status, entry, lifecycle, todo, failed, agent, stores, pi, history>>

EndPrompt(t) ==
    /\ thread[t].step = "running"
    /\ End(t)
    /\ UNCHANGED <<status, entry, lifecycle, todo, failed, agent, stores, pi, faults, history>>

-----------------------------------------------------------------------------
(* Delete, and the same steps in recoverDeletions.                       *)

\* beginLifecycle: nobody else may hold the entry, and no prompt may run.
Reserve(t) ==
    /\ thread[t].kind = "delete" /\ thread[t].step = "work"
    /\ LET s == thread[t].s
       IN IF Holders(s, thread[t].e) = {t}
          THEN Go(t, "attach") /\ lifecycle' = lifecycle \cup {s}
          ELSE End(t) /\ UNCHANGED lifecycle
    /\ UNCHANGED <<status, entry, todo, failed, agent, stores, pi, faults, history>>

\* Profile and attachLocked; the connection that answered is kept to.
AttachForDelete(t) ==
    /\ thread[t].step = "attach"
    /\ LET s == thread[t].s
       IN \/ /\ MayAttach(s)
             /\ thread' = [thread EXCEPT ![t].step = "request", ![t].at = agent, ![t].pinned = TRUE]
             /\ UNCHANGED <<lifecycle, faults>>
          \/ /\ Spend(~MayAttach(s))
             /\ End(t) /\ lifecycle' = lifecycle \ {s}
    /\ UNCHANGED <<status, entry, todo, failed, agent, stores, pi, history>>

\* Mutant: a failed deletion gives the session back.
GiveUpReleases(t) ==
    IF t = Starter THEN End(t) /\ failed' = TRUE /\ UNCHANGED lifecycle
    ELSE End(t) /\ lifecycle' = lifecycle \ {thread[t].s} /\ UNCHANGED failed

\* An uncertain deletion keeps the reservation; recovery goes on with the next.
GiveUp(t) ==
    /\ End(t)
    /\ failed' = (failed \/ t = Starter)
    /\ UNCHANGED lifecycle

\* SessionDeletions.Request
Request(t) ==
    /\ thread[t].step = "request"
    /\ LET s == thread[t].s
           at == thread[t].at
       IN \E outcome \in Outcomes :
            /\ IF journal[s] = None
               THEN WriteJournal(s, [agent |-> at, phase |-> "requested"], outcome)
               ELSE outcome = "ok" /\ UNCHANGED <<journal, faults>>
            /\ requestedAt' = [requestedAt EXCEPT ![s] = @ \cup {at}]
            /\ IF outcome = "ok" /\ (journal[s] = None \/ journal[s].agent = at)
               THEN Go(t, "call") /\ UNCHANGED <<lifecycle, failed>>
               ELSE GiveUp(t)
    /\ UNCHANGED <<status, entry, todo, agent, records, objectives, queues, pi, forgotten>>

\* PiClient.DeleteSession: only on the connection that was checked.
CallPi(t) ==
    /\ thread[t].step = "call"
    /\ IF thread[t].pinned
       THEN Go(t, "answer") /\ wire' = wire \cup {[agent |-> thread[t].at, s |-> thread[t].s, live |-> TRUE]} /\ UNCHANGED <<lifecycle, failed>>
       ELSE GiveUp(t) /\ UNCHANGED wire
    /\ UNCHANGED <<status, entry, todo, agent, stores, piHas, faults, history>>
\* Mutant: an error is taken for a deletion.
AnsweredAnyhow(t) ==
    /\ thread[t].step = "answer" /\ thread[t].answer # "none"
    /\ Go(t, "confirm") /\ UNCHANGED <<lifecycle, failed>>
    /\ UNCHANGED <<status, entry, todo, agent, stores, pi, faults, history>>

\* Done, or there was nothing to delete; any other answer proves nothing.
Answered(t) ==
    /\ thread[t].step = "answer" /\ thread[t].answer # "none"
    /\ IF thread[t].answer = "gone" THEN Go(t, "confirm") /\ UNCHANGED <<lifecycle, failed>> ELSE GiveUp(t)
    /\ UNCHANGED <<status, entry, todo, agent, stores, pi, faults, history>>

\* SessionDeletions.Confirm.  Its failure does not keep Delete from cleaning up.
Confirm(t) ==
    /\ thread[t].step = "confirm"
    /\ \E outcome \in Outcomes :
        /\ LET s == thread[t].s
           IN IF journal[s].phase = "confirmed" THEN outcome = "ok" /\ UNCHANGED <<journal, faults>>
              ELSE WriteJournal(s, [journal[s] EXCEPT !.phase = "confirmed"], outcome)
        /\ IF outcome # "ok" /\ t = Starter THEN GiveUp(t)
           ELSE /\ thread' = [thread EXCEPT ![t].step = IF t = Starter THEN "records" ELSE "drop",
                                            ![t].ok = outcome = "ok"]
                /\ UNCHANGED <<lifecycle, failed>>
    /\ UNCHANGED <<status, entry, todo, agent, records, objectives, queues, pi, history>>

\* delete(m.sessions, sessionID)
DropEntry(t) ==
    /\ thread[t].step = "drop"
    /\ entry' = [entry EXCEPT ![thread[t].s] = 0]
    /\ Go(t, "records")
    /\ UNCHANGED <<status, lifecycle, todo, failed, agent, stores, pi, faults, history>>

Proceed(t, step, ok) == thread' = [thread EXCEPT ![t].step = step, ![t].ok = @ /\ ok]

\* cleanupSessionDeletion: each store is tried, whatever became of the others.
ForgetRecord(t) ==
    /\ thread[t].step = "records"
    /\ \E r \in Forgotten(records, thread[t].s) :
        Spend(r.ok) /\ records' = r.store /\ Proceed(t, "objective", r.ok)
    /\ UNCHANGED <<status, entry, lifecycle, todo, failed, agent, journal, objectives, queues, pi, history>>

ForgetObjective(t) ==
    /\ thread[t].step = "objective"
    /\ \E r \in Removals(objectives, thread[t].s) :
        Spend(r.ok) /\ objectives' = r.store /\ Proceed(t, "queue", r.ok)
    /\ UNCHANGED <<status, entry, lifecycle, todo, failed, agent, journal, records, queues, pi, history>>

ForgetQueue(t) ==
    /\ thread[t].step = "queue"
    /\ \E r \in Forgotten(queues, thread[t].s) :
        Spend(r.ok) /\ queues' = r.store /\ Proceed(t, "forget", r.ok)
    /\ UNCHANGED <<status, entry, lifecycle, todo, failed, agent, journal, records, objectives, pi, history>>

\* Mutant: the journal forgets what was not cleaned up.
ForgetDeletionAnyway(t) ==
    /\ thread[t].step = "forget"
    /\ \E outcome \in Outcomes :
        /\ WriteJournal(thread[t].s, None, outcome)
        /\ forgotten' = IF outcome \in {"ok", "late"} THEN forgotten \cup {thread[t].s} ELSE forgotten
        /\ Proceed(t, "finish", outcome = "ok")
    /\ UNCHANGED <<status, entry, lifecycle, todo, failed, agent, records, objectives, queues, pi, requestedAt>>

\* SessionDeletions.Forget, when all of it is done.
ForgetDeletion(t) ==
    /\ thread[t].step = "forget"
    /\ IF ~thread[t].ok THEN Go(t, "finish") /\ UNCHANGED <<journal, faults, forgotten>>
       ELSE \E outcome \in Outcomes :
              /\ WriteJournal(thread[t].s, None, outcome)
              /\ forgotten' = IF outcome \in {"ok", "late"} THEN forgotten \cup {thread[t].s} ELSE forgotten
              /\ Proceed(t, "finish", outcome = "ok")
    /\ UNCHANGED <<status, entry, lifecycle, todo, failed, agent, records, objectives, queues, pi, requestedAt>>

Finish(t) ==
    /\ thread[t].step = "finish"
    /\ IF thread[t].ok
       THEN End(t) /\ lifecycle' = lifecycle \ {thread[t].s} /\ UNCHANGED failed
       ELSE GiveUp(t)
    /\ UNCHANGED <<status, entry, todo, agent, stores, pi, faults, history>>

-----------------------------------------------------------------------------
(* The start of the process, and its end.                                *)

Orphaned == {[m EXCEPT !.live = FALSE] : m \in wire}

Start ==
    /\ status = "down"
    /\ status' = "recovering" /\ failed' = FALSE
    /\ todo' = {s \in Sessions : journal[s] # None}
    /\ UNCHANGED <<entry, lifecycle, thread, agent, stores, pi, faults, history>>

\* Mutant: the agent is not compared.
MayResumeAnywhere(s) == agent # None

\* The agent of the journal's record is the one that Pixie is connected to.
MayResume(s) == agent # None /\ agent = journal[s].agent

\* A requested deletion is repeated; a confirmed one is only cleaned up.
RecoverNext ==
    /\ status = "recovering" /\ thread[Starter].step = "idle"
    /\ \E s \in todo :
        /\ todo' = todo \ {s}
        /\ \/ /\ journal[s].phase = "confirmed" \/ MayResume(s)
              /\ thread' = [thread EXCEPT ![Starter] = [Idle EXCEPT !.kind = "delete", !.s = s, !.at = agent,
                     !.step = IF journal[s].phase = "confirmed" THEN "records" ELSE "call",
                     !.pinned = journal[s].phase = "requested"]]
              /\ UNCHANGED <<failed, faults>>
           \/ /\ journal[s].phase = "requested"
              /\ Spend(agent # None /\ ~MayResume(s))   \* another agent, or none could be reached
              /\ failed' = TRUE /\ UNCHANGED thread
    /\ UNCHANGED <<status, entry, lifecycle, agent, stores, pi, history>>

\* An error of recovery ends the process before it serves anything.
RecoverEnd ==
    /\ status = "recovering" /\ thread[Starter].step = "idle" /\ todo = {}
    /\ status' = IF failed THEN "down" ELSE "serving"
    /\ agent' = IF failed THEN None ELSE agent
    /\ wire' = IF failed THEN Orphaned ELSE wire
    /\ UNCHANGED <<entry, lifecycle, thread, todo, failed, stores, piHas, faults, history>>

Exit ==
    /\ status' = "down" /\ agent' = None
    /\ entry' = [s \in Sessions |-> 0] /\ lifecycle' = {}
    /\ thread' = [t \in DOMAIN thread |-> Idle] /\ todo' = {} /\ failed' = FALSE
    /\ wire' = Orphaned
    /\ UNCHANGED <<stores, piHas, history>>

Crash == status # "down" /\ Spend(FALSE) /\ Exit

\* "Restart Pixie to reconcile it": a session is reserved and nobody deletes it.
Abandoned(s) == s \in lifecycle /\ \A x \in Threads : thread[x].s = s => thread[x].step \in Entering
Restart == status = "serving" /\ (\E s \in Sessions : Abandoned(s)) /\ UNCHANGED faults /\ Exit

-----------------------------------------------------------------------------
(* Pi, and the connection to it.                                         *)

Connect(a) ==
    /\ status # "down" /\ agent = None
    /\ agent' = a
    /\ UNCHANGED <<process, stores, pi, faults, history>>

\* The calls of a connection that is gone fail, whatever becomes of them.
Drop ==
    /\ agent # None /\ Spend(FALSE)
    /\ agent' = None /\ wire' = Orphaned
    /\ thread' = [t \in DOMAIN thread |->
                    [thread[t] EXCEPT !.pinned = FALSE,
                                      !.answer = IF thread[t].step = "answer" /\ @ = "none" THEN "error" ELSE @]]
    /\ UNCHANGED <<status, entry, lifecycle, todo, failed, stores, piHas, history>>

Waits(t, m)     == m.live /\ thread[t].step = "answer" /\ thread[t].s = m.s
Answer(m, what) == thread' = [t \in DOMAIN thread |->
                                IF Waits(t, m) THEN [thread[t] EXCEPT !.answer = what] ELSE thread[t]]

\* Mutant: the host reports what it does not have as an error.
MissingAnswer(m) == IF m.s \in piHas[m.agent] THEN "gone" ELSE "error"

\* Mutant: an answer that Pixie does not know.
OddAnswer(m) == "missing"

\* The host deletes the session, or answers that it does not have it.
DoneAnswer(m) == "gone"

Perform(m) ==
    /\ wire' = wire \ {m}
    /\ piHas' = [piHas EXCEPT ![m.agent] = @ \ {m.s}]
    /\ Answer(m, DoneAnswer(m))
    /\ UNCHANGED <<status, entry, lifecycle, todo, failed, agent, stores, faults, history>>

\* The host refuses, or it fails when the session is already gone.
Fail(m) ==
    /\ Spend(FALSE)
    /\ wire' = wire \ {m}
    /\ \E gone \in BOOLEAN : piHas' = IF gone THEN [piHas EXCEPT ![m.agent] = @ \ {m.s}] ELSE piHas
    /\ Answer(m, "error")
    /\ UNCHANGED <<status, entry, lifecycle, todo, failed, agent, stores, history>>

\* Its connection took it along.
Lose(m) ==
    /\ ~m.live
    /\ wire' = wire \ {m}
    /\ UNCHANGED <<process, agent, stores, piHas, faults, history>>

-----------------------------------------------------------------------------

Init ==
    /\ status = "down" /\ agent = None
    /\ entry = [s \in Sessions |-> 0]
    /\ lifecycle = {} /\ thread = [t \in Threads \cup {Starter} |-> Idle]
    /\ todo = {} /\ failed = FALSE
    /\ journal = [s \in Sessions |-> None]
    /\ records = [main |-> Sessions, bak |-> {}]
    /\ objectives \in {[main |-> S, bak |-> {}] : S \in {{}, Sessions}}
    /\ queues = [main |-> Sessions, bak |-> Sessions]
    /\ wire = {} /\ piHas = [a \in Agents |-> Sessions]
    /\ faults = MaxFaults
    /\ requestedAt = [s \in Sessions |-> {}] /\ forgotten = {}

\* What an operation or the recovery has begun it goes on with.
Delete(t) == \/ AttachForDelete(t) \/ Request(t) \/ CallPi(t) \/ Answered(t) \/ Confirm(t) \/ DropEntry(t)
             \/ ForgetRecord(t) \/ ForgetObjective(t) \/ ForgetQueue(t) \/ ForgetDeletion(t) \/ Finish(t)

Operation(t) == \/ Begin(t) \/ ReadRecord(t) \/ Install(t) \/ Lock(t)
                \/ UpdateObjective(t) \/ Queue(t) \/ StartPrompt(t) \/ EndPrompt(t) \/ Reserve(t)

Process == Start \/ RecoverNext \/ RecoverEnd \/ Restart

Pi == \E m \in wire : Perform(m) \/ Fail(m) \/ Lose(m)

Next == \/ \E t \in Threads : Operation(t)
        \/ \E t \in Threads \cup {Starter} : Delete(t)
        \/ \E s \in Sessions : Lease(s) \/ Evict(s)
        \/ Process \/ Crash \/ Drop \/ Pi
        \/ \E a \in Agents : Connect(a)

Spec == Init /\ [][Next]_vars

\* The process is started again and again, Pi answers, the connection is made.
Fairness == /\ WF_vars(Process) /\ WF_vars(Pi) /\ \A a \in Agents : SF_vars(Connect(a))
            /\ \A t \in Threads \cup {Starter} : WF_vars(Delete(t))

FairSpec == Spec /\ Fairness
-----------------------------------------------------------------------------
(* Properties. *)

\* While the process serves, a session with a deletion in the journal, wanted or
\* uncertain or not cleaned up, is reserved: nothing else acts for it, and no
\* prompt that began earlier still runs.
Reserved ==
    status = "serving" =>
        \A s \in Sessions : journal[s] # None =>
            /\ s \in lifecycle
            /\ \A t \in Threads : thread[t].s = s => thread[t].step # "running"

\* The association, from which alone a session can be found, is removed only when
\* the agent has deleted the session: no session is left at Pi unseen.
NoOrphan ==
    \A s \in Sessions : s \notin records.main =>
        \E a \in requestedAt[s] : s \notin piHas[a]

\* A deletion takes place only at the agents it was requested at, however late it
\* arrives and whichever agent the next start finds.
WhereRequested ==
    [][\A a \in Agents, s \in Sessions :
          s \in piHas[a] /\ s \notin piHas'[a] => a \in requestedAt[s]]_vars

\* The journal forgets a deletion only when no file, and no backup that a damaged
\* file would be read from, has the session any more.
ForgetsLast ==
    [][\A s \in Sessions : journal[s] # None /\ journal'[s] = None =>
          \A store \in {records, objectives, queues} : s \notin store.main \cup store.bak]_vars

\* No prompt is given to Pi for a session once its deletion was asked for there.
NoWorkAfterDelete ==
    [][\A t \in Threads : thread[t].step # "running" /\ thread'[t].step = "running" =>
          journal[thread[t].s] = None /\ thread[t].s \notin forgotten]_vars

\* A recorded deletion comes to its end, over crashes, lost answers, and failed
\* writes, when the agent it was requested at can be reached.
DeletionsEnd == \A s \in Sessions : journal[s] # None ~> journal[s] = None

\* "Deletion markers reject stale work": what was deleted stays deleted.
StaysDeleted ==
    \A s \in forgotten : s \notin objectives.main \cup queues.main

\* A deletion is final: nothing is asked of a session that was deleted, and nothing
\* of it can come back.
DeletionsAreFinal == NoWorkAfterDelete /\ ForgetsLast
=============================================================================
