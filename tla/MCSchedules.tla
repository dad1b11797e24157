----------------------------- MODULE MCSchedules -----------------------------
(* Small instances of Schedules for TLC. *)
EXTENDS Schedules, TLC

\* Run IDs are only compared with one another.
Symmetry == Permutations(RunIds)

CONSTANTS j1, j2, k1, k2

\* A cron expression is its period: it fires at the multiples of it.
MCCrons == {1, 2}
MCOccurrence == [c \in MCCrons |-> [t \in 0..MaxTime |-> (t \div c + 1) * c]]

Req(key, method, job, cron, pause) ==
    [key |-> key, method |-> method, job |-> job, cron |-> cron, pause |-> pause]

\* One job that its owner edits, pauses, stops and starts by hand.
OneJob ==
    {Req(NoKey, "create", None, 1, None),
     Req(NoKey, "update", j1, None, TRUE), Req(NoKey, "update", j1, None, FALSE),
     Req(NoKey, "runNow", j1, None, None), Req(NoKey, "stop", j1, None, None),
     Req(NoKey, "delete", j1, None, None)}

\* A job that its owner only ever stops.
OnlyStop == {Req(NoKey, "create", None, 1, None), Req(NoKey, "stop", j1, None, None)}

\* Mutations that are repeated under their identity, also one that was given to
\* another request, and a second job that comes due together with the first.
Repeated ==
    {Req(k1, "create", None, 1, None), Req(k1, "create", None, 2, None),
     Req(NoKey, "create", None, 1, None), Req(k2, "runNow", j1, None, None),
     Req(k2, "delete", j1, None, None), Req(NoKey, "update", j1, 2, None)}
=============================================================================
