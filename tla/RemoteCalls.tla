------------------------------ MODULE RemoteCalls ------------------------------
(***************************************************************************)
(* What a page may rely on when it asks the controller for something, over *)
(* however many sockets: a request is executed at most once until it is    *)
(* void, nothing is executed that was not asked, and an answer is that of  *)
(* an execution.                                                           *)
(***************************************************************************)
EXTENDS Naturals

CONSTANT Requests

VARIABLES
    call,   \* what the page knows of a request
    ran,    \* how often it was executed
    void    \* requests of which the promise was withdrawn

TypeOK ==
    /\ call \in [Requests -> {"new", "asked", "answered", "refused", "abandoned"}]
    /\ ran \in [Requests -> Nat] /\ void \subseteq Requests

Init ==
    /\ call = [i \in Requests |-> "new"]
    /\ ran = [i \in Requests |-> 0] /\ void = {}

Become(i, from, to) ==
    /\ call[i] = from
    /\ call' = [call EXCEPT ![i] = to]
    /\ UNCHANGED <<ran, void>>

Ask(i) == Become(i, "new", "asked")
Answer(i) == ran[i] > 0 /\ Become(i, "asked", "answered")
Refuse(i) == Become(i, "asked", "refused")
Abandon(i) == Become(i, "asked", "abandoned")

\* Also when the page has given up, or was refused, meanwhile.
Execute(i) ==
    /\ call[i] # "new" /\ (ran[i] = 0 \/ i \in void)
    /\ ran' = [ran EXCEPT ![i] = @ + 1]
    /\ UNCHANGED <<call, void>>

\* The promise is withdrawn for requests that were asked, never given back.
Lapse ==
    /\ \E S \in SUBSET {i \in Requests : call[i] # "new"} : void' = void \cup S
    /\ UNCHANGED <<call, ran>>

Next ==
    \/ \E i \in Requests : Ask(i) \/ Answer(i) \/ Refuse(i) \/ Abandon(i) \/ Execute(i)
    \/ Lapse

Spec == Init /\ [][Next]_<<call, ran, void>>
================================================================================
