--------------------------- MODULE BrowserPanels ---------------------------
(***************************************************************************)
(* The browser panels of the controller (browser_panels.go, its leases and *)
(* its ownership journal) and the browser service that runs them.          *)
(*                                                                         *)
(* A panel is opened under a new name, and the name is on disk before any  *)
(* client sees it.  It is closed by its owner, when its client or project  *)
(* is released, at shutdown, and after a restart; a close that fails is    *)
(* retried by a timer.  The service, which runs in another process, keeps  *)
(* the session until a close reaches it or its lease runs out.             *)
(***************************************************************************)
EXTENDS BrowserService

CONSTANTS
  MaxPanels,   \* maxBrowserPanels
  Guests,      \* bound: the requests that MCP clients may take
  MaxTimers    \* bound: retry timers of one panel
ASSUME PanelsAssumption == Guests \subseteq Requests /\ MaxPanels \in Nat /\ MaxTimers \in Nat \ {0}

VARIABLES
  controller,  \* "up", "draining" or "down"
  used,        \* the names that were ever generated
  open,        \* the keys of p.panels
  closing,     \* panels with closing set
  retry,       \* panels with a retry timer
  orphan,      \* panels that an earlier process left
  timers,      \* panel -> timers that are armed or whose function is about to run
  calls,       \* panel -> goroutines about to call close
  journal,     \* the names in browser-panels-*.json
  caller,      \* request -> "command" or "close" of a panel, or None
  renewal      \* names in a renewal that is under way
panelVars == <<controller, used, open, closing, retry, orphan, timers, calls, journal, caller, renewal>>
vars == <<serviceVars, faults, panelVars>>

TypeOK ==
  /\ ServiceTypeOK
  /\ controller \in {"up", "draining", "down"}
  /\ open \subseteq used /\ used \subseteq Panels /\ journal \subseteq used
  /\ closing \subseteq open /\ retry \subseteq open /\ orphan \subseteq open
  /\ timers \in [Panels -> 0..MaxTimers] /\ calls \in [Panels -> 0..2]
  /\ caller \in [Requests -> {"command", "close", None}]
  /\ \A r \in Requests : caller[r] = "close" => request[r].session \in open
  /\ renewal \subseteq used

Init ==
  /\ ServiceInit /\ controller = "up"
  /\ used = {} /\ open = {} /\ closing = {} /\ retry = {} /\ orphan = {}
  /\ timers = [p \in Panels |-> 0] /\ calls = [p \in Panels |-> 0]
  /\ journal = {} /\ renewal = {} /\ caller = [r \in Requests |-> None]

\* owned: the panels that a client may use.
Owned == IF controller = "up" THEN open \ (closing \cup retry \cup orphan) ELSE {}
RenewableClosing == IF controller = "up" THEN open ELSE {}
Renewable == Owned

(* saveOwnership: written, not written, or written although the write     *)
(* reports an error.                                                      *)
Saved(names) == journal' = names /\ UNCHANGED faults
NotSaved(names) == Fault /\ journal' \in {journal, names}

Open(p) ==
  /\ controller = "up" /\ p \notin used /\ Cardinality(open) < MaxPanels
  /\ used' = used \cup {p}
  /\ \/ Saved(open \cup {p}) /\ open' = open \cup {p}
     \/ NotSaved(open \cup {p}) /\ UNCHANGED open
  /\ UNCHANGED <<serviceVars, controller, closing, retry, orphan, timers, calls, caller, renewal>>

(* A command of the panel's owner.                                       *)
Command(r, p) ==
  /\ p \in Owned
  /\ \E kind \in {"command", "screenshot"} : Send(r, kind, p, TRUE)
  /\ caller' = [caller EXCEPT ![r] = "command"]
  /\ UNCHANGED <<service, dir, fresh, lock, shots, usage, reserved, faults,
                 controller, used, open, closing, retry, orphan, timers, calls, journal, renewal>>

(* beginClose: a retry that waits is stopped, unless it is about to run. *)
Marked(ps) == closing' = closing \cup ps
Called(ps) == calls' = [p \in Panels |-> calls[p] + IF p \in ps THEN 1 ELSE 0]
Close(p) ==
  /\ controller # "down" /\ p \in open \ (orphan \cup closing)
  /\ Marked({p}) /\ Called({p}) /\ retry' = retry \ {p}
  /\ \/ UNCHANGED timers
     \/ p \in retry /\ timers[p] > 0 /\ timers' = [timers EXCEPT ![p] = @ - 1]
  /\ UNCHANGED <<serviceVars, faults, controller, used, open, orphan, journal, caller, renewal>>

(* closeMatching for the panels of a client or a project.                *)
Release(ps) ==
  /\ controller # "down" /\ ps # {} /\ ps \subseteq open \ (orphan \cup closing)
  /\ Marked(ps) /\ Called(ps)
  /\ UNCHANGED <<serviceVars, faults, controller, used, open, retry, orphan, timers, journal, caller, renewal>>

(* finishClose: a panel that could not be closed is tried again, unless     *)
(* the controller drains.  One that was closed is forgotten when the        *)
(* journal is written, and else tried again: to close it twice is harmless. *)
Rearm(p) ==
  /\ closing' = closing \ {p} /\ UNCHANGED <<controller, used, open, orphan, renewal>>
  /\ \/ /\ controller = "up" /\ retry' = retry \cup {p}
        /\ \E stopped \in IF p \in retry /\ timers[p] > 0 THEN {0, 1} ELSE {0} :
             /\ timers[p] + 1 - stopped <= MaxTimers
             /\ timers' = [timers EXCEPT ![p] = @ + 1 - stopped]
     \/ controller # "up" /\ UNCHANGED <<retry, timers>>
Acknowledge(p) ==
  \/ /\ Saved(open \ {p}) /\ open' = open \ {p} /\ closing' = closing \ {p}
     /\ retry' = retry \ {p} /\ orphan' = orphan \ {p}
     /\ UNCHANGED <<controller, used, timers, renewal>>
  \/ NotSaved(open \ {p}) /\ Rearm(p)

CallClose(r, p) ==
  /\ calls[p] > 0 /\ Send(r, "close", p, TRUE)
  /\ calls' = [calls EXCEPT ![p] = @ - 1] /\ caller' = [caller EXCEPT ![r] = "close"]
  /\ UNCHANGED <<service, dir, fresh, lock, shots, usage, reserved, faults,
                 controller, used, open, closing, retry, orphan, timers, journal, renewal>>

(* The service cannot be reached, or shutdown ended the context.         *)
CallFails(p) ==
  /\ calls[p] > 0 /\ (service = "down" \/ controller = "draining")
  /\ calls' = [calls EXCEPT ![p] = @ - 1] /\ Rearm(p)
  /\ UNCHANGED <<serviceVars, faults, journal, caller>>

(* The controller receives an answer, or the service's answer to a call   *)
(* that was given up comes to nothing.                                    *)
Receive(r) ==
  /\ Is(r, "answered") /\ request' = [request EXCEPT ![r] = Free]
  /\ caller' = [caller EXCEPT ![r] = None]
  /\ LET p == request[r].session IN
     \/ caller[r] = "close" /\ request[r].ok /\ Acknowledge(p)
     \/ caller[r] = "close" /\ ~request[r].ok /\ Rearm(p) /\ UNCHANGED <<journal, faults>>
     \/ /\ caller[r] # "close"
        /\ UNCHANGED <<faults, controller, used, open, closing, retry, orphan, timers, journal, renewal>>
  /\ UNCHANGED <<service, dir, fresh, lock, shots, usage, reserved, calls>>

(* A call times out, its client cancels it, shutdown does, or its answer  *)
(* is lost.  The service cancels what it is doing when it notices.        *)
GiveUp(r) ==
  /\ caller[r] # None
  /\ Fault \/ (controller = "draining" /\ UNCHANGED faults)
  /\ request' = [request EXCEPT ![r].cancelled = TRUE]
  /\ caller' = [caller EXCEPT ![r] = None]
  /\ \/ caller[r] = "close" /\ Rearm(request[r].session)
     \/ caller[r] = "command" /\ UNCHANGED <<controller, used, open, closing, retry, orphan, timers, renewal>>
  /\ UNCHANGED <<service, dir, fresh, lock, shots, usage, reserved, calls, journal>>

\* retryClose, the function of a timer.
RetriedAnyway(p) == controller = "up" /\ p \in open
Retried(p) == controller = "up" /\ p \in open \ closing
RetryClose(p) ==
  /\ timers[p] > 0 /\ timers' = [timers EXCEPT ![p] = @ - 1]
  /\ IF Retried(p) THEN Marked({p}) /\ Called({p}) /\ retry' = retry \ {p}
     ELSE UNCHANGED <<closing, calls, retry>>
  /\ UNCHANGED <<serviceVars, faults, controller, used, open, orphan, journal, caller, renewal>>

(* The lease ticker of the controller, and the service's answer to it.   *)
RenewSend ==
  /\ renewal = {} /\ Renewable # {} /\ renewal' = Renewable
  /\ UNCHANGED <<serviceVars, faults, controller, used, open, closing, retry, orphan, timers, calls, journal, caller>>
RenewNext(p) ==
  /\ p \in renewal /\ renewal' = renewal \ {p}
  /\ fresh' = IF service = "up" THEN Renewed(p) ELSE fresh
  /\ UNCHANGED <<service, dir, lock, shots, usage, reserved, request, faults,
                 controller, used, open, closing, retry, orphan, timers, calls, journal, caller>>

(* Five minutes pass without a renewal: nobody renews the panel, or every *)
(* renewal was lost.                                                      *)
LapseUnowned(p) == p \notin Owned \cup renewal /\ Lapse(p) /\ UNCHANGED <<faults, panelVars>>
LapseUnreached(p) == p \in Owned \cup renewal /\ Fault /\ Lapse(p) /\ UNCHANGED panelVars

(* CloseAll: retries are stopped, and every panel is closed.  The process *)
(* ends after that, or at any time; with it its timers and calls.         *)
CloseAll ==
  /\ controller = "up" /\ Fault /\ controller' = "draining"
  /\ Marked(open) /\ Called(open \ closing) /\ retry' = {} /\ timers' = [p \in Panels |-> 0]
  /\ UNCHANGED <<serviceVars, used, open, orphan, journal, caller, renewal>>
Quit ==
  /\ controller # "down" /\ controller' = "down"
  /\ Fault \/ (controller = "draining" /\ UNCHANGED faults)
  /\ open' = {} /\ closing' = {} /\ retry' = {} /\ orphan' = {} /\ renewal' = {}
  /\ timers' = [p \in Panels |-> 0] /\ calls' = [p \in Panels |-> 0]
  /\ caller' = [r \in Requests |-> None]
  /\ request' = [r \in Requests |->
       IF caller[r] = None THEN request[r] ELSE [request[r] EXCEPT !.cancelled = TRUE]]
  /\ UNCHANGED <<service, dir, fresh, lock, shots, usage, reserved, used, journal>>

(* NewPersistentBrowserPanels and ResumeCleanup: what the journal names is *)
(* nobody's any more, and is closed.                                       *)
Recovered == journal
Restart ==
  /\ controller = "down" /\ controller' = "up"
  /\ open' = Recovered /\ orphan' = Recovered
  /\ Marked(Recovered) /\ Called(Recovered)
  /\ UNCHANGED <<serviceVars, faults, used, retry, timers, journal, caller, renewal>>

ServeNext(r) == Serve(r) /\ UNCHANGED panelVars
ExpireNext(r, p) == Expire(r, p) /\ UNCHANGED panelVars
McpNext(r, s) == r \in Guests /\ McpCall(r, s) /\ UNCHANGED panelVars
ServiceStops == Shutdown /\ Fault /\ UNCHANGED panelVars
ServiceExits == Exit /\ (Fault \/ (service = "stopping" /\ UNCHANGED faults)) /\ UNCHANGED panelVars
ServiceStarts == ServiceRestart /\ UNCHANGED panelVars

Next ==
  \/ \E p \in Panels : \/ Open(p) \/ Close(p) \/ CallFails(p) \/ RetryClose(p)
                        \/ RenewNext(p) \/ LapseUnowned(p) \/ LapseUnreached(p)
  \/ \E r \in Requests : \/ ServeNext(r) \/ Receive(r) \/ GiveUp(r)
                          \/ \E p \in Panels : Command(r, p) \/ CallClose(r, p) \/ ExpireNext(r, p)
                          \/ \E s \in Others : McpNext(r, s)
  \/ \E ps \in SUBSET Panels : Release(ps)
  \/ RenewSend \/ CloseAll \/ Quit \/ Restart \/ ServiceStops \/ ServiceExits \/ ServiceStarts

Spec == Init /\ [][Next]_vars

(* Requests go on, a supervisor starts either process again, timers and   *)
(* tickers fire and time passes.                                          *)
Fairness ==
  /\ \A r \in Requests : WF_vars(ServeNext(r)) /\ WF_vars(Receive(r))
  /\ \A p \in Panels :
       /\ WF_vars(CallFails(p) \/ \E r \in Requests : CallClose(r, p))
       /\ WF_vars(RetryClose(p)) /\ WF_vars(RenewNext(p)) /\ WF_vars(LapseUnowned(p))
       /\ WF_vars(\E r \in Requests : ExpireNext(r, p))
  /\ WF_vars(Quit /\ controller = "draining") /\ WF_vars(Restart)
  /\ WF_vars(ServiceExits /\ service = "stopping") /\ WF_vars(ServiceStarts)
FairSpec == Spec /\ Fairness

-----------------------------------------------------------------------------
(* A panel is being closed exactly when one goroutine calls close for it, *)
(* whatever releases, retries, stopped timers and answers overlap         *)
(* (browser_panels.go:156-189, 208-277).                                  *)
ClosedByOne == \A p \in Panels :
  calls[p] + Cardinality({r \in Requests : caller[r] = "close" /\ request[r].session = p})
    = IF p \in closing THEN 1 ELSE 0

(* A session that the journal does not name, so that no restart of the    *)
(* controller would close it, is not kept alive by renewals either        *)
(* (browser_panels.go:69-94, 208-257; browser_panel_leases.go:14-60).     *)
NothingStrays == \A p \in Panels :
  (dir[p] = "leased" /\ p \notin journal) => p \notin Renewable

(* An expiry never closes a session whose lease was renewed after it was  *)
(* found to have lapsed (panel_leases.go:71-109; service.go:761-766).     *)
RenewedIsKept == \A r \in Requests :
  (request[r].kind = "expire" /\ Working(r) /\ ~request[r].cancelled) => ~fresh[request[r].session]

(* A panel that no client can use any more is gone from the service and   *)
(* from the controller in the end, over lost answers, failed closes and   *)
(* writes, and restarts of both processes; only a session whose marker    *)
(* could not be written may stay (browser_panels.go:208-277;              *)
(* browser_panel_ownership.go:67-71; panel_leases.go:53-109).             *)
PanelsEnd == \A p \in Panels :
  (p \in used /\ p \notin Owned) ~> (dir[p] # "leased" /\ p \notin open)

(* What the service promises of its sessions, and the controller of its   *)
(* closes.                                                                *)
SessionsAreSafe == TypeOK /\ OneAtATime /\ WithinStorage /\ RenewedIsKept
ClosesAreSafe == ClosedByOne /\ NothingStrays
=============================================================================
