------------------------------ MODULE AppViews ------------------------------
(**************************************************************************)
(* Interactive app views: the registry of the controller (app_views.go,   *)
(* app_view_lifetime.go), the tickets of the browser service that serve   *)
(* the sandbox (browser/app_views.go), and the operations of a view that  *)
(* go to Pi under the gate of the session (session_apps.go).              *)
(*                                                                        *)
(* A view is named by its ticket.  The views here are attempts to open    *)
(* one, each with the ticket it would get, all of one session.  A view's  *)
(* document takes one unit of content until its last chunk is read.       *)
(*                                                                        *)
(* No name of PiClient or PiHost is used for something else here: they    *)
(* can be extended together.                                              *)
(**************************************************************************)
EXTENDS Selections, FiniteSets

CONSTANTS
  Clients, Views,
  ClientOf,     \* view -> the client that opens it
  Ops,          \* the operations that clients ask for
  ViewOf,       \* operation -> the view it is for
  MaxViews,     \* maxAppViews
  MaxTickets,   \* appViewMaxEntries of the browser service
  MaxContent,   \* maxContentBytes, in documents
  MaxViewOps,   \* maxAppViewOperations
  MaxOps,       \* maxAppOperations
  MaxEarly,     \* maxEarlyAppOperationCancels
  Lease,        \* viewLease, in ticks
  MaxFaults     \* bound: lost answers, failed deletions, restarts
ASSUME AppViewsAssumption ==
  /\ IsFiniteSet(Views) /\ IsFiniteSet(Ops)
  /\ ClientOf \in [Views -> Clients] /\ ViewOf \in [Ops -> Views]
  /\ {MaxViews, MaxTickets, MaxContent, MaxViewOps, MaxOps, MaxFaults} \subseteq Nat
  /\ MaxEarly \in Nat \ {0} /\ Lease \in Nat \ {0}

VARIABLES
  controller,  \* "up", "closed" (CloseAll has begun) or "down"
  live,        \* the clients that were not released
  stage,       \* view -> how far it has come; "open" when it is in a.views
  openingViews,\* the views whose Open holds a reservation (openingViews)
  pending,     \* views with contentPending
  content,     \* contentBytes
  lease,       \* view -> ticks to leaseUntil
  timer,       \* view -> ticks to the next run of expireView
  op,          \* operation -> "none", "begun", "calling" (Pi) or "done"
  cancelledOps,   \* operations whose context is cancelled
  active,      \* activeOperations
  early,       \* earlyCancelOrder
  service,     \* the browser service is up
  tickets,     \* entries of its store
  faults,
  asked        \* history: the cancels that came before their operation
registryVars == <<controller, live, stage, openingViews, pending, content, lease, timer>>
opVars == <<op, cancelledOps, active, early, asked>>
serviceVars == <<service, tickets>>
viewVars == <<registryVars, opVars, serviceVars, faults>>

None == "none"
Stages == {None, "reserved", "resolved", "answered", "open", "revoked", "deleting", "gone"}
ViewsAt(s) == {v \in Views : stage[v] = s}

ViewTypeOK ==
  /\ controller \in {"up", "closed", "down"} /\ live \subseteq Clients
  /\ stage \in [Views -> Stages]
  /\ openingViews \subseteq Views /\ pending \subseteq ViewsAt("open") /\ content \in 0..MaxContent
  /\ lease \in [Views -> 0..Lease] /\ timer \in [Views -> 0..Lease]
  /\ op \in [Ops -> {None, "begun", "calling", "done"}] /\ cancelledOps \subseteq Ops
  /\ active \in 0..MaxOps
  /\ early \in Seq(Ops) /\ asked \in Seq(Ops)
  /\ service \in BOOLEAN /\ tickets \subseteq Views /\ faults \in 0..MaxFaults

ViewInit ==
  /\ controller = "up" /\ live = Clients
  /\ stage = [v \in Views |-> None]
  /\ openingViews = {} /\ pending = {} /\ content = 0
  /\ lease = [v \in Views |-> 0] /\ timer = [v \in Views |-> 0]
  /\ op = [o \in Ops |-> None] /\ cancelledOps = {} /\ active = 0
  /\ early = <<>> /\ asked = <<>>
  /\ service = TRUE /\ tickets = {} /\ faults = 0

Running(o) == op[o] \in {"begun", "calling"}
Fault == faults < MaxFaults /\ faults' = faults + 1
Now(v, s) == stage' = [stage EXCEPT ![v] = s]

-----------------------------------------------------------------------------
(* Open: a place is reserved, the document read from Pi under the gate of *)
(* the session, a ticket registered, and the view bound to it.  The       *)
(* reservation goes when Open returns.                                    *)
Reserve(v) ==
  /\ controller = "up" /\ ClientOf[v] \in live /\ stage[v] = None
  /\ Cardinality(ViewsAt("open")) + Cardinality(openingViews) < MaxViews
  /\ Now(v, "reserved") /\ openingViews' = openingViews \cup {v}
  /\ UNCHANGED <<controller, live, pending, content, lease, timer, opVars, serviceVars, faults>>

Over(v) == Now(v, "gone") /\ openingViews' = openingViews \ {v}
GateFree == \A o \in Ops : op[o] # "calling"
Resolve(v) ==
  /\ stage[v] = "reserved"
  /\ \/ GateFree /\ Now(v, "resolved") /\ UNCHANGED openingViews
     \/ Over(v)
  /\ UNCHANGED <<controller, live, pending, content, lease, timer, opVars, serviceVars, faults>>

(* The service registers the ticket, unless it has too many or is down;   *)
(* its answer may be lost.                                                *)
Register(v) ==
  /\ stage[v] = "resolved"
  /\ IF service /\ Cardinality(tickets) < MaxTickets
     THEN /\ tickets' = tickets \cup {v}
          /\ \/ Now(v, "answered") /\ UNCHANGED <<openingViews, faults>>
             \/ Over(v) /\ Fault
     ELSE Over(v) /\ UNCHANGED <<tickets, faults>>
  /\ UNCHANGED <<controller, live, pending, content, lease, timer, opVars, service>>

(* registerView, with which Open returns; or cleanupTicket, when the time *)
(* for Open is over, the registry has closed, or there is no room for the *)
(* document.                                                              *)
UnboundForgotten == "gone"
Unbound == "deleting"
Bind(v) ==
  /\ stage[v] = "answered"
  /\ \/ /\ controller = "up" /\ content < MaxContent /\ Cardinality(ViewsAt("open")) < MaxViews
        /\ Now(v, "open") /\ openingViews' = openingViews \ {v}
        /\ pending' = pending \cup {v} /\ content' = content + 1
        /\ lease' = [lease EXCEPT ![v] = Lease] /\ timer' = [timer EXCEPT ![v] = Lease]
     \/ Now(v, Unbound) /\ UNCHANGED <<openingViews, pending, content, lease, timer>>
  /\ UNCHANGED <<controller, live, opVars, serviceVars, faults>>

-----------------------------------------------------------------------------
(* The view's client reads the last chunk of the document, and renews the *)
(* lease while it is not over.                                            *)
Knows(v) == stage[v] = "open" /\ ClientOf[v] \in live
ReadLast(v) ==
  /\ Knows(v) /\ v \in pending
  /\ pending' = pending \ {v} /\ content' = content - 1
  /\ UNCHANGED <<controller, live, stage, openingViews, lease, timer, opVars, serviceVars, faults>>
KeepAlive(v) ==
  /\ Knows(v) /\ lease[v] > 0
  /\ lease' = [lease EXCEPT ![v] = Lease]
  /\ UNCHANGED <<controller, live, stage, openingViews, pending, content, timer, opVars, serviceVars, faults>>

Tick(v) ==
  /\ stage[v] = "open" /\ (lease[v] > 0 \/ timer[v] > 0)
  /\ lease' = [lease EXCEPT ![v] = IF @ > 0 THEN @ - 1 ELSE 0]
  /\ timer' = [timer EXCEPT ![v] = IF @ > 0 THEN @ - 1 ELSE 0]
  /\ UNCHANGED <<controller, live, stage, openingViews, pending, content, opVars, serviceVars, faults>>

(* revokeViewLocked, for one view or for several: they leave the registry, *)
(* their content is given back if it was not read, and the cancels that    *)
(* wait for their operations are dropped.                                  *)
ReleasedWhole(vs) == Cardinality(vs)
ContentReleased(vs) == Cardinality(vs \cap pending)
DroppedNone(o, vs) == FALSE
DroppedAll(o, vs) == TRUE
Dropped(o, vs) == ViewOf[o] \in vs
Revoke(vs) ==
  /\ stage' = [v \in Views |-> IF v \in vs THEN "revoked" ELSE stage[v]]
  /\ content' = content - ContentReleased(vs) /\ pending' = pending \ vs
  /\ lease' = [v \in Views |-> IF v \in vs THEN 0 ELSE lease[v]]
  /\ timer' = [v \in Views |-> IF v \in vs THEN 0 ELSE timer[v]]
  /\ early' = Only(early, {o \in Ops : ~Dropped(o, vs)})

CloseView(v) ==
  /\ Knows(v) /\ Revoke({v})
  /\ UNCHANGED <<controller, live, openingViews, op, cancelledOps, active, asked, serviceVars, faults>>

(* expireView runs early when the lease was renewed, and is set again for *)
(* what remains of it.                                                    *)
DueNever(v) == FALSE
Due(v) == lease[v] = 0
RemainingWhole(v) == Lease
Remaining(v) == lease[v]
ExpireView(v) ==
  /\ stage[v] = "open" /\ timer[v] = 0
  /\ \/ Due(v) /\ Revoke({v})
     \/ /\ ~Due(v) /\ timer' = [timer EXCEPT ![v] = Remaining(v)]
        /\ UNCHANGED <<stage, content, pending, lease, early>>
  /\ UNCHANGED <<controller, live, openingViews, op, cancelledOps, active, asked, serviceVars, faults>>

(* The client was away for a minute and every request of it is settled     *)
(* (ClearClient): none that opens a view, none for an operation.  A close   *)
(* that is under way is let be, its view has left the registry.            *)
Settled(c) ==
  /\ \A v \in openingViews : ClientOf[v] # c
  /\ \A o \in Ops : Running(o) => ClientOf[ViewOf[o]] # c
ReleaseClient(c) ==
  /\ controller # "down" /\ c \in live /\ Settled(c) /\ live' = live \ {c}
  /\ Revoke({v \in ViewsAt("open") : ClientOf[v] = c})
  /\ UNCHANGED <<controller, openingViews, op, cancelledOps, active, asked, serviceVars, faults>>

CloseAll ==
  /\ controller = "up" /\ Fault /\ controller' = "closed"
  /\ Revoke(ViewsAt("open"))
  /\ UNCHANGED <<live, openingViews, op, cancelledOps, active, asked, serviceVars>>

(* cancelView, after the lock was released: the context of the view and   *)
(* with it those of its operations.                                       *)
StoppedBegun(v) == {o \in Ops : ViewOf[o] = v /\ op[o] = "calling"}
OpsStopped(v) == {o \in Ops : ViewOf[o] = v /\ Running(o)}
CancelView(v) ==
  /\ stage[v] = "revoked" /\ Now(v, "deleting")
  /\ cancelledOps' = cancelledOps \cup OpsStopped(v)
  /\ UNCHANGED <<controller, live, openingViews, pending, content, lease, timer, op, active, early, asked, serviceVars, faults>>

(* deleteTicket is tried once; if it fails the service forgets the ticket *)
(* when its time is over.                                                 *)
DeleteTicket(v) ==
  /\ stage[v] = "deleting" /\ Over(v)
  /\ \/ service /\ tickets' = tickets \ {v} /\ UNCHANGED faults
     \/ ~service /\ UNCHANGED <<tickets, faults>>
     \/ Fault /\ UNCHANGED tickets
  /\ UNCHANGED <<controller, live, pending, content, lease, timer, opVars, service>>

-----------------------------------------------------------------------------
(* beginOperation: the client's request for an operation is heard.  One   *)
(* that was cancelled before ends here, and so does one too many.         *)
InUse(v) == Cardinality({o \in Ops : ViewOf[o] = v /\ Running(o)})
Begin(o) == LET v == ViewOf[o] IN
  /\ Knows(v) /\ op[o] = None
  /\ \/ /\ o \in Members(early) /\ early' = Only(early, Ops \ {o})
        /\ op' = [op EXCEPT ![o] = "done"] /\ UNCHANGED active
     \/ /\ o \notin Members(early) /\ UNCHANGED early
        /\ IF InUse(v) < MaxViewOps /\ active < MaxOps
           THEN op' = [op EXCEPT ![o] = "begun"] /\ active' = active + 1
           ELSE op' = [op EXCEPT ![o] = "done"] /\ UNCHANGED active
  /\ UNCHANGED <<registryVars, cancelledOps, asked, serviceVars, faults>>

(* CancelOperation: what has not begun is remembered, and the oldest such *)
(* cancel forgotten when there are too many.                              *)
Remembered(o) ==
  IF Len(early) >= MaxEarly THEN Append(Tail(early), o) ELSE Append(early, o)
Cancel(o) ==
  /\ Knows(ViewOf[o]) /\ o \notin cancelledOps /\ o \notin Members(asked)
  /\ IF Running(o) THEN cancelledOps' = cancelledOps \cup {o} /\ UNCHANGED <<early, asked>>
     ELSE early' = Remembered(o) /\ asked' = Append(asked, o) /\ UNCHANGED cancelledOps
  /\ UNCHANGED <<registryVars, op, active, serviceVars, faults>>

(* appOperation: the gate is taken, and Pi called unless the operation is *)
(* cancelled by then.                                                     *)
CallPi(o) ==
  /\ op[o] = "begun" /\ o \notin cancelledOps /\ GateFree
  /\ op' = [op EXCEPT ![o] = "calling"]
  /\ UNCHANGED <<registryVars, cancelledOps, active, early, asked, serviceVars, faults>>

(* finish: after Pi's answer, its failure or the cancellation, or because *)
(* the session cannot be attached or shows another app by now.            *)
Finish(o) ==
  /\ Running(o)
  /\ op' = [op EXCEPT ![o] = "done"] /\ active' = active - 1
  /\ UNCHANGED <<registryVars, cancelledOps, early, asked, serviceVars, faults>>

-----------------------------------------------------------------------------
(* The browser service forgets a ticket after appViewTTL, and all of them *)
(* when it ends.  With the controller its views and operations end.       *)
TicketExpires(v) ==
  /\ v \in tickets /\ tickets' = tickets \ {v}
  /\ UNCHANGED <<registryVars, opVars, service, faults>>
ServiceEnds ==
  /\ service /\ Fault /\ service' = FALSE /\ tickets' = {}
  /\ UNCHANGED <<registryVars, opVars>>
ServiceStarts ==
  /\ ~service /\ service' = TRUE
  /\ UNCHANGED <<registryVars, opVars, tickets, faults>>

Quit ==
  /\ controller # "down" /\ controller' = "down"
  /\ Fault \/ (controller = "closed" /\ UNCHANGED faults)
  /\ stage' = [v \in Views |-> IF stage[v] = None THEN None ELSE "gone"]
  /\ openingViews' = {} /\ pending' = {} /\ content' = 0 /\ active' = 0 /\ early' = <<>>
  /\ lease' = [v \in Views |-> 0] /\ timer' = [v \in Views |-> 0]
  /\ op' = [o \in Ops |-> IF Running(o) THEN "done" ELSE op[o]]
  /\ UNCHANGED <<live, cancelledOps, asked, serviceVars>>
Restart ==
  /\ controller = "down" /\ controller' = "up"
  /\ UNCHANGED <<live, stage, openingViews, pending, content, lease, timer, opVars, serviceVars, faults>>

OpenStep(v) == Resolve(v) \/ Register(v) \/ Bind(v)
CloseStep(v) == CancelView(v) \/ DeleteTicket(v)
ViewNext ==
  \/ \E v \in Views : \/ Reserve(v)
                       \/ OpenStep(v) \/ CloseStep(v)
                       \/ ReadLast(v) \/ KeepAlive(v) \/ Tick(v) \/ CloseView(v) \/ ExpireView(v)
                       \/ TicketExpires(v)
  \/ \E o \in Ops : Begin(o) \/ Cancel(o) \/ CallPi(o) \/ Finish(o)
  \/ \E c \in Clients : ReleaseClient(c)
  \/ CloseAll \/ Quit \/ Restart \/ ServiceEnds \/ ServiceStarts

ViewSpec == ViewInit /\ [][ViewNext]_viewVars

(* Handlers run on, time passes, timers fire, and Pi answers or its call  *)
(* times out.                                                             *)
Fairness ==
  /\ \A v \in Views : /\ WF_viewVars(OpenStep(v)) /\ WF_viewVars(CloseStep(v))
                      /\ WF_viewVars(Tick(v)) /\ WF_viewVars(ExpireView(v))
  /\ \A o \in Ops : WF_viewVars(Finish(o))
FairViewSpec == ViewSpec /\ Fairness

-----------------------------------------------------------------------------
(* The accounts of the registry agree with what it holds, whatever         *)
(* reading, closing, expiry and release come together: the content that is *)
(* kept, the operations in progress, the views and places taken, and the   *)
(* cancels that wait, which are only of views that are open                *)
(* (app_view_lifetime.go:61-106, 197-259, 301-317, 414-425).               *)
AccountsAgree ==
  /\ content = Cardinality(pending)
  /\ active = Cardinality({o \in Ops : Running(o)})
  /\ Cardinality(ViewsAt("open") \cup openingViews) <= MaxViews
  /\ Len(early) <= MaxEarly /\ Distinct(early)
  /\ \A o \in Members(early) : stage[ViewOf[o]] = "open"

(* Once a view was closed, expired or released and its context cancelled, *)
(* none of its operations goes on to Pi, however the operation waited for *)
(* its session (app_view_lifetime.go:301-324, 218-259).                   *)
ClosedIsSilent == \A o \in Ops :
  (Running(o) /\ stage[ViewOf[o]] \in {"deleting", "gone"}) => o \in cancelledOps

(* An operation whose cancel arrived first does not begin, unless as many *)
(* later cancels as are remembered pushed it out                          *)
(* (app_view_lifetime.go:197-283, 414-451).                               *)
CancelsAreKept == \A i \in DOMAIN asked :
  Running(asked[i]) => Len(asked) - i >= MaxEarly

(* A view whose lease is over is about to be expired: no renewal leaves it *)
(* with a timer that is still to run (app_view_lifetime.go:151-195).       *)
LeaseIsWatched == \A v \in ViewsAt("open") : lease[v] = 0 => timer[v] = 0

(* Only a failure leaves a ticket to its time at the browser service:     *)
(* every other belongs to a view that is opened, open or being closed     *)
(* (app_view_lifetime.go:55-106, 382-412).                                *)
OnlyFaultsLeak == faults = 0 =>
  \A v \in tickets : stage[v] \in {"answered", "open", "revoked", "deleting"}

(* What the registry promises of its views, their operations and leases. *)
RegistryIsSafe == ViewTypeOK /\ AccountsAgree /\ ClosedIsSilent /\ CancelsAreKept /\ LeaseIsWatched /\ OnlyFaultsLeak

(* No opening holds its place for ever, and a view that its page no longer *)
(* renews ends, by a close, a release or the timer, also when the timer    *)
(* first runs early because of a renewal (app_view_lifetime.go:55-106,     *)
(* 151-195, 326-337).                                                      *)
Renewed(v) == []<><<KeepAlive(v)>>_viewVars
ViewsEnd == \A v \in Views :
  /\ v \in openingViews ~> v \notin openingViews
  /\ Renewed(v) \/ (stage[v] = "open" ~> stage[v] = "gone")
=============================================================================
