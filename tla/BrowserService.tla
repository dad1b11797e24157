--------------------------- MODULE BrowserService ---------------------------
(***************************************************************************)
(* The browser service (internal/browser): one directory per browser       *)
(* session, commands that each hold the session's lock file, leases that   *)
(* let the service reclaim the panels of a lost controller, and the        *)
(* accounting of screenshots.                                              *)
(*                                                                         *)
(* A request is one call of runBrowser, from the HTTP route, from MCP or   *)
(* from the goroutine that expires leases.  The module describes what a    *)
(* request does from its arrival to its answer; who sends requests and     *)
(* what becomes of the answers is for the module that composes it.         *)
(* A screenshot takes one unit of storage, and a session has room for one. *)
(***************************************************************************)
EXTENDS Integers, FiniteSets

CONSTANTS
  Panels,        \* session names of the controller's panels
  Others,        \* session names of MCP clients
  Requests,      \* names of the requests that can be under way at a time
  MaxSessions,   \* MaxSessions: directories below the state root
  MaxTotal,      \* MaxTotalArtifactBytes, in screenshots
  MaxFaults      \* bound: failed, lost and interrupted operations
ASSUME BrowserAssumption ==
  /\ Panels \cap Others = {} /\ IsFiniteSet(Panels) /\ IsFiniteSet(Others)
  /\ IsFiniteSet(Requests) /\ "none" \notin Requests
  /\ MaxSessions \in Nat \ {0} /\ MaxTotal \in Nat /\ MaxFaults \in Nat

VARIABLES
  service,   \* "up", "stopping" or "down"
  dir,       \* session -> "none", "leased" (with a marker) or "plain"
  fresh,     \* session -> its marker is younger than PanelLeaseTimeout
  lock,      \* session -> the request that made its .lock file, or None
  shots,     \* session -> screenshots in its artifact directory
  usage,     \* session -> artifactUsage
  reserved,  \* the requests that hold a reservation of storage
  request,   \* name -> what it is doing
  faults     \* faults so far
serviceVars == <<service, dir, fresh, lock, shots, usage, reserved, request>>

None == "none"
Sessions == Panels \cup Others
Free == [kind |-> None, session |-> None, leased |-> FALSE, stage |-> "free",
         ok |-> FALSE, cancelled |-> FALSE]
Request == [kind : {"command", "screenshot", "close", "expire"},
            session : Sessions, leased : BOOLEAN,
            stage : {"sent", "prepared", "locked", "running", "cleaning",
                     "ended", "answered"},
            ok : BOOLEAN, cancelled : BOOLEAN]

ServiceTypeOK ==
  /\ service \in {"up", "stopping", "down"}
  /\ dir \in [Sessions -> {None, "leased", "plain"}]
  /\ fresh \in [Sessions -> BOOLEAN]
  /\ lock \in [Sessions -> Requests \cup {None}]
  /\ shots \in [Sessions -> 0..1] /\ usage \in [Sessions -> 0..1]
  /\ reserved \subseteq Requests
  /\ request \in [Requests -> Request \cup {Free}]
  /\ faults \in 0..MaxFaults

ServiceInit ==
  /\ service = "up"
  /\ dir = [s \in Sessions |-> None] /\ fresh = [s \in Sessions |-> FALSE]
  /\ lock = [s \in Sessions |-> None]
  /\ shots = [s \in Sessions |-> 0] /\ usage = [s \in Sessions |-> 0]
  /\ reserved = {} /\ request = [r \in Requests |-> Free] /\ faults = 0

Fault == faults < MaxFaults /\ faults' = faults + 1
Is(r, stage) == request[r].stage = stage
Awaited(q) == q.session \in Panels /\ q.kind # "expire"
Closes(r) == request[r].kind \in {"close", "expire"}
To(r, stage, ok) == [request EXCEPT ![r] =
  IF stage # "answered" \/ Awaited(@) THEN [@ EXCEPT !.stage = stage, !.ok = ok] ELSE Free]
Existing == {s \in Sessions : dir[s] # None}
Total == Cardinality({s \in Sessions : usage[s] = 1})

(* A request arrives.  The controller's carry X-Pixie-Panel-Lease.       *)
Send(r, kind, s, leased) ==
  /\ Is(r, "free")
  /\ request' = [request EXCEPT ![r] =
       [kind |-> kind, session |-> s, leased |-> leased, stage |-> "sent",
        ok |-> FALSE, cancelled |-> FALSE]]

(* removeSessionStorage: the artifacts, then the state directory with the *)
(* lock in it, and only then the accounting; it may fail between the two. *)
Removed(r, s, stage) ==
  \/ /\ shots' = [shots EXCEPT ![s] = 0] /\ usage' = [usage EXCEPT ![s] = 0]
     /\ dir' = [dir EXCEPT ![s] = None] /\ fresh' = [fresh EXCEPT ![s] = FALSE]
     /\ lock' = [lock EXCEPT ![s] = None]
     /\ request' = To(r, stage, Closes(r) /\ ~Is(r, "cleaning"))
     /\ UNCHANGED faults
  \/ /\ Fault /\ shots' = [shots EXCEPT ![s] = 0]
     /\ request' = To(r, stage, FALSE)
     /\ UNCHANGED <<dir, fresh, lock, usage>>

(* A request is refused once the service is shutting down; the others are  *)
(* registered, to be cancelled then.  prepareSession, under the accounting *)
(* lock: a close of what is not there is done; a new session needs a free  *)
(* slot; a panel does not take over a session that has no marker, and a    *)
(* new one gets it, unless the write of the marker fails.                  *)
Refused(r, s) ==
  \/ service # "up"
  \/ dir[s] = None /\ Cardinality(Existing) >= MaxSessions
  \/ request[r].leased /\ ~Closes(r) /\ dir[s] = "plain"
Made(r, s) ==
  \/ /\ dir' = [dir EXCEPT ![s] = IF request[r].leased THEN "leased" ELSE "plain"]
     /\ fresh' = [fresh EXCEPT ![s] = request[r].leased]
     /\ request' = To(r, "prepared", FALSE) /\ UNCHANGED faults
  \/ /\ request[r].leased /\ Fault
     /\ dir' = [dir EXCEPT ![s] = "plain"] /\ request' = To(r, "answered", FALSE)
     /\ UNCHANGED fresh
Prepare(r, s) ==
  /\ Is(r, "sent") /\ service # "down"
  /\ IF service = "up" /\ Closes(r) /\ dir[s] = None THEN Removed(r, s, "answered")
     ELSE /\ \/ /\ Refused(r, s) /\ request' = To(r, "answered", FALSE)
                /\ UNCHANGED <<dir, fresh, faults>>
             \/ /\ ~Refused(r, s) /\ dir[s] # None /\ request' = To(r, "prepared", FALSE)
                /\ UNCHANGED <<dir, fresh, faults>>
             \/ /\ ~Refused(r, s) /\ dir[s] = None /\ Made(r, s)
          /\ UNCHANGED <<lock, shots, usage>>
  /\ UNCHANGED <<service, reserved>>

(* The lock file is made in the state directory, which may be gone again. *)
(* An expiry looks at the marker once more under the lock; a command      *)
(* renews it, if there is one.                                            *)
Touched(r, s) == IF dir[s] = "leased" /\ ~Closes(r) THEN [fresh EXCEPT ![s] = TRUE] ELSE fresh
LapsedUnasked(s) == TRUE
Lapsed(s) == dir[s] = "leased" /\ ~fresh[s]
Lockable(s) == dir[s] # None /\ lock[s] = None
Lock(r, s) ==
  /\ Is(r, "prepared")
  /\ \/ /\ ~Lockable(s)
        /\ request' = To(r, "answered", FALSE) /\ UNCHANGED <<lock, fresh>>
     \/ /\ Lockable(s)
        /\ IF request[r].kind = "expire" /\ ~Lapsed(s)
           THEN request' = To(r, "answered", TRUE) /\ UNCHANGED <<lock, fresh>>
           ELSE /\ request' = To(r, "locked", FALSE)
                /\ lock' = [lock EXCEPT ![s] = r]
                /\ fresh' = Touched(r, s)
  /\ UNCHANGED <<service, dir, shots, usage, reserved, faults>>

(* Under the lock: a cancelled request is cleaned up after; the artifacts *)
(* are measured, and a screenshot reserves its storage before the process *)
(* starts.                                                                *)
Measured(s) == shots[s]
HasRoomAlone(s) == shots[s] = 0 /\ Total < MaxTotal
HasRoom(s) == shots[s] = 0 /\ Total + Cardinality(reserved) < MaxTotal
Start(r, s) ==
  /\ Is(r, "locked")
  /\ IF request[r].cancelled
     THEN request' = To(r, "cleaning", FALSE) /\ UNCHANGED <<usage, reserved>>
     ELSE /\ usage' = [usage EXCEPT ![s] = Measured(s)]
          /\ IF request[r].kind = "screenshot"
             THEN IF HasRoom(s)
                  THEN request' = To(r, "running", FALSE) /\ reserved' = reserved \cup {r}
                  ELSE request' = To(r, "ended", FALSE) /\ UNCHANGED reserved
             ELSE request' = To(r, "running", FALSE) /\ UNCHANGED reserved
  /\ UNCHANGED <<service, dir, fresh, lock, shots, faults>>

(* The process ends well.  A close removes the session; a screenshot is   *)
(* linked under its name, if there is room, and its usage recorded.       *)
Succeed(r, s) ==
  /\ Is(r, "running")
  /\ IF Closes(r) THEN Removed(r, s, "ended")
     ELSE /\ LET kept == request[r].kind = "screenshot" /\ Total < MaxTotal IN
             /\ shots' = [shots EXCEPT ![s] = IF kept THEN 1 ELSE @]
             /\ usage' = [usage EXCEPT ![s] = IF kept THEN 1 ELSE @]
             /\ request' = To(r, "ended", kept \/ request[r].kind = "command")
          /\ UNCHANGED <<dir, fresh, lock, faults>>
  /\ UNCHANGED <<service, reserved>>

(* The process fails, or the request is cancelled, or a limit of time,    *)
(* output or state makes the service end it; then the session is closed.  *)
Terminated(r) == To(r, "cleaning", FALSE)
Fail(r) ==
  /\ Is(r, "running")
  /\ \/ Fault /\ request' = To(r, "ended", FALSE)
     \/ Fault /\ request' = Terminated(r)
     \/ request[r].cancelled /\ request' = Terminated(r) /\ UNCHANGED faults
  /\ UNCHANGED <<service, dir, fresh, lock, shots, usage, reserved>>

(* closeSession: a close of its own.  When it fails, the directory stays  *)
(* for another close.                                                     *)
Clean(r, s) ==
  /\ Is(r, "cleaning")
  /\ \/ Removed(r, s, "ended")
     \/ Fault /\ request' = To(r, "ended", FALSE) /\ UNCHANGED <<dir, fresh, lock, shots, usage>>
  /\ UNCHANGED <<service, reserved>>

(* The deferred calls: the reservation and the temporary file go, the     *)
(* lease is renewed again, and the lock file is removed if it is still    *)
(* this request's.                                                        *)
UnlockedAny(r, s) == None
Unlocked(r, s) == IF lock[s] = r THEN None ELSE lock[s]
End(r, s) ==
  /\ Is(r, "ended")
  /\ reserved' = reserved \ {r}
  /\ fresh' = Touched(r, s)
  /\ lock' = [lock EXCEPT ![s] = Unlocked(r, s)]
  /\ request' = To(r, "answered", request[r].ok)
  /\ UNCHANGED <<service, dir, shots, usage, faults>>

Serve(r) == LET s == request[r].session IN
  /\ request[r] # Free
  /\ \/ Prepare(r, s) \/ Lock(r, s) \/ Start(r, s)
     \/ Succeed(r, s) \/ Fail(r) \/ Clean(r, s) \/ End(r, s)

(* Nobody renewed a lease for PanelLeaseTimeout.  No request that had the *)
(* session's lock takes so long (RequestTimeout).                         *)
Lapse(s) ==
  /\ dir[s] = "leased" /\ fresh[s]
  /\ \A r \in Requests : request[r].session = s =>
       request[r].stage \notin {"locked", "running", "cleaning", "ended"}
  /\ fresh' = [fresh EXCEPT ![s] = FALSE]
  /\ UNCHANGED <<service, dir, lock, shots, usage, reserved, request>>

(* The ticker sends a close for every panel whose marker has lapsed.     *)
Expire(r, s) ==
  /\ service = "up" /\ s \in Panels /\ dir[s] = "leased" /\ ~fresh[s]
  /\ \A q \in Requests : request[q].kind = "expire" => request[q].session # s
  /\ Send(r, "expire", s, FALSE)
  /\ UNCHANGED <<service, dir, fresh, lock, shots, usage, reserved, faults>>

(* An MCP client's call.  Its answer, like that of an expiry, concerns    *)
(* nobody here.                                                           *)
McpCall(r, s) ==
  /\ service # "down" /\ \E kind \in {"command", "screenshot", "close"} : Send(r, kind, s, FALSE)
  /\ UNCHANGED <<service, dir, fresh, lock, shots, usage, reserved, faults>>

(* renewPanelLeases renews what has a marker and whose lock is free.     *)
RenewedAnyway(s) == IF dir[s] = "leased" THEN [fresh EXCEPT ![s] = TRUE] ELSE fresh
Renewed(s) == IF dir[s] = "leased" /\ lock[s] = None THEN [fresh EXCEPT ![s] = TRUE] ELSE fresh

(* Shutdown cancels what is under way and refuses the rest.  When the      *)
(* process is gone its requests are, and the files remain; a start removes *)
(* stale locks and temporary files and measures the artifacts.             *)
Shutdown ==
  /\ service = "up" /\ service' = "stopping"
  /\ request' = [r \in Requests |->
       IF request[r].stage \in {"free", "sent", "answered"} THEN request[r]
       ELSE [request[r] EXCEPT !.cancelled = TRUE]]
  /\ UNCHANGED <<dir, fresh, lock, shots, usage, reserved>>
Exit ==
  /\ service # "down" /\ service' = "down"
  /\ request' = [r \in Requests |-> IF request[r] = Free THEN Free ELSE To(r, "answered", FALSE)[r]]
  /\ reserved' = {} /\ UNCHANGED <<dir, fresh, lock, shots, usage>>
StaleKept(s) == lock[s]
Stale(s) == None
ServiceRestart ==
  /\ service = "down" /\ service' = "up"
  /\ lock' = [s \in Sessions |-> Stale(s)]
  /\ usage' = [s \in Sessions |-> Measured(s)]
  /\ UNCHANGED <<dir, fresh, shots, reserved, request, faults>>

-----------------------------------------------------------------------------
Working(r) == request[r].stage \in {"locked", "running", "cleaning"}

(* The commands of one session run one at a time, over directories that   *)
(* are removed and made again under a request that still holds a lock     *)
(* file, and over crashes that leave lock files behind                    *)
(* (service.go:485-507, 756-760).                                         *)
OneAtATime == \A q, r \in Requests :
  (q # r /\ Working(q) /\ Working(r)) => request[q].session # request[r].session

(* Screenshots that are kept and temporary ones that are being written    *)
(* never take more than the storage there is, however many are taken at a *)
(* time and whatever sessions are closed meanwhile (service.go:523-555,   *)
(* 831-836, 969-983).                                                     *)
WithinStorage ==
  Cardinality({s \in Sessions : shots[s] = 1})
    + Cardinality({r \in reserved : ~request[r].ok}) <= MaxTotal
=============================================================================
