------------------------- MODULE BrowserPanelsProofs -------------------------
(***************************************************************************)
(* Proofs about BrowserPanels and BrowserService, for every value of their *)
(* constants: the commands of one session run one at a time, screenshots   *)
(* stay within the storage, an expiry closes no session that was renewed,  *)
(* a panel is closed by one goroutine, and nothing that the journal does   *)
(* not name is kept alive.                                                 *)
(*                                                                         *)
(* The invariant, Inv, says what a request that works holds (the lock file *)
(* of its session, in a directory that exists), what an active command or  *)
(* expiry means for the lease, what is accounted for each reservation, and *)
(* why a panel that is missing from the journal is not its owner's.        *)
(***************************************************************************)
EXTENDS BrowserPanels, FiniteSetTheorems, TLAPS

Active == {"locked", "running", "cleaning", "ended"}

\* What a request holds at each stage.
Stages ==
  \A r \in Requests :
    /\ request[r].stage \in Active \cup {"prepared"} => service # "down"
    /\ Working(r) => /\ lock[request[r].session] = r /\ dir[request[r].session] # None
                     /\ ~request[r].ok
    /\ r \in reserved => request[r].stage \in {"running", "cleaning", "ended"}
    /\ request[r].stage = "running" /\ request[r].kind = "screenshot" => r \in reserved

\* A command keeps the lease of its session fresh to its end, and an expiry
\* that works has found it lapsed.
Leases ==
  \A r \in Requests :
    /\ request[r].stage \in Active /\ ~Closes(r) /\ dir[request[r].session] = "leased" =>
         fresh[request[r].session]
    /\ request[r].kind = "expire" /\ Working(r) /\ ~request[r].cancelled =>
         dir[request[r].session] = "leased" /\ ~fresh[request[r].session]

\* Every screenshot is accounted for, and those to come have their reservation.
Writing == {r \in reserved : ~request[r].ok}
Storage ==
  /\ \A s \in Sessions : shots[s] <= usage[s]
  /\ Total + Cardinality(Writing) <= MaxTotal

\* Whoever waits for an answer has a request that will be answered.
Awaiting == \A r \in Requests : caller[r] # None => request[r] # Free /\ Awaited(request[r])

Journaled ==
  /\ controller = "down" => open = {}
  /\ controller = "up" => open \subseteq journal \cup closing \cup retry \cup orphan

Inv == TypeOK /\ Stages /\ Leases /\ Storage /\ Awaiting /\ ClosedByOne /\ Journaled

-----------------------------------------------------------------------------
(* Requests, and what a step does to them. *)

LEMMA RequestTypes ==
  ASSUME ServiceTypeOK, NEW r \in Requests
  PROVE  /\ request[r].stage = "free" <=> request[r] = Free
         /\ request[r] = Free \/ request[r] \in Request
         /\ request[r] # Free =>
              /\ request[r].session \in Sessions /\ request[r].ok \in BOOLEAN
              /\ request[r].kind \in {"command", "screenshot", "close", "expire"}
              /\ request[r].stage \in {"sent", "prepared"} \cup Active \cup {"answered"}
  <1>1. request[r] = Free \/ request[r] \in Request
    BY DEF ServiceTypeOK
  <1>2. Free.stage = "free"
    BY DEF Free
  <1>3. request[r] \in Request =>
          /\ request[r].session \in Sessions /\ request[r].ok \in BOOLEAN
          /\ request[r].kind \in {"command", "screenshot", "close", "expire"}
          /\ request[r].stage \in {"sent", "prepared"} \cup Active \cup {"answered"}
    BY DEF Request, Active
  <1> QED BY <1>1, <1>2, <1>3 DEF Active

LEMMA ActiveTypes ==
  ASSUME ServiceTypeOK
  PROVE  \A r \in Requests : request[r].stage \in Active \cup {"prepared"} =>
           request[r].session \in Sessions /\ request[r] # Free
  <1>1. Free.stage \notin Active \cup {"prepared"}
    BY DEF Free, Active
  <1> QED BY <1>1, RequestTypes

\* A request goes on to another stage.
LEMMA ToEffect ==
  ASSUME ServiceTypeOK, NEW r \in Requests, request[r] # Free, NEW stage, NEW ok \in BOOLEAN,
         stage \in {"prepared", "locked", "running", "cleaning", "ended", "answered"},
         request' = To(r, stage, ok)
  PROVE  /\ request' \in [Requests -> Request \cup {Free}]
         /\ \A q \in Requests : q # r => request'[q] = request[q]
         /\ stage # "answered" =>
              /\ request'[r].kind = request[r].kind /\ request'[r].session = request[r].session
              /\ request'[r].stage = stage /\ request'[r].ok = ok
              /\ request'[r].cancelled = request[r].cancelled
         /\ stage = "answered" => request'[r].stage \in {"free", "answered"}
         /\ Awaited(request[r]) => /\ request'[r] # Free /\ request'[r].kind = request[r].kind
                                   /\ request'[r].session = request[r].session
  <1> DEFINE x == [request[r] EXCEPT !.stage = stage, !.ok = ok]
             y == IF stage # "answered" \/ Awaited(request[r]) THEN x ELSE Free
  <1>1. request[r] \in Request
    BY RequestTypes
  <1>2. x \in Request
    BY <1>1 DEF Request
  <1>3. /\ x.kind = request[r].kind /\ x.session = request[r].session /\ x.stage = stage /\ x.ok = ok
        /\ x.cancelled = request[r].cancelled
    BY <1>1 DEF Request
  <1>4. request' = [request EXCEPT ![r] = y]
    BY DEF To
  <1>5. Free.stage = "free"
    BY DEF Free
  <1> HIDE DEF x
  <1>6. y \in Request \cup {Free}
    BY <1>2
  <1>7. /\ request'[r] = y /\ \A q \in Requests : q # r => request'[q] = request[q]
        /\ request' \in [Requests -> Request \cup {Free}]
    BY <1>4, <1>6 DEF ServiceTypeOK
  <1>8. x # Free
    BY <1>3, <1>5
  <1> QED BY <1>3, <1>5, <1>7, <1>8

\* A request arrives.
LEMMA SendEffect ==
  ASSUME ServiceTypeOK, NEW r \in Requests, NEW kind \in {"command", "screenshot", "close", "expire"},
         NEW s \in Sessions, NEW leased \in BOOLEAN, Send(r, kind, s, leased)
  PROVE  /\ request' \in [Requests -> Request \cup {Free}] /\ request[r] = Free
         /\ \A q \in Requests : q # r => request'[q] = request[q]
         /\ request'[r].kind = kind /\ request'[r].session = s /\ request'[r].stage = "sent"
         /\ request'[r] # Free
  <1> DEFINE x == [kind |-> kind, session |-> s, leased |-> leased, stage |-> "sent",
                   ok |-> FALSE, cancelled |-> FALSE]
  <1>1. x \in Request
    BY DEF Request
  <1>2. x.kind = kind /\ x.session = s /\ x.stage = "sent" /\ Free.stage = "free"
    BY DEF Free
  <1>3. request' = [request EXCEPT ![r] = x] /\ request[r].stage = "free"
    BY DEF Send, Is
  <1> HIDE DEF x
  <1>4. /\ request'[r] = x /\ \A q \in Requests : q # r => request'[q] = request[q]
        /\ request' \in [Requests -> Request \cup {Free}]
    BY <1>1, <1>3 DEF ServiceTypeOK
  <1> QED BY <1>2, <1>3, <1>4, RequestTypes

\* Requests are cancelled: nothing else about them changes.
LEMMA CancelEffect ==
  ASSUME ServiceTypeOK, NEW S, \A r \in S \cap Requests : request[r] # Free,
         request' = [r \in Requests |-> IF r \in S THEN [request[r] EXCEPT !.cancelled = TRUE] ELSE request[r]]
  PROVE  /\ request' \in [Requests -> Request \cup {Free}]
         /\ \A r \in Requests : /\ request'[r].kind = request[r].kind
                                /\ request'[r].session = request[r].session
                                /\ request'[r].stage = request[r].stage /\ request'[r].ok = request[r].ok
                                /\ request'[r].cancelled \in {request[r].cancelled, TRUE}
                                /\ request[r] # Free => request'[r] # Free
  <1>1. ASSUME NEW r \in Requests, r \in S
        PROVE  /\ request'[r] \in Request
               /\ request'[r].kind = request[r].kind /\ request'[r].session = request[r].session
               /\ request'[r].stage = request[r].stage /\ request'[r].ok = request[r].ok
               /\ request'[r].cancelled = TRUE
    <2> DEFINE x == [request[r] EXCEPT !.cancelled = TRUE]
    <2>1. request[r] \in Request
      BY <1>1, RequestTypes
    <2>2. x \in Request
      BY <2>1 DEF Request
    <2>3. /\ x.kind = request[r].kind /\ x.session = request[r].session /\ x.stage = request[r].stage
          /\ x.ok = request[r].ok /\ x.cancelled = TRUE
      BY <2>1 DEF Request
    <2>4. request'[r] = x
      BY <1>1
    <2> QED BY <2>2, <2>3, <2>4
  <1>2. \A r \in Requests : r \notin S => request'[r] = request[r]
    OBVIOUS
  <1>3. request' \in [Requests -> Request \cup {Free}]
    <2>1. \A r \in Requests : request'[r] \in Request \cup {Free}
      BY <1>1, <1>2 DEF ServiceTypeOK
    <2>2. request' = [r \in Requests |-> request'[r]]
      OBVIOUS
    <2> QED BY <2>1, <2>2
  <1>4. \A r \in Requests : request[r].stage = "free" <=> request[r] = Free
    BY RequestTypes
  <1>5. Free.stage = "free"
    BY DEF Free
  <1>6. SUFFICES ASSUME NEW r \in Requests
        PROVE  /\ request'[r].kind = request[r].kind
               /\ request'[r].session = request[r].session
               /\ request'[r].stage = request[r].stage /\ request'[r].ok = request[r].ok
               /\ request'[r].cancelled \in {request[r].cancelled, TRUE}
               /\ request[r] # Free => request'[r] # Free
    BY <1>3
  <1>7. CASE r \notin S
    BY <1>2, <1>7
  <1>8. CASE r \in S
    <2>1. request'[r].stage # "free"
      BY <1>1, <1>4, <1>8
    <2> QED BY <1>1, <1>5, <1>8, <2>1
  <1> QED BY <1>7, <1>8

-----------------------------------------------------------------------------
(* What a step must respect for each part of the invariant. *)

\* Request q goes on working, or has ended and is not answered yet.
Moved(q) ==
  /\ request'[q].kind = request[q].kind /\ request'[q].session = request[q].session
  /\ request[q].cancelled => request'[q].cancelled
  /\ request[q].stage \in Active
  /\ Working(q)' => Working(q) /\ ~request'[q].ok

LEMMA StagesKept ==
  ASSUME ServiceTypeOK, Stages,
         \A q \in Requests : request'[q].stage \in Active \cup {"prepared"} => service' # "down",
         \A q \in Requests : request'[q].stage \in Active => Moved(q),
         \A q \in Requests : Working(q) /\ Working(q)' =>
           /\ lock'[request[q].session] = lock[request[q].session]
           /\ dir'[request[q].session] = dir[request[q].session],
         \A q \in Requests : q \in reserved' => request'[q].stage \in {"running", "cleaning", "ended"},
         \A q \in Requests : request'[q].stage = "running" /\ request'[q].kind = "screenshot" =>
           q \in reserved'
  PROVE  Stages'
  <1> SUFFICES ASSUME NEW q \in Requests
      PROVE  Working(q)' => /\ lock'[request'[q].session] = q /\ dir'[request'[q].session] # None
                            /\ ~request'[q].ok
    BY DEF Stages
  <1>1. Working(q)' => request'[q].stage \in Active
    BY DEF Working, Active
  <1>2. Working(q)' => Moved(q)
    BY <1>1
  <1>3. Working(q) => lock[request[q].session] = q /\ dir[request[q].session] # None
    BY DEF Stages
  <1> QED BY <1>2, <1>3 DEF Moved

LEMMA LeasesKept ==
  ASSUME ServiceTypeOK, Leases,
         \A q \in Requests : request'[q].stage \in Active => Moved(q),
         \A q \in Requests :
           request[q].stage \in Active /\ request'[q].stage \in Active /\ ~Closes(q)
             /\ dir'[request[q].session] = "leased" =>
           (dir[request[q].session] = "leased" /\ fresh[request[q].session]
             => fresh'[request[q].session]),
         \A q \in Requests :
           request[q].stage \in Active /\ request'[q].stage \in Active /\ ~Closes(q)
             /\ dir'[request[q].session] = "leased" =>
           dir[request[q].session] = "leased" \/ fresh'[request[q].session],
         \A q \in Requests :
           request[q].kind = "expire" /\ Working(q) /\ Working(q)' /\ ~request[q].cancelled =>
           /\ dir'[request[q].session] = dir[request[q].session]
           /\ fresh'[request[q].session] => fresh[request[q].session]
  PROVE  Leases'
  <1> SUFFICES ASSUME NEW q \in Requests
      PROVE /\ request'[q].stage \in Active /\ ~Closes(q)' /\ dir'[request'[q].session] = "leased" =>
                 fresh'[request'[q].session]
            /\ request'[q].kind = "expire" /\ Working(q)' /\ ~request'[q].cancelled =>
                 dir'[request'[q].session] = "leased" /\ ~fresh'[request'[q].session]
    BY DEF Leases, Closes
  <1>1. CASE request'[q].stage \notin Active
    BY <1>1 DEF Working, Active
  <1>2. CASE request'[q].stage \in Active
    <2>1. Moved(q)
      BY <1>2
    <2>2. Closes(q)' <=> Closes(q)
      BY <2>1 DEF Closes, Moved
    <2>3. /\ request[q].stage \in Active /\ ~Closes(q) /\ dir[request[q].session] = "leased" =>
               fresh[request[q].session]
          /\ request[q].kind = "expire" /\ Working(q) /\ ~request[q].cancelled =>
               dir[request[q].session] = "leased" /\ ~fresh[request[q].session]
      BY DEF Leases
    <2>4. request'[q].stage \in Active /\ ~Closes(q)' /\ dir'[request'[q].session] = "leased" =>
                 fresh'[request'[q].session]
      BY <1>2, <2>1, <2>2, <2>3, Zenon DEF Moved
    <2>5. request'[q].kind = "expire" /\ Working(q)' /\ ~request'[q].cancelled =>
                 dir'[request'[q].session] = "leased" /\ ~fresh'[request'[q].session]
      BY <2>1, <2>3, Zenon DEF Moved
    <2> QED BY <2>4, <2>5
  <1> QED BY <1>1, <1>2

LEMMA Finite ==
  /\ IsFiniteSet(Requests) /\ IsFiniteSet(Sessions)
  /\ \A S \in SUBSET Sessions : IsFiniteSet(S) /\ Cardinality(S) \in Nat
  /\ \A S \in SUBSET Requests : IsFiniteSet(S) /\ Cardinality(S) \in Nat
  <1>1. IsFiniteSet(Requests) /\ IsFiniteSet(Sessions)
    BY BrowserAssumption, FS_Union DEF Sessions
  <1> QED BY <1>1, FS_Subset, FS_CardinalityType

LEMMA Fewer ==
  /\ \A S \in SUBSET Sessions : \A R \in SUBSET S : Cardinality(R) <= Cardinality(S)
  /\ \A S \in SUBSET Requests : \A R \in SUBSET S : Cardinality(R) <= Cardinality(S)
  BY Finite, FS_Subset

LEMMA StorageKept ==
  ASSUME ServiceTypeOK, Storage, usage' \in [Sessions -> 0..1],
         \A s \in Sessions : shots'[s] <= usage'[s] /\ usage'[s] <= usage[s],
         reserved' \subseteq reserved,
         \A q \in reserved' : request[q].ok => request'[q].ok
  PROVE  Storage'
  <1> DEFINE U == {s \in Sessions : usage[s] = 1}
             V == {s \in Sessions : usage'[s] = 1}
             W == {q \in reserved : ~request[q].ok}
             X == {q \in reserved' : ~request'[q].ok}
  <1>1. V \subseteq U
    BY DEF ServiceTypeOK
  <1>2. X \subseteq W
    OBVIOUS
  <1>3. reserved \subseteq Requests /\ W \in SUBSET Requests /\ U \in SUBSET Sessions
    BY DEF ServiceTypeOK
  <1>4. Cardinality(U) + Cardinality(W) <= MaxTotal
    BY DEF Storage, Total, Writing
  <1> HIDE DEF U, V, W, X
  <1>5. Cardinality(V) <= Cardinality(U) /\ Cardinality(X) <= Cardinality(W)
    BY <1>1, <1>2, <1>3, Fewer
  <1>6. /\ Cardinality(U) \in Nat /\ Cardinality(W) \in Nat
        /\ Cardinality(V) \in Nat /\ Cardinality(X) \in Nat
    <2>1. V \in SUBSET Sessions /\ X \in SUBSET Requests
      BY <1>1, <1>2, <1>3
    <2> QED BY <2>1, <1>3, Finite
  <1>7. Cardinality(V) + Cardinality(X) <= MaxTotal
    BY <1>4, <1>5, <1>6, BrowserAssumption
  <1>8. Total' = Cardinality(V) /\ Writing' = X
    BY DEF Total, Writing, V, X
  <1> QED BY <1>7, <1>8 DEF Storage

-----------------------------------------------------------------------------
(* The steps that only send, cancel, refuse or forget requests, and those  *)
(* that only renew leases or let them lapse.                               *)

Service == ServiceTypeOK /\ Stages /\ Leases /\ Storage

Alike(q) ==
  /\ request'[q].kind = request[q].kind /\ request'[q].session = request[q].session
  /\ request'[q].stage = request[q].stage /\ request'[q].ok = request[q].ok
  /\ request'[q].cancelled \in {request[q].cancelled, TRUE}

LEMMA QuietKeeps ==
  ASSUME Service, UNCHANGED <<dir, fresh, lock, shots, usage, reserved>>,
         faults' \in 0..MaxFaults, service' \in {"up", "stopping", "down"},
         service' = "down" => service = "down",
         request' \in [Requests -> Request \cup {Free}],
         \A q \in Requests : Alike(q) \/ (request[q].stage \notin Active /\ request'[q].stage \notin Active),
         \A q \in Requests : request'[q].stage = "prepared" => Alike(q) \/ service # "down"
  PROVE  Service'
  <1>1. ServiceTypeOK'
    BY DEF Service, ServiceTypeOK
  <1>2. \A q \in Requests : request'[q].stage \in Active => Alike(q) /\ request[q].stage \in Active
    BY DEF Alike
  <1>3. \A q \in Requests : request'[q].stage \in Active => Moved(q)
    <2> SUFFICES ASSUME NEW q \in Requests, request'[q].stage \in Active
        PROVE  Moved(q)
      OBVIOUS
    <2>1. Alike(q) /\ request[q].stage \in Active
      BY <1>2
    <2>2. Working(q)' => Working(q)
      BY <2>1 DEF Alike, Working
    <2>3. Working(q) => ~request[q].ok
      BY DEF Service, Stages
    <2>4. Working(q)' => ~request'[q].ok
      BY <2>1, <2>2, <2>3, Zenon DEF Alike
    <2>5. request[q].cancelled => request'[q].cancelled
      BY <2>1, Zenon DEF Alike
    <2> QED BY <2>1, <2>2, <2>4, <2>5 DEF Alike, Moved
  <1>4. Stages'
    <2>1. \A q \in Requests : request'[q].stage \in Active \cup {"prepared"} => service' # "down"
      BY <1>2 DEF Service, Stages, Alike
    <2>2. \A q \in Requests : q \in reserved' => request'[q].stage \in {"running", "cleaning", "ended"}
      BY DEF Service, Stages, Alike, Active
    <2>3. \A q \in Requests : request'[q].stage = "running" /\ request'[q].kind = "screenshot" =>
           q \in reserved'
      BY <1>2 DEF Service, Stages, Alike, Active
    <2> QED BY <1>3, <2>1, <2>2, <2>3, StagesKept DEF Service
  <1>5. Leases'
    BY <1>3, LeasesKept DEF Service
  <1>6. Storage'
    <2>1. \A q \in reserved' : request[q].ok => request'[q].ok
      <3> SUFFICES ASSUME NEW q \in Requests, q \in reserved
          PROVE  request[q].ok => request'[q].ok
        BY DEF Service, ServiceTypeOK
      <3>1. request[q].stage \in Active
        BY DEF Service, Stages, Active
      <3>2. Alike(q)
        BY <3>1
      <3> QED BY <3>2, Zenon DEF Alike
    <2>2. \A s \in Sessions : shots'[s] <= usage'[s] /\ usage'[s] <= usage[s]
      BY DEF Service, ServiceTypeOK, Storage
    <2>3. usage' \in [Sessions -> 0..1]
      BY DEF Service, ServiceTypeOK
    <2> QED BY <2>1, <2>2, <2>3, StorageKept DEF Service
  <1> QED BY <1>1, <1>4, <1>5, <1>6 DEF Service

LEMMA SendKeeps ==
  ASSUME Service, NEW r \in Requests, NEW kind \in {"command", "screenshot", "close", "expire"},
         NEW s \in Sessions, NEW leased \in BOOLEAN, Send(r, kind, s, leased),
         UNCHANGED <<service, dir, fresh, lock, shots, usage, reserved, faults>>
  PROVE  Service'
  <1>1. /\ request' \in [Requests -> Request \cup {Free}] /\ request[r] = Free
        /\ \A q \in Requests : q # r => request'[q] = request[q]
        /\ request'[r].stage = "sent"
    BY SendEffect DEF Service
  <1>2. Free.stage = "free"
    BY DEF Free
  <1>3. \A q \in Requests : q # r => Alike(q)
    BY <1>1 DEF Alike
  <1>4. request[r].stage \notin Active /\ request'[r].stage \notin Active \cup {"prepared"}
    BY <1>1, <1>2 DEF Active
  <1>5. faults' \in 0..MaxFaults /\ service' \in {"up", "stopping", "down"}
    BY DEF Service, ServiceTypeOK
  <1> QED BY <1>1, <1>3, <1>4, <1>5, QuietKeeps

\* An answer is received or comes to nothing.
LEMMA FreeKeeps ==
  ASSUME Service, NEW r \in Requests, Is(r, "answered"), request' = [request EXCEPT ![r] = Free],
         UNCHANGED <<service, dir, fresh, lock, shots, usage, reserved>>, faults' \in 0..MaxFaults
  PROVE  Service' /\ request'[r] = Free /\ \A q \in Requests : q # r => request'[q] = request[q]
  <1>1. /\ request' \in [Requests -> Request \cup {Free}]
        /\ request'[r] = Free /\ \A q \in Requests : q # r => request'[q] = request[q]
    BY DEF Service, ServiceTypeOK
  <1>2. Free.stage = "free"
    BY DEF Free
  <1>3. \A q \in Requests : q # r => Alike(q)
    BY <1>1 DEF Alike
  <1>4. request[r].stage \notin Active /\ request'[r].stage \notin Active \cup {"prepared"}
    BY <1>1, <1>2 DEF Active, Is
  <1>5. service' \in {"up", "stopping", "down"}
    BY DEF Service, ServiceTypeOK
  <1>6. Service'
    BY <1>1, <1>3, <1>4, <1>5, QuietKeeps
  <1> QED BY <1>1, <1>6

LEMMA CancelKeeps ==
  ASSUME Service, NEW S, \A r \in S \cap Requests : request[r] # Free,
         request' = [r \in Requests |-> IF r \in S THEN [request[r] EXCEPT !.cancelled = TRUE] ELSE request[r]],
         UNCHANGED <<dir, fresh, lock, shots, usage, reserved>>,
         faults' \in 0..MaxFaults, service' \in {"up", "stopping", "down"},
         service' = "down" => service = "down"
  PROVE  Service'
  <1>1. request' \in [Requests -> Request \cup {Free}] /\ \A q \in Requests : Alike(q)
    BY CancelEffect DEF Service, Alike
  <1> QED BY <1>1, QuietKeeps

\* Only fresh changes.
LEMMA FreshKeeps ==
  ASSUME Service, UNCHANGED <<service, dir, lock, shots, usage, reserved, request>>,
         faults' \in 0..MaxFaults, fresh' \in [Sessions -> BOOLEAN],
         \A q \in Requests : request[q].stage \in Active =>
           (fresh[request[q].session] => fresh'[request[q].session]),
         \A q \in Requests : Working(q) => (fresh'[request[q].session] => fresh[request[q].session])
  PROVE  Service'
  <1>1. ServiceTypeOK' /\ Stages' /\ Storage'
    BY DEF Service, ServiceTypeOK, Stages, Storage, Total, Writing, Working
  <1>2. Leases'
    BY Zenon DEF Service, Leases, Closes, Working, Active
  <1> QED BY <1>1, <1>2 DEF Service

LEMMA RenewKeeps ==
  ASSUME Service, NEW s \in Sessions, fresh' \in {fresh, Renewed(s)},
         UNCHANGED <<service, dir, lock, shots, usage, reserved, request, faults>>
  PROVE  Service'
  <1>1. fresh' = fresh \/ (lock[s] = None /\ fresh' = [fresh EXCEPT ![s] = TRUE])
    BY DEF Renewed
  <1>2. fresh \in [Sessions -> BOOLEAN] /\ faults' \in 0..MaxFaults
    BY DEF Service, ServiceTypeOK
  <1>3. fresh' \in [Sessions -> BOOLEAN]
    BY <1>1, <1>2
  <1>4. \A q \in Requests : request[q].stage \in Active =>
           (fresh[request[q].session] => fresh'[request[q].session])
    <2> SUFFICES ASSUME NEW q \in Requests, request[q].stage \in Active
        PROVE  fresh[request[q].session] => fresh'[request[q].session]
      OBVIOUS
    <2>1. request[q].session \in Sessions
      BY ActiveTypes DEF Service
    <2> QED BY <1>1, <1>2, <2>1
  <1>5. \A q \in Requests : Working(q) => lock[request[q].session] # None
    BY BrowserAssumption DEF Service, Stages, None
  <1>6. \A q \in Requests : Working(q) => (fresh'[request[q].session] => fresh[request[q].session])
    <2> SUFFICES ASSUME NEW q \in Requests, Working(q)
        PROVE  fresh'[request[q].session] => fresh[request[q].session]
      OBVIOUS
    <2>1. lock[request[q].session] # None /\ request[q].session \in Sessions
      BY <1>5, ActiveTypes DEF Service, Working, Active
    <2>2. CASE fresh' = fresh
      BY <2>2
    <2>3. CASE lock[s] = None /\ fresh' = [fresh EXCEPT ![s] = TRUE]
      BY <1>2, <2>1, <2>3
    <2> QED BY <1>1, <2>2, <2>3
  <1> QED BY <1>2, <1>3, <1>4, <1>6, FreshKeeps

LEMMA LapseKeeps ==
  ASSUME Service, NEW s \in Sessions, Lapse(s), faults' \in 0..MaxFaults
  PROVE  Service'
  <1>1. /\ fresh' = [fresh EXCEPT ![s] = FALSE]
        /\ \A r \in Requests : request[r].session = s => request[r].stage \notin Active
        /\ UNCHANGED <<service, dir, lock, shots, usage, reserved, request>>
    BY DEF Lapse, Active
  <1>2. fresh \in [Sessions -> BOOLEAN]
    BY DEF Service, ServiceTypeOK
  <1>3. fresh' \in [Sessions -> BOOLEAN]
    BY <1>1, <1>2
  <1>4. \A q \in Requests : request[q].stage \in Active =>
           fresh'[request[q].session] = fresh[request[q].session]
    BY <1>1, <1>2, ActiveTypes DEF Service
  <1>5. \A q \in Requests : Working(q) => request[q].stage \in Active
    BY DEF Working, Active
  <1> QED BY <1>1, <1>3, <1>4, <1>5, FreshKeeps

LEMMA ExitKeeps ==
  ASSUME Service, Exit, faults' \in 0..MaxFaults
  PROVE  /\ Service' /\ request' \in [Requests -> Request \cup {Free}]
         /\ \A q \in Requests : request'[q].stage \in {"free", "answered"}
         /\ \A q \in Requests : request[q] # Free /\ Awaited(request[q]) =>
              request'[q] # Free /\ request'[q].kind = request[q].kind
                /\ request'[q].session = request[q].session
  <1>1. /\ service' = "down" /\ reserved' = {} /\ UNCHANGED <<dir, fresh, lock, shots, usage>>
        /\ request' = [r \in Requests |-> IF request[r] = Free THEN Free ELSE To(r, "answered", FALSE)[r]]
    BY DEF Exit
  <1>2. ASSUME NEW q \in Requests
        PROVE  /\ request'[q] \in Request \cup {Free} /\ request'[q].stage \in {"free", "answered"}
               /\ request[q] # Free /\ Awaited(request[q]) =>
                    request'[q] # Free /\ request'[q].kind = request[q].kind
                      /\ request'[q].session = request[q].session
    <2>1. Free.stage = "free"
      BY DEF Free
    <2>2. CASE request[q] = Free
      BY <1>1, <2>1, <2>2
    <2>3. CASE request[q] # Free
      <3> DEFINE x == [request[q] EXCEPT !.stage = "answered", !.ok = FALSE]
      <3>1. request[q] \in Request
        BY <2>3, RequestTypes DEF Service
      <3>2. /\ x \in Request /\ x.stage = "answered" /\ x.kind = request[q].kind
            /\ x.session = request[q].session
        BY <3>1 DEF Request
      <3>3. request'[q] = IF Awaited(request[q]) THEN x ELSE Free
        <4>1. request \in [Requests -> Request \cup {Free}]
          BY DEF Service, ServiceTypeOK
        <4>2. To(q, "answered", FALSE)[q] = IF Awaited(request[q]) THEN x ELSE Free
          BY <4>1 DEF To
        <4> QED BY <1>1, <2>3, <4>2
      <3>4. x # Free
        BY <2>1, <3>2
      <3> QED BY <2>1, <3>2, <3>3, <3>4
    <2> QED BY <2>2, <2>3
  <1>3. request' \in [Requests -> Request \cup {Free}]
    <2>1. request' = [r \in Requests |-> request'[r]]
      BY <1>1
    <2> QED BY <1>2, <2>1
  <1>4. ServiceTypeOK'
    BY <1>1, <1>3 DEF Service, ServiceTypeOK
  <1>5. \A q \in Requests : request'[q].stage \notin Active \cup {"prepared"}
    BY <1>2 DEF Active
  <1>6. Stages'
    BY <1>1, <1>5 DEF Stages, Working, Active
  <1>7. Leases'
    BY <1>1, <1>5 DEF Leases, Working, Active
  <1>8. Storage'
    BY <1>1, StorageKept DEF Service, ServiceTypeOK, Storage
  <1> QED BY <1>2, <1>3, <1>4, <1>6, <1>7, <1>8 DEF Service

LEMMA RestartKeeps ==
  ASSUME Service, ServiceRestart
  PROVE  Service'
  <1>1. /\ service = "down" /\ service' = "up"
        /\ lock' = [s \in Sessions |-> None] /\ usage' = [s \in Sessions |-> shots[s]]
        /\ UNCHANGED <<dir, fresh, shots, reserved, request, faults>>
    BY DEF ServiceRestart, Stale, Measured
  <1>2. shots \in [Sessions -> 0..1]
    BY DEF Service, ServiceTypeOK
  <1>3. lock' \in [Sessions -> Requests \cup {None}] /\ usage' \in [Sessions -> 0..1]
    BY <1>1, <1>2
  <1>4. ServiceTypeOK'
    BY <1>1, <1>3 DEF Service, ServiceTypeOK
  <1>5. \A q \in Requests : request[q].stage \notin Active \cup {"prepared"} /\ q \notin reserved
    BY <1>1 DEF Service, Stages, Active
  <1>6. Stages'
    BY <1>1, <1>5 DEF Stages, Working, Active
  <1>7. Leases'
    BY <1>1, <1>5 DEF Leases, Working, Active
  <1>8. Storage'
    <2>1. \A s \in Sessions : shots'[s] <= usage'[s] /\ usage'[s] <= usage[s]
      BY <1>1, <1>2 DEF Service, Storage
    <2> QED BY <1>1, <1>3, <2>1, StorageKept DEF Service
  <1> QED BY <1>4, <1>6, <1>7, <1>8 DEF Service

-----------------------------------------------------------------------------
(* The service's own steps. *)

LEMMA OthersMove ==
  ASSUME Service, NEW q \in Requests, request'[q] = request[q]
  PROVE  /\ request'[q].stage \in Active => Moved(q)
         /\ Working(q)' <=> Working(q)
         /\ Alike(q)
  <1>1. Working(q) => ~request[q].ok
    BY DEF Service, Stages
  <1>2. Working(q)' <=> Working(q)
    BY DEF Working
  <1> QED BY <1>1, <1>2, Zenon DEF Moved, Alike

\* No other request works for a session whose lock is held by one that does.
LEMMA Alone ==
  ASSUME Service, NEW q \in Requests, NEW r \in Requests, q # r, Working(q), Working(r)
  PROVE  request[q].session # request[r].session
  BY DEF Service, Stages

LEMMA ToQuiet ==
  ASSUME Service, NEW r \in Requests, request[r] # Free, request[r].stage \notin Active,
         NEW stage \in {"prepared", "answered"}, NEW ok \in BOOLEAN, request' = To(r, stage, ok),
         stage = "prepared" => service # "down", faults' \in 0..MaxFaults,
         UNCHANGED <<service, dir, fresh, lock, shots, usage, reserved>>
  PROVE  Service'
  <1>1. /\ request' \in [Requests -> Request \cup {Free}]
        /\ \A q \in Requests : q # r => request'[q] = request[q]
        /\ request'[r].stage \in {"prepared", "free", "answered"}
        /\ request'[r].stage = "prepared" => stage = "prepared"
    BY ToEffect DEF Service
  <1>2. \A q \in Requests : q # r => Alike(q)
    BY <1>1 DEF Alike
  <1>3. request'[r].stage \notin Active
    BY <1>1 DEF Active
  <1>4. service' \in {"up", "stopping", "down"}
    BY DEF Service, ServiceTypeOK
  <1> QED BY <1>1, <1>2, <1>3, <1>4, QuietKeeps

\* A request that holds the lock, or has ended, goes on, and the directory,
\* the lease and the lock stay.
LEMMA HoldKeeps ==
  ASSUME Service, NEW r \in Requests, request[r].stage \in Active,
         NEW stage \in {"running", "cleaning", "ended"}, NEW ok \in BOOLEAN,
         request' = To(r, stage, ok),
         stage # "ended" => Working(r) /\ ~ok,
         UNCHANGED <<service, dir, fresh, lock>>, faults' \in 0..MaxFaults,
         shots' \in [Sessions -> 0..1], usage' \in [Sessions -> 0..1],
         reserved' \in {reserved, reserved \cup {r}},
         stage = "running" /\ request[r].kind = "screenshot" => r \in reserved',
         Storage'
  PROVE  Service'
  <1>1. /\ request' \in [Requests -> Request \cup {Free}]
        /\ \A q \in Requests : q # r => request'[q] = request[q]
        /\ request'[r].kind = request[r].kind /\ request'[r].session = request[r].session
        /\ request'[r].stage = stage /\ request'[r].ok = ok
        /\ request'[r].cancelled = request[r].cancelled
    BY ActiveTypes, ToEffect DEF Service
  <1>2. ServiceTypeOK'
    BY <1>1 DEF Service, ServiceTypeOK
  <1>3. Moved(r)
    <2>1. Working(r)' => Working(r) /\ ~ok
      BY <1>1 DEF Working
    <2>2. Working(r)' => Working(r) /\ ~request'[r].ok
      BY <1>1, <2>1, Zenon
    <2> QED BY <1>1, <2>2 DEF Moved
  <1>4. \A q \in Requests : request'[q].stage \in Active => Moved(q)
    BY <1>1, <1>3, OthersMove
  <1>5. Stages'
    <2>1. \A q \in Requests : request'[q].stage \in Active \cup {"prepared"} => service' # "down"
      BY <1>1 DEF Service, Stages, Active
    <2>2. \A q \in Requests : q \in reserved' => request'[q].stage \in {"running", "cleaning", "ended"}
      BY <1>1 DEF Service, Stages
    <2>3. \A q \in Requests : request'[q].stage = "running" /\ request'[q].kind = "screenshot" =>
           q \in reserved'
      BY <1>1 DEF Service, Stages
    <2> QED BY <1>4, <2>1, <2>2, <2>3, StagesKept DEF Service
  <1>6. Leases'
    BY <1>4, LeasesKept DEF Service
  <1> QED BY <1>2, <1>5, <1>6 DEF Service

\* The storage of a session is removed, or what can be.
LEMMA RemovedKeeps ==
  ASSUME Service, NEW r \in Requests, NEW s \in Sessions, s = request[r].session,
         NEW stage \in {"ended", "answered"}, Removed(r, s, stage), UNCHANGED <<service, reserved>>,
         \/ Working(r) /\ stage = "ended"
         \/ Is(r, "sent") /\ dir[s] = None /\ stage = "answered"
  PROVE  Service'
  <1>1. PICK ok \in BOOLEAN : request' = To(r, stage, ok)
    <2>1. (Closes(r) /\ ~Is(r, "cleaning")) \in BOOLEAN
      BY DEF Closes, Is
    <2> QED BY <2>1, Zenon DEF Removed
  <1>2. /\ shots' = [shots EXCEPT ![s] = 0]
        /\ \/ /\ usage' = [usage EXCEPT ![s] = 0] /\ dir' = [dir EXCEPT ![s] = None]
              /\ fresh' = [fresh EXCEPT ![s] = FALSE] /\ lock' = [lock EXCEPT ![s] = None]
           \/ UNCHANGED <<dir, fresh, lock, usage>>
        /\ faults' = faults \/ (faults < MaxFaults /\ faults' = faults + 1)
    BY DEF Removed, Fault
  <1>3. /\ request' \in [Requests -> Request \cup {Free}]
        /\ \A q \in Requests : q # r => request'[q] = request[q]
        /\ stage # "answered" =>
              /\ request'[r].kind = request[r].kind /\ request'[r].session = request[r].session
              /\ request'[r].stage = stage /\ request'[r].cancelled = request[r].cancelled
        /\ stage = "answered" => request'[r].stage \in {"free", "answered"}
    <2>1. request[r] # Free
      BY DEF Working, Is, Free
    <2> QED BY <1>1, <2>1, ToEffect DEF Service
  <1>4. ServiceTypeOK'
    <2>1. faults' \in 0..MaxFaults
      BY <1>2, BrowserAssumption DEF Service, ServiceTypeOK
    <2>2. /\ shots' \in [Sessions -> 0..1] /\ usage' \in [Sessions -> 0..1]
          /\ dir' \in [Sessions -> {None, "leased", "plain"}]
          /\ fresh' \in [Sessions -> BOOLEAN] /\ lock' \in [Sessions -> Requests \cup {None}]
      <3>1. /\ shots \in [Sessions -> 0..1] /\ usage \in [Sessions -> 0..1]
            /\ dir \in [Sessions -> {None, "leased", "plain"}]
            /\ fresh \in [Sessions -> BOOLEAN] /\ lock \in [Sessions -> Requests \cup {None}]
        BY DEF Service, ServiceTypeOK
      <3>2. shots' \in [Sessions -> 0..1]
        BY <1>2, <3>1
      <3>3. CASE UNCHANGED <<dir, fresh, lock, usage>>
        BY <3>1, <3>2, <3>3
      <3>4. CASE /\ usage' = [usage EXCEPT ![s] = 0] /\ dir' = [dir EXCEPT ![s] = None]
                 /\ fresh' = [fresh EXCEPT ![s] = FALSE] /\ lock' = [lock EXCEPT ![s] = None]
        <4>1. usage' \in [Sessions -> 0..1] /\ dir' \in [Sessions -> {None, "leased", "plain"}]
          BY <3>1, <3>4
        <4>2. fresh' \in [Sessions -> BOOLEAN] /\ lock' \in [Sessions -> Requests \cup {None}]
          BY <3>1, <3>4
        <4> QED BY <3>2, <4>1, <4>2
      <3> QED BY <1>2, <3>3, <3>4
    <2> QED BY <1>3, <2>1, <2>2 DEF Service, ServiceTypeOK
  <1>5. ~Working(r)'
    BY <1>3 DEF Working
  <1>6. /\ request'[r].stage \in Active => Moved(r)
        /\ r \in reserved => Working(r) /\ stage = "ended"
    <2>1. r \in reserved => Working(r) /\ stage = "ended"
      BY DEF Service, Stages, Is
    <2>2. stage = "ended" => Moved(r)
      BY <1>3, <1>5, Zenon DEF Moved, Working, Active
    <2> QED BY <1>3, <2>1, <2>2 DEF Active
  <1>7. \A q \in Requests : request'[q].stage \in Active => Moved(q)
    BY <1>3, <1>6, OthersMove
  <1>8. \A q \in Requests : Working(q) /\ Working(q)' =>
          request[q].session \in Sessions /\ request[q].session # s
    <2> SUFFICES ASSUME NEW q \in Requests, Working(q), q # r
        PROVE  request[q].session \in Sessions /\ request[q].session # s
      BY <1>5
    <2>1. request[q].session \in Sessions
      BY ActiveTypes DEF Service, Working, Active
    <2>2. dir[request[q].session] # None
      BY DEF Service, Stages
    <2> QED BY <2>1, <2>2, Alone
  <1>9. \A t \in Sessions : t # s =>
          lock'[t] = lock[t] /\ dir'[t] = dir[t] /\ fresh'[t] = fresh[t]
    BY <1>2 DEF Service, ServiceTypeOK
  <1>10. Stages'
    <2>1. \A q \in Requests : request'[q].stage \in Active \cup {"prepared"} => service' # "down"
      <3>1. request'[r].stage \in Active \cup {"prepared"} => Working(r)
        BY <1>3 DEF Active
      <3>2. Working(r) => service # "down"
        BY DEF Service, Stages, Working, Active
      <3> QED BY <1>3, <3>1, <3>2 DEF Service, Stages
    <2>2. \A q \in Requests : q \in reserved' => request'[q].stage \in {"running", "cleaning", "ended"}
      BY <1>3, <1>6 DEF Service, Stages
    <2>3. \A q \in Requests : request'[q].stage = "running" /\ request'[q].kind = "screenshot" =>
           q \in reserved'
      BY <1>3 DEF Service, Stages
    <2> QED BY <1>7, <1>8, <1>9, <2>1, <2>2, <2>3, StagesKept DEF Service
  <1>11. Leases'
    <2>1. \A t \in Sessions : dir'[t] = "leased" => dir[t] = "leased" /\ fresh'[t] = fresh[t]
      <3>1. dir' \in [Sessions -> {None, "leased", "plain"}]
        BY <1>4 DEF ServiceTypeOK
      <3>2. dir'[s] = None \/ UNCHANGED <<dir, fresh>>
        BY <1>2 DEF Service, ServiceTypeOK
      <3>3. None # "leased"
        BY DEF None
      <3> QED BY <1>9, <3>2, <3>3
    <2>2. \A q \in Requests : request[q].stage \in Active => request[q].session \in Sessions
      BY ActiveTypes DEF Service
    <2> QED BY <1>7, <1>8, <1>9, <2>1, <2>2, LeasesKept DEF Service
  <1>12. Storage'
    <2>1. \A t \in Sessions : shots'[t] <= usage'[t] /\ usage'[t] <= usage[t]
      BY <1>2 DEF Service, ServiceTypeOK, Storage
    <2>2. \A q \in reserved' : request[q].ok => request'[q].ok
      <3> SUFFICES ASSUME NEW q \in Requests, q \in reserved
          PROVE  request[q].ok => request'[q].ok
        BY DEF Service, ServiceTypeOK
      <3>1. q = r => ~request[q].ok
        BY <1>6 DEF Service, Stages
      <3> QED BY <1>3, <3>1
    <2>3. usage' \in [Sessions -> 0..1]
      BY <1>4 DEF ServiceTypeOK
    <2> QED BY <2>1, <2>2, <2>3, StorageKept DEF Service
  <1> QED BY <1>4, <1>10, <1>11, <1>12 DEF Service

\* A session that was not there is made, with its lease or without.
LEMMA MadeKeeps ==
  ASSUME Service, NEW r \in Requests, NEW s \in Sessions, s = request[r].session,
         Is(r, "sent"), service # "down", dir[s] = None, Made(r, s),
         UNCHANGED <<service, lock, shots, usage, reserved>>
  PROVE  Service'
  <1> DEFINE leased == request[r].leased
  <1>1. request[r] # Free /\ request[r].stage \notin Active /\ leased \in BOOLEAN
    <2>1. request[r] # Free /\ request[r].stage \notin Active
      BY DEF Is, Free, Active
    <2> QED BY <2>1 DEF Service, ServiceTypeOK, Request
  <1>2. PICK stage \in {"prepared", "answered"} : request' = To(r, stage, FALSE)
    BY DEF Made
  <1>3. /\ request' \in [Requests -> Request \cup {Free}]
        /\ \A q \in Requests : q # r => request'[q] = request[q]
        /\ request'[r].stage \in {"prepared", "free", "answered"}
    BY <1>1, <1>2, ToEffect DEF Service
  <1>4. dir \in [Sessions -> {None, "leased", "plain"}] /\ fresh \in [Sessions -> BOOLEAN]
    BY DEF Service, ServiceTypeOK
  <1>5. \/ dir' = [dir EXCEPT ![s] = "leased"] /\ leased /\ fresh' = [fresh EXCEPT ![s] = leased]
        \/ dir' = [dir EXCEPT ![s] = "plain"] /\ fresh' \in {fresh, [fresh EXCEPT ![s] = leased]}
    BY Zenon DEF Made
  <1>6. fresh' \in [Sessions -> BOOLEAN] /\ \A t \in Sessions : t # s => fresh'[t] = fresh[t]
    <2>1. [fresh EXCEPT ![s] = leased] \in [Sessions -> BOOLEAN]
      BY <1>1, <1>4
    <2>2. \A t \in Sessions : t # s => [fresh EXCEPT ![s] = leased][t] = fresh[t]
      BY <1>4
    <2>3. fresh' \in {fresh, [fresh EXCEPT ![s] = leased]}
      BY <1>5
    <2> QED BY <1>4, <2>1, <2>2, <2>3, Zenon
  <1>7. dir'[s] = "leased" => fresh'[s]
    <2>1. dir'[s] = "leased" => leased /\ fresh' = [fresh EXCEPT ![s] = leased]
      BY <1>4, <1>5
    <2>2. [fresh EXCEPT ![s] = leased][s] = leased
      BY <1>4
    <2> QED BY <2>1, <2>2, Zenon
  <1>8. /\ dir' \in [Sessions -> {None, "leased", "plain"}]
        /\ \A t \in Sessions : t # s => dir'[t] = dir[t]
    BY <1>4, <1>5
  <1>9. ServiceTypeOK'
    <2>1. faults' \in 0..MaxFaults
      <3>1. faults' = faults \/ (faults < MaxFaults /\ faults' = faults + 1)
        BY Zenon DEF Made, Fault
      <3>2. faults \in 0..MaxFaults
        BY DEF Service, ServiceTypeOK
      <3> QED BY <3>1, <3>2, BrowserAssumption
    <2> QED BY <1>3, <1>6, <1>8, <2>1 DEF Service, ServiceTypeOK
  <1>10. /\ request'[r].stage \notin Active
         /\ \A q \in Requests : request'[q].stage \in Active => Moved(q)
    BY <1>3, OthersMove DEF Active
  <1>11. \A q \in Requests : Working(q) => request[q].session \in Sessions /\ request[q].session # s
    BY ActiveTypes DEF Service, Stages, Working, Active
  <1>12. Stages'
    <2>1. \A q \in Requests : request'[q].stage \in Active \cup {"prepared"} => service' # "down"
      BY <1>3 DEF Service, Stages
    <2>2. \A q \in Requests : q \in reserved' => request'[q].stage \in {"running", "cleaning", "ended"}
      BY <1>1, <1>3 DEF Service, Stages, Active
    <2>3. \A q \in Requests : request'[q].stage = "running" /\ request'[q].kind = "screenshot" =>
           q \in reserved'
      BY <1>3 DEF Service, Stages
    <2> QED BY <1>8, <1>10, <1>11, <2>1, <2>2, <2>3, StagesKept DEF Service
  <1>13. Leases'
    <2>1. \A q \in Requests : request[q].stage \in Active => request[q].session \in Sessions
      BY ActiveTypes DEF Service
    <2> QED BY <1>6, <1>7, <1>8, <1>10, <1>11, <2>1, LeasesKept DEF Service
  <1>14. Storage'
    <2>1. \A q \in Requests : q \in reserved => q # r
      BY <1>1 DEF Service, Stages, Active
    <2>2. \A q \in reserved' : request[q].ok => request'[q].ok
      BY <1>3, <2>1 DEF Service, ServiceTypeOK
    <2>3. \A t \in Sessions : shots'[t] <= usage'[t] /\ usage'[t] <= usage[t]
      BY DEF Service, ServiceTypeOK, Storage
    <2>4. usage' \in [Sessions -> 0..1]
      BY DEF Service, ServiceTypeOK
    <2> QED BY <2>2, <2>3, <2>4, StorageKept DEF Service
  <1> QED BY <1>9, <1>12, <1>13, <1>14 DEF Service

LEMMA PrepareKeeps ==
  ASSUME Service, NEW r \in Requests, NEW s \in Sessions, s = request[r].session, Prepare(r, s)
  PROVE  Service' /\ \E stage \in {"prepared", "answered"}, ok \in BOOLEAN : request' = To(r, stage, ok)
  <1>1. /\ Is(r, "sent") /\ service # "down" /\ UNCHANGED <<service, reserved>>
        /\ request[r] # Free /\ request[r].stage \notin Active
    BY DEF Prepare, Is, Free, Active
  <1>2. CASE dir[s] = None /\ Removed(r, s, "answered")
    <2>1. (Closes(r) /\ ~Is(r, "cleaning")) \in BOOLEAN
      BY DEF Closes, Is
    <2>2. \E ok \in BOOLEAN : request' = To(r, "answered", ok)
      BY <1>2, <2>1, Zenon DEF Removed
    <2> QED BY <1>1, <1>2, <2>2, RemovedKeeps
  <1>3. CASE /\ request' \in {To(r, "answered", FALSE), To(r, "prepared", FALSE)}
             /\ UNCHANGED <<dir, fresh, faults, lock, shots, usage>>
    <2>1. faults' \in 0..MaxFaults
      BY <1>3 DEF Service, ServiceTypeOK
    <2> QED BY <1>1, <1>3, <2>1, ToQuiet
  <1>4. CASE dir[s] = None /\ Made(r, s) /\ UNCHANGED <<lock, shots, usage>>
    <2>1. \E stage \in {"prepared", "answered"}, ok \in BOOLEAN : request' = To(r, stage, ok)
      BY <1>4 DEF Made
    <2> QED BY <1>1, <1>4, <2>1, MadeKeeps
  <1> QED BY <1>2, <1>3, <1>4 DEF Prepare

LEMMA LockGrants ==
  ASSUME Service, NEW r \in Requests, NEW s \in Sessions, s = request[r].session,
         Is(r, "prepared"), Lockable(s), request[r].kind = "expire" => Lapsed(s),
         request' = To(r, "locked", FALSE), lock' = [lock EXCEPT ![s] = r], fresh' = Touched(r, s),
         UNCHANGED <<service, dir, shots, usage, reserved, faults>>
  PROVE  Service'
  <1>1. /\ request[r] # Free /\ request[r].stage \notin Active
        /\ service # "down" /\ dir[s] # None /\ lock[s] = None
    BY DEF Is, Free, Active, Service, Stages, Lockable
  <1>2. /\ request' \in [Requests -> Request \cup {Free}]
        /\ \A q \in Requests : q # r => request'[q] = request[q]
        /\ request'[r].kind = request[r].kind /\ request'[r].session = s
        /\ request'[r].stage = "locked" /\ request'[r].ok = FALSE
        /\ request'[r].cancelled = request[r].cancelled
    <2>1. /\ FALSE \in BOOLEAN /\ "locked" # "answered"
          /\ "locked" \in {"prepared", "locked", "running", "cleaning", "ended", "answered"}
      OBVIOUS
    <2>2. ServiceTypeOK
      BY DEF Service
    <2> QED BY <1>1, <2>1, <2>2, ToEffect, Zenon
  <1>3. /\ lock' \in [Sessions -> Requests \cup {None}] /\ lock'[s] = r
        /\ \A t \in Sessions : t # s => lock'[t] = lock[t]
    BY DEF Service, ServiceTypeOK
  <1>4. /\ fresh \in [Sessions -> BOOLEAN]
        /\ fresh' = fresh \/ (~Closes(r) /\ fresh' = [fresh EXCEPT ![s] = TRUE])
    BY DEF Service, ServiceTypeOK, Touched
  <1>5. /\ fresh' \in [Sessions -> BOOLEAN]
        /\ \A t \in Sessions : t # s => fresh'[t] = fresh[t]
        /\ \A t \in Sessions : fresh[t] => fresh'[t]
    BY <1>4
  <1>6. ServiceTypeOK'
    BY <1>2, <1>3, <1>5 DEF Service, ServiceTypeOK
  <1>7. r \notin reserved
    BY <1>1 DEF Service, Stages, Active
  <1>8. \A q \in Requests : request[q].stage \in Active => request[q].session \in Sessions
    BY ActiveTypes DEF Service
  <1>9. \A q \in Requests : Working(q) =>
          /\ q # r /\ request[q].session \in Sessions \ {s} /\ request[q].stage \in Active
          /\ lock[request[q].session] = q /\ dir[request[q].session] # None /\ ~request[q].ok
    <2>1. \A q \in Requests : Working(q) => request[q].stage \in Active
      BY DEF Working, Active
    <2>2. \A q \in Requests : q # None
      BY BrowserAssumption DEF None
    <2> QED BY <1>1, <1>8, <2>1, <2>2 DEF Service, Stages
  <1>10. Stages'
    <2> SUFFICES ASSUME NEW q \in Requests
        PROVE  /\ request'[q].stage \in Active \cup {"prepared"} => service' # "down"
               /\ Working(q)' => /\ lock'[request'[q].session] = q /\ dir'[request'[q].session] # None
                                 /\ ~request'[q].ok
               /\ q \in reserved' => request'[q].stage \in {"running", "cleaning", "ended"}
               /\ request'[q].stage = "running" /\ request'[q].kind = "screenshot" => q \in reserved'
      BY DEF Stages
    <2>1. CASE q = r
      BY <1>1, <1>2, <1>3, <1>7, <2>1
    <2>2. CASE q # r
      <3>1. request'[q] = request[q]
        BY <1>2, <2>2
      <3>2. Working(q)' <=> Working(q)
        BY <3>1 DEF Working
      <3>3. Working(q)' => /\ lock'[request'[q].session] = q /\ dir'[request'[q].session] # None
                           /\ ~request'[q].ok
        <4>1. ASSUME Working(q)
              PROVE  lock'[request[q].session] = q /\ dir'[request[q].session] # None /\ ~request[q].ok
          <5>1. /\ request[q].session \in Sessions /\ request[q].session # s
                /\ lock[request[q].session] = q /\ dir[request[q].session] # None /\ ~request[q].ok
            BY <1>9, <4>1
          <5>2. lock'[request[q].session] = lock[request[q].session] /\ dir' = dir
            BY <1>3, <5>1
          <5> QED BY <5>1, <5>2
        <4> QED BY <3>1, <3>2, <4>1
      <3>4. /\ request'[q].stage \in Active \cup {"prepared"} => service' # "down"
            /\ q \in reserved' => request'[q].stage \in {"running", "cleaning", "ended"}
            /\ request'[q].stage = "running" /\ request'[q].kind = "screenshot" => q \in reserved'
        BY <3>1 DEF Service, Stages
      <3> QED BY <3>3, <3>4
    <2> QED BY <2>1, <2>2
  <1>11. Leases'
    <2> SUFFICES ASSUME NEW q \in Requests
        PROVE  /\ request'[q].stage \in Active /\ ~Closes(q)' /\ dir'[request'[q].session] = "leased" =>
                    fresh'[request'[q].session]
               /\ request'[q].kind = "expire" /\ Working(q)' /\ ~request'[q].cancelled =>
                    dir'[request'[q].session] = "leased" /\ ~fresh'[request'[q].session]
      BY DEF Leases, Closes
    <2>1. CASE q = r
      <3>1. Closes(r)' <=> Closes(r)
        BY <1>2 DEF Closes
      <3>2. ~Closes(r) /\ dir[s] = "leased" => fresh'[s]
        BY <1>4 DEF Touched
      <3>3. request[r].kind = "expire" => dir[s] = "leased" /\ ~fresh[s] /\ fresh' = fresh
        BY DEF Lapsed, Touched, Closes
      <3> QED BY <1>2, <2>1, <3>1, <3>2, <3>3
    <2>2. CASE q # r
      <3>1. request'[q] = request[q]
        BY <1>2, <2>2
      <3>2. (Working(q)' <=> Working(q)) /\ (Closes(q)' <=> Closes(q))
        BY <3>1 DEF Working, Closes
      <3>3. Working(q) => fresh'[request[q].session] = fresh[request[q].session]
        BY <1>5, <1>9
      <3>4. request[q].stage \in Active => (fresh[request[q].session] => fresh'[request[q].session])
        BY <1>5, <1>8
      <3> QED BY <3>1, <3>2, <3>3, <3>4 DEF Service, Leases
    <2> QED BY <2>1, <2>2
  <1>12. Storage'
    <2>1. \A q \in reserved' : request[q].ok => request'[q].ok
      BY <1>2, <1>7 DEF Service, ServiceTypeOK
    <2>2. \A t \in Sessions : shots'[t] <= usage'[t] /\ usage'[t] <= usage[t]
      BY DEF Service, ServiceTypeOK, Storage
    <2>3. usage' \in [Sessions -> 0..1]
      BY DEF Service, ServiceTypeOK
    <2> QED BY <2>1, <2>2, <2>3, StorageKept DEF Service
  <1> QED BY <1>6, <1>10, <1>11, <1>12 DEF Service

LEMMA LockKeeps ==
  ASSUME Service, NEW r \in Requests, NEW s \in Sessions, s = request[r].session, Lock(r, s)
  PROVE  Service' /\ \E stage \in {"locked", "answered"}, ok \in BOOLEAN : request' = To(r, stage, ok)
  <1>1. /\ Is(r, "prepared") /\ UNCHANGED <<service, dir, shots, usage, reserved, faults>>
        /\ request[r] # Free /\ request[r].stage \notin Active
        /\ faults' \in 0..MaxFaults
    BY DEF Lock, Is, Free, Active, Service, ServiceTypeOK
  <1>2. CASE request' \in {To(r, "answered", FALSE), To(r, "answered", TRUE)} /\ UNCHANGED <<lock, fresh>>
    <2>1. \E ok \in BOOLEAN : request' = To(r, "answered", ok)
      BY <1>2
    <2> QED BY <1>1, <1>2, <2>1, ToQuiet
  <1>3. CASE /\ Lockable(s) /\ (request[r].kind = "expire" => Lapsed(s))
             /\ request' = To(r, "locked", FALSE)
             /\ lock' = [lock EXCEPT ![s] = r] /\ fresh' = Touched(r, s)
    BY <1>1, <1>3, LockGrants
  <1> QED BY <1>2, <1>3 DEF Lock

\* Other steps of a request do not disturb what is accounted.
LEMMA HoldStorage ==
  ASSUME Service, NEW r \in Requests, request[r].stage \in Active,
         NEW stage \in {"running", "cleaning", "ended"}, NEW ok \in BOOLEAN,
         request' = To(r, stage, ok), Working(r) \/ (request[r].ok => ok),
         reserved' = reserved, usage' \in [Sessions -> 0..1],
         \A s \in Sessions : shots'[s] <= usage'[s] /\ usage'[s] <= usage[s]
  PROVE  Storage'
  <1>1. \A q \in Requests : q # r => request'[q] = request[q]
    BY ActiveTypes, ToEffect DEF Service
  <1>2. request[r].ok => request'[r].ok
    <2>1. Working(r) => ~request[r].ok
      BY DEF Service, Stages
    <2>2. request'[r].ok = ok
      BY ActiveTypes, ToEffect DEF Service
    <2> QED BY <2>1, <2>2, Zenon
  <1>3. \A q \in reserved' : request[q].ok => request'[q].ok
    BY <1>1, <1>2 DEF Service, ServiceTypeOK
  <1> QED BY <1>3, StorageKept DEF Service

\* A screenshot that finds room leaves room for all that are being written.
LEMMA RoomIsLeft ==
  ASSUME Service, NEW r \in Requests, request[r].stage \in Active,
         r \notin reserved, Total + Cardinality(reserved) < MaxTotal,
         request' = To(r, "running", FALSE), reserved' = reserved \cup {r}, shots' = shots,
         usage' \in [Sessions -> 0..1],
         \A s \in Sessions : shots[s] <= usage'[s] /\ usage'[s] <= usage[s]
  PROVE  Storage'
  <1> DEFINE U == {s \in Sessions : usage[s] = 1}
             V == {s \in Sessions : usage'[s] = 1}
             X == {q \in reserved' : ~request'[q].ok}
  <1>1. V \subseteq U
    BY DEF Service, ServiceTypeOK
  <1>2. /\ U \in SUBSET Sessions /\ V \in SUBSET Sessions /\ reserved' \in SUBSET Requests
        /\ X \in SUBSET Requests /\ X \subseteq reserved' /\ reserved \in SUBSET Requests
    BY DEF Service, ServiceTypeOK
  <1>3. Total' = Cardinality(V) /\ Writing' = X /\ Total = Cardinality(U)
    BY DEF Total, Writing
  <1>4. Cardinality(reserved') = Cardinality(reserved) + 1
    BY <1>2, Finite, FS_AddElement
  <1> HIDE DEF U, V, X
  <1>5. Cardinality(V) <= Cardinality(U) /\ Cardinality(X) <= Cardinality(reserved')
    BY <1>1, <1>2, Fewer
  <1>6. /\ Cardinality(U) \in Nat /\ Cardinality(V) \in Nat /\ Cardinality(X) \in Nat
        /\ Cardinality(reserved) \in Nat /\ MaxTotal \in Nat
    BY <1>2, Finite, BrowserAssumption
  <1>7. Total' + Cardinality(Writing') <= MaxTotal
    <2>1. Cardinality(U) + Cardinality(reserved) < MaxTotal
      BY <1>3
    <2>2. Cardinality(V) + Cardinality(X) <= MaxTotal
      BY <1>4, <1>5, <1>6, <2>1
    <2> QED BY <1>3, <2>2
  <1> QED BY <1>7 DEF Storage

LEMMA StartKeeps ==
  ASSUME Service, NEW r \in Requests, NEW s \in Sessions, s = request[r].session, Start(r, s)
  PROVE  Service' /\ \E stage \in {"running", "cleaning", "ended"}, ok \in BOOLEAN : request' = To(r, stage, ok)
  <1>1. /\ request[r].stage = "locked" /\ request[r].stage \in Active /\ Working(r)
        /\ UNCHANGED <<service, dir, fresh, lock, shots, faults>> /\ r \notin reserved
    BY DEF Start, Is, Active, Working, Service, Stages
  <1>2. /\ shots \in [Sessions -> 0..1] /\ usage \in [Sessions -> 0..1]
        /\ faults' \in 0..MaxFaults /\ shots' \in [Sessions -> 0..1]
    BY <1>1 DEF Service, ServiceTypeOK
  <1>3. /\ usage' \in {usage, [usage EXCEPT ![s] = shots[s]]}
        /\ \/ reserved' = reserved /\ request' \in {To(r, "cleaning", FALSE), To(r, "ended", FALSE)}
           \/ reserved' = reserved /\ request' = To(r, "running", FALSE) /\ request[r].kind # "screenshot"
           \/ reserved' = reserved \cup {r} /\ request' = To(r, "running", FALSE) /\ HasRoom(s)
    BY DEF Start, Measured
  <1>4. usage' \in [Sessions -> 0..1] /\ \A t \in Sessions : shots[t] <= usage'[t] /\ usage'[t] <= usage[t]
    <2>1. \A t \in Sessions : shots[t] <= usage[t] /\ shots[t] \in 0..1 /\ usage[t] \in 0..1
      BY <1>2 DEF Service, Storage
    <2>2. [usage EXCEPT ![s] = shots[s]] \in [Sessions -> 0..1]
      BY <1>2
    <2>3. CASE usage' = usage
      BY <1>2, <2>1, <2>3
    <2>4. CASE usage' = [usage EXCEPT ![s] = shots[s]]
      BY <1>2, <2>1, <2>2, <2>4
    <2> QED BY <1>3, <2>3, <2>4
  <1>5. CASE reserved' = reserved /\ request' \in {To(r, "cleaning", FALSE), To(r, "ended", FALSE)}
    <2>1. PICK stage \in {"cleaning", "ended"} : request' = To(r, stage, FALSE)
      BY <1>5
    <2>2. Storage'
      BY <1>1, <1>4, <1>5, <2>1, HoldStorage
    <2> QED BY <1>1, <1>2, <1>4, <1>5, <2>1, <2>2, HoldKeeps
  <1>6. CASE reserved' = reserved /\ request' = To(r, "running", FALSE) /\ request[r].kind # "screenshot"
    <2>1. Storage'
      BY <1>1, <1>4, <1>6, HoldStorage
    <2> QED BY <1>1, <1>2, <1>4, <1>6, <2>1, HoldKeeps
  <1>7. CASE reserved' = reserved \cup {r} /\ request' = To(r, "running", FALSE) /\ HasRoom(s)
    <2>1. Storage'
      BY <1>1, <1>4, <1>7, RoomIsLeft DEF HasRoom
    <2>2. r \in reserved'
      BY <1>7
    <2> QED BY <1>1, <1>2, <1>4, <1>7, <2>1, <2>2, HoldKeeps
  <1> QED BY <1>3, <1>5, <1>6, <1>7

\* A screenshot that was reserved is kept: its reservation turns into usage.
LEMMA ReservedIsKept ==
  ASSUME Service, NEW r \in Requests, NEW s \in Sessions, r \in reserved, Working(r),
         request' = To(r, "ended", TRUE), reserved' = reserved,
         shots' = [shots EXCEPT ![s] = 1], usage' = [usage EXCEPT ![s] = 1]
  PROVE  Storage'
  <1> DEFINE U == {t \in Sessions : usage[t] = 1}
             V == {t \in Sessions : usage'[t] = 1}
             W == {q \in reserved : ~request[q].ok}
             X == {q \in reserved' : ~request'[q].ok}
  <1>1. /\ \A q \in Requests : q # r => request'[q] = request[q]
        /\ request'[r].ok = TRUE
    <2>1. ServiceTypeOK /\ request[r] # Free
      BY ActiveTypes DEF Service, Working, Active
    <2>2. /\ TRUE \in BOOLEAN /\ "ended" # "answered"
          /\ "ended" \in {"prepared", "locked", "running", "cleaning", "ended", "answered"}
      OBVIOUS
    <2> QED BY <2>1, <2>2, ToEffect, Zenon
  <1>2. V \subseteq U \cup {s}
    BY DEF Service, ServiceTypeOK
  <1>3. r \in W /\ X \subseteq W \ {r}
    <2>1. ~request[r].ok
      BY DEF Service, Stages
    <2>2. reserved \subseteq Requests
      BY DEF Service, ServiceTypeOK
    <2>3. X \subseteq W \ {r}
      BY <1>1, <2>2
    <2> QED BY <2>1, <2>3
  <1>4. /\ U \in SUBSET Sessions /\ V \in SUBSET Sessions /\ U \cup {s} \in SUBSET Sessions
        /\ W \in SUBSET Requests /\ X \in SUBSET Requests
    BY DEF Service, ServiceTypeOK
  <1>5. Total' = Cardinality(V) /\ Writing' = X /\ Total = Cardinality(U) /\ Writing = W
    BY DEF Total, Writing
  <1>6. \A t \in Sessions : shots'[t] <= usage'[t]
    BY DEF Service, ServiceTypeOK, Storage
  <1> HIDE DEF U, V, W, X
  <1>7. /\ Cardinality(V) <= Cardinality(U) + 1
        /\ Cardinality(X) <= Cardinality(W) - 1
    <2>1. Cardinality(V) <= Cardinality(U \cup {s}) /\ Cardinality(X) <= Cardinality(W \ {r})
      <3>1. W \ {r} \in SUBSET Requests
        BY <1>4
      <3> QED BY <1>2, <1>3, <1>4, <3>1, Fewer
    <2>2. IsFiniteSet(U) /\ IsFiniteSet(W) /\ Cardinality(U) \in Nat /\ Cardinality(W) \in Nat
      BY <1>4, Finite
    <2>3. Cardinality(U \cup {s}) = Cardinality(U) \/ Cardinality(U \cup {s}) = Cardinality(U) + 1
      BY <2>2, FS_AddElement
    <2>4. Cardinality(W \ {r}) = Cardinality(W) - 1
      BY <1>3, <2>2, FS_RemoveElement
    <2>5. Cardinality(V) \in Nat /\ Cardinality(X) \in Nat
      BY <1>4, Finite
    <2> QED BY <2>1, <2>2, <2>3, <2>4, <2>5
  <1>8. /\ Cardinality(U) \in Nat /\ Cardinality(V) \in Nat /\ Cardinality(X) \in Nat
        /\ Cardinality(W) \in Nat /\ MaxTotal \in Nat
    BY <1>4, Finite, BrowserAssumption
  <1>9. Total' + Cardinality(Writing') <= MaxTotal
    <2>1. Cardinality(U) + Cardinality(W) <= MaxTotal
      BY <1>5 DEF Service, Storage
    <2>2. Cardinality(V) + Cardinality(X) <= MaxTotal
      BY <1>7, <1>8, <2>1
    <2> QED BY <1>5, <2>2
  <1> QED BY <1>6, <1>9 DEF Storage

LEMMA SucceedKeeps ==
  ASSUME Service, NEW r \in Requests, NEW s \in Sessions, s = request[r].session, Succeed(r, s)
  PROVE  Service' /\ \E ok \in BOOLEAN : request' = To(r, "ended", ok)
  <1>1. /\ request[r].stage = "running" /\ request[r].stage \in Active /\ Working(r)
        /\ UNCHANGED <<service, reserved>>
        /\ request[r].kind = "screenshot" => r \in reserved
    BY DEF Succeed, Is, Active, Working, Service, Stages
  <1>2. CASE Closes(r) /\ Removed(r, s, "ended")
    <2>1. (Closes(r) /\ ~Is(r, "cleaning")) \in BOOLEAN
      BY DEF Closes, Is
    <2>2. \E ok \in BOOLEAN : request' = To(r, "ended", ok)
      BY <1>2, <2>1, Zenon DEF Removed
    <2> QED BY <1>1, <1>2, <2>2, RemovedKeeps
  <1>3. /\ shots \in [Sessions -> 0..1] /\ usage \in [Sessions -> 0..1] /\ faults \in 0..MaxFaults
    BY DEF Service, ServiceTypeOK
  <1>4. CASE ~Closes(r)
    <2> DEFINE kept == request[r].kind = "screenshot" /\ Total < MaxTotal
    <2>1. /\ shots' = [shots EXCEPT ![s] = IF kept THEN 1 ELSE @]
          /\ usage' = [usage EXCEPT ![s] = IF kept THEN 1 ELSE @]
          /\ request' = To(r, "ended", kept \/ request[r].kind = "command")
          /\ UNCHANGED <<dir, fresh, lock, faults>>
      BY <1>4 DEF Succeed
    <2>2. CASE kept
      <3>1. /\ shots' = [shots EXCEPT ![s] = 1] /\ usage' = [usage EXCEPT ![s] = 1]
            /\ request[r].kind = "screenshot"
        BY <2>1, <2>2
      <3>2. request' = To(r, "ended", TRUE)
        <4>1. (kept \/ request[r].kind = "command") = TRUE
          BY <2>2
        <4> QED BY <2>1, <4>1, Zenon
      <3>3. shots' \in [Sessions -> 0..1] /\ usage' \in [Sessions -> 0..1]
        BY <1>3, <3>1
      <3>4. Storage'
        BY <1>1, <3>1, <3>2, ReservedIsKept
      <3> HIDE DEF kept
      <3> QED BY <1>1, <1>3, <2>1, <3>2, <3>3, <3>4, HoldKeeps
    <2>3. CASE ~kept
      <3>1. shots' = shots /\ usage' = usage
        BY <1>3, <2>1, <2>3
      <3>2. PICK ok \in BOOLEAN : request' = To(r, "ended", ok)
        <4>1. (kept \/ request[r].kind = "command") \in BOOLEAN
          OBVIOUS
        <4> QED BY <2>1, <4>1, Zenon
      <3>3. \A t \in Sessions : shots'[t] <= usage'[t] /\ usage'[t] <= usage[t]
        BY <1>3, <3>1 DEF Service, Storage
      <3>4. Storage'
        BY <1>1, <1>3, <3>1, <3>2, <3>3, HoldStorage
      <3> HIDE DEF kept
      <3> QED BY <1>1, <1>3, <2>1, <3>1, <3>2, <3>4, HoldKeeps
    <2> QED BY <2>2, <2>3
  <1> QED BY <1>2, <1>4 DEF Succeed

LEMMA FailKeeps ==
  ASSUME Service, NEW r \in Requests, Fail(r)
  PROVE  Service' /\ \E stage \in {"cleaning", "ended"}, ok \in BOOLEAN : request' = To(r, stage, ok)
  <1>1. /\ request[r].stage = "running" /\ request[r].stage \in Active /\ Working(r)
        /\ UNCHANGED <<service, dir, fresh, lock, shots, usage, reserved>>
        /\ faults' = faults \/ (faults < MaxFaults /\ faults' = faults + 1)
    BY DEF Fail, Fault, Is, Active, Working
  <1>2. PICK stage \in {"cleaning", "ended"} : request' = To(r, stage, FALSE)
    BY DEF Fail, Terminated
  <1>3. /\ shots' \in [Sessions -> 0..1] /\ usage' \in [Sessions -> 0..1] /\ faults' \in 0..MaxFaults
        /\ \A t \in Sessions : shots'[t] <= usage'[t] /\ usage'[t] <= usage[t]
    BY <1>1, BrowserAssumption DEF Service, ServiceTypeOK, Storage
  <1>4. Storage'
    BY <1>1, <1>2, <1>3, HoldStorage
  <1> QED BY <1>1, <1>2, <1>3, <1>4, HoldKeeps

LEMMA CleanKeeps ==
  ASSUME Service, NEW r \in Requests, NEW s \in Sessions, s = request[r].session, Clean(r, s)
  PROVE  Service' /\ \E ok \in BOOLEAN : request' = To(r, "ended", ok)
  <1>1. /\ request[r].stage = "cleaning" /\ request[r].stage \in Active /\ Working(r)
        /\ UNCHANGED <<service, reserved>>
    BY DEF Clean, Is, Active, Working
  <1>2. CASE Removed(r, s, "ended")
    <2>1. (Closes(r) /\ ~Is(r, "cleaning")) \in BOOLEAN
      BY DEF Closes, Is
    <2>2. \E ok \in BOOLEAN : request' = To(r, "ended", ok)
      BY <1>2, <2>1, Zenon DEF Removed
    <2> QED BY <1>1, <1>2, <2>2, RemovedKeeps
  <1>3. CASE Fault /\ request' = To(r, "ended", FALSE) /\ UNCHANGED <<dir, fresh, lock, shots, usage>>
    <2>1. /\ shots' \in [Sessions -> 0..1] /\ usage' \in [Sessions -> 0..1] /\ faults' \in 0..MaxFaults
          /\ \A t \in Sessions : shots'[t] <= usage'[t] /\ usage'[t] <= usage[t]
      BY <1>3, BrowserAssumption DEF Fault, Service, ServiceTypeOK, Storage
    <2>2. Storage'
      BY <1>1, <1>3, <2>1, HoldStorage
    <2> QED BY <1>1, <1>3, <2>1, <2>2, HoldKeeps
  <1> QED BY <1>2, <1>3 DEF Clean

LEMMA EndKeeps ==
  ASSUME Service, NEW r \in Requests, NEW s \in Sessions, s = request[r].session, End(r, s)
  PROVE  Service' /\ \E ok \in BOOLEAN : request' = To(r, "answered", ok)
  <1>1. /\ request[r].stage = "ended" /\ request[r].stage \in Active /\ ~Working(r)
        /\ reserved' = reserved \ {r} /\ fresh' = Touched(r, s)
        /\ lock' = [lock EXCEPT ![s] = Unlocked(r, s)]
        /\ request' = To(r, "answered", request[r].ok)
        /\ UNCHANGED <<service, dir, shots, usage, faults>>
    BY DEF End, Is, Active, Working
  <1>2. request[r] # Free /\ request[r].ok \in BOOLEAN
    BY <1>1, ActiveTypes, RequestTypes DEF Service
  <1>3. /\ request' \in [Requests -> Request \cup {Free}]
        /\ \A q \in Requests : q # r => request'[q] = request[q]
        /\ request'[r].stage \in {"free", "answered"}
    BY <1>1, <1>2, ToEffect DEF Service
  <1>4. /\ lock' \in [Sessions -> Requests \cup {None}]
        /\ \A t \in Sessions : lock[t] # r => lock'[t] = lock[t]
    BY <1>1 DEF Unlocked, Service, ServiceTypeOK
  <1>5. /\ fresh \in [Sessions -> BOOLEAN]
        /\ \/ fresh' = fresh
           \/ dir[s] = "leased" /\ ~Closes(r) /\ fresh' = [fresh EXCEPT ![s] = TRUE]
    BY <1>1 DEF Service, ServiceTypeOK, Touched
  <1>6. /\ fresh' \in [Sessions -> BOOLEAN] /\ \A t \in Sessions : fresh'[t] = fresh[t]
    <2>1. dir[s] = "leased" /\ ~Closes(r) => fresh[s]
      BY <1>1 DEF Service, Leases
    <2>2. CASE fresh' = fresh
      BY <1>5, <2>2
    <2>3. CASE dir[s] = "leased" /\ ~Closes(r) /\ fresh' = [fresh EXCEPT ![s] = TRUE]
      <3>1. fresh[s] = TRUE
        BY <1>5, <2>1, <2>3
      <3> QED BY <1>5, <2>3, <3>1
    <2> QED BY <1>5, <2>2, <2>3
  <1>7. ServiceTypeOK'
    BY <1>1, <1>3, <1>4, <1>6 DEF Service, ServiceTypeOK
  <1>8. /\ request'[r].stage \notin Active
        /\ \A q \in Requests : request'[q].stage \in Active => Moved(q)
    BY <1>3, OthersMove DEF Active
  <1>9. \A q \in Requests : Working(q) =>
          /\ request[q].session \in Sessions /\ lock'[request[q].session] = lock[request[q].session]
    <2> SUFFICES ASSUME NEW q \in Requests, Working(q)
        PROVE  /\ request[q].session \in Sessions
               /\ lock'[request[q].session] = lock[request[q].session]
      OBVIOUS
    <2>1. request[q].session \in Sessions
      BY ActiveTypes DEF Service, Working, Active
    <2>2. lock[request[q].session] # r
      BY <1>1 DEF Service, Stages
    <2> QED BY <1>4, <2>1, <2>2
  <1>10. Stages'
    <2>1. \A q \in Requests : request'[q].stage \in Active \cup {"prepared"} => service' # "down"
      BY <1>1, <1>3 DEF Service, Stages, Active
    <2>2. \A q \in Requests : q \in reserved' => request'[q].stage \in {"running", "cleaning", "ended"}
      BY <1>1, <1>3 DEF Service, Stages
    <2>3. \A q \in Requests : request'[q].stage = "running" /\ request'[q].kind = "screenshot" =>
           q \in reserved'
      BY <1>1, <1>3 DEF Service, Stages
    <2> QED BY <1>1, <1>8, <1>9, <2>1, <2>2, <2>3, StagesKept DEF Service
  <1>11. Leases'
    <2>1. \A q \in Requests : request[q].stage \in Active => request[q].session \in Sessions
      BY ActiveTypes DEF Service
    <2>2. \A q \in Requests : Working(q) => request[q].stage \in Active
      BY DEF Working, Active
    <2> QED BY <1>1, <1>6, <1>8, <2>1, <2>2, LeasesKept DEF Service
  <1>12. Storage'
    <2>1. \A q \in reserved' : request[q].ok => request'[q].ok
      BY <1>1, <1>3 DEF Service, ServiceTypeOK
    <2>2. \A t \in Sessions : shots'[t] <= usage'[t] /\ usage'[t] <= usage[t]
      BY <1>1 DEF Service, ServiceTypeOK, Storage
    <2>3. usage' \in [Sessions -> 0..1] /\ reserved' \subseteq reserved
      BY <1>1 DEF Service, ServiceTypeOK
    <2> QED BY <2>1, <2>2, <2>3, StorageKept DEF Service
  <1>13. \E ok \in BOOLEAN : request' = To(r, "answered", ok)
    BY <1>1, <1>2, Zenon
  <1> QED BY <1>7, <1>10, <1>11, <1>12, <1>13 DEF Service

\* A step of the service for one request, and what its caller sees of it.
LEMMA ServeKeeps ==
  ASSUME Service, NEW r \in Requests, Serve(r)
  PROVE  /\ Service' /\ \A q \in Requests : q # r => request'[q] = request[q]
         /\ Awaited(request[r]) => /\ request'[r] # Free /\ request'[r].kind = request[r].kind
                                   /\ request'[r].session = request[r].session
  <1> DEFINE s == request[r].session
             Stage == {"prepared", "locked", "running", "cleaning", "ended", "answered"}
  <1>1. request[r] # Free /\ s \in Sessions
    BY RequestTypes DEF Serve, Service
  <1>2. Service' /\ \E stage \in Stage, ok \in BOOLEAN : request' = To(r, stage, ok)
    <2>1. CASE Prepare(r, s)
      BY <1>1, <2>1, PrepareKeeps
    <2>2. CASE Lock(r, s)
      BY <1>1, <2>2, LockKeeps
    <2>3. CASE Start(r, s)
      BY <1>1, <2>3, StartKeeps
    <2>4. CASE Succeed(r, s)
      BY <1>1, <2>4, SucceedKeeps
    <2>5. CASE Fail(r)
      BY <1>1, <2>5, FailKeeps
    <2>6. CASE Clean(r, s)
      BY <1>1, <2>6, CleanKeeps
    <2>7. CASE End(r, s)
      BY <1>1, <2>7, EndKeeps
    <2> QED BY <2>1, <2>2, <2>3, <2>4, <2>5, <2>6, <2>7 DEF Serve
  <1>3. PICK stage \in Stage, ok \in BOOLEAN : request' = To(r, stage, ok)
    BY <1>2
  <1> QED BY <1>1, <1>2, <1>3, ToEffect DEF Service

-----------------------------------------------------------------------------
(* The controller: what its panels are, and who closes them. *)

PanelSets ==
  /\ controller \in {"up", "draining", "down"}
  /\ open \subseteq used /\ used \subseteq Panels /\ journal \subseteq used
  /\ closing \subseteq open /\ retry \subseteq open /\ orphan \subseteq open
  /\ timers \in [Panels -> 0..MaxTimers] /\ renewal \subseteq used

\* The calls of close for a panel that are under way.
Calling(p) == {r \in Requests : caller[r] = "close" /\ request[r].session = p}

LEMMA InvParts ==
  ASSUME Inv
  PROVE  /\ Service /\ PanelSets /\ calls \in [Panels -> Nat]
         /\ caller \in [Requests -> {"command", "close", None}]
         /\ \A p \in Panels : /\ IsFiniteSet(Calling(p)) /\ Cardinality(Calling(p)) \in Nat
                              /\ calls[p] + Cardinality(Calling(p)) = IF p \in closing THEN 1 ELSE 0
  <1>1. Service /\ PanelSets /\ calls \in [Panels -> Nat] /\ caller \in [Requests -> {"command", "close", None}]
    BY DEF Inv, TypeOK, Service, PanelSets
  <1>2. \A p \in Panels : Calling(p) \in SUBSET Requests
    BY DEF Calling
  <1>3. \A p \in Panels : IsFiniteSet(Calling(p)) /\ Cardinality(Calling(p)) \in Nat
    BY <1>2, Finite
  <1>4. \A p \in Panels : calls[p] + Cardinality(Calling(p)) = IF p \in closing THEN 1 ELSE 0
    BY DEF Inv, ClosedByOne, Calling
  <1> QED BY <1>1, <1>3, <1>4

\* From the counts it follows how many calls there are, and that a panel that
\* is being closed is still open.
LEMMA InvKept ==
  ASSUME Service', PanelSets', calls' \in [Panels -> Nat],
         caller' \in [Requests -> {"command", "close", None}], Awaiting', ClosedByOne', Journaled'
  PROVE  Inv'
  <1> DEFINE C(p) == {r \in Requests : caller'[r] = "close" /\ request'[r].session = p}
  <1>1. \A p \in Panels : C(p) \in SUBSET Requests /\ IsFiniteSet(C(p)) /\ Cardinality(C(p)) \in Nat
    <2>1. \A p \in Panels : C(p) \in SUBSET Requests
      OBVIOUS
    <2> HIDE DEF C
    <2> QED BY <2>1, Finite
  <1>2. \A p \in Panels : calls'[p] + Cardinality(C(p)) = IF p \in closing' THEN 1 ELSE 0
    BY DEF ClosedByOne
  <1>3. calls' \in [Panels -> 0..2]
    <2>1. \A p \in Panels : calls'[p] \in 0..2
      <3> SUFFICES ASSUME NEW p \in Panels
          PROVE  calls'[p] \in 0..2
        OBVIOUS
      <3>1. calls'[p] \in Nat /\ Cardinality(C(p)) \in Nat
        BY <1>1
      <3>2. calls'[p] + Cardinality(C(p)) \in {0, 1}
        BY <1>2
      <3> HIDE DEF C
      <3> QED BY <3>1, <3>2
    <2> QED BY <2>1
  <1>4. \A r \in Requests : caller'[r] = "close" => request'[r].session \in open'
    <2> SUFFICES ASSUME NEW r \in Requests, caller'[r] = "close"
        PROVE  request'[r].session \in open'
      OBVIOUS
    <2> DEFINE p == request'[r].session
    <2>1. p \in Panels
      BY DEF Awaiting, Awaited, None
    <2>2. r \in C(p)
      OBVIOUS
    <2>3. Cardinality(C(p)) # 0
      <3>1. IsFiniteSet(C(p)) /\ C(p) # {}
        BY <1>1, <2>1, <2>2
      <3> HIDE DEF C, p
      <3> QED BY <3>1, FS_EmptySet
    <2>4. p \in closing'
      <3>1. calls'[p] \in Nat /\ Cardinality(C(p)) \in Nat
        BY <1>1, <2>1
      <3>2. calls'[p] + Cardinality(C(p)) = IF p \in closing' THEN 1 ELSE 0
        BY <1>2, <2>1
      <3> HIDE DEF C, p
      <3> QED BY <2>3, <3>1, <3>2
    <2> QED BY <2>4 DEF PanelSets
  <1>5. TypeOK'
    BY <1>3, <1>4 DEF TypeOK, PanelSets, Service
  <1> QED BY <1>5 DEF Inv, Service

\* Goroutines are started that close the panels of ps.
LEMMA CountsBegin ==
  ASSUME Inv, NEW ps, ps \cap closing = {},
         calls' = [p \in Panels |-> calls[p] + IF p \in ps THEN 1 ELSE 0],
         closing' = closing \cup ps, UNCHANGED <<caller, request>>
  PROVE  ClosedByOne' /\ calls' \in [Panels -> Nat]
  <1>1. calls' \in [Panels -> Nat]
    BY InvParts
  <1>2. \A p \in Panels : calls'[p] + Cardinality(Calling(p)) = IF p \in closing' THEN 1 ELSE 0
    <2> SUFFICES ASSUME NEW p \in Panels
        PROVE  calls'[p] + Cardinality(Calling(p)) = IF p \in closing' THEN 1 ELSE 0
      OBVIOUS
    <2>1. /\ calls[p] \in Nat /\ Cardinality(Calling(p)) \in Nat
          /\ calls[p] + Cardinality(Calling(p)) = IF p \in closing THEN 1 ELSE 0
      BY InvParts
    <2>2. calls'[p] = calls[p] + IF p \in ps THEN 1 ELSE 0
      OBVIOUS
    <2> QED BY <2>1, <2>2
  <1>3. ClosedByOne'
    BY <1>2 DEF ClosedByOne, Calling
  <1> QED BY <1>1, <1>3

\* One of them cannot reach the service.
LEMMA CountsFail ==
  ASSUME Inv, NEW p \in Panels, calls[p] > 0, calls' = [calls EXCEPT ![p] = @ - 1],
         closing' = closing \ {p}, UNCHANGED <<caller, request>>
  PROVE  ClosedByOne' /\ calls' \in [Panels -> Nat]
  <1>0. calls \in [Panels -> Nat]
    BY InvParts
  <1>1. calls' \in [Panels -> Nat]
    BY <1>0
  <1>2. \A q \in Panels : calls'[q] + Cardinality(Calling(q)) = IF q \in closing' THEN 1 ELSE 0
    <2> SUFFICES ASSUME NEW q \in Panels
        PROVE  calls'[q] + Cardinality(Calling(q)) = IF q \in closing' THEN 1 ELSE 0
      OBVIOUS
    <2>1. /\ calls[q] \in Nat /\ Cardinality(Calling(q)) \in Nat
          /\ calls[q] + Cardinality(Calling(q)) = IF q \in closing THEN 1 ELSE 0
      BY InvParts
    <2>2. calls'[q] = IF q = p THEN calls[q] - 1 ELSE calls[q]
      BY <1>0
    <2> QED BY <2>1, <2>2
  <1>3. ClosedByOne'
    BY <1>2 DEF ClosedByOne, Calling
  <1> QED BY <1>1, <1>3

\* One of them sends its close, as a request that nobody waited for.
LEMMA CountsCall ==
  ASSUME Inv, NEW p \in Panels, NEW r \in Requests, calls[p] > 0, caller[r] = None,
         calls' = [calls EXCEPT ![p] = @ - 1], caller' = [caller EXCEPT ![r] = "close"],
         request'[r].session = p, \A q \in Requests : q # r => request'[q] = request[q],
         closing' = closing
  PROVE  ClosedByOne' /\ calls' \in [Panels -> Nat]
  <1>0. calls \in [Panels -> Nat] /\ caller \in [Requests -> {"command", "close", None}]
    BY InvParts
  <1>1. calls' \in [Panels -> Nat]
    BY <1>0
  <1>2. /\ Calling(p)' = Calling(p) \cup {r} /\ r \notin Calling(p)
        /\ \A q \in Panels : q # p => Calling(q)' = Calling(q)
    BY <1>0 DEF Calling, None
  <1>3. \A q \in Panels : calls'[q] + Cardinality(Calling(q)') = IF q \in closing' THEN 1 ELSE 0
    <2> SUFFICES ASSUME NEW q \in Panels
        PROVE  calls'[q] + Cardinality(Calling(q)') = IF q \in closing' THEN 1 ELSE 0
      OBVIOUS
    <2>1. /\ calls[q] \in Nat /\ Cardinality(Calling(q)) \in Nat /\ IsFiniteSet(Calling(q))
          /\ calls[q] + Cardinality(Calling(q)) = IF q \in closing THEN 1 ELSE 0
      BY InvParts
    <2>2. CASE q # p
      BY <1>0, <1>2, <2>1, <2>2
    <2>3. CASE q = p
      <3>1. Cardinality(Calling(q)') = Cardinality(Calling(q)) + 1
        BY <1>2, <2>1, <2>3, FS_AddElement
      <3>2. calls'[q] = calls[q] - 1
        BY <1>0, <2>3
      <3> QED BY <2>1, <3>1, <3>2
    <2> QED BY <2>2, <2>3
  <1>4. ClosedByOne'
    BY <1>3 DEF ClosedByOne, Calling
  <1> QED BY <1>1, <1>4

\* One of them has its answer, or gives up.
LEMMA CountsEnd ==
  ASSUME Inv, NEW r \in Requests, NEW p, p = request[r].session,
         caller[r] = "close", caller' = [caller EXCEPT ![r] = None],
         \A q \in Requests : q # r => request'[q].session = request[q].session,
         closing' = closing \ {p}, calls' = calls
  PROVE  ClosedByOne' /\ p \in closing
  <1>0. caller \in [Requests -> {"command", "close", None}] /\ p \in Panels
    BY InvParts DEF Inv, Awaiting, Awaited, None
  <1>1. /\ Calling(p)' = Calling(p) \ {r} /\ r \in Calling(p)
        /\ \A q \in Panels : q # p => Calling(q)' = Calling(q)
    BY <1>0 DEF Calling, None
  <1>2. /\ Cardinality(Calling(p)') = Cardinality(Calling(p)) - 1
        /\ Cardinality(Calling(p)) # 0
    <2>1. IsFiniteSet(Calling(p)) /\ Calling(p) # {}
      BY <1>0, <1>1, InvParts
    <2> QED BY <1>1, <2>1, FS_RemoveElement, FS_EmptySet
  <1>3. p \in closing
    <2>1. /\ calls[p] \in Nat /\ Cardinality(Calling(p)) \in Nat
          /\ calls[p] + Cardinality(Calling(p)) = IF p \in closing THEN 1 ELSE 0
      BY <1>0, InvParts
    <2> QED BY <1>2, <2>1
  <1>4. \A q \in Panels : calls'[q] + Cardinality(Calling(q)') = IF q \in closing' THEN 1 ELSE 0
    <2> SUFFICES ASSUME NEW q \in Panels
        PROVE  calls'[q] + Cardinality(Calling(q)') = IF q \in closing' THEN 1 ELSE 0
      OBVIOUS
    <2>1. /\ calls[q] \in Nat /\ Cardinality(Calling(q)) \in Nat
          /\ calls[q] + Cardinality(Calling(q)) = IF q \in closing THEN 1 ELSE 0
      BY InvParts
    <2>2. CASE q = p
      <3>1. Cardinality(Calling(q)') = Cardinality(Calling(q)) - 1 /\ Cardinality(Calling(q)) # 0
        BY <1>2, <2>2
      <3>2. calls[q] + Cardinality(Calling(q)) = 1 /\ q \notin closing'
        BY <1>3, <2>1, <2>2
      <3>3. calls'[q] + (Cardinality(Calling(q)) - 1) = 0
        BY <2>1, <3>1, <3>2
      <3> QED BY <3>1, <3>2, <3>3
    <2>3. CASE q # p
      <3>1. Calling(q)' = Calling(q) /\ (q \in closing' <=> q \in closing)
        BY <1>1, <2>3
      <3> QED BY <2>1, <3>1
    <2> QED BY <2>2, <2>3
  <1>5. ClosedByOne'
    BY <1>4 DEF ClosedByOne, Calling
  <1> QED BY <1>3, <1>5

\* What becomes of a panel after an attempt to close it.
LEMMA RearmKeeps ==
  ASSUME Inv, NEW p \in Panels, p \in open, Rearm(p), journal' \in {journal, open \ {p}}
  PROVE  PanelSets' /\ Journaled' /\ closing' = closing \ {p}
  <1>1. /\ closing' = closing \ {p} /\ UNCHANGED <<controller, used, open, orphan, renewal>>
        /\ \/ /\ controller = "up" /\ retry' = retry \cup {p}
              /\ \E stopped \in {0, 1} : /\ stopped = 1 => timers[p] > 0
                                         /\ timers[p] + 1 - stopped <= MaxTimers
                                         /\ timers' = [timers EXCEPT ![p] = @ + 1 - stopped]
           \/ controller # "up" /\ UNCHANGED <<retry, timers>>
    BY DEF Rearm
  <1>2. PanelSets
    BY InvParts
  <1>3. timers' \in [Panels -> 0..MaxTimers]
    <2>1. CASE UNCHANGED timers
      BY <1>2, <2>1 DEF PanelSets
    <2>2. CASE \E stopped \in {0, 1} : /\ stopped = 1 => timers[p] > 0
                                       /\ timers[p] + 1 - stopped <= MaxTimers
                                       /\ timers' = [timers EXCEPT ![p] = @ + 1 - stopped]
      <3>1. timers \in [Panels -> 0..MaxTimers] /\ MaxTimers \in Nat
        BY <1>2, PanelsAssumption DEF PanelSets
      <3>2. PICK stopped \in {0, 1} : /\ stopped = 1 => timers[p] > 0
                                      /\ timers[p] + 1 - stopped <= MaxTimers
                                      /\ timers' = [timers EXCEPT ![p] = @ + 1 - stopped]
        BY <2>2
      <3>3. timers[p] + 1 - stopped \in 0..MaxTimers
        BY <3>1, <3>2
      <3> QED BY <3>1, <3>2, <3>3
    <2> QED BY <1>1, <2>1, <2>2
  <1>4. PanelSets'
    BY <1>1, <1>2, <1>3 DEF PanelSets
  <1>5. Journaled'
    BY <1>1 DEF Inv, Journaled
  <1> QED BY <1>1, <1>4, <1>5

LEMMA AcknowledgeKeeps ==
  ASSUME Inv, NEW p \in Panels, p \in open, Acknowledge(p)
  PROVE  PanelSets' /\ Journaled' /\ closing' = closing \ {p} /\ faults' \in 0..MaxFaults
  <1>1. CASE /\ Saved(open \ {p}) /\ open' = open \ {p} /\ closing' = closing \ {p}
             /\ retry' = retry \ {p} /\ orphan' = orphan \ {p}
             /\ UNCHANGED <<controller, used, timers, renewal>>
    <2>1. PanelSets'
      BY <1>1, InvParts DEF PanelSets, Saved
    <2>2. Journaled'
      BY <1>1 DEF Inv, Journaled, Saved
    <2>3. faults' \in 0..MaxFaults
      BY <1>1 DEF Saved, Inv, TypeOK, ServiceTypeOK
    <2> QED BY <1>1, <2>1, <2>2, <2>3
  <1>2. CASE NotSaved(open \ {p}) /\ Rearm(p)
    <2>1. faults' \in 0..MaxFaults
      BY <1>2, BrowserAssumption DEF NotSaved, Fault, Inv, TypeOK, ServiceTypeOK
    <2> QED BY <1>2, <2>1, RearmKeeps DEF NotSaved
  <1> QED BY <1>1, <1>2 DEF Acknowledge

-----------------------------------------------------------------------------
(* The steps. *)

\* Steps that leave the controller alone, save for the renewals it sends.
LEMMA ServiceStep ==
  ASSUME Inv, Service', renewal' \subseteq used,
         UNCHANGED <<controller, used, open, closing, retry, orphan, timers, calls, journal, caller>>,
         \A r \in Requests : request[r] # Free /\ Awaited(request[r]) =>
           /\ request'[r] # Free /\ request'[r].kind = request[r].kind
           /\ request'[r].session = request[r].session
  PROVE  Inv'
  <1>1. /\ PanelSets' /\ calls' \in [Panels -> Nat]
        /\ caller' \in [Requests -> {"command", "close", None}]
    BY InvParts DEF PanelSets
  <1>2. Awaiting'
    BY DEF Inv, Awaiting, Awaited
  <1>3. Journaled'
    BY DEF Inv, Journaled
  <1>4. \A p \in Panels : Calling(p)' = Calling(p)
    BY DEF Calling, Inv, Awaiting, None
  <1>5. ClosedByOne'
    BY <1>4, InvParts DEF ClosedByOne, Calling
  <1> QED BY <1>1, <1>2, <1>3, <1>5, InvKept

\* Steps of the controller that say nothing to the service.
LEMMA PanelStep ==
  ASSUME Inv, UNCHANGED serviceVars, faults' \in 0..MaxFaults, caller' = caller,
         PanelSets', ClosedByOne', calls' \in [Panels -> Nat], Journaled'
  PROVE  Inv'
  <1>1. Service'
    <2>1. ServiceTypeOK'
      BY InvParts DEF Service, ServiceTypeOK, serviceVars
    <2>2. Stages' /\ Leases' /\ Storage'
      BY InvParts DEF Service, Stages, Leases, Storage, Total, Writing, Working, Closes, serviceVars
    <2> QED BY <2>1, <2>2 DEF Service
  <1>2. caller' \in [Requests -> {"command", "close", None}]
    BY InvParts
  <1>3. Awaiting'
    BY DEF Inv, Awaiting, Awaited, serviceVars
  <1> QED BY <1>1, <1>2, <1>3, InvKept

LEMMA OpenStep ==
  ASSUME Inv, NEW p \in Panels, Open(p)
  PROVE  Inv'
  <1>1. /\ controller = "up" /\ used' = used \cup {p}
        /\ \/ open' = open \cup {p} /\ journal' = open \cup {p}
           \/ open' = open /\ journal' \in {journal, open \cup {p}}
        /\ UNCHANGED <<serviceVars, controller, closing, retry, orphan, timers, calls, caller, renewal>>
        /\ faults' = faults \/ (faults < MaxFaults /\ faults' = faults + 1)
    BY DEF Open, Saved, NotSaved, Fault
  <1>2. faults' \in 0..MaxFaults
    BY <1>1, BrowserAssumption DEF Inv, TypeOK, ServiceTypeOK
  <1>3. PanelSets' /\ calls' \in [Panels -> Nat]
    BY <1>1, InvParts DEF PanelSets
  <1>4. Journaled'
    BY <1>1 DEF Inv, Journaled
  <1>5. ClosedByOne'
    BY <1>1 DEF Inv, ClosedByOne, serviceVars
  <1> QED BY <1>1, <1>2, <1>3, <1>4, <1>5, PanelStep

LEMMA CloseStep ==
  ASSUME Inv, NEW ps \in SUBSET Panels, \/ Release(ps)
                                        \/ \E p \in Panels : ps = {p} /\ Close(p)
  PROVE  Inv'
  <1>1. /\ ps \subseteq open \ closing /\ Marked(ps) /\ Called(ps) /\ retry' \in {retry, retry \ ps}
        /\ UNCHANGED <<serviceVars, faults, controller, used, open, orphan, journal, caller, renewal>>
    <2>1. CASE Release(ps)
      BY <2>1 DEF Release
    <2>2. CASE \E p \in Panels : ps = {p} /\ Close(p)
      BY <2>2 DEF Close
    <2> QED BY <2>1, <2>2
  <1>2. timers' \in [Panels -> 0..MaxTimers]
    <2>1. timers \in [Panels -> 0..MaxTimers] /\ MaxTimers \in Nat
      BY InvParts, PanelsAssumption DEF PanelSets
    <2>2. timers' = timers \/ \E p \in Panels : timers[p] > 0 /\ timers' = [timers EXCEPT ![p] = @ - 1]
      BY DEF Release, Close
    <2> QED BY <2>1, <2>2
  <1>3. PanelSets'
    BY <1>1, <1>2, InvParts DEF PanelSets, Marked
  <1>4. Journaled'
    BY <1>1 DEF Inv, Journaled, Marked
  <1>5. ClosedByOne' /\ calls' \in [Panels -> Nat]
    BY <1>1, CountsBegin DEF Marked, Called, serviceVars
  <1>6. faults' \in 0..MaxFaults
    BY <1>1 DEF Inv, TypeOK, ServiceTypeOK
  <1> QED BY <1>1, <1>3, <1>4, <1>5, <1>6, PanelStep

LEMMA RetryStep ==
  ASSUME Inv, NEW p \in Panels, RetryClose(p)
  PROVE  Inv'
  <1>1. /\ timers[p] > 0 /\ timers' = [timers EXCEPT ![p] = @ - 1]
        /\ UNCHANGED <<serviceVars, faults, controller, used, open, orphan, journal, caller, renewal>>
    BY DEF RetryClose
  <1>2. timers' \in [Panels -> 0..MaxTimers]
    <2>1. timers \in [Panels -> 0..MaxTimers] /\ MaxTimers \in Nat
      BY InvParts, PanelsAssumption DEF PanelSets
    <2> QED BY <1>1, <2>1
  <1>3. faults' \in 0..MaxFaults
    BY <1>1 DEF Inv, TypeOK, ServiceTypeOK
  <1>4. CASE Retried(p) /\ Marked({p}) /\ Called({p}) /\ retry' = retry \ {p}
    <2>1. p \in open \ closing
      BY <1>4 DEF Retried
    <2>2. PanelSets' /\ Journaled'
      BY <1>1, <1>2, <1>4, <2>1, InvParts DEF PanelSets, Marked, Inv, Journaled
    <2>3. ClosedByOne' /\ calls' \in [Panels -> Nat]
      BY <1>1, <1>4, <2>1, CountsBegin DEF Marked, Called, serviceVars
    <2> QED BY <1>1, <1>3, <2>2, <2>3, PanelStep
  <1>5. CASE UNCHANGED <<closing, calls, retry>>
    <2>1. PanelSets' /\ Journaled'
      BY <1>1, <1>2, <1>5, InvParts DEF PanelSets, Inv, Journaled
    <2>2. ClosedByOne' /\ calls' \in [Panels -> Nat]
      BY <1>1, <1>5, InvParts DEF Inv, ClosedByOne, serviceVars
    <2> QED BY <1>1, <1>3, <2>1, <2>2, PanelStep
  <1> QED BY <1>4, <1>5 DEF RetryClose

LEMMA CallFailsStep ==
  ASSUME Inv, NEW p \in Panels, CallFails(p)
  PROVE  Inv'
  <1>1. /\ calls[p] > 0 /\ calls' = [calls EXCEPT ![p] = @ - 1] /\ Rearm(p)
        /\ UNCHANGED <<serviceVars, faults, journal, caller>>
    BY DEF CallFails
  <1>2. p \in open
    <2>1. /\ calls[p] \in Nat /\ Cardinality(Calling(p)) \in Nat
          /\ calls[p] + Cardinality(Calling(p)) = IF p \in closing THEN 1 ELSE 0
      BY InvParts
    <2>2. p \in closing
      BY <1>1, <2>1
    <2> QED BY <2>2, InvParts DEF PanelSets
  <1>3. PanelSets' /\ Journaled' /\ closing' = closing \ {p}
    BY <1>1, <1>2, RearmKeeps
  <1>4. ClosedByOne' /\ calls' \in [Panels -> Nat]
    BY <1>1, <1>3, CountsFail DEF serviceVars
  <1>5. faults' \in 0..MaxFaults
    BY <1>1 DEF Inv, TypeOK, ServiceTypeOK
  <1> QED BY <1>1, <1>3, <1>4, <1>5, PanelStep

LEMMA CloseAllStep ==
  ASSUME Inv, CloseAll
  PROVE  Inv'
  <1>1. /\ controller = "up" /\ controller' = "draining" /\ closing' = closing \cup open
        /\ Called(open \ closing) /\ retry' = {} /\ timers' = [p \in Panels |-> 0]
        /\ UNCHANGED <<serviceVars, used, open, orphan, journal, caller, renewal>>
        /\ faults < MaxFaults /\ faults' = faults + 1
    BY DEF CloseAll, Marked, Fault
  <1>2. timers' \in [Panels -> 0..MaxTimers]
    BY <1>1, PanelsAssumption
  <1>3. PanelSets' /\ Journaled'
    BY <1>1, <1>2, InvParts DEF PanelSets, Journaled
  <1>4. ClosedByOne' /\ calls' \in [Panels -> Nat]
    <2>1. closing' = closing \cup (open \ closing)
      BY <1>1
    <2> QED BY <1>1, <2>1, CountsBegin DEF Called, serviceVars
  <1>5. faults' \in 0..MaxFaults
    BY <1>1, BrowserAssumption DEF Inv, TypeOK, ServiceTypeOK
  <1> QED BY <1>1, <1>3, <1>4, <1>5, PanelStep

LEMMA RestartStep ==
  ASSUME Inv, Restart
  PROVE  Inv'
  <1>1. /\ controller = "down" /\ controller' = "up" /\ open' = journal /\ orphan' = journal
        /\ closing' = closing \cup journal /\ Called(journal)
        /\ UNCHANGED <<serviceVars, faults, used, retry, timers, journal, caller, renewal>>
    BY DEF Restart, Recovered, Marked
  <1>2. open = {} /\ closing = {} /\ retry = {}
    BY <1>1, InvParts DEF Inv, Journaled, PanelSets
  <1>3. PanelSets' /\ Journaled'
    BY <1>1, <1>2, InvParts DEF PanelSets, Journaled
  <1>4. ClosedByOne' /\ calls' \in [Panels -> Nat]
    BY <1>1, <1>2, CountsBegin DEF Called, serviceVars
  <1>5. faults' \in 0..MaxFaults
    BY <1>1 DEF Inv, TypeOK, ServiceTypeOK
  <1> QED BY <1>1, <1>3, <1>4, <1>5, PanelStep

LEMMA CommandStep ==
  ASSUME Inv, NEW r \in Requests, NEW p \in Panels, Command(r, p)
  PROVE  Inv'
  <1>1. PICK kind \in {"command", "screenshot"} : Send(r, kind, p, TRUE)
    BY DEF Command
  <1>2. /\ caller' = [caller EXCEPT ![r] = "command"]
        /\ UNCHANGED <<service, dir, fresh, lock, shots, usage, reserved, faults,
                       controller, used, open, closing, retry, orphan, timers, calls, journal, renewal>>
    BY DEF Command
  <1>3. p \in Sessions
    BY DEF Sessions
  <1>4. Service'
    BY <1>1, <1>2, <1>3, SendKeeps, InvParts
  <1>5. /\ request[r] = Free /\ request'[r] # Free /\ request'[r].kind = kind /\ request'[r].session = p
        /\ \A q \in Requests : q # r => request'[q] = request[q]
    <2>1. ServiceTypeOK
      BY InvParts DEF Service
    <2>2. kind \in {"command", "screenshot", "close", "expire"} /\ TRUE \in BOOLEAN
      OBVIOUS
    <2>3. /\ request[r] = Free /\ request'[r] # Free /\ request'[r].kind = kind /\ request'[r].session = p
          /\ \A q \in Requests : q # r => request'[q] = request[q]
      BY <1>1, <1>3, <2>1, <2>2, SendEffect, Zenon
    <2> QED BY <2>3
  <1>6. /\ caller \in [Requests -> {"command", "close", None}] /\ caller[r] = None
        /\ caller' \in [Requests -> {"command", "close", None}] /\ caller'[r] = "command"
        /\ \A q \in Requests : q # r => caller'[q] = caller[q]
    BY <1>2, <1>5, InvParts DEF Inv, Awaiting
  <1>7. Awaiting'
    BY <1>5, <1>6 DEF Inv, Awaiting, Awaited
  <1>8. PanelSets' /\ Journaled' /\ calls' \in [Panels -> Nat]
    BY <1>2, InvParts DEF PanelSets, Inv, Journaled
  <1>9. ClosedByOne'
    <2>1. None # "close"
      BY DEF None
    <2>2. \A q \in Panels : Calling(q)' = Calling(q)
      BY <1>5, <1>6, <2>1 DEF Calling
    <2> QED BY <1>2, <2>2, InvParts DEF ClosedByOne, Calling
  <1> QED BY <1>4, <1>6, <1>7, <1>8, <1>9, InvKept

LEMMA CallStep ==
  ASSUME Inv, NEW r \in Requests, NEW p \in Panels, CallClose(r, p)
  PROVE  Inv'
  <1>1. /\ calls[p] > 0 /\ Send(r, "close", p, TRUE)
        /\ calls' = [calls EXCEPT ![p] = @ - 1] /\ caller' = [caller EXCEPT ![r] = "close"]
        /\ UNCHANGED <<service, dir, fresh, lock, shots, usage, reserved, faults,
                       controller, used, open, closing, retry, orphan, timers, journal, renewal>>
    BY DEF CallClose
  <1>2. p \in Sessions
    BY DEF Sessions
  <1>3. Service'
    BY <1>1, <1>2, SendKeeps, InvParts
  <1>4. /\ request[r] = Free /\ request'[r] # Free /\ request'[r].kind = "close" /\ request'[r].session = p
        /\ \A q \in Requests : q # r => request'[q] = request[q]
    BY <1>1, <1>2, SendEffect, InvParts DEF Service
  <1>5. /\ caller \in [Requests -> {"command", "close", None}] /\ caller[r] = None
        /\ caller' \in [Requests -> {"command", "close", None}] /\ caller'[r] = "close"
        /\ \A q \in Requests : q # r => caller'[q] = caller[q]
    BY <1>1, <1>4, InvParts DEF Inv, Awaiting
  <1>6. Awaiting'
    BY <1>4, <1>5 DEF Inv, Awaiting, Awaited
  <1>7. PanelSets' /\ Journaled'
    BY <1>1, InvParts DEF PanelSets, Inv, Journaled
  <1>8. ClosedByOne' /\ calls' \in [Panels -> Nat]
    <2>1. /\ calls[p] > 0 /\ caller[r] = None
          /\ calls' = [calls EXCEPT ![p] = @ - 1] /\ caller' = [caller EXCEPT ![r] = "close"]
          /\ request'[r].session = p /\ closing' = closing
          /\ \A q \in Requests : q # r => request'[q] = request[q]
      BY <1>1, <1>4, <1>5, Zenon
    <2> QED BY <2>1, CountsCall, Zenon
  <1> QED BY <1>3, <1>5, <1>6, <1>7, <1>8, InvKept

\* What a step that ends the wait for a request leaves of the others.
LEMMA WaitEnds ==
  ASSUME Inv, NEW r \in Requests, caller' = [caller EXCEPT ![r] = None],
         \A q \in Requests : q # r => /\ request[q] # Free => request'[q] # Free
                                      /\ request'[q].kind = request[q].kind
                                      /\ request'[q].session = request[q].session
  PROVE  /\ caller' \in [Requests -> {"command", "close", None}] /\ Awaiting'
         /\ caller[r] # "close" => \A p \in Panels : Calling(p)' = Calling(p)
  <1>1. /\ caller \in [Requests -> {"command", "close", None}] /\ caller'[r] = None
        /\ caller' \in [Requests -> {"command", "close", None}]
        /\ \A q \in Requests : q # r => caller'[q] = caller[q]
    BY InvParts
  <1>2. Awaiting'
    BY <1>1 DEF Inv, Awaiting, Awaited
  <1>3. caller[r] # "close" => \A p \in Panels : Calling(p)' = Calling(p)
    <2>1. None # "close"
      BY DEF None
    <2> QED BY <1>1, <2>1 DEF Calling
  <1> QED BY <1>1, <1>2, <1>3

LEMMA ReceiveStep ==
  ASSUME Inv, NEW r \in Requests, Receive(r)
  PROVE  Inv'
  <1>1. /\ Is(r, "answered") /\ request' = [request EXCEPT ![r] = Free]
        /\ caller' = [caller EXCEPT ![r] = None]
        /\ UNCHANGED <<service, dir, fresh, lock, shots, usage, reserved, calls>>
    BY DEF Receive
  <1>2. ASSUME faults' \in 0..MaxFaults
        PROVE  Service' /\ \A q \in Requests : q # r => request'[q] = request[q]
    BY <1>1, <1>2, FreeKeeps, InvParts DEF serviceVars
  <1>3. CASE caller[r] = "close"
    <2>1. PICK p : p = request[r].session
      OBVIOUS
    <2>2. p \in Panels /\ p \in open
      BY <1>3, <2>1, InvParts DEF Inv, Awaiting, Awaited, TypeOK, None
    <2>3. PanelSets' /\ Journaled' /\ closing' = closing \ {p} /\ faults' \in 0..MaxFaults
      <3>1. CASE Acknowledge(p)
        BY <2>2, <3>1, AcknowledgeKeeps
      <3>2. CASE Rearm(p) /\ UNCHANGED <<journal, faults>>
        <4>1. faults' \in 0..MaxFaults
          BY <3>2 DEF Inv, TypeOK, ServiceTypeOK
        <4> QED BY <2>2, <3>2, <4>1, RearmKeeps
      <3> QED BY <1>3, <2>1, <3>1, <3>2 DEF Receive
    <2>4. ClosedByOne'
      BY <1>1, <1>2, <1>3, <2>1, <2>3, CountsEnd
    <2> QED BY <1>1, <1>2, <2>3, <2>4, WaitEnds, InvKept, InvParts
  <1>4. CASE caller[r] # "close"
    <2>1. UNCHANGED <<faults, controller, used, open, closing, retry, orphan, timers, journal, renewal>>
      BY <1>4 DEF Receive
    <2>2. faults' \in 0..MaxFaults
      BY <2>1 DEF Inv, TypeOK, ServiceTypeOK
    <2>3. PanelSets' /\ Journaled'
      BY <2>1, InvParts DEF PanelSets, Inv, Journaled
    <2>4. ClosedByOne'
      <3>1. \A p \in Panels : Calling(p)' = Calling(p)
        BY <1>1, <1>2, <1>4, <2>2, WaitEnds
      <3> QED BY <1>1, <2>1, <3>1, InvParts DEF ClosedByOne, Calling
    <2> QED BY <1>1, <1>2, <2>2, <2>3, <2>4, WaitEnds, InvKept, InvParts
  <1> QED BY <1>3, <1>4

LEMMA GiveUpStep ==
  ASSUME Inv, NEW r \in Requests, GiveUp(r)
  PROVE  Inv'
  <1>1. /\ caller[r] # None /\ request' = [request EXCEPT ![r].cancelled = TRUE]
        /\ caller' = [caller EXCEPT ![r] = None]
        /\ UNCHANGED <<service, dir, fresh, lock, shots, usage, reserved, calls, journal>>
        /\ faults' = faults \/ (faults < MaxFaults /\ faults' = faults + 1)
    BY DEF GiveUp, Fault
  <1>2. faults' \in 0..MaxFaults
    <2>1. faults \in 0..MaxFaults
      BY DEF Inv, TypeOK, ServiceTypeOK
    <2> QED BY <1>1, <2>1, BrowserAssumption
  <1>3. request' = [q \in Requests |-> IF q \in {r} THEN [request[q] EXCEPT !.cancelled = TRUE] ELSE request[q]]
    BY <1>1 DEF Inv, TypeOK, ServiceTypeOK
  <1>4. \A q \in {r} \cap Requests : request[q] # Free
    BY <1>1 DEF Inv, Awaiting
  <1>5. Service' /\ service' \in {"up", "stopping", "down"}
    <2>1. service' \in {"up", "stopping", "down"}
      BY <1>1 DEF Inv, TypeOK, ServiceTypeOK
    <2> QED BY <1>1, <1>2, <1>3, <1>4, <2>1, CancelKeeps, InvParts
  <1>6. \A q \in Requests : /\ request[q] # Free => request'[q] # Free
                            /\ request'[q].kind = request[q].kind
                            /\ request'[q].session = request[q].session
    BY <1>3, <1>4, CancelEffect, InvParts DEF Service
  <1>7. CASE caller[r] = "close"
    <2>1. PICK p : p = request[r].session
      OBVIOUS
    <2>2. p \in Panels /\ p \in open
      BY <1>7, <2>1, InvParts DEF Inv, Awaiting, Awaited, TypeOK, None
    <2>3. Rearm(p)
      BY <1>7, <2>1 DEF GiveUp
    <2>4. PanelSets' /\ Journaled' /\ closing' = closing \ {p}
      BY <1>1, <2>2, <2>3, RearmKeeps
    <2>5. ClosedByOne'
      BY <1>1, <1>6, <1>7, <2>1, <2>4, CountsEnd
    <2> QED BY <1>1, <1>5, <1>6, <2>4, <2>5, WaitEnds, InvKept, InvParts
  <1>8. CASE caller[r] # "close"
    <2>1. UNCHANGED <<controller, used, open, closing, retry, orphan, timers, renewal>>
      BY <1>8 DEF GiveUp
    <2>2. PanelSets' /\ Journaled'
      BY <1>1, <2>1, InvParts DEF PanelSets, Inv, Journaled
    <2>3. ClosedByOne'
      <3>1. \A p \in Panels : Calling(p)' = Calling(p)
        BY <1>1, <1>6, <1>8, WaitEnds
      <3> QED BY <1>1, <2>1, <3>1, InvParts DEF ClosedByOne, Calling
    <2> QED BY <1>1, <1>5, <1>6, <2>2, <2>3, WaitEnds, InvKept, InvParts
  <1> QED BY <1>7, <1>8

LEMMA QuitStep ==
  ASSUME Inv, Quit
  PROVE  Inv'
  <1> DEFINE S == {r \in Requests : caller[r] # None}
  <1>1. /\ controller' = "down"
        /\ open' = {} /\ closing' = {} /\ retry' = {} /\ orphan' = {} /\ renewal' = {}
        /\ timers' = [p \in Panels |-> 0] /\ calls' = [p \in Panels |-> 0]
        /\ caller' = [r \in Requests |-> None]
        /\ UNCHANGED <<service, dir, fresh, lock, shots, usage, reserved, used, journal>>
        /\ faults' = faults \/ (faults < MaxFaults /\ faults' = faults + 1)
    BY DEF Quit, Fault
  <1>2. request' = [r \in Requests |-> IF r \in S THEN [request[r] EXCEPT !.cancelled = TRUE] ELSE request[r]]
    BY DEF Quit
  <1>3. faults' \in 0..MaxFaults
    <2>1. faults \in 0..MaxFaults
      BY DEF Inv, TypeOK, ServiceTypeOK
    <2> QED BY <1>1, <2>1, BrowserAssumption
  <1>4. \A r \in S \cap Requests : request[r] # Free
    BY DEF Inv, Awaiting
  <1> HIDE DEF S
  <1>5. Service'
    <2>1. service' \in {"up", "stopping", "down"}
      BY <1>1 DEF Inv, TypeOK, ServiceTypeOK
    <2> QED BY <1>1, <1>2, <1>3, <1>4, <2>1, CancelKeeps, InvParts
  <1>6. PanelSets'
    BY <1>1, InvParts, PanelsAssumption DEF PanelSets
  <1>7. /\ calls' \in [Panels -> Nat] /\ caller' \in [Requests -> {"command", "close", None}]
        /\ Awaiting' /\ Journaled'
    BY <1>1 DEF Awaiting, Journaled
  <1>8. ClosedByOne'
    <2>1. \A p \in Panels : Calling(p)' = {}
      BY <1>1 DEF None, Calling
    <2>2. \A p \in Panels : calls'[p] = 0 /\ p \notin closing'
      BY <1>1
    <2>3. Cardinality({}) = 0
      BY FS_EmptySet
    <2>4. \A p \in Panels : calls'[p] + Cardinality(Calling(p)') = IF p \in closing' THEN 1 ELSE 0
      BY <2>1, <2>2, <2>3
    <2> QED BY <2>4 DEF ClosedByOne, Calling
  <1> QED BY <1>5, <1>6, <1>7, <1>8, InvKept

LEMMA RenewStep ==
  ASSUME Inv, RenewSend \/ \E p \in Panels : RenewNext(p)
  PROVE  Inv'
  <1>1. CASE RenewSend
    <2>1. /\ renewal' = Renewable
          /\ UNCHANGED <<serviceVars, faults, controller, used, open, closing, retry, orphan, timers,
                         calls, journal, caller>>
      BY <1>1 DEF RenewSend
    <2>2. PanelSets' /\ Journaled'
      BY <2>1, InvParts DEF PanelSets, Renewable, Owned, Inv, Journaled
    <2>3. ClosedByOne' /\ calls' \in [Panels -> Nat]
      BY <2>1, InvParts DEF Inv, ClosedByOne, serviceVars
    <2>4. faults' \in 0..MaxFaults
      BY <2>1 DEF Inv, TypeOK, ServiceTypeOK
    <2> QED BY <2>1, <2>2, <2>3, <2>4, PanelStep
  <1>2. ASSUME NEW p \in Panels, RenewNext(p)
        PROVE  Inv'
    <2>1. /\ renewal' = renewal \ {p} /\ fresh' \in {fresh, Renewed(p)}
          /\ UNCHANGED <<service, dir, lock, shots, usage, reserved, request, faults,
                 controller, used, open, closing, retry, orphan, timers, calls, journal, caller>>
      BY <1>2 DEF RenewNext
    <2>2. Service'
      <3>1. p \in Sessions
        BY DEF Sessions
      <3> QED BY <2>1, <3>1, RenewKeeps, InvParts
    <2>3. renewal' \subseteq used
      BY <2>1, InvParts DEF PanelSets
    <2> QED BY <2>1, <2>2, <2>3, ServiceStep
  <1> QED BY <1>1, <1>2

LEMMA LapseStep ==
  ASSUME Inv, NEW p \in Panels, LapseUnowned(p) \/ LapseUnreached(p)
  PROVE  Inv'
  <1>1. Lapse(p) /\ UNCHANGED panelVars /\ (faults' = faults \/ (faults < MaxFaults /\ faults' = faults + 1))
    BY DEF LapseUnowned, LapseUnreached, Fault
  <1>2. faults' \in 0..MaxFaults
    <2>1. faults \in 0..MaxFaults
      BY DEF Inv, TypeOK, ServiceTypeOK
    <2> QED BY <1>1, <2>1, BrowserAssumption
  <1>3. Service' /\ request' = request
    <2>1. p \in Sessions
      BY DEF Sessions
    <2> QED BY <1>1, <1>2, <2>1, LapseKeeps, InvParts DEF Lapse
  <1> QED BY <1>1, <1>3, ServiceStep, InvParts DEF panelVars, PanelSets

LEMMA ServeStep ==
  ASSUME Inv, NEW r \in Requests, ServeNext(r)
  PROVE  Inv'
  <1>1. /\ Service' /\ \A q \in Requests : q # r => request'[q] = request[q]
        /\ Awaited(request[r]) => /\ request'[r] # Free /\ request'[r].kind = request[r].kind
                                  /\ request'[r].session = request[r].session
    BY ServeKeeps, InvParts DEF ServeNext
  <1> QED BY <1>1, ServiceStep, InvParts DEF ServeNext, panelVars, PanelSets

LEMMA ArriveStep ==
  ASSUME Inv, NEW r \in Requests, NEW s \in Sessions, NEW kind \in {"command", "screenshot", "close", "expire"},
         Send(r, kind, s, FALSE), UNCHANGED panelVars,
         UNCHANGED <<service, dir, fresh, lock, shots, usage, reserved, faults>>
  PROVE  Inv'
  <1>1. Service' /\ request[r] = Free /\ \A q \in Requests : q # r => request'[q] = request[q]
    BY SendKeeps, SendEffect, InvParts DEF Service
  <1> QED BY <1>1, ServiceStep, InvParts DEF panelVars, PanelSets

LEMMA ShutdownStep ==
  ASSUME Inv, ServiceStops
  PROVE  Inv'
  <1> DEFINE S == {r \in Requests : request[r].stage \notin {"free", "sent", "answered"}}
  <1>1. /\ service' = "stopping" /\ faults < MaxFaults /\ faults' = faults + 1
        /\ request' = [r \in Requests |-> IF r \in S THEN [request[r] EXCEPT !.cancelled = TRUE] ELSE request[r]]
        /\ UNCHANGED <<dir, fresh, lock, shots, usage, reserved>> /\ UNCHANGED panelVars
    BY DEF ServiceStops, Shutdown, Fault
  <1>2. faults' \in 0..MaxFaults
    BY <1>1, BrowserAssumption DEF Inv, TypeOK, ServiceTypeOK
  <1>3. \A r \in S \cap Requests : request[r] # Free
    BY DEF Free
  <1> HIDE DEF S
  <1>4. Service'
    BY <1>1, <1>2, <1>3, CancelKeeps, InvParts
  <1>5. \A q \in Requests : /\ request[q] # Free => request'[q] # Free
                            /\ request'[q].kind = request[q].kind
                            /\ request'[q].session = request[q].session
    BY <1>1, <1>3, CancelEffect, InvParts DEF Service
  <1> QED BY <1>1, <1>4, <1>5, ServiceStep, InvParts DEF panelVars, PanelSets

LEMMA ExitStep ==
  ASSUME Inv, ServiceExits
  PROVE  Inv'
  <1>1. Exit /\ UNCHANGED panelVars /\ (faults' = faults \/ (faults < MaxFaults /\ faults' = faults + 1))
    BY DEF ServiceExits, Fault
  <1>2. faults' \in 0..MaxFaults
    <2>1. faults \in 0..MaxFaults
      BY DEF Inv, TypeOK, ServiceTypeOK
    <2> QED BY <1>1, <2>1, BrowserAssumption
  <1>3. Service' /\ \A q \in Requests : request[q] # Free /\ Awaited(request[q]) =>
          request'[q] # Free /\ request'[q].kind = request[q].kind
            /\ request'[q].session = request[q].session
    BY <1>1, <1>2, ExitKeeps, InvParts
  <1> QED BY <1>1, <1>3, ServiceStep, InvParts DEF panelVars, PanelSets

LEMMA StartStep ==
  ASSUME Inv, ServiceStarts
  PROVE  Inv'
  <1>1. Service' /\ request' = request /\ UNCHANGED panelVars
    BY RestartKeeps, InvParts DEF ServiceStarts, ServiceRestart
  <1> QED BY <1>1, ServiceStep, InvParts DEF panelVars, PanelSets

LEMMA StepKeepsInv ==
  ASSUME Inv, Next
  PROVE  Inv'
  <1>1. ASSUME NEW p \in Panels, Open(p)
        PROVE  Inv'
    BY <1>1, OpenStep
  <1>2. ASSUME NEW p \in Panels, Close(p)
        PROVE  Inv'
    <2>1. {p} \in SUBSET Panels
      OBVIOUS
    <2> QED BY <1>2, <2>1, CloseStep
  <1>3. ASSUME NEW ps \in SUBSET Panels, Release(ps)
        PROVE  Inv'
    BY <1>3, CloseStep
  <1>4. ASSUME NEW p \in Panels, CallFails(p)
        PROVE  Inv'
    BY <1>4, CallFailsStep
  <1>5. ASSUME NEW p \in Panels, RetryClose(p)
        PROVE  Inv'
    BY <1>5, RetryStep
  <1>6. ASSUME NEW p \in Panels, LapseUnowned(p) \/ LapseUnreached(p)
        PROVE  Inv'
    BY <1>6, LapseStep
  <1>7. ASSUME NEW r \in Requests, ServeNext(r)
        PROVE  Inv'
    BY <1>7, ServeStep
  <1>8. ASSUME NEW r \in Requests, Receive(r)
        PROVE  Inv'
    BY <1>8, ReceiveStep
  <1>9. ASSUME NEW r \in Requests, GiveUp(r)
        PROVE  Inv'
    BY <1>9, GiveUpStep
  <1>10. ASSUME NEW r \in Requests, NEW p \in Panels, Command(r, p) \/ CallClose(r, p)
         PROVE  Inv'
    BY <1>10, CommandStep, CallStep
  <1>11. ASSUME NEW r \in Requests, NEW p \in Panels, ExpireNext(r, p)
         PROVE  Inv'
    <2>1. p \in Sessions
      BY DEF Sessions
    <2> QED BY <1>11, <2>1, ArriveStep DEF ExpireNext, Expire
  <1>12. ASSUME NEW r \in Requests, NEW s \in Others, McpNext(r, s)
         PROVE  Inv'
    <2>1. s \in Sessions
      BY DEF Sessions
    <2>2. PICK kind \in {"command", "screenshot", "close"} : Send(r, kind, s, FALSE)
      BY <1>12 DEF McpNext, McpCall
    <2> QED BY <1>12, <2>1, <2>2, ArriveStep DEF McpNext, McpCall
  <1> QED BY <1>1, <1>2, <1>3, <1>4, <1>5, <1>6, <1>7, <1>8, <1>9, <1>10, <1>11, <1>12, RenewStep,
             CloseAllStep, QuitStep, RestartStep, ShutdownStep, ExitStep, StartStep DEF Next

LEMMA StutterKeepsInv ==
  ASSUME Inv, UNCHANGED vars
  PROVE  Inv'
  <1>1. faults' \in 0..MaxFaults /\ UNCHANGED serviceVars /\ UNCHANGED panelVars
    BY DEF vars, Inv, TypeOK, ServiceTypeOK
  <1>2. PanelSets' /\ Journaled' /\ ClosedByOne' /\ calls' \in [Panels -> Nat] /\ caller' = caller
    BY <1>1, InvParts DEF PanelSets, Inv, Journaled, ClosedByOne, panelVars, serviceVars
  <1> QED BY <1>1, <1>2, PanelStep

LEMMA InitInv ==
  ASSUME Init
  PROVE  Inv
  <1>1. Free.stage = "free"
    BY DEF Free
  <1>2. TypeOK
    <2>1. ServiceTypeOK
      BY BrowserAssumption DEF Init, ServiceInit, ServiceTypeOK
    <2> QED BY <2>1, PanelsAssumption DEF Init, TypeOK, None
  <1>3. \A r \in Requests : request[r].stage = "free"
    BY <1>1 DEF Init, ServiceInit
  <1>4. Stages
    BY <1>3 DEF Init, ServiceInit, Stages, Working, Active
  <1>5. Leases
    BY <1>3 DEF Leases, Working, Active
  <1>6. Cardinality({}) = 0
    BY FS_EmptySet
  <1>7. Storage
    <2>1. {s \in Sessions : usage[s] = 1} = {} /\ Writing = {}
      BY DEF Init, ServiceInit, Writing
    <2>2. Total = 0
      BY <1>6, <2>1 DEF Total
    <2> QED BY <1>6, <2>1, <2>2, BrowserAssumption DEF Init, ServiceInit, Storage
  <1>8. Awaiting /\ Journaled
    BY DEF Init, Awaiting, Journaled
  <1>9. ClosedByOne
    <2>1. \A p \in Panels : Calling(p) = {}
      BY DEF Init, None, Calling
    <2>2. \A p \in Panels : calls[p] + Cardinality(Calling(p)) = IF p \in closing THEN 1 ELSE 0
      BY <1>6, <2>1 DEF Init
    <2> QED BY <2>2 DEF ClosedByOne, Calling
  <1> QED BY <1>2, <1>4, <1>5, <1>7, <1>8, <1>9 DEF Inv

\* Requests, leases, storage, callers and journal fit together in every reachable
\* state, over crashes and restarts of both processes (browser_panels.go, service.go,
\* panel_leases.go).
THEOREM Invariant == Spec => []Inv
  <1>1. Init => Inv
    BY InitInv
  <1>2. Inv /\ [Next]_vars => Inv'
    BY StepKeepsInv, StutterKeepsInv
  <1> QED BY <1>1, <1>2, PTL DEF Spec

-----------------------------------------------------------------------------
(* What it means. *)

\* One command of a session works at a time, screenshots stay within the
\* storage, and an expiry works only while the lease is lapsed.
LEMMA InvSessions ==
  ASSUME Inv
  PROVE  SessionsAreSafe
  <1>1. OneAtATime
    BY DEF Inv, OneAtATime, Stages
  <1>2. RenewedIsKept
    BY DEF Inv, RenewedIsKept, Leases
  <1>3. WithinStorage
    <2> DEFINE K == {s \in Sessions : shots[s] = 1}
               U == {s \in Sessions : usage[s] = 1}
    <2>1. K \subseteq U
      BY DEF Inv, TypeOK, ServiceTypeOK, Storage
    <2>2. /\ K \in SUBSET Sessions /\ U \in SUBSET Sessions /\ Total = Cardinality(U)
          /\ Writing \in SUBSET Requests
      BY DEF Total, Writing, Inv, TypeOK, ServiceTypeOK
    <2>3. WithinStorage <=> Cardinality(K) + Cardinality(Writing) <= MaxTotal
      BY DEF WithinStorage, Writing
    <2> HIDE DEF K, U
    <2>4. /\ Cardinality(K) <= Cardinality(U) /\ Cardinality(K) \in Nat
          /\ Cardinality(U) \in Nat /\ Cardinality(Writing) \in Nat /\ MaxTotal \in Nat
      BY <2>1, <2>2, Fewer, Finite, BrowserAssumption
    <2>5. Cardinality(U) + Cardinality(Writing) <= MaxTotal
      BY <2>2 DEF Inv, Storage
    <2>6. Cardinality(K) + Cardinality(Writing) <= MaxTotal
      BY <2>4, <2>5
    <2> QED BY <2>3, <2>6
  <1> QED BY <1>1, <1>2, <1>3 DEF Inv, SessionsAreSafe

LEMMA InvCloses ==
  ASSUME Inv
  PROVE  ClosesAreSafe
  <1>1. Owned \subseteq journal
    BY DEF Inv, Journaled, Owned
  <1> QED BY <1>1 DEF Inv, ClosesAreSafe, NothingStrays, Renewable

\* The commands of a browser session run one at a time, screenshots never take
\* more than the storage there is, and no expiry closes a session that was
\* renewed, for any number of panels, sessions and requests, over crashes and
\* restarts of both processes (service.go:485-555, 756-836, 969-983).
THEOREM SessionsSafe == Spec => []SessionsAreSafe
  <1>1. Inv => SessionsAreSafe
    BY InvSessions
  <1> QED BY <1>1, Invariant, PTL

\* A panel is being closed exactly when one goroutine calls close for it, and
\* only sessions that the journal names are kept alive, whatever releases,
\* retries, timers, failed writes and restarts overlap
\* (browser_panels.go:69-94, 156-277; browser_panel_leases.go:14-60).
THEOREM ClosesSafe == Spec => []ClosesAreSafe
  <1>1. Inv => ClosesAreSafe
    BY InvCloses
  <1> QED BY <1>1, Invariant, PTL
==============================================================================
