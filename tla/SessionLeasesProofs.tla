------------------------- MODULE SessionLeasesProofs -------------------------
(***************************************************************************)
(* Proofs about SessionLeases, for every value of its constants: a client  *)
(* holds what its latest snapshot says and every session that it holds has *)
(* a projection, and a projection that is used is neither evicted nor      *)
(* archived by somebody else.                                              *)
(*                                                                         *)
(* The invariant, Inv, counts: the references of a projection are exactly  *)
(* those of the operations that are on it and of its work.  What eviction  *)
(* may do is stated for a state that it starts from, given by its parts    *)
(* (which projection each session has, what the projections are, and the   *)
(* leases), because most actions change those before they evict.           *)
(***************************************************************************)
EXTENDS SessionLeases, FiniteSetTheorems, TLAPS

InUse == {"gate", "attached", "reserved", "use"}
OnOne == InUse \cup {"archived"}
Named == {"record", "place"}

On(ops, s, n) == {t \in Operations : ops[t].session = s /\ ops[t].on = n}
Works(p) == IF p.busy = "work" THEN 1 ELSE 0

\* How far an operation has got, and what it has to do with another one.
Operates(o, life, ex, pl, pend, told) ==
  /\ o.on # 0 <=> o.step \in OnOne
  /\ o.step \in OnOne \cup Named \cup {"install"} => o.session \in Sessions
  /\ o.step # "idle" => o.client \in Clients
  /\ o.step \in OnOne \cup {"install"} => o.session \in pl
  /\ o.step \in Named => /\ o.session \in ex \ pl
                         /\ o.session \in told => o.session \in pend
  /\ o.step \in Named \cup {"new"} => o.kind = "create"
  /\ o.step = "new" => o.session = "none"
  /\ o.step \in {"reserved", "archived"} => o.session \in life
Apart(o, q) == o.session = q.session =>
  /\ o.step \in {"reserved", "archived"} => q.on = 0
  /\ ~(o.step \in Named /\ q.step \in Named)
Operating(ops, life, ex, pl, pend, told) ==
  /\ \A t \in Operations : Operates(ops[t], life, ex, pl, pend, told)
  /\ \A t, u \in Operations : t # u => Apart(ops[t], ops[u])

\* What the projections are to the operations, the clients and the commands.
Counted(pr, ops) == \A s \in Sessions : \A n \in 1..MaxProjections :
  pr[s][n].refs = Cardinality(On(ops, s, n)) + Works(pr[s][n])
Used(cur, ops, arch) == \A t \in Operations :
  /\ ops[t].step \in InUse => cur[ops[t].session] = ops[t].on
  /\ ops[t].step = "archived" => ops[t].session \in arch \/ cur[ops[t].session] = ops[t].on
Projected(cur, ls, life, arch) ==
  \A c \in Clients : \A s \in ls[c].sessions : cur[s] # 0 \/ s \in life \cup arch
Told(cur, pr, told) == \A s \in told : cur[s] # 0 => pr[s][cur[s]].commands
Present(cur, pl) == \A s \in Sessions : cur[s] # 0 => s \in pl

\* What is recorded, and what the pages have asked for and hold.
Stored ==
  /\ placed \subseteq recorded /\ recorded \subseteq exists /\ notified \subseteq exists
  /\ \A t \in Operations : op[t].step = "place" => op[t].session \in recorded
Asked ==
  /\ closed /\ releasing => touched = Clients
  /\ \A c \in Clients :
       /\ leases[c].sessions \subseteq placed
       /\ \A r \in Revisions : sent[c][r] \subseteq placed
       /\ \A r \in asks[c] : r <= revision[c]
       /\ leases[c].revision <= revision[c]
       /\ \/ revision[c] \in asks[c] \/ leases[c].revision = revision[c]
          \/ c \in reaped /\ asks[c] = {}

CurrentType(cur) == cur \in [Sessions -> 0..MaxProjections]
ProjectionType(pr) == pr \in [Sessions -> [1..MaxProjections -> Projection]]
LeasesType(ls) == ls \in [Clients -> [revision : 0..MaxRevision, sessions : SUBSET Sessions]]
OpType(ops) == ops \in [Operations -> Operation]

\* The parts that eviction keeps, in whatever state it starts.
Fits(cur, pr, ls, ops, life, arch, told, pl) ==
  /\ CurrentType(cur) /\ ProjectionType(pr) /\ LeasesType(ls)
  /\ Counted(pr, ops) /\ Used(cur, ops, arch) /\ Projected(cur, ls, life, arch)
  /\ Told(cur, pr, told) /\ Present(cur, pl)

Manager == /\ OpType(op) /\ Operating(op, lifecycle, exists, placed, pending, notified)
           /\ Fits(current, projection, leases, op, lifecycle, archived, notified, placed)
           /\ WithinBudget
Pages == /\ TypeOK /\ Stored /\ Asked /\ LatestSnapshot /\ ClosedIsReleased /\ ReopenedIsKept
Inv == Manager /\ Pages

-----------------------------------------------------------------------------
(* Counting. *)

LEMMA FreshType ==
  /\ Fresh \in Projection /\ Fresh.refs = 0 /\ Fresh.busy = "no" /\ Fresh.gate = "free"
  /\ Fresh.queued = FALSE /\ Fresh.commands = FALSE
  BY DEF Fresh, Projection

LEMMA WorksType ==
  \A p : Works(p) \in {0, 1} /\ (p.busy = "no" => Works(p) = 0)
  BY DEF Works

LEMMA OnFinite ==
  ASSUME NEW ops, NEW s, NEW n
  PROVE  IsFiniteSet(On(ops, s, n)) /\ Cardinality(On(ops, s, n)) \in Nat
  <1>1. IsFiniteSet(Operations) /\ On(ops, s, n) \subseteq Operations
    BY ConstantsAssumption DEF On
  <1> QED BY <1>1, FS_Subset, FS_CardinalityType

\* Whatever is used has references.
LEMMA Referenced ==
  ASSUME NEW pr, NEW ops, ProjectionType(pr), Counted(pr, ops), NEW t \in Operations,
         NEW s \in Sessions, NEW n \in 1..MaxProjections, ops[t].session = s, ops[t].on = n
  PROVE  pr[s][n].refs \in Nat /\ pr[s][n].refs > 0
  <1>1. t \in On(ops, s, n)
    BY DEF On
  <1>2. Cardinality(On(ops, s, n)) \in Nat /\ Cardinality(On(ops, s, n)) # 0
    BY <1>1, OnFinite, FS_EmptySet
  <1>3. pr[s][n].refs = Cardinality(On(ops, s, n)) + Works(pr[s][n])
    BY DEF Counted
  <1>4. Works(pr[s][n]) \in {0, 1}
    BY WorksType
  <1> QED BY <1>2, <1>3, <1>4

Is1(o, s, n) == IF o.session = s /\ o.on = n THEN 1 ELSE 0

\* One operation moves, and the references of projections follow.
LEMMA CountStep ==
  ASSUME NEW pr, NEW pr2, NEW ops, NEW ops2, NEW t \in Operations,
         ProjectionType(pr), Counted(pr, ops),
         \A u \in Operations : u # t => ops2[u] = ops[u],
         \A s \in Sessions : \A n \in 1..MaxProjections :
           pr2[s][n].refs = pr[s][n].refs + Works(pr2[s][n]) - Works(pr[s][n])
                              + Is1(ops2[t], s, n) - Is1(ops[t], s, n)
  PROVE  Counted(pr2, ops2)
  <1> SUFFICES ASSUME NEW s \in Sessions, NEW n \in 1..MaxProjections
      PROVE  pr2[s][n].refs = Cardinality(On(ops2, s, n)) + Works(pr2[s][n])
    BY DEF Counted
  <1> DEFINE C == Cardinality(On(ops, s, n) \ {t})
  <1>1. On(ops2, s, n) \ {t} = On(ops, s, n) \ {t}
    BY DEF On
  <1>2. C \in Nat
    <2>1. IsFiniteSet(On(ops, s, n) \ {t})
      BY OnFinite, FS_Subset
    <2> QED BY <2>1, FS_CardinalityType
  <1>3. ASSUME NEW o
        PROVE  /\ Cardinality(On(o, s, n)) \in Nat
               /\ Cardinality(On(o, s, n) \ {t}) = Cardinality(On(o, s, n)) - Is1(o[t], s, n)
    <2>1. IsFiniteSet(On(o, s, n)) /\ Cardinality(On(o, s, n)) \in Nat
      BY OnFinite
    <2>2. CASE t \in On(o, s, n)
      <3>1. Is1(o[t], s, n) = 1
        BY <2>2 DEF On, Is1
      <3> QED BY <2>1, <2>2, <3>1, FS_RemoveElement
    <2>3. CASE t \notin On(o, s, n)
      <3>1. Is1(o[t], s, n) = 0
        BY <2>3 DEF On, Is1
      <3>2. On(o, s, n) \ {t} = On(o, s, n)
        BY <2>3
      <3>3. Cardinality(On(o, s, n) \ {t}) = Cardinality(On(o, s, n))
        BY <3>2
      <3>4. Cardinality(On(o, s, n)) - 0 = Cardinality(On(o, s, n))
        BY <2>1
      <3> QED BY <2>1, <3>1, <3>3, <3>4
    <2> QED BY <2>2, <2>3
  <1>4. pr[s][n].refs = Cardinality(On(ops, s, n)) + Works(pr[s][n])
    BY DEF Counted
  <1>5. /\ Works(pr[s][n]) \in {0, 1} /\ Works(pr2[s][n]) \in {0, 1}
        /\ Is1(ops[t], s, n) \in {0, 1} /\ Is1(ops2[t], s, n) \in {0, 1}
    BY WorksType DEF Is1
  <1>6. /\ Cardinality(On(ops, s, n)) = C + Is1(ops[t], s, n)
        /\ Cardinality(On(ops2, s, n)) = C + Is1(ops2[t], s, n)
    <2>1. /\ Cardinality(On(ops, s, n)) \in Nat /\ Cardinality(On(ops2, s, n)) \in Nat
          /\ C = Cardinality(On(ops, s, n)) - Is1(ops[t], s, n)
          /\ C = Cardinality(On(ops2, s, n)) - Is1(ops2[t], s, n)
      BY <1>1, <1>3
    <2> HIDE DEF C
    <2> QED BY <1>2, <1>5, <2>1
  <1> HIDE DEF C
  <1>7. pr2[s][n].refs = pr[s][n].refs + Works(pr2[s][n]) - Works(pr[s][n])
                           + Is1(ops2[t], s, n) - Is1(ops[t], s, n)
    OBVIOUS
  <1> QED BY <1>2, <1>4, <1>5, <1>6, <1>7

-----------------------------------------------------------------------------
(* Eviction. *)

LEMMA EvictEffect ==
  ASSUME NEW cur, NEW pr, NEW ls, CurrentType(cur), ProjectionType(pr), Evict(cur, pr, ls)
  PROVE  /\ leases' = ls /\ CurrentType(current') /\ ProjectionType(projection')
         /\ \A s \in Sessions :
              \/ current'[s] = cur[s]
              \/ current'[s] = 0 /\ cur[s] # 0 /\ Idle(pr[s][cur[s]]) /\ s \notin Leased(ls)
         /\ \A s \in Sessions : \A n \in 1..MaxProjections :
              \/ projection'[s][n] = pr[s][n]
              \/ /\ projection'[s][n] = Fresh /\ n # current'[s]
                 /\ pr[s][n].refs = 0 /\ pr[s][n].busy = "no"
         /\ \A s \in Sessions : current'[s] # 0 => projection'[s][current'[s]] = pr[s][current'[s]]
  <1>1. PICK drop \in SUBSET Evictable(cur, pr, ls) :
          /\ Keeps(Evictable(cur, pr, ls), drop)
          /\ current' = [s \in Sessions |-> IF s \in drop THEN 0 ELSE cur[s]]
          /\ projection' = Kept(pr, current') /\ leases' = ls
    BY DEF Evict
  <1>2. CurrentType(current')
    BY <1>1, ConstantsAssumption DEF CurrentType
  <1>3. \A s \in Sessions : \A n \in 1..MaxProjections :
          projection'[s][n] = IF Reached(s, pr[s][n], n, current') THEN pr[s][n] ELSE Fresh
    BY <1>1 DEF Kept
  <1>4. ProjectionType(projection')
    <2>1. \A s \in Sessions : \A n \in 1..MaxProjections : projection'[s][n] \in Projection
      BY <1>3, FreshType DEF ProjectionType
    <2>2. projection' = [s \in Sessions |-> [n \in 1..MaxProjections |-> projection'[s][n]]]
      BY <1>1 DEF Kept
    <2> QED BY <2>1, <2>2 DEF ProjectionType
  <1>5. \A s \in Sessions :
          \/ current'[s] = cur[s]
          \/ current'[s] = 0 /\ cur[s] # 0 /\ Idle(pr[s][cur[s]]) /\ s \notin Leased(ls)
    BY <1>1 DEF Evictable
  <1>6. \A s \in Sessions : \A n \in 1..MaxProjections :
              \/ projection'[s][n] = pr[s][n]
              \/ /\ projection'[s][n] = Fresh /\ n # current'[s]
                 /\ pr[s][n].refs = 0 /\ pr[s][n].busy = "no"
    <2> SUFFICES ASSUME NEW s \in Sessions, NEW n \in 1..MaxProjections, ~Reached(s, pr[s][n], n, current')
        PROVE  n # current'[s] /\ pr[s][n].refs = 0 /\ pr[s][n].busy = "no"
      BY <1>3
    <2>1. pr[s][n].refs \in Nat
      BY DEF ProjectionType, Projection
    <2>2. n # current'[s] /\ ~(pr[s][n].refs > 0) /\ pr[s][n].busy = "no"
      BY DEF Reached
    <2> QED BY <2>1, <2>2
  <1>7. \A s \in Sessions : current'[s] # 0 => projection'[s][current'[s]] = pr[s][current'[s]]
    <2>1. \A s \in Sessions : current'[s] # 0 => current'[s] \in 1..MaxProjections
      BY <1>2, ConstantsAssumption DEF CurrentType
    <2> QED BY <1>6, <2>1
  <1> QED BY <1>1, <1>2, <1>4, <1>5, <1>6, <1>7

LEMMA EvictBudget ==
  ASSUME NEW cur, NEW pr, NEW ls, CurrentType(cur), ProjectionType(pr), Evict(cur, pr, ls)
  PROVE  WithinBudget'
  <1>1. PICK drop \in SUBSET Evictable(cur, pr, ls) :
          /\ Keeps(Evictable(cur, pr, ls), drop)
          /\ current' = [s \in Sessions |-> IF s \in drop THEN 0 ELSE cur[s]]
          /\ projection' = Kept(pr, current') /\ leases' = ls
    BY DEF Evict
  <1>2. \A s \in Sessions : current'[s] # 0 => projection'[s][current'[s]] = pr[s][current'[s]]
    BY EvictEffect
  <1>3. Evictable(current', projection', leases') = Evictable(cur, pr, ls) \ drop
    BY <1>1, <1>2 DEF Evictable
  <1>4. Cardinality(Evictable(current', projection', leases')) <= MaxIdle
    BY <1>1, <1>3 DEF Keeps
  <1> QED BY <1>4 DEF WithinBudget

\* What fits before an eviction fits after it.
LEMMA EvictKeeps ==
  ASSUME NEW cur, NEW pr, NEW ls, NEW ops, NEW life, NEW arch, NEW told, NEW pl,
         NEW ex, NEW pend, Operating(ops, life, ex, pl, pend, told), OpType(ops),
         Fits(cur, pr, ls, ops, life, arch, told, pl), told \subseteq Sessions, Evict(cur, pr, ls)
  PROVE  Fits(current', projection', leases', ops, life, arch, told, pl) /\ WithinBudget'
  <1>1. CurrentType(cur) /\ ProjectionType(pr) /\ LeasesType(ls)
    BY DEF Fits
  <1>2. /\ leases' = ls /\ CurrentType(current') /\ ProjectionType(projection')
        /\ \A s \in Sessions :
              \/ current'[s] = cur[s]
              \/ current'[s] = 0 /\ cur[s] # 0 /\ Idle(pr[s][cur[s]]) /\ s \notin Leased(ls)
        /\ \A s \in Sessions : \A n \in 1..MaxProjections :
              \/ projection'[s][n] = pr[s][n]
              \/ /\ projection'[s][n] = Fresh /\ n # current'[s]
                 /\ pr[s][n].refs = 0 /\ pr[s][n].busy = "no"
        /\ \A s \in Sessions : current'[s] # 0 => projection'[s][current'[s]] = pr[s][current'[s]]
    BY <1>1, EvictEffect
  <1>3. Counted(projection', ops)
    BY <1>2, FreshType DEF Fits, Counted, Works
  <1>4. \A t \in Operations : ops[t].step \in OnOne =>
          ops[t].session \in Sessions /\ ops[t].on \in 1..MaxProjections
    BY ConstantsAssumption DEF Operating, Operates, OpType, Operation
  <1>5. \A t \in Operations : ops[t].step \in OnOne /\ cur[ops[t].session] = ops[t].on =>
          current'[ops[t].session] = ops[t].on
    <2> SUFFICES ASSUME NEW t \in Operations, ops[t].step \in OnOne, cur[ops[t].session] = ops[t].on
        PROVE  ~Idle(pr[ops[t].session][ops[t].on])
      BY <1>2, <1>4
    <2>1. pr[ops[t].session][ops[t].on].refs > 0 /\ pr[ops[t].session][ops[t].on].refs \in Nat
      BY <1>1, <1>4, Referenced DEF Fits
    <2> QED BY <2>1 DEF Idle
  <1>6. Used(current', ops, arch)
    BY <1>5 DEF Fits, Used, OnOne
  <1>7. Projected(current', leases', life, arch)
    <2> SUFFICES ASSUME NEW c \in Clients, NEW s \in ls[c].sessions
        PROVE  current'[s] # 0 \/ s \in life \cup arch
      BY <1>2 DEF Projected
    <2>1. s \in Sessions /\ s \in Leased(ls)
      BY <1>1 DEF LeasesType, Leased
    <2> QED BY <1>2, <2>1 DEF Fits, Projected
  <1>8. Told(current', projection', told)
    BY <1>2 DEF Fits, Told
  <1>9. Present(current', pl)
    BY <1>2 DEF Fits, Present
  <1> QED BY <1>1, <1>2, <1>3, <1>6, <1>7, <1>8, <1>9, EvictBudget DEF Fits

-----------------------------------------------------------------------------
(* One operation moves, and with it at most one projection.              *)

\* One operation has moved, and only the projection n of s has changed.
Moves(cur, pr, pr2, ops, ops2, arch, t, s, n) ==
  /\ s \in Sessions /\ n \in 1..MaxProjections
  /\ \A u \in Operations : u # t => ops2[u] = ops[u]
  /\ \A o \in {ops[t], ops2[t]} : o.on = 0 \/ (o.session = s /\ o.on = n)
  /\ ProjectionType(pr2)
  /\ \A r \in Sessions : \A m \in 1..MaxProjections : r # s \/ m # n => pr2[r][m] = pr[r][m]
  /\ pr2[s][n].refs = pr[s][n].refs + Works(pr2[s][n]) - Works(pr[s][n])
                         + Is1(ops2[t], s, n) - Is1(ops[t], s, n)
  /\ pr[s][n].commands => pr2[s][n].commands
  /\ ops2[t].step \in InUse => cur[ops2[t].session] = ops2[t].on
  /\ ops2[t].step = "archived" => ops2[t].session \in arch \/ cur[ops2[t].session] = ops2[t].on

LEMMA MoveFits ==
  ASSUME NEW cur, NEW pr, NEW pr2, NEW ls, NEW ops, NEW ops2, NEW life, NEW arch, NEW told, NEW pl,
         NEW t \in Operations, NEW s, NEW n, told \subseteq Sessions,
         Fits(cur, pr, ls, ops, life, arch, told, pl), Moves(cur, pr, pr2, ops, ops2, arch, t, s, n)
  PROVE  Fits(cur, pr2, ls, ops2, life, arch, told, pl)
  <1>1. ProjectionType(pr)
    BY DEF Fits
  <1>2. /\ s \in Sessions /\ n \in 1..MaxProjections
        /\ \A u \in Operations : u # t => ops2[u] = ops[u]
        /\ \A o \in {ops[t], ops2[t]} : o.on = 0 \/ (o.session = s /\ o.on = n)
        /\ ProjectionType(pr2)
        /\ \A r \in Sessions : \A m \in 1..MaxProjections : r # s \/ m # n => pr2[r][m] = pr[r][m]
        /\ pr2[s][n].refs = pr[s][n].refs + Works(pr2[s][n]) - Works(pr[s][n])
                               + Is1(ops2[t], s, n) - Is1(ops[t], s, n)
        /\ pr[s][n].commands => pr2[s][n].commands
        /\ ops2[t].step \in InUse => cur[ops2[t].session] = ops2[t].on
        /\ ops2[t].step = "archived" => ops2[t].session \in arch \/ cur[ops2[t].session] = ops2[t].on
    BY DEF Moves
  <1>3. Counted(pr2, ops2)
    <2>1. ASSUME NEW r \in Sessions, NEW m \in 1..MaxProjections
          PROVE  pr2[r][m].refs = pr[r][m].refs + Works(pr2[r][m]) - Works(pr[r][m])
                              + Is1(ops2[t], r, m) - Is1(ops[t], r, m)
      <3>1. CASE r = s /\ m = n
        BY <1>2, <3>1
      <3>2. CASE r # s \/ m # n
        <4>1. pr2[r][m] = pr[r][m]
          BY <1>2, <3>2
        <4>2. Is1(ops2[t], r, m) = 0 /\ Is1(ops[t], r, m) = 0
          <5>1. m # 0
            BY ConstantsAssumption
          <5> QED BY <1>2, <3>2, <5>1 DEF Is1
        <4>3. pr[r][m].refs \in Nat /\ Works(pr[r][m]) \in {0, 1}
          BY <1>1, WorksType DEF ProjectionType, Projection
        <4> QED BY <4>1, <4>2, <4>3
      <3> QED BY <3>1, <3>2
    <2>2. Counted(pr, ops)
      BY DEF Fits
    <2> QED BY <1>1, <1>2, <2>1, <2>2, CountStep
  <1>4. Used(cur, ops2, arch)
    <2> SUFFICES ASSUME NEW u \in Operations
        PROVE  /\ ops2[u].step \in InUse => cur[ops2[u].session] = ops2[u].on
               /\ ops2[u].step = "archived" => ops2[u].session \in arch \/ cur[ops2[u].session] = ops2[u].on
      BY DEF Used
    <2>1. CASE u = t
      BY <1>2, <2>1
    <2>2. CASE u # t
      BY <1>2, <2>2 DEF Fits, Used
    <2> QED BY <2>1, <2>2
  <1>5. Told(cur, pr2, told)
    <2> SUFFICES ASSUME NEW r \in told, cur[r] # 0
        PROVE  pr2[r][cur[r]].commands
      BY DEF Told
    <2>1. pr[r][cur[r]].commands
      BY DEF Fits, Told
    <2>2. CASE r = s /\ cur[r] = n
      BY <1>2, <2>1, <2>2
    <2>3. CASE r # s \/ cur[r] # n
      <3>1. r \in Sessions /\ cur[r] \in 1..MaxProjections
        BY ConstantsAssumption DEF Fits, CurrentType
      <3> QED BY <1>2, <2>1, <2>3, <3>1
    <2> QED BY <2>2, <2>3
  <1> QED BY <1>2, <1>3, <1>4, <1>5 DEF Fits

LEMMA OperatingStep ==
  ASSUME NEW ops, NEW life, NEW ex, NEW pl, NEW pend, NEW told,
         NEW ops2, NEW life2, NEW ex2, NEW pl2, NEW pend2, NEW told2, NEW t \in Operations,
         Operating(ops, life, ex, pl, pend, told),
         \A u \in Operations : u # t => ops2[u] = ops[u],
         \A u \in Operations : u # t => Operates(ops[u], life2, ex2, pl2, pend2, told2),
         \A u \in Operations : u # t => Apart(ops2[t], ops[u]) /\ Apart(ops[u], ops2[t]),
         Operates(ops2[t], life2, ex2, pl2, pend2, told2)
  PROVE  Operating(ops2, life2, ex2, pl2, pend2, told2)
  <1>1. ASSUME NEW u \in Operations
        PROVE  Operates(ops2[u], life2, ex2, pl2, pend2, told2)
    <2>1. CASE u = t
      BY <2>1
    <2>2. CASE u # t
      <3>1. ops2[u] = ops[u]
        BY <2>2
      <3> QED BY <2>2, <3>1
    <2> QED BY <2>1, <2>2
  <1>2. ASSUME NEW u \in Operations, NEW v \in Operations, u # v
        PROVE  Apart(ops2[u], ops2[v])
    <2>1. CASE u = t
      <3>1. ops2[v] = ops[v]
        BY <1>2, <2>1
      <3> QED BY <1>2, <2>1, <3>1
    <2>2. CASE v = t
      <3>1. ops2[u] = ops[u]
        BY <1>2, <2>2
      <3> QED BY <1>2, <2>2, <3>1
    <2>3. CASE u # t /\ v # t
      <3>1. ops2[u] = ops[u] /\ ops2[v] = ops[v]
        BY <2>3
      <3>2. Apart(ops[u], ops[v])
        BY <1>2 DEF Operating
      <3> QED BY <3>1, <3>2
    <2> QED BY <2>1, <2>2, <2>3
  <1> QED BY <1>1, <1>2 DEF Operating

LEMMA NobodyType ==
  /\ Nobody \in Operation
  /\ Nobody.step = "idle" /\ Nobody.on = 0 /\ Nobody.session = "none" /\ Nobody.queued = FALSE
  BY ConstantsAssumption DEF Nobody, Operation

LEMMA EndEffect ==
  ASSUME OpType(op), NEW t \in Operations, End(t)
  PROVE  OpType(op') /\ op'[t] = Nobody /\ \A u \in Operations : u # t => op'[u] = op[u]
  BY NobodyType DEF OpType, End

LEMMA StepEffect ==
  ASSUME OpType(op), NEW t \in Operations,
         NEW step \in {"gate", "attached", "reserved", "archived", "use", "record", "place"}, Step(t, step)
  PROVE  /\ OpType(op') /\ op'[t] = [op[t] EXCEPT !.step = step]
         /\ op'[t].step = step /\ op'[t].on = op[t].on /\ op'[t].session = op[t].session
         /\ op'[t].client = op[t].client /\ op'[t].kind = op[t].kind
         /\ \A u \in Operations : u # t => op'[u] = op[u]
  <1>1. op[t] \in Operation
    BY DEF OpType
  <1> DEFINE o == [op[t] EXCEPT !.step = step]
  <1>2. /\ o \in Operation /\ o.step = step /\ o.on = op[t].on /\ o.session = op[t].session
        /\ o.client = op[t].client /\ o.kind = op[t].kind
    BY <1>1 DEF Operation
  <1>3. op' = [op EXCEPT ![t] = o]
    BY DEF Step
  <1> HIDE DEF o
  <1>4. OpType(op') /\ op'[t] = o /\ \A u \in Operations : u # t => op'[u] = op[u]
    BY <1>2, <1>3 DEF OpType
  <1> QED BY <1>2, <1>4 DEF o

\* What an operation that is on a projection finds there.
LEMMA OnOneFacts ==
  ASSUME Inv, NEW t \in Operations, op[t].step \in OnOne
  PROVE  /\ op[t] \in Operation /\ op[t].session \in Sessions /\ op[t].on \in 1..MaxProjections
         /\ op[t].client \in Clients /\ op[t].session \in placed
         /\ At(t) \in Projection /\ At(t).refs \in Nat /\ At(t).refs > 0
         /\ Works(At(t)) \in {0, 1}
         /\ Is1(op[t], op[t].session, op[t].on) = 1
  <1>1. OpType(op) /\ Operates(op[t], lifecycle, exists, placed, pending, notified)
    BY DEF Inv, Manager, Operating
  <1>2. op[t] \in Operation /\ op[t].on # 0 /\ op[t].session \in Sessions
    BY <1>1 DEF OpType, Operates
  <1>3. op[t].on \in 1..MaxProjections
    BY <1>2, ConstantsAssumption DEF Operation
  <1>4. op[t].step # "idle"
    BY DEF OnOne, InUse
  <1>5. op[t].client \in Clients /\ op[t].session \in placed
    BY <1>1, <1>4 DEF Operates
  <1>6. ProjectionType(projection) /\ Counted(projection, op)
    BY DEF Inv, Manager, Fits
  <1>7. At(t) \in Projection
    BY <1>2, <1>3, <1>6 DEF At, ProjectionType
  <1>8. At(t).refs \in Nat /\ At(t).refs > 0
    BY <1>2, <1>3, <1>6, Referenced DEF At
  <1>9. Is1(op[t], op[t].session, op[t].on) = 1
    BY DEF Is1
  <1> QED BY <1>2, <1>3, <1>5, <1>7, <1>8, <1>9, WorksType

\* releaseEntry: the operation ends, and others keep what they have.
LEMMA ReleaseKeeps ==
  ASSUME Inv, NEW t \in Operations, op[t].step \in OnOne, NEW p \in Projection,
         p.refs - Works(p) = At(t).refs - Works(At(t)), p.refs > 0, At(t).commands => p.commands,
         NEW life, Projected(current, leases, life, archived),
         \A u \in Operations : u # t /\ op[u].step \in {"reserved", "archived"} => op[u].session \in life,
         Release(t, p, leases)
  PROVE  /\ OpType(op') /\ Operating(op', life, exists, placed, pending, notified)
         /\ Fits(current', projection', leases', op', life, archived, notified, placed)
         /\ WithinBudget'
  <1> DEFINE s == op[t].session
             n == op[t].on
             q == [p EXCEPT !.refs = @ - 1]
             pr == [projection EXCEPT ![s][n] = q]
  <1>1. /\ op[t] \in Operation /\ s \in Sessions /\ n \in 1..MaxProjections
        /\ At(t) \in Projection /\ At(t).refs \in Nat /\ At(t).refs > 0
        /\ Works(At(t)) \in {0, 1} /\ Is1(op[t], s, n) = 1
    BY OnOneFacts
  <1>2. OpType(op') /\ op'[t] = Nobody /\ \A u \in Operations : u # t => op'[u] = op[u]
    BY EndEffect DEF Inv, Manager, Release
  <1>3. Operating(op', life, exists, placed, pending, notified)
    <2>1. Operating(op, lifecycle, exists, placed, pending, notified)
      BY DEF Inv, Manager
    <2>2. \A u \in Operations : u # t => Operates(op[u], life, exists, placed, pending, notified)
      BY <2>1 DEF Operating, Operates
    <2>3. \A u \in Operations : u # t => Apart(op'[t], op[u]) /\ Apart(op[u], op'[t])
      BY <1>2, NobodyType DEF Apart, Named
    <2>4. Operates(op'[t], life, exists, placed, pending, notified)
      BY <1>2, NobodyType DEF Operates, OnOne, InUse, Named
    <2> QED BY <1>2, <2>1, <2>2, <2>3, <2>4, OperatingStep
  <1>4. q \in Projection /\ q.refs = p.refs - 1 /\ q.commands = p.commands /\ q.busy = p.busy
    <2>1. p.refs - 1 \in Nat
      BY DEF Projection
    <2> QED BY <2>1 DEF Projection
  <1>5. Works(q) = Works(p) /\ Works(p) \in {0, 1} /\ p.refs \in Nat
    BY <1>4, WorksType DEF Works, Projection
  <1> HIDE DEF q
  <1>6. Fits(current, projection, leases, op, life, archived, notified, placed)
    BY DEF Inv, Manager, Fits
  <1>7. Is1(op'[t], s, n) = 0
    BY <1>1, <1>2, NobodyType DEF Is1
  <1>8. q.refs = projection[s][n].refs + Works(q) - Works(projection[s][n]) + Is1(op'[t], s, n) - Is1(op[t], s, n)
    <2>1. projection[s][n] = At(t)
      BY DEF At
    <2>2. q.refs = At(t).refs + Works(q) - Works(At(t)) + 0 - 1
      BY <1>1, <1>4, <1>5
    <2> QED BY <1>1, <1>7, <2>1, <2>2
  <1>9. op'[t].on = 0 /\ op'[t].step = "idle"
    BY <1>2, NobodyType
  <1>10. projection[s][n].commands => q.commands
    BY <1>4 DEF At
  <1>11. ~(op'[t].step \in InUse) /\ op'[t].step # "archived"
    BY <1>9 DEF InUse
  <1>14. notified \subseteq Sessions
    BY DEF Inv, Pages, TypeOK
  <1>12. Fits(current, pr, leases, op', life, archived, notified, placed)
    <2> HIDE DEF s, n, pr
    <2>1. op[t].on = 0 \/ (op[t].session = s /\ op[t].on = n)
      BY DEF s, n
    <2>2. ProjectionType(pr) /\ pr[s][n] = q /\
          \A r \in Sessions : \A m \in 1..MaxProjections : r # s \/ m # n => pr[r][m] = projection[r][m]
      <3>1. ProjectionType(projection)
        BY <1>6 DEF Fits
      <3> QED BY <1>1, <1>4, <3>1 DEF pr, ProjectionType
    <2>3. op'[t].on = 0 \/ (op'[t].session = s /\ op'[t].on = n)
      BY <1>9
    <2>4. pr[s][n].refs = projection[s][n].refs + Works(pr[s][n]) - Works(projection[s][n])
                            + Is1(op'[t], s, n) - Is1(op[t], s, n)
      BY <1>8, <2>2
    <2>5. Moves(current, projection, pr, op, op', archived, t, s, n)
      BY <1>1, <1>2, <1>10, <1>11, <2>1, <2>2, <2>3, <2>4 DEF Moves
    <2> QED BY <1>6, <1>14, <2>5, MoveFits
  <1>13. Evict(current, pr, leases)
    BY DEF Release, With, q
  <1> HIDE DEF pr
  <1> QED BY <1>2, <1>3, <1>12, <1>13, <1>14, EvictKeeps

LEMMA Releases ==
  ASSUME Inv, NEW t \in Operations, op[t].step \in OnOne, NEW p \in Projection,
         p.refs - Works(p) = At(t).refs - Works(At(t)), p.refs > 0, At(t).commands => p.commands,
         Release(t, p, leases), UNCHANGED <<lifecycle, pending, exists, archived, notified, placed>>
  PROVE  Manager'
  <1>1. Projected(current, leases, lifecycle, archived)
    BY DEF Inv, Manager, Fits
  <1>2. \A u \in Operations : u # t /\ op[u].step \in {"reserved", "archived"} => op[u].session \in lifecycle
    BY DEF Inv, Manager, Operating, Operates
  <1>3. /\ OpType(op') /\ Operating(op', lifecycle, exists, placed, pending, notified)
        /\ Fits(current', projection', leases', op', lifecycle, archived, notified, placed)
        /\ WithinBudget'
    BY <1>1, <1>2, ReleaseKeeps
  <1> QED BY <1>3 DEF Manager

\* What a step that releases leaves of the projection.
LEMMA Released ==
  ASSUME Inv, NEW t \in Operations, op[t].step \in OnOne,
         NEW p, p \in {At(t), Freed(t), [Freed(t) EXCEPT !.queued = ~@]}
                  \/ (At(t).busy = "no" /\ p = Working(Freed(t)))
  PROVE  /\ p \in Projection /\ p.refs - Works(p) = At(t).refs - Works(At(t)) /\ p.refs > 0
         /\ At(t).commands => p.commands
  <1>1. At(t) \in Projection /\ At(t).refs \in Nat /\ At(t).refs > 0
    BY OnOneFacts
  <1> DEFINE a == At(t)
             f == Freed(t)
             q == [f EXCEPT !.queued = ~@]
             w == Working(f)
  <1>2. f \in Projection /\ f.refs = a.refs /\ f.busy = a.busy /\ f.commands = a.commands
    BY <1>1 DEF Freed, Projection
  <1> HIDE DEF f
  <1>3. f.queued \in BOOLEAN
    BY <1>2 DEF Projection
  <1>4. q \in Projection /\ q.refs = a.refs /\ q.busy = a.busy /\ q.commands = a.commands
    <2>1. (~f.queued) \in BOOLEAN
      OBVIOUS
    <2> QED BY <1>2, <2>1 DEF Projection
  <1>5. w \in Projection /\ w.refs = a.refs + 1 /\ w.busy = "work" /\ w.commands = a.commands
    <2>1. f.refs + 1 \in Nat
      BY <1>1, <1>2
    <2> QED BY <1>2, <2>1 DEF Projection, Working
  <1> HIDE DEF q, w
  <1>6. CASE p \in {a, f, q}
    <2>1. p \in Projection /\ p.refs = a.refs /\ p.busy = a.busy /\ p.commands = a.commands
      BY <1>1, <1>2, <1>4, <1>6
    <2> HIDE DEF a
    <2> QED BY <1>1, <2>1 DEF Works, a
  <1>7. CASE a.busy = "no" /\ p = w
    <2>1. Works(a) = 0 /\ Works(w) = 1
      BY <1>5, <1>7 DEF Works
    <2> HIDE DEF a
    <2>2. w.refs - 1 = a.refs - 0 /\ w.refs > 0
      BY <1>1, <1>5 DEF a
    <2> QED BY <1>5, <1>7, <2>1, <2>2 DEF a
  <1> QED BY <1>6, <1>7 DEF f, q, w

LEMMA BudgetKept ==
  ASSUME WithinBudget, Leased(leases) \subseteq Leased(leases'),
         \A s \in Sessions : current'[s] # 0 /\ Idle(projection'[s][current'[s]])
                               => current[s] # 0 /\ Idle(projection[s][current[s]])
  PROVE  WithinBudget'
  <1> DEFINE A == Evictable(current', projection', leases')
             B == Evictable(current, projection, leases)
  <1>1. A \subseteq B /\ B \subseteq Sessions
    BY DEF Evictable
  <1> HIDE DEF A, B
  <1>2. IsFiniteSet(B)
    BY <1>1, ConstantsAssumption, FS_Subset
  <1>3. IsFiniteSet(A) /\ Cardinality(A) <= Cardinality(B)
    BY <1>1, <1>2, FS_Subset
  <1>4. Cardinality(A) \in Nat /\ Cardinality(B) \in Nat
    BY <1>2, <1>3, FS_CardinalityType
  <1>5. Cardinality(B) <= MaxIdle /\ MaxIdle \in Nat
    BY ConstantsAssumption DEF WithinBudget, B
  <1>6. Cardinality(A) <= MaxIdle
    BY <1>3, <1>4, <1>5
  <1> QED BY <1>6 DEF WithinBudget, A

LEMMA MovesKeep ==
  ASSUME Inv, NEW t \in Operations, NEW s, NEW n,
         Moves(current, projection, projection', op, op', archived, t, s, n),
         Idle(projection'[s][n]) => Idle(projection[s][n]),
         UNCHANGED <<current, lifecycle, archived, notified, placed>>,
         LeasesType(leases'), Projected(current, leases', lifecycle, archived), Leased(leases) \subseteq Leased(leases'),
         OpType(op'), Operating(op', lifecycle', exists', placed', pending', notified')
  PROVE  Manager'
  <1>1. Fits(current, projection, leases, op, lifecycle, archived, notified, placed) /\ notified \subseteq Sessions
    BY DEF Inv, Manager, Pages, TypeOK
  <1>2. Fits(current, projection', leases, op', lifecycle, archived, notified, placed)
    BY <1>1, MoveFits
  <1>3. Fits(current', projection', leases', op', lifecycle', archived', notified', placed')
    BY <1>2 DEF Fits
  <1>4. WithinBudget'
    <2>1. \A r \in Sessions : \A m \in 1..MaxProjections : Idle(projection'[r][m]) => Idle(projection[r][m])
      BY DEF Moves
    <2>2. \A r \in Sessions : current[r] # 0 => current[r] \in 1..MaxProjections
      BY <1>1, ConstantsAssumption DEF Fits, CurrentType
    <2> QED BY <2>1, <2>2, BudgetKept DEF Inv, Manager
  <1> QED BY <1>3, <1>4 DEF Manager

\* One operation moves, and nothing changes that concerns the others.
LEMMA OperatesOn ==
  ASSUME Inv, NEW t \in Operations, \A u \in Operations : u # t => op'[u] = op[u],
         UNCHANGED <<lifecycle, exists, placed, pending, notified>>,
         Operates(op'[t], lifecycle, exists, placed, pending, notified),
         \A u \in Operations : u # t => Apart(op'[t], op[u]) /\ Apart(op[u], op'[t])
  PROVE  Operating(op', lifecycle', exists', placed', pending', notified')
  <1>1. Operating(op, lifecycle, exists, placed, pending, notified)
    BY DEF Inv, Manager
  <1>2. \A u \in Operations : u # t => Operates(op[u], lifecycle, exists, placed, pending, notified)
    BY <1>1 DEF Operating
  <1> QED BY <1>1, <1>2, OperatingStep

\* The same operation, further on.
LEMMA OperatesFurther ==
  ASSUME Inv, NEW t \in Operations, \A u \in Operations : u # t => op'[u] = op[u],
         UNCHANGED <<lifecycle, exists, placed, pending, notified>>,
         op'[t].on = op[t].on, op'[t].session = op[t].session, op'[t].client = op[t].client,
         op[t].step \in InUse, op'[t].step \in {"attached", "use"}
  PROVE  Operating(op', lifecycle', exists', placed', pending', notified')
  <1>1. Operating(op, lifecycle, exists, placed, pending, notified)
    BY DEF Inv, Manager
  <1>2. Operates(op'[t], lifecycle, exists, placed, pending, notified)
    BY <1>1 DEF Operating, Operates, OnOne, InUse, Named
  <1>3. \A u \in Operations : u # t => Apart(op'[t], op[u]) /\ Apart(op[u], op'[t])
    <2>1. \A u \in Operations : u # t => Apart(op[t], op[u]) /\ Apart(op[u], op[t])
      BY <1>1 DEF Operating
    <2> QED BY <2>1 DEF Apart, Named
  <1> QED BY <1>2, <1>3, OperatesOn

LEMMA Unleased ==
  ASSUME Inv, UNCHANGED leases
  PROVE  LeasesType(leases') /\ Projected(current, leases', lifecycle, archived) /\ Leased(leases) \subseteq Leased(leases')
  BY DEF Inv, Manager, Fits

-----------------------------------------------------------------------------
(* The steps of an operation on a session that exists. *)

LEMMA AttachFailsKeeps ==
  ASSUME Inv, NEW t \in Operations, AttachFails(t)
  PROVE  Manager'
  <1>1. op[t].step \in OnOne
    BY DEF AttachFails, OnOne, InUse
  <1>2. Release(t, Freed(t), leases) /\ UNCHANGED <<lifecycle, pending, exists, archived, notified, placed>>
    BY DEF AttachFails, store, pi, history
  <1> QED BY <1>1, <1>2, Released, Releases

LEMMA AnsweredKeeps ==
  ASSUME Inv, NEW t \in Operations, Answered(t)
  PROVE  Manager'
  <1>1. op[t].step \in OnOne
    BY DEF Answered, OnOne, InUse
  <1>2. Release(t, At(t), leases) /\ UNCHANGED <<lifecycle, pending, exists, archived, notified, placed>>
    BY DEF Answered, store, pi, history
  <1> QED BY <1>1, <1>2, Released, Releases

LEMMA WorkKeeps ==
  ASSUME Inv, NEW t \in Operations, Work(t)
  PROVE  Manager'
  <1>1. op[t].step \in OnOne
    BY DEF Work, OnOne, InUse
  <1>2. UNCHANGED <<lifecycle, pending, exists, archived, notified, placed>>
    BY DEF Work, pi, history
  <1>3. CASE At(t).busy = "no" /\ Release(t, Working(Freed(t)), leases)
    BY <1>1, <1>2, <1>3, Released, Releases
  <1>4. CASE Release(t, [Freed(t) EXCEPT !.queued = ~@], leases)
    <2> DEFINE p == [Freed(t) EXCEPT !.queued = ~@]
    <2>1. p \in {At(t), Freed(t), [Freed(t) EXCEPT !.queued = ~@]} /\ Release(t, p, leases)
      BY <1>4
    <2> HIDE DEF p
    <2> QED BY <1>1, <1>2, <2>1, Released, Releases
  <1> QED BY <1>3, <1>4 DEF Work

LEMMA LockKeeps ==
  ASSUME Inv, NEW t \in Operations, Lock(t)
  PROVE  Manager'
  <1>1. op[t].step = "gate" /\ op[t].step \in OnOne
    BY DEF Lock, OnOne, InUse
  <1>2. UNCHANGED <<lifecycle, pending, exists, archived, notified, placed>>
    BY DEF Lock, store, pi, history
  <1>3. CASE Release(t, At(t), leases)
    BY <1>1, <1>2, <1>3, Released, Releases
  <1>4. CASE /\ Held(t) /\ projection' = With(t, [At(t) EXCEPT !.gate = t])
             /\ Step(t, "attached") /\ UNCHANGED <<current, leases>>
    <2> DEFINE s == op[t].session
               n == op[t].on
               q == [At(t) EXCEPT !.gate = t]
    <2>1. /\ s \in Sessions /\ n \in 1..MaxProjections /\ At(t) \in Projection
          /\ op[t].client \in Clients /\ s \in placed /\ At(t).refs \in Nat /\ Works(At(t)) \in {0, 1}
      BY <1>1, OnOneFacts
    <2>2. /\ OpType(op') /\ op'[t].step = "attached" /\ op'[t].on = n /\ op'[t].session = s
          /\ op'[t].client = op[t].client /\ \A u \in Operations : u # t => op'[u] = op[u]
      BY <1>4, StepEffect DEF Inv, Manager
    <2>3. /\ q \in Projection /\ q.refs = At(t).refs /\ q.busy = At(t).busy /\ q.commands = At(t).commands
      BY <2>1 DEF Projection
    <2>4. ProjectionType(projection)
      BY DEF Inv, Manager, Fits
    <2> HIDE DEF q
    <2>5. /\ ProjectionType(projection') /\ projection'[s][n] = q
          /\ \A r \in Sessions : \A m \in 1..MaxProjections : r # s \/ m # n => projection'[r][m] = projection[r][m]
      <3>1. projection' = [projection EXCEPT ![s][n] = q]
        BY <1>4 DEF With, q
      <3> QED BY <2>1, <2>3, <2>4, <3>1 DEF ProjectionType
    <2>6. Moves(current, projection, projection', op, op', archived, t, s, n)
      <3>1. Is1(op'[t], s, n) = 1 /\ Is1(op[t], s, n) = 1
        BY <2>2 DEF Is1
      <3>2. Works(q) = Works(At(t)) /\ projection[s][n] = At(t)
        BY <2>3 DEF Works, At
      <3>3. current[s] = n
        BY <1>4 DEF Held
      <3>4. q.refs = At(t).refs + Works(q) - Works(At(t)) + 1 - 1
        BY <2>1, <2>3, <3>2
      <3> HIDE DEF s, n
      <3>5. \A o \in {op[t], op'[t]} : o.on = 0 \/ (o.session = s /\ o.on = n)
        BY <2>2 DEF s, n
      <3> QED BY <2>1, <2>2, <2>3, <2>5, <3>1, <3>2, <3>3, <3>4, <3>5 DEF Moves, InUse
    <2>7. Operating(op', lifecycle', exists', placed', pending', notified')
      BY <1>1, <1>2, <2>2, OperatesFurther DEF InUse
    <2>8. Idle(projection'[s][n]) => Idle(projection[s][n])
      BY <2>3, <2>5 DEF Idle, At
    <2> HIDE DEF s, n
    <2> QED BY <1>2, <1>4, <2>2, <2>6, <2>7, <2>8, Unleased, MovesKeep
  <1> QED BY <1>3, <1>4 DEF Lock

LEMMA OpenedKeeps ==
  ASSUME Inv, NEW t \in Operations, Opened(t)
  PROVE  Manager'
  <1>1. op[t].step \in InUse /\ op[t].step \in OnOne
    BY DEF Opened, OnOne, InUse
  <1>2. UNCHANGED <<current, lifecycle, pending, exists, archived, notified, placed>>
    BY DEF Opened, store, pi, history
  <1> DEFINE s == op[t].session
             n == op[t].on
             q == Freed(t)
  <1>3. /\ s \in Sessions /\ n \in 1..MaxProjections /\ At(t) \in Projection
        /\ op[t].client \in Clients /\ s \in placed /\ At(t).refs \in Nat /\ Works(At(t)) \in {0, 1}
    BY <1>1, OnOneFacts
  <1>4. /\ OpType(op') /\ op'[t].step = "use" /\ op'[t].on = n /\ op'[t].session = s
        /\ op'[t].client = op[t].client /\ \A u \in Operations : u # t => op'[u] = op[u]
    BY StepEffect DEF Inv, Manager, Opened
  <1>5. q \in Projection /\ q.refs = At(t).refs /\ q.busy = At(t).busy /\ q.commands = At(t).commands
    BY <1>3 DEF Projection, Freed
  <1>6. ProjectionType(projection)
    BY DEF Inv, Manager, Fits
  <1> HIDE DEF q
  <1>7. /\ ProjectionType(projection') /\ projection'[s][n] = q
        /\ \A r \in Sessions : \A m \in 1..MaxProjections : r # s \/ m # n => projection'[r][m] = projection[r][m]
    <2>1. projection' = [projection EXCEPT ![s][n] = q]
      BY DEF With, Opened, q
    <2> QED BY <1>3, <1>5, <1>6, <2>1 DEF ProjectionType
  <1>8. current[s] = n
    BY <1>1 DEF Inv, Manager, Fits, Used
  <1>9. Moves(current, projection, projection', op, op', archived, t, s, n)
    <2>1. Is1(op'[t], s, n) = 1 /\ Is1(op[t], s, n) = 1
      BY <1>4 DEF Is1
    <2>2. Works(q) = Works(At(t)) /\ projection[s][n] = At(t)
      BY <1>5 DEF Works, At
    <2>3. q.refs = At(t).refs + Works(q) - Works(At(t)) + 1 - 1
      BY <1>3, <1>5, <2>2
    <2> HIDE DEF s, n
    <2>4. \A o \in {op[t], op'[t]} : o.on = 0 \/ (o.session = s /\ o.on = n)
      BY <1>4 DEF s, n
    <2> QED BY <1>3, <1>4, <1>5, <1>7, <1>8, <2>1, <2>2, <2>3, <2>4 DEF Moves, InUse
  <1>10. Operating(op', lifecycle', exists', placed', pending', notified')
    BY <1>1, <1>2, <1>4, OperatesFurther
  <1>11. Idle(projection'[s][n]) => Idle(projection[s][n])
    BY <1>5, <1>7 DEF Idle, At
  <1>12. LeasesType(leases') /\ Projected(current, leases', lifecycle, archived) /\ Leased(leases) \subseteq Leased(leases')
    <2>1. LeasesType(leases) /\ Projected(current, leases, lifecycle, archived)
      BY DEF Inv, Manager, Fits
    <2>2. CASE leases' = leases
      BY <2>1, <2>2
    <2>3. CASE leases' = [leases EXCEPT ![op[t].client].sessions = @ \cup {s}]
      <3>1. LeasesType(leases')
        BY <1>3, <2>1, <2>3 DEF LeasesType
      <3>2. \A c \in Clients : /\ leases[c].sessions \subseteq leases'[c].sessions
                               /\ leases'[c].sessions \subseteq leases[c].sessions \cup {s}
        BY <1>3, <2>1, <2>3 DEF LeasesType
      <3>3. current[s] # 0
        BY <1>3, <1>8
      <3>4. Projected(current, leases', lifecycle, archived)
        BY <2>1, <3>2, <3>3 DEF Projected
      <3>5. Leased(leases) \subseteq Leased(leases')
        BY <3>2 DEF Leased
      <3> QED BY <3>1, <3>4, <3>5
    <2> QED BY <2>2, <2>3 DEF Opened, Retained
  <1> HIDE DEF s, n
  <1> QED BY <1>2, <1>4, <1>9, <1>10, <1>11, <1>12, MovesKeep

\* entry: the operation comes to the projection s has.
LEMMA EntersKeeps ==
  ASSUME Inv, NEW t \in Operations, op[t].on = 0, NEW s \in placed, current[s] # 0, s \notin lifecycle,
         Use(s, current[s]), NEW o \in Operation, op' = [op EXCEPT ![t] = o],
         o.step = "gate", o.on = current[s], o.session = s, o.client \in Clients,
         UNCHANGED <<current, leases, lifecycle, pending, exists, archived, notified, placed>>
  PROVE  Manager'
  <1> DEFINE n == current[s]
             p == projection[s][n]
             q == [p EXCEPT !.refs = @ + 1]
  <1>1. ProjectionType(projection) /\ CurrentType(current) /\ OpType(op)
    BY DEF Inv, Manager, Fits
  <1>2. s \in Sessions /\ n \in 1..MaxProjections
    <2>1. s \in Sessions
      BY DEF Inv, Pages, TypeOK
    <2> QED BY <1>1, <2>1, ConstantsAssumption DEF CurrentType
  <1>3. p \in Projection /\ p.refs \in Nat
    <2>1. projection[s] \in [1..MaxProjections -> Projection]
      BY <1>1, <1>2 DEF ProjectionType
    <2>2. p \in Projection
      BY <1>2, <2>1
    <2> HIDE DEF p
    <2>3. p.refs \in Nat
      BY <2>2 DEF Projection
    <2> QED BY <2>2, <2>3
  <1> HIDE DEF n, p
  <1>4. q \in Projection /\ q.refs = p.refs + 1 /\ q.busy = p.busy /\ q.commands = p.commands
    <2>1. p.refs + 1 \in Nat
      BY <1>3
    <2> QED BY <1>3, <2>1 DEF Projection
  <1>5. projection' = [projection EXCEPT ![s][n] = q]
    BY <1>1, <1>2, <1>3 DEF Use, n, p, ProjectionType
  <1> HIDE DEF q
  <1>6. /\ ProjectionType(projection') /\ projection'[s][n] = q
        /\ \A r \in Sessions : \A m \in 1..MaxProjections : r # s \/ m # n => projection'[r][m] = projection[r][m]
    BY <1>1, <1>2, <1>4, <1>5 DEF ProjectionType
  <1>7. OpType(op') /\ op'[t] = o /\ \A u \in Operations : u # t => op'[u] = op[u]
    BY <1>1 DEF OpType
  <1>8. Moves(current, projection, projection', op, op', archived, t, s, n)
    <2>1. Is1(op'[t], s, n) = 1
      BY <1>7 DEF Is1, n
    <2>2. n # 0
      BY <1>2, ConstantsAssumption
    <2>3. Is1(op[t], s, n) = 0
      BY <2>2 DEF Is1
    <2>4. Works(q) = Works(p) /\ Works(p) \in {0, 1}
      BY <1>4, WorksType DEF Works
    <2>5. q.refs = p.refs + Works(q) - Works(p) + 1 - 0
      BY <1>3, <1>4, <2>4
    <2>6. \A x \in {op[t], op'[t]} : x.on = 0 \/ (x.session = s /\ x.on = n)
      BY <1>7 DEF n
    <2>7. current[op'[t].session] = op'[t].on /\ op'[t].step # "archived"
      BY <1>7
    <2>8. projection[s][n] = p
      BY DEF p
    <2> QED BY <1>2, <1>4, <1>6, <1>7, <2>1, <2>3, <2>5, <2>6, <2>7, <2>8 DEF Moves
  <1>9. Operating(op', lifecycle', exists', placed', pending', notified')
    <2>1. Operates(op'[t], lifecycle, exists, placed, pending, notified)
      BY <1>2, <1>7 DEF Operates, OnOne, InUse, Named
    <2>2. \A u \in Operations : u # t => Apart(op'[t], op[u]) /\ Apart(op[u], op'[t])
      <3>1. \A u \in Operations : op[u].step \in {"reserved", "archived"} => op[u].session \in lifecycle
        BY DEF Inv, Manager, Operating, Operates
      <3> QED BY <1>7, <3>1 DEF Apart, Named
    <2> QED BY <1>7, <2>1, <2>2, OperatesOn
  <1>10. Idle(projection'[s][n]) => Idle(projection[s][n])
    <2>1. q.refs # 0
      BY <1>3, <1>4
    <2> QED BY <1>6, <2>1 DEF Idle
  <1> QED BY <1>7, <1>8, <1>9, <1>10, Unleased, MovesKeep

\* An operation that is on no projection moves, and stays on none.
LEMMA AsideKeeps ==
  ASSUME Inv, NEW t \in Operations, \A u \in Operations : u # t => op'[u] = op[u],
         op[t].on = 0, op'[t].on = 0, op'[t].step \notin OnOne, OpType(op'),
         UNCHANGED <<current, projection, leases, lifecycle, archived, notified, placed>>,
         Operating(op', lifecycle', exists', placed', pending', notified')
  PROVE  Manager'
  <1>1. /\ Fits(current, projection, leases, op, lifecycle, archived, notified, placed) /\ WithinBudget
        /\ ProjectionType(projection) /\ Counted(projection, op)
    BY DEF Inv, Manager, Fits
  <1>2. Counted(projection, op')
    <2>1. ASSUME NEW s \in Sessions, NEW n \in 1..MaxProjections
          PROVE  projection[s][n].refs = projection[s][n].refs + Works(projection[s][n]) - Works(projection[s][n])
                              + Is1(op'[t], s, n) - Is1(op[t], s, n)
      <3>1. n # 0
        BY ConstantsAssumption
      <3>2. Is1(op'[t], s, n) = 0 /\ Is1(op[t], s, n) = 0
        BY <3>1 DEF Is1
      <3>3. projection[s][n].refs \in Nat /\ Works(projection[s][n]) \in {0, 1}
        BY <1>1, WorksType DEF ProjectionType, Projection
      <3> QED BY <3>2, <3>3
    <2> QED BY <1>1, <2>1, CountStep
  <1>3. Used(current, op', archived)
    <2> SUFFICES ASSUME NEW u \in Operations
        PROVE  /\ op'[u].step \in InUse => current[op'[u].session] = op'[u].on
               /\ op'[u].step = "archived" => op'[u].session \in archived \/ current[op'[u].session] = op'[u].on
      BY DEF Used
    <2>1. CASE u = t
      BY <2>1 DEF OnOne
    <2>2. CASE u # t
      BY <1>1, <2>2 DEF Fits, Used
    <2> QED BY <2>1, <2>2
  <1>4. Fits(current', projection', leases', op', lifecycle', archived', notified', placed')
    BY <1>1, <1>2, <1>3 DEF Fits
  <1>5. WithinBudget'
    BY <1>1 DEF WithinBudget, Evictable
  <1> QED BY <1>4, <1>5 DEF Manager

LEMMA BeginKeeps ==
  ASSUME Inv, NEW t \in Operations, Begin(t)
  PROVE  Manager'
  <1>1. UNCHANGED <<current, leases, lifecycle, pending, exists, archived, notified, placed>>
    BY DEF Begin, store, pi, history
  <1>2. PICK k \in {"open", "work", "archive"}, c \in Clients, s \in placed :
        LET o == [Nobody EXCEPT !.kind = k, !.client = c, !.session = s] IN
        IF current[s] # 0 /\ s \notin lifecycle
        THEN /\ Use(s, current[s])
             /\ op' = [op EXCEPT ![t] = [o EXCEPT !.step = "gate", !.on = current[s]]]
        ELSE /\ op' = [op EXCEPT ![t] = [o EXCEPT !.step = "install", !.queued = s \in disk]]
             /\ UNCHANGED projection
    BY DEF Begin
  <1> DEFINE o == [Nobody EXCEPT !.kind = k, !.client = c, !.session = s]
             e == [o EXCEPT !.step = "gate", !.on = current[s]]
             i == [o EXCEPT !.step = "install", !.queued = s \in disk]
  <1>3. s \in Sessions /\ CurrentType(current) /\ OpType(op)
    BY DEF Inv, Manager, Pages, TypeOK, Fits
  <1>4. o \in Operation /\ o.session = s /\ o.client = c /\ o.on = 0
    BY <1>3, NobodyType DEF Operation
  <1> HIDE DEF o
  <1>5. e \in Operation /\ e.step = "gate" /\ e.on = current[s] /\ e.session = s /\ e.client = c
    <2>1. current[s] \in 0..MaxProjections
      BY <1>3 DEF CurrentType
    <2>2. e.step = "gate" /\ e.on = current[s] /\ e.session = s /\ e.client = c
      BY <1>4 DEF Operation
    <2>3. e \in Operation
      <3> DEFINE n == current[s]
      <3>1. n \in 0..MaxProjections
        BY <2>1
      <3> HIDE DEF n
      <3>2. [o EXCEPT !.step = "gate", !.on = n] \in Operation
        BY <1>4, <3>1 DEF Operation
      <3> QED BY <3>2 DEF n
    <2> QED BY <2>2, <2>3
  <1>6. i \in Operation /\ i.step = "install" /\ i.on = 0 /\ i.session = s /\ i.client = c
    <2> DEFINE b == s \in disk
    <2>1. b \in BOOLEAN
      OBVIOUS
    <2> HIDE DEF b
    <2>2. [o EXCEPT !.step = "install", !.queued = b] \in Operation
      BY <1>4, <2>1 DEF Operation
    <2>3. i.step = "install" /\ i.on = 0 /\ i.session = s /\ i.client = c
      BY <1>4 DEF Operation
    <2> QED BY <2>2, <2>3 DEF b
  <1> HIDE DEF e, i
  <1>7. op[t].on = 0
    BY DEF Inv, Manager, Operating, Operates, OnOne, InUse, Begin
  <1>8. CASE current[s] # 0 /\ s \notin lifecycle
    <2>1. Use(s, current[s]) /\ op' = [op EXCEPT ![t] = e]
      BY <1>2, <1>8 DEF o, e
    <2> QED BY <1>1, <1>5, <1>7, <1>8, <2>1, EntersKeeps
  <1>9. CASE ~(current[s] # 0 /\ s \notin lifecycle)
    <2>1. op' = [op EXCEPT ![t] = i] /\ UNCHANGED projection
      BY <1>2, <1>9 DEF o, i
    <2>2. OpType(op') /\ op'[t] = i /\ \A u \in Operations : u # t => op'[u] = op[u]
      BY <1>3, <1>6, <2>1 DEF OpType
    <2>3. op'[t].step \notin OnOne \cup Named /\ op'[t].on = 0
      BY <1>6, <2>2 DEF OnOne, InUse, Named
    <2>4. Operates(op'[t], lifecycle, exists, placed, pending, notified)
      BY <1>3, <1>6, <2>2 DEF Operates, OnOne, InUse, Named
    <2>5. \A u \in Operations : u # t => Apart(op'[t], op[u]) /\ Apart(op[u], op'[t])
      BY <1>6, <2>2, <2>3 DEF Apart
    <2>6. Operating(op', lifecycle', exists', placed', pending', notified')
      BY <1>1, <2>2, <2>4, <2>5, OperatesOn
    <2> QED BY <1>1, <1>7, <2>1, <2>2, <2>3, <2>6, AsideKeeps
  <1> QED BY <1>8, <1>9

\* A session without a projection gets one, for the operation t.
Makes(cur, pr, cur2, pr2, ops, ops2, told, t, s, n) ==
  /\ s \in Sessions /\ n \in 1..MaxProjections
  /\ cur[s] = 0 /\ cur2 = [cur EXCEPT ![s] = n]
  /\ ProjectionType(pr2)
  /\ \A r \in Sessions : \A m \in 1..MaxProjections : r # s \/ m # n => pr2[r][m] = pr[r][m]
  /\ pr[s][n].refs = Works(pr[s][n]) /\ pr2[s][n].refs = 1 /\ pr2[s][n].busy = "no"
  /\ s \in told => pr2[s][n].commands
  /\ \A u \in Operations : u # t => ops2[u] = ops[u]
  /\ ops[t].on = 0 /\ ops2[t].on = n /\ ops2[t].session = s /\ ops2[t].step # "archived"

LEMMA MakesFits ==
  ASSUME NEW cur, NEW pr, NEW cur2, NEW pr2, NEW ls, NEW ls2, NEW ops, NEW ops2, NEW life, NEW arch, NEW told,
         NEW pl, NEW pl2, NEW t \in Operations, NEW s, NEW n,
         Fits(cur, pr, ls, ops, life, arch, told, pl), Makes(cur, pr, cur2, pr2, ops, ops2, told, t, s, n),
         \A u \in Operations : ops[u].step \in OnOne => ops[u].on # 0,
         s \in pl2, pl \subseteq pl2, told \subseteq Sessions, LeasesType(ls2),
         \A c \in Clients : ls2[c].sessions \subseteq ls[c].sessions \cup {s}
  PROVE  Fits(cur2, pr2, ls2, ops2, life, arch, told, pl2)
  <1>1. /\ s \in Sessions /\ n \in 1..MaxProjections
        /\ cur[s] = 0 /\ cur2 = [cur EXCEPT ![s] = n]
        /\ ProjectionType(pr2)
        /\ \A r \in Sessions : \A m \in 1..MaxProjections : r # s \/ m # n => pr2[r][m] = pr[r][m]
        /\ pr[s][n].refs = Works(pr[s][n]) /\ pr2[s][n].refs = 1 /\ pr2[s][n].busy = "no"
        /\ s \in told => pr2[s][n].commands
        /\ \A u \in Operations : u # t => ops2[u] = ops[u]
        /\ ops[t].on = 0 /\ ops2[t].on = n /\ ops2[t].session = s /\ ops2[t].step # "archived"
    BY DEF Makes
  <1>2. ProjectionType(pr) /\ CurrentType(cur) /\ Counted(pr, ops) /\ n # 0
    BY <1>1, ConstantsAssumption DEF Fits
  <1>3. CurrentType(cur2) /\ cur2[s] = n /\ \A r \in Sessions : r # s => cur2[r] = cur[r]
    BY <1>1, <1>2 DEF CurrentType
  <1>4. Counted(pr2, ops2)
    <2>1. ASSUME NEW r \in Sessions, NEW m \in 1..MaxProjections
          PROVE  pr2[r][m].refs = pr[r][m].refs + Works(pr2[r][m]) - Works(pr[r][m])
                              + Is1(ops2[t], r, m) - Is1(ops[t], r, m)
      <3>1. m # 0
        BY ConstantsAssumption
      <3>2. Is1(ops[t], r, m) = 0
        BY <1>1, <3>1 DEF Is1
      <3>3. CASE r = s /\ m = n
        <4>1. Is1(ops2[t], r, m) = 1 /\ Works(pr2[r][m]) = 0
          BY <1>1, <3>3 DEF Is1, Works
        <4>2. Works(pr[r][m]) \in {0, 1}
          BY WorksType
        <4> QED BY <1>1, <3>2, <3>3, <4>1, <4>2
      <3>4. CASE r # s \/ m # n
        <4>1. pr2[r][m] = pr[r][m] /\ Is1(ops2[t], r, m) = 0
          BY <1>1, <3>4 DEF Is1
        <4>2. pr[r][m].refs \in Nat /\ Works(pr[r][m]) \in {0, 1}
          BY <1>2, WorksType DEF ProjectionType, Projection
        <4> QED BY <3>2, <4>1, <4>2
      <3> QED BY <3>3, <3>4
    <2> QED BY <1>1, <1>2, <2>1, CountStep
  <1>5. Used(cur2, ops2, arch)
    <2> SUFFICES ASSUME NEW u \in Operations
        PROVE  /\ ops2[u].step \in InUse => cur2[ops2[u].session] = ops2[u].on
               /\ ops2[u].step = "archived" => ops2[u].session \in arch \/ cur2[ops2[u].session] = ops2[u].on
      BY DEF Used
    <2>1. CASE u = t
      BY <1>1, <1>3, <2>1
    <2>2. CASE u # t
      <3>1. /\ ops2[u] = ops[u]
            /\ ops[u].step \in InUse => cur[ops[u].session] = ops[u].on
            /\ ops[u].step = "archived" => ops[u].session \in arch \/ cur[ops[u].session] = ops[u].on
        BY <1>1, <2>2 DEF Fits, Used
      <3>2. \A r : r # s => cur2[r] = cur[r]
        BY <1>1, <1>2 DEF CurrentType
      <3>3. ops[u].step \in InUse \/ ops[u].step = "archived" => ops[u].on # 0
        BY DEF OnOne
      <3> QED BY <1>1, <3>1, <3>2, <3>3
    <2> QED BY <2>1, <2>2
  <1>6. Projected(cur2, ls2, life, arch)
    <2> SUFFICES ASSUME NEW c \in Clients, NEW r \in ls2[c].sessions
        PROVE  cur2[r] # 0 \/ r \in life \cup arch
      BY DEF Projected
    <2>1. r \in Sessions
      BY DEF LeasesType
    <2>2. CASE r = s
      BY <1>2, <1>3, <2>2
    <2>3. CASE r # s
      <3>1. r \in ls[c].sessions
        BY <2>3
      <3> QED BY <1>3, <2>1, <2>3, <3>1 DEF Fits, Projected
    <2> QED BY <2>2, <2>3
  <1>7. Told(cur2, pr2, told)
    <2> SUFFICES ASSUME NEW r \in told, cur2[r] # 0
        PROVE  pr2[r][cur2[r]].commands
      BY DEF Told
    <2>1. CASE r = s
      BY <1>1, <1>3, <2>1
    <2>2. CASE r # s
      <3>1. cur2[r] = cur[r] /\ cur[r] \in 1..MaxProjections /\ r \in Sessions
        BY <1>2, <1>3, <2>2, ConstantsAssumption DEF CurrentType
      <3>2. pr[r][cur[r]].commands
        BY <3>1 DEF Fits, Told
      <3> QED BY <1>1, <2>2, <3>1, <3>2
    <2> QED BY <2>1, <2>2
  <1>8. Present(cur2, pl2)
    BY <1>3 DEF Fits, Present
  <1> QED BY <1>1, <1>3, <1>4, <1>5, <1>6, <1>7, <1>8 DEF Fits

LEMMA MakesKeep ==
  ASSUME Inv, NEW t \in Operations, NEW s, NEW n,
         Makes(current, projection, current', projection', op, op', notified, t, s, n),
         UNCHANGED <<lifecycle, archived, notified>>, s \in placed', placed \subseteq placed',
         LeasesType(leases'), Leased(leases) \subseteq Leased(leases'),
         \A c \in Clients : leases'[c].sessions \subseteq leases[c].sessions \cup {s},
         OpType(op'), Operating(op', lifecycle', exists', placed', pending', notified')
  PROVE  Manager'
  <1>1. Fits(current, projection, leases, op, lifecycle, archived, notified, placed) /\ notified \subseteq Sessions
    BY DEF Inv, Manager, Pages, TypeOK
  <1>2. \A u \in Operations : op[u].step \in OnOne => op[u].on # 0
    BY DEF Inv, Manager, Operating, Operates
  <1>3. Fits(current', projection', leases', op', lifecycle, archived, notified, placed')
    BY <1>1, <1>2, MakesFits
  <1>4. Fits(current', projection', leases', op', lifecycle', archived', notified', placed')
    BY <1>3
  <1>5. WithinBudget'
    <2>1. \A r \in Sessions : r # s => current'[r] = current[r]
      BY <1>1 DEF Makes, Fits, CurrentType
    <2>2. current'[s] = n /\ projection'[s][n].refs = 1
      BY <1>1 DEF Makes, Fits, CurrentType
    <2>3. \A r \in Sessions : current[r] # 0 => current[r] \in 1..MaxProjections
      BY <1>1, ConstantsAssumption DEF Fits, CurrentType
    <2>4. \A r \in Sessions : \A m \in 1..MaxProjections : r # s => projection'[r][m] = projection[r][m]
      BY DEF Makes
    <2>5. ASSUME NEW r \in Sessions, current'[r] # 0, Idle(projection'[r][current'[r]])
          PROVE  current[r] # 0 /\ Idle(projection[r][current[r]])
      <3>1. r # s
        BY <2>2, <2>5 DEF Idle
      <3> QED BY <2>1, <2>3, <2>4, <2>5, <3>1
    <2> QED BY <2>5, BudgetKept DEF Inv, Manager
  <1> QED BY <1>4, <1>5 DEF Manager

LEMMA RestoredType ==
  ASSUME NEW queued \in BOOLEAN
  PROVE  /\ Restored(queued) \in Projection /\ Restored(queued).refs = 0 /\ Restored(queued).busy = "no"
         /\ Restored(queued).gate = "free" /\ Restored(queued).commands = TRUE
  BY FreshType DEF Restored, Projection

\* A place that nobody can reach any more.
LEMMA SlotFree ==
  ASSUME Inv, NEW s \in Sessions, Slots(s) # {}
  PROVE  /\ Slot(s) \in 1..MaxProjections /\ Slot(s) # current[s]
         /\ projection[s][Slot(s)].refs = 0 /\ projection[s][Slot(s)].busy = "no"
  <1>1. Slot(s) \in Slots(s)
    BY DEF Slot
  <1>2. Slot(s) \in 1..MaxProjections /\ ~Reached(s, projection[s][Slot(s)], Slot(s), current)
    BY <1>1 DEF Slots
  <1>3. projection[s][Slot(s)].refs \in Nat
    BY <1>2 DEF Inv, Manager, Fits, ProjectionType, Projection
  <1> QED BY <1>2, <1>3 DEF Reached

LEMMA InstallKeeps ==
  ASSUME Inv, NEW t \in Operations, Install(t)
  PROVE  Manager'
  <1> DEFINE s == op[t].session
  <1>1. UNCHANGED <<leases, lifecycle, pending, exists, archived, notified, placed>> /\ op[t].step = "install"
    BY DEF Install, store, pi, history
  <1>2. OpType(op) /\ op[t] \in Operation /\ ProjectionType(projection) /\ CurrentType(current)
    BY DEF Inv, Manager, OpType, Fits
  <1>3. s \in Sessions /\ s \in placed /\ op[t].client \in Clients /\ op[t].on = 0
    BY <1>1 DEF Inv, Manager, Operating, Operates, OnOne, InUse
  <1>4. CASE End(t) /\ UNCHANGED <<current, projection>>
    <2>1. OpType(op') /\ op'[t] = Nobody /\ \A u \in Operations : u # t => op'[u] = op[u]
      BY <1>2, <1>4, EndEffect
    <2>2. op'[t].step = "idle" /\ op'[t].on = 0 /\ op'[t].session = "none"
      BY <2>1, NobodyType
    <2>3. Operates(op'[t], lifecycle, exists, placed, pending, notified)
      BY <2>2 DEF Operates, OnOne, InUse, Named
    <2>4. \A u \in Operations : u # t => Apart(op'[t], op[u]) /\ Apart(op[u], op'[t])
      BY <2>2 DEF Apart, Named
    <2>5. Operating(op', lifecycle', exists', placed', pending', notified')
      BY <1>1, <2>1, <2>3, <2>4, OperatesOn
    <2>6. op'[t].step \notin OnOne
      BY <2>2 DEF OnOne, InUse
    <2> QED BY <1>1, <1>3, <1>4, <2>1, <2>2, <2>5, <2>6, AsideKeeps
  <1>5. ASSUME NEW n \in 0..MaxProjections, op' = [op EXCEPT ![t].step = "gate", ![t].on = n, ![t].queued = FALSE]
        PROVE  \E o \in Operation : /\ op' = [op EXCEPT ![t] = o] /\ o.step = "gate" /\ o.on = n
                                    /\ o.session = s /\ o.client \in Clients
    <2> DEFINE o == [op[t] EXCEPT !.step = "gate", !.on = n, !.queued = FALSE]
    <2>1. o \in Operation /\ o.step = "gate" /\ o.on = n /\ o.session = s /\ o.client = op[t].client
      BY <1>2 DEF Operation
    <2>2. op' = [op EXCEPT ![t] = o]
      BY <1>2, <1>5 DEF OpType, Operation
    <2> HIDE DEF o
    <2> QED BY <1>3, <2>1, <2>2
  <1>6. CASE /\ s \notin lifecycle /\ current[s] # 0 /\ Use(s, current[s])
             /\ op' = [op EXCEPT ![t].step = "gate", ![t].on = current[s], ![t].queued = FALSE]
             /\ UNCHANGED current
    <2>1. current[s] \in 0..MaxProjections
      BY <1>2, <1>3 DEF CurrentType
    <2>2. PICK o \in Operation : /\ op' = [op EXCEPT ![t] = o] /\ o.step = "gate" /\ o.on = current[s]
                                 /\ o.session = s /\ o.client \in Clients
      BY <1>5, <1>6, <2>1
    <2> HIDE DEF s
    <2> QED BY <1>1, <1>3, <1>6, <2>2, EntersKeeps
  <1>7. CASE /\ s \notin lifecycle /\ current[s] = 0 /\ Slots(s) # {}
             /\ current' = [current EXCEPT ![s] = Slot(s)]
             /\ projection' = [projection EXCEPT ![s][Slot(s)] = [Restored(op[t].queued) EXCEPT !.refs = 1]]
             /\ op' = [op EXCEPT ![t].step = "gate", ![t].on = Slot(s), ![t].queued = FALSE]
    <2> DEFINE n == Slot(s)
               q == [Restored(op[t].queued) EXCEPT !.refs = 1]
    <2>1. n \in 1..MaxProjections /\ projection[s][n].refs = 0 /\ projection[s][n].busy = "no"
      BY <1>3, <1>7, SlotFree
    <2>2. q \in Projection /\ q.refs = 1 /\ q.busy = "no" /\ q.commands = TRUE
      <3>1. op[t].queued \in BOOLEAN
        BY <1>2 DEF Operation
      <3> QED BY <3>1, RestoredType DEF Projection
    <2>3. n \in 0..MaxProjections
      BY <2>1, ConstantsAssumption
    <2>4. PICK o \in Operation : /\ op' = [op EXCEPT ![t] = o] /\ o.step = "gate" /\ o.on = n
                                 /\ o.session = s /\ o.client \in Clients
      BY <1>5, <1>7, <2>3
    <2>5. OpType(op') /\ op'[t] = o /\ \A u \in Operations : u # t => op'[u] = op[u]
      BY <1>2, <2>4 DEF OpType
    <2>6. projection' = [projection EXCEPT ![s][n] = q] /\ current' = [current EXCEPT ![s] = n]
      BY <1>7
    <2> HIDE DEF q, n
    <2>7. /\ ProjectionType(projection') /\ projection'[s][n] = q
          /\ \A r \in Sessions : \A m \in 1..MaxProjections : r # s \/ m # n => projection'[r][m] = projection[r][m]
      BY <1>2, <1>3, <2>1, <2>2, <2>6 DEF ProjectionType
    <2>8. Makes(current, projection, current', projection', op, op', notified, t, s, n)
      <3>1. projection[s][n].refs = Works(projection[s][n])
        BY <2>1 DEF Works
      <3>2. op'[t].on = n /\ op'[t].session = s /\ op'[t].step # "archived"
        BY <2>4, <2>5
      <3> QED BY <1>3, <1>7, <2>1, <2>2, <2>5, <2>6, <2>7, <3>1, <3>2 DEF Makes
    <2>9. Operating(op', lifecycle', exists', placed', pending', notified')
      <3>1. n # 0
        BY <2>1, ConstantsAssumption
      <3>2. Operates(op'[t], lifecycle, exists, placed, pending, notified)
        BY <1>3, <2>4, <2>5, <3>1 DEF Operates, OnOne, InUse, Named
      <3>3. \A u \in Operations : op[u].step \in {"reserved", "archived"} => op[u].session \in lifecycle
        BY DEF Inv, Manager, Operating, Operates
      <3>4. \A u \in Operations : u # t => Apart(op'[t], op[u]) /\ Apart(op[u], op'[t])
        BY <1>7, <2>4, <2>5, <3>3 DEF Apart, Named
      <3> QED BY <1>1, <2>5, <3>2, <3>4, OperatesOn
    <2>10. LeasesType(leases') /\ Leased(leases) \subseteq Leased(leases')
      BY <1>1, Unleased
    <2>11. \A c \in Clients : leases'[c].sessions \subseteq leases[c].sessions \cup {s}
      BY <1>1
    <2>12. s \in placed' /\ placed \subseteq placed'
      BY <1>1, <1>3
    <2> HIDE DEF s
    <2> QED BY <1>1, <2>5, <2>8, <2>9, <2>10, <2>11, <2>12, MakesKeep
  <1> QED BY <1>4, <1>6, <1>7 DEF Install

\* beginLifecycle: who is alone on the projection is alone on the session.
LEMMA AloneOnSession ==
  ASSUME Inv, NEW t \in Operations, op[t].step = "attached", At(t).refs <= 1,
         NEW u \in Operations, u # t, op[u].session = op[t].session
  PROVE  op[u].on = 0
  <1> SUFFICES ASSUME op[u].on # 0
      PROVE  FALSE
    OBVIOUS
  <1> DEFINE s == op[t].session
             n == op[t].on
             C == Cardinality(On(op, s, n))
  <1>1. op[t].step \in OnOne /\ op[t].step \in InUse
    BY DEF OnOne, InUse
  <1>2. s \in Sessions /\ n \in 1..MaxProjections /\ n # 0 /\ At(t).refs \in Nat
    BY <1>1, OnOneFacts, ConstantsAssumption
  <1>3. op[u].step \in OnOne
    BY DEF Inv, Manager, Operating, Operates
  <1>4. op[u].step # "archived"
    <2>1. Apart(op[u], op[t])
      BY DEF Inv, Manager, Operating
    <2> QED BY <1>2, <2>1 DEF Apart
  <1>5. op[u].step \in InUse
    BY <1>3, <1>4 DEF OnOne
  <1>6. op[u].on = n
    BY <1>1, <1>5 DEF Inv, Manager, Fits, Used
  <1>7. t \in On(op, s, n) /\ u \in On(op, s, n) \ {t}
    BY <1>6 DEF On
  <1>8. IsFiniteSet(On(op, s, n)) /\ C \in Nat
    BY OnFinite
  <1>9. IsFiniteSet(On(op, s, n) \ {t}) /\ Cardinality(On(op, s, n) \ {t}) = C - 1
    BY <1>7, <1>8, FS_RemoveElement
  <1>10. Cardinality(On(op, s, n) \ {t}) # 0 /\ Cardinality(On(op, s, n) \ {t}) \in Nat
    BY <1>7, <1>9, FS_EmptySet, FS_CardinalityType
  <1>11. At(t).refs = C + Works(At(t)) /\ Works(At(t)) \in {0, 1}
    BY <1>2, WorksType DEF Inv, Manager, Fits, Counted, At
  <1> HIDE DEF C
  <1> QED BY <1>2, <1>8, <1>9, <1>10, <1>11

LEMMA ReserveKeeps ==
  ASSUME Inv, NEW t \in Operations, Reserve(t)
  PROVE  Manager'
  <1>1. op[t].step = "attached" /\ op[t].step \in OnOne /\ op[t].step \in InUse
    BY DEF Reserve, OnOne, InUse
  <1>2. UNCHANGED <<pending, exists, archived, notified, placed>>
    BY DEF Reserve, store, pi, history
  <1>3. CASE Release(t, Freed(t), leases) /\ UNCHANGED lifecycle
    BY <1>1, <1>2, <1>3, Released, Releases
  <1>4. CASE /\ OnlyUser(t) /\ lifecycle' = lifecycle \cup {op[t].session} /\ Step(t, "reserved")
             /\ UNCHANGED <<current, projection, leases>>
    <2> DEFINE s == op[t].session
               n == op[t].on
    <2>1. /\ s \in Sessions /\ n \in 1..MaxProjections /\ op[t].client \in Clients /\ s \in placed
          /\ At(t).refs \in Nat /\ Works(At(t)) \in {0, 1}
      BY <1>1, OnOneFacts
    <2>2. /\ OpType(op') /\ op'[t].step = "reserved" /\ op'[t].on = n /\ op'[t].session = s
          /\ op'[t].client = op[t].client /\ \A u \in Operations : u # t => op'[u] = op[u]
      BY <1>4, StepEffect DEF Inv, Manager
    <2>3. Fits(current, projection, leases, op, lifecycle, archived, notified, placed) /\ notified \subseteq Sessions
      BY DEF Inv, Manager, Pages, TypeOK
    <2>4. Moves(current, projection, projection, op, op', archived, t, s, n)
      <3>1. Is1(op'[t], s, n) = 1 /\ Is1(op[t], s, n) = 1 /\ projection[s][n] = At(t)
        BY <2>2 DEF Is1, At
      <3>2. current[s] = n
        BY <1>1, <2>3 DEF Fits, Used
      <3>3. At(t).refs = At(t).refs + Works(At(t)) - Works(At(t)) + 1 - 1
        BY <2>1
      <3>4. \A o \in {op[t], op'[t]} : o.on = 0 \/ (o.session = s /\ o.on = n)
        BY <2>2
      <3>5. ProjectionType(projection)
        BY <2>3 DEF Fits
      <3> HIDE DEF s, n
      <3> QED BY <2>1, <2>2, <3>1, <3>2, <3>3, <3>4, <3>5 DEF Moves, InUse
    <2>5. Fits(current, projection, leases, op', lifecycle, archived, notified, placed)
      BY <2>3, <2>4, MoveFits
    <2>6. Fits(current', projection', leases', op', lifecycle', archived', notified', placed')
      BY <1>2, <1>4, <2>5 DEF Fits, Projected
    <2>7. Operating(op', lifecycle', exists', placed', pending', notified')
      <3>1. Operating(op, lifecycle, exists, placed, pending, notified)
        BY DEF Inv, Manager
      <3>2. Operates(op'[t], lifecycle', exists, placed, pending, notified)
        BY <1>4, <2>1, <2>2, ConstantsAssumption DEF Operates, OnOne, InUse, Named
      <3>3. \A u \in Operations : u # t => Operates(op[u], lifecycle', exists, placed, pending, notified)
        BY <1>4, <3>1 DEF Operating, Operates
      <3>4. \A u \in Operations : u # t => Apart(op'[t], op[u]) /\ Apart(op[u], op'[t])
        <4>1. \A u \in Operations : u # t => Apart(op[t], op[u]) /\ Apart(op[u], op[t])
          BY <3>1 DEF Operating
        <4>2. \A u \in Operations : u # t /\ op[u].session = s => op[u].on = 0
          BY <1>1, <1>4, AloneOnSession DEF OnlyUser
        <4> QED BY <1>1, <2>2, <4>1, <4>2 DEF Apart, Named
      <3> QED BY <1>2, <2>2, <3>1, <3>2, <3>3, <3>4, OperatingStep
    <2>8. WithinBudget'
      BY <1>4 DEF WithinBudget, Evictable, Inv, Manager
    <2> QED BY <2>2, <2>6, <2>7, <2>8 DEF Manager
  <1> QED BY <1>3, <1>4 DEF Reserve

LEMMA ArchiveKeeps ==
  ASSUME Inv, NEW t \in Operations, Archive(t)
  PROVE  Manager'
  <1> DEFINE s == op[t].session
             n == op[t].on
  <1>1. op[t].step = "reserved" /\ op[t].step \in OnOne
    BY DEF Archive, OnOne, InUse
  <1>2. UNCHANGED <<projection, leases, lifecycle, pending, exists, notified, placed>>
    BY DEF Archive, store, pi, history
  <1>3. /\ s \in Sessions /\ n \in 1..MaxProjections /\ op[t].client \in Clients /\ s \in placed
        /\ At(t).refs \in Nat /\ Works(At(t)) \in {0, 1}
    BY <1>1, OnOneFacts
  <1>4. /\ OpType(op') /\ op'[t].step = "archived" /\ op'[t].on = n /\ op'[t].session = s
        /\ op'[t].client = op[t].client /\ \A u \in Operations : u # t => op'[u] = op[u]
    BY StepEffect DEF Inv, Manager, Archive
  <1>5. Fits(current, projection, leases, op, lifecycle, archived, notified, placed) /\ notified \subseteq Sessions
    BY DEF Inv, Manager, Pages, TypeOK
  <1>6. current[s] = n /\ Operating(op, lifecycle, exists, placed, pending, notified)
    BY <1>1, <1>5 DEF Fits, Used, InUse, Inv, Manager
  <1>7. Moves(current, projection, projection, op, op', archived, t, s, n)
    <2>1. Is1(op'[t], s, n) = 1 /\ Is1(op[t], s, n) = 1 /\ projection[s][n] = At(t)
      BY <1>4 DEF Is1, At
    <2>2. At(t).refs = At(t).refs + Works(At(t)) - Works(At(t)) + 1 - 1
      BY <1>3
    <2>3. \A o \in {op[t], op'[t]} : o.on = 0 \/ (o.session = s /\ o.on = n)
      BY <1>4
    <2>4. ProjectionType(projection)
      BY <1>5 DEF Fits
    <2> HIDE DEF s, n
    <2> QED BY <1>3, <1>4, <1>6, <2>1, <2>2, <2>3, <2>4 DEF Moves, InUse
  <1>8. Fits(current, projection, leases, op', lifecycle, archived, notified, placed)
    BY <1>5, <1>7, MoveFits
  <1>9. Operating(op', lifecycle', exists', placed', pending', notified')
    <2>1. Operates(op'[t], lifecycle, exists, placed, pending, notified)
      BY <1>1, <1>4, <1>6 DEF Operating, Operates, OnOne, InUse, Named
    <2>2. \A u \in Operations : u # t => Apart(op[t], op[u]) /\ Apart(op[u], op[t])
      BY <1>6 DEF Operating
    <2>3. \A u \in Operations : u # t => Apart(op'[t], op[u]) /\ Apart(op[u], op'[t])
      BY <1>1, <1>4, <2>2 DEF Apart, Named
    <2> QED BY <1>2, <1>4, <2>1, <2>3, OperatesOn
  <1>10. CASE UNCHANGED <<archived, current>>
    <2>1. Fits(current', projection', leases', op', lifecycle', archived', notified', placed')
      BY <1>2, <1>8, <1>10
    <2>2. WithinBudget'
      BY <1>2, <1>10 DEF WithinBudget, Evictable, Inv, Manager
    <2> QED BY <1>4, <1>9, <2>1, <2>2 DEF Manager
  <1>11. CASE archived' = archived \cup {s} /\ current' = [current EXCEPT ![s] = 0]
    <2>1. CurrentType(current') /\ current'[s] = 0 /\ \A r : r # s => current'[r] = current[r]
      BY <1>3, <1>5, <1>11, ConstantsAssumption DEF Fits, CurrentType
    <2>2. Used(current', op', archived')
      <3>1. ASSUME NEW u \in Operations, u # t, op[u].step \in InUse
            PROVE  op[u].session # s
        <4>1. Apart(op[t], op[u]) /\ op[u].on # 0
          BY <1>6, <3>1 DEF Operating, Operates, OnOne
        <4> QED BY <1>1, <4>1 DEF Apart
      <3> SUFFICES ASSUME NEW u \in Operations
          PROVE  /\ op'[u].step \in InUse => current'[op'[u].session] = op'[u].on
                 /\ op'[u].step = "archived" => op'[u].session \in archived' \/ current'[op'[u].session] = op'[u].on
        BY DEF Used
      <3>2. CASE u = t
        BY <1>4, <1>11, <3>2 DEF InUse
      <3>3. CASE u # t
        <4>1. /\ op'[u] = op[u]
              /\ op[u].step \in InUse => current[op[u].session] = op[u].on
              /\ op[u].step = "archived" => op[u].session \in archived \/ current[op[u].session] = op[u].on
          BY <1>4, <1>5, <3>3 DEF Fits, Used
        <4>2. op[u].step \in InUse => op[u].session # s
          BY <3>1, <3>3
        <4> HIDE DEF s
        <4> QED BY <1>11, <2>1, <4>1, <4>2
      <3> QED BY <3>2, <3>3
    <2> HIDE DEF s
    <2>3. Projected(current', leases', lifecycle', archived')
      BY <1>2, <1>5, <1>11, <2>1 DEF Fits, Projected
    <2>4. Told(current', projection', notified') /\ Present(current', placed')
      BY <1>2, <1>5, <2>1 DEF Fits, Told, Present
    <2>5. Fits(current', projection', leases', op', lifecycle', archived', notified', placed')
      BY <1>2, <1>8, <2>1, <2>2, <2>3, <2>4 DEF Fits
    <2>6. WithinBudget'
      BY <1>2, <2>1, BudgetKept DEF Inv, Manager
    <2> QED BY <1>4, <1>9, <2>5, <2>6 DEF Manager
  <1> QED BY <1>10, <1>11 DEF Archive

LEMMA FinishKeeps ==
  ASSUME Inv, NEW t \in Operations, Finish(t)
  PROVE  Manager'
  <1> DEFINE s == op[t].session
             life == lifecycle \ {s}
  <1>1. op[t].step = "archived" /\ op[t].step \in OnOne
    BY DEF Finish, OnOne, InUse
  <1>2. /\ UNCHANGED <<pending, exists, archived, notified, placed>>
        /\ lifecycle' = life /\ Release(t, Freed(t), leases)
    BY DEF Finish, store, pi, history
  <1>3. /\ Fits(current, projection, leases, op, lifecycle, archived, notified, placed)
        /\ Operating(op, lifecycle, exists, placed, pending, notified)
    BY DEF Inv, Manager
  <1>4. s \in archived \/ current[s] # 0
    BY <1>1, <1>3, OnOneFacts, ConstantsAssumption DEF Fits, Used
  <1>5. Projected(current, leases, life, archived)
    BY <1>3, <1>4 DEF Fits, Projected
  <1>6. \A u \in Operations : u # t /\ op[u].step \in {"reserved", "archived"} => op[u].session \in life
    <2> SUFFICES ASSUME NEW u \in Operations, u # t, op[u].step \in {"reserved", "archived"}
        PROVE  op[u].session \in life
      OBVIOUS
    <2>1. Apart(op[t], op[u]) /\ op[u].session \in lifecycle /\ op[u].on # 0
      BY <1>3 DEF Operating, Operates, OnOne, InUse
    <2> QED BY <1>1, <2>1 DEF Apart
  <1>7. /\ Freed(t) \in Projection /\ Freed(t).refs - Works(Freed(t)) = At(t).refs - Works(At(t))
        /\ Freed(t).refs > 0
        /\ At(t).commands => Freed(t).commands
    BY <1>1, Released
  <1> DEFINE p == Freed(t)
  <1>9. p \in Projection /\ p.refs > 0 /\ p.refs - Works(p) = At(t).refs - Works(At(t))
    BY <1>7
  <1>10. (At(t).commands => p.commands) /\ Release(t, p, leases)
    BY <1>2, <1>7
  <1> HIDE DEF life, p
  <1>8. /\ OpType(op') /\ Operating(op', life, exists, placed, pending, notified)
        /\ Fits(current', projection', leases', op', life, archived, notified, placed)
        /\ WithinBudget'
    BY <1>1, <1>5, <1>6, <1>9, <1>10, ReleaseKeeps
  <1> QED BY <1>2, <1>8 DEF Manager

-----------------------------------------------------------------------------
(* The steps of a creation. *)

\* Whoever else is creating a session keeps what was announced for it.
LEMMA LeftKeeps ==
  ASSUME Inv, NEW t \in Operations, op[t].step \in {"new", "record", "place"},
         NEW u \in Operations, u # t, op[u].step \in Named, op[u].session \in notified
  PROVE  op[u].session \in Left(t)
  <1>1. /\ Operates(op[u], lifecycle, exists, placed, pending, notified)
        /\ Operates(op[t], lifecycle, exists, placed, pending, notified) /\ Apart(op[t], op[u])
    BY DEF Inv, Manager, Operating
  <1>2. op[u].session \in pending /\ op[u].session \in Sessions /\ Creating(op[u])
    BY <1>1 DEF Operates, Named, Creating
  <1>3. op[u].session # op[t].session
    BY <1>1, <1>2, ConstantsAssumption DEF Operates, Apart, Named
  <1>4. u \in Operations \ {t}
    OBVIOUS
  <1> QED BY <1>2, <1>3, <1>4 DEF Left

LEMMA NotOnOne ==
  ASSUME Inv, NEW t \in Operations, op[t].step \notin OnOne
  PROVE  op[t].on = 0 /\ op[t] \in Operation /\ OpType(op)
         /\ Operates(op[t], lifecycle, exists, placed, pending, notified)
  BY DEF Inv, Manager, Operating, Operates, OpType

LEMMA BeginCreateKeeps ==
  ASSUME Inv, NEW t \in Operations, BeginCreate(t)
  PROVE  Manager'
  <1>1. UNCHANGED <<current, projection, leases, lifecycle, pending, exists, archived, notified, placed>>
    BY DEF BeginCreate, manager, store, pi, history
  <1>2. op[t].on = 0 /\ OpType(op)
    BY NotOnOne DEF BeginCreate, OnOne, InUse
  <1>3. PICK c \in Clients : op' = [op EXCEPT ![t] = [Nobody EXCEPT !.kind = "create", !.client = c, !.step = "new"]]
    BY DEF BeginCreate
  <1> DEFINE o == [Nobody EXCEPT !.kind = "create", !.client = c, !.step = "new"]
  <1>4. o \in Operation /\ o.kind = "create" /\ o.client = c /\ o.step = "new" /\ o.session = "none" /\ o.on = 0
    BY NobodyType DEF Operation
  <1> HIDE DEF o
  <1>5. OpType(op') /\ op'[t] = o /\ \A u \in Operations : u # t => op'[u] = op[u]
    BY <1>2, <1>3, <1>4 DEF OpType, o
  <1>6. Operates(op'[t], lifecycle, exists, placed, pending, notified)
    BY <1>4, <1>5 DEF Operates, OnOne, InUse, Named
  <1>7. \A u \in Operations : u # t => Apart(op'[t], op[u]) /\ Apart(op[u], op'[t])
    BY <1>4, <1>5 DEF Apart, Named
  <1>8. Operating(op', lifecycle', exists', placed', pending', notified')
    BY <1>1, <1>5, <1>6, <1>7, OperatesOn
  <1>9. op'[t].on = 0 /\ op'[t].step \notin OnOne
    BY <1>4, <1>5 DEF OnOne, InUse
  <1> QED BY <1>1, <1>2, <1>5, <1>8, <1>9, AsideKeeps

LEMMA NewSessionKeeps ==
  ASSUME Inv, NEW t \in Operations, NewSession(t)
  PROVE  Manager'
  <1>1. /\ UNCHANGED <<current, projection, leases, lifecycle, pending, archived, notified, placed>>
        /\ op[t].step = "new"
    BY DEF NewSession, manager, store, pi, history
  <1>2. op[t].on = 0 /\ OpType(op) /\ op[t] \in Operation /\ op[t].client \in Clients /\ op[t].kind = "create"
    BY <1>1, NotOnOne DEF OnOne, InUse, Operates
  <1>3. PICK s \in Sessions \ exists :
          exists' = exists \cup {s} /\ op' = [op EXCEPT ![t].step = "record", ![t].session = s]
    BY DEF NewSession
  <1> DEFINE o == [op[t] EXCEPT !.step = "record", !.session = s]
  <1>4. /\ o \in Operation /\ o.step = "record" /\ o.session = s /\ o.on = 0 /\ o.client \in Clients
        /\ o.kind = "create"
    BY <1>2 DEF Operation
  <1>5. op' = [op EXCEPT ![t] = o]
    BY <1>2, <1>3 DEF OpType, Operation
  <1> HIDE DEF o
  <1>6. OpType(op') /\ op'[t] = o /\ \A u \in Operations : u # t => op'[u] = op[u]
    BY <1>2, <1>4, <1>5 DEF OpType
  <1>7. s \notin placed /\ s \notin notified /\ s \in Sessions
    BY <1>3 DEF Inv, Pages, Stored
  <1>8. Operates(op'[t], lifecycle', exists', placed', pending', notified')
    <2>1. s \in exists' \ placed' /\ s \notin notified'
      BY <1>1, <1>3, <1>7
    <2>2. o.step \notin OnOne /\ o.step \notin {"install", "idle", "new", "reserved", "archived"}
      BY <1>4 DEF OnOne, InUse
    <2>3. Operates(o, lifecycle', exists', placed', pending', notified')
      BY <1>4, <1>7, <2>1, <2>2 DEF Operates
    <2> QED BY <1>6, <2>3
  <1>9. Operating(op, lifecycle, exists, placed, pending, notified)
    BY DEF Inv, Manager
  <1>10. \A u \in Operations : u # t => Operates(op[u], lifecycle', exists', placed', pending', notified')
    BY <1>1, <1>3, <1>9 DEF Operating, Operates
  <1>11. \A u \in Operations : u # t => Apart(op'[t], op[u]) /\ Apart(op[u], op'[t])
    <2>1. \A u \in Operations : op[u].step \in Named => op[u].session # s
      BY <1>3, <1>9 DEF Operating, Operates
    <2> QED BY <1>4, <1>6, <2>1 DEF Apart, Named
  <1>12. Operating(op', lifecycle', exists', placed', pending', notified')
    BY <1>6, <1>8, <1>9, <1>10, <1>11, OperatingStep
  <1>13. op'[t].on = 0 /\ op'[t].step \notin OnOne
    BY <1>4, <1>6 DEF OnOne, InUse
  <1> QED BY <1>1, <1>2, <1>6, <1>12, <1>13, AsideKeeps

LEMMA CreateFailsKeeps ==
  ASSUME Inv, NEW t \in Operations, CreateFails(t)
  PROVE  Manager'
  <1>1. /\ UNCHANGED <<current, projection, leases, lifecycle, exists, archived, notified, placed>>
        /\ op[t].step \in {"new", "record", "place"} /\ pending' = Left(t)
    BY DEF CreateFails, store, pi, history
  <1>2. op[t].on = 0 /\ OpType(op)
    BY <1>1, NotOnOne DEF OnOne, InUse
  <1>3. OpType(op') /\ op'[t] = Nobody /\ \A u \in Operations : u # t => op'[u] = op[u]
    BY <1>2, EndEffect DEF CreateFails
  <1>4. op'[t].step = "idle" /\ op'[t].on = 0 /\ op'[t].session = "none"
    BY <1>3, NobodyType
  <1>5. Operates(op'[t], lifecycle', exists', placed', pending', notified')
    BY <1>4 DEF Operates, OnOne, InUse, Named
  <1>6. Operating(op, lifecycle, exists, placed, pending, notified)
    BY DEF Inv, Manager
  <1>7. \A u \in Operations : u # t => Operates(op[u], lifecycle', exists', placed', pending', notified')
    <2>1. \A u \in Operations : u # t /\ op[u].step \in Named /\ op[u].session \in notified => op[u].session \in pending'
      BY <1>1, LeftKeeps
    <2> QED BY <1>1, <1>6, <2>1 DEF Operating, Operates
  <1>8. \A u \in Operations : u # t => Apart(op'[t], op[u]) /\ Apart(op[u], op'[t])
    BY <1>4 DEF Apart, Named
  <1>9. Operating(op', lifecycle', exists', placed', pending', notified')
    BY <1>3, <1>5, <1>6, <1>7, <1>8, OperatingStep
  <1>10. op'[t].step \notin OnOne
    BY <1>4 DEF OnOne, InUse
  <1> QED BY <1>1, <1>2, <1>3, <1>4, <1>9, <1>10, AsideKeeps

LEMMA RecordKeeps ==
  ASSUME Inv, NEW t \in Operations, Record(t)
  PROVE  Manager'
  <1>1. /\ UNCHANGED <<current, projection, leases, lifecycle, pending, exists, archived, notified, placed>>
        /\ op[t].step = "record" /\ Step(t, "place")
    BY DEF Record, manager, pi, history
  <1>2. op[t].on = 0 /\ OpType(op) /\ Operates(op[t], lifecycle, exists, placed, pending, notified)
    BY <1>1, NotOnOne DEF OnOne, InUse
  <1>3. /\ OpType(op') /\ op'[t].step = "place" /\ op'[t].on = 0 /\ op'[t].session = op[t].session
        /\ op'[t].client = op[t].client /\ op'[t].kind = op[t].kind
        /\ \A u \in Operations : u # t => op'[u] = op[u]
    BY <1>1, <1>2, StepEffect
  <1>4. Operates(op'[t], lifecycle, exists, placed, pending, notified)
    BY <1>1, <1>2, <1>3 DEF Operates, OnOne, InUse, Named
  <1>5. \A u \in Operations : u # t => Apart(op'[t], op[u]) /\ Apart(op[u], op'[t])
    <2>1. \A u \in Operations : u # t => Apart(op[t], op[u]) /\ Apart(op[u], op[t])
      BY DEF Inv, Manager, Operating
    <2> QED BY <1>1, <1>2, <1>3, <2>1 DEF Apart, Named
  <1>6. Operating(op', lifecycle', exists', placed', pending', notified')
    BY <1>1, <1>3, <1>4, <1>5, OperatesOn
  <1>7. op'[t].step \notin OnOne
    BY <1>3 DEF OnOne, InUse
  <1> QED BY <1>1, <1>2, <1>3, <1>6, <1>7, AsideKeeps

LEMMA RetainedGrows ==
  ASSUME Inv, NEW c \in Clients, NEW s \in Sessions, leases' = Retained(c, s)
  PROVE  /\ LeasesType(leases') /\ Leased(leases) \subseteq Leased(leases')
         /\ \A d \in Clients : /\ leases[d].sessions \subseteq leases'[d].sessions
                               /\ leases'[d].sessions \subseteq leases[d].sessions \cup {s}
                               /\ leases'[d].revision = leases[d].revision
                               /\ leases[d].revision > 0 => leases'[d] = leases[d]
  <1>1. LeasesType(leases)
    BY DEF Inv, Manager, Fits
  <1>2. CASE leases' = leases
    BY <1>1, <1>2
  <1>3. CASE leases[c].revision = 0 /\ leases' = [leases EXCEPT ![c].sessions = @ \cup {s}]
    <2>1. LeasesType(leases')
      BY <1>1, <1>3 DEF LeasesType
    <2>2. \A d \in Clients : /\ leases[d].sessions \subseteq leases'[d].sessions
                             /\ leases'[d].sessions \subseteq leases[d].sessions \cup {s}
                             /\ leases'[d].revision = leases[d].revision
      BY <1>1, <1>3 DEF LeasesType
    <2>3. \A d \in Clients : leases[d].revision > 0 => leases'[d] = leases[d]
      BY <1>1, <1>3 DEF LeasesType
    <2>4. Leased(leases) \subseteq Leased(leases')
      BY <2>2 DEF Leased
    <2> QED BY <2>1, <2>2, <2>3, <2>4
  <1> QED BY <1>2, <1>3 DEF Retained

LEMMA PlaceKeeps ==
  ASSUME Inv, NEW t \in Operations, Place(t)
  PROVE  Manager'
  <1> DEFINE s == op[t].session
             q == [Fresh EXCEPT !.refs = 1, !.commands = s \in pending]
             o == [op[t] EXCEPT !.kind = "open", !.step = "use", !.on = 1]
  <1>1. /\ UNCHANGED <<lifecycle, exists, archived, notified>> /\ op[t].step = "place"
        /\ pending' = Left(t) /\ placed' = placed \cup {s} /\ leases' = Retained(op[t].client, s)
    BY DEF Place, store, pi
  <1>2. /\ op[t].on = 0 /\ OpType(op) /\ op[t] \in Operation
        /\ Operates(op[t], lifecycle, exists, placed, pending, notified)
    BY <1>1, NotOnOne DEF OnOne, InUse
  <1>3. /\ s \in Sessions /\ s \in exists \ placed /\ (s \in notified => s \in pending)
        /\ op[t].client \in Clients
    BY <1>1, <1>2 DEF Operates, OnOne, InUse, Named
  <1>4. 1 \in 1..MaxProjections /\ 1 \in 0..MaxProjections
    BY ConstantsAssumption
  <1>5. o \in Operation /\ o.step = "use" /\ o.on = 1 /\ o.session = s /\ o.client = op[t].client /\ o.kind = "open"
    BY <1>2, <1>4 DEF Operation
  <1>6. op' = [op EXCEPT ![t] = o]
    BY <1>2 DEF Place, OpType, Operation
  <1> HIDE DEF o
  <1>7. OpType(op') /\ op'[t] = o /\ \A u \in Operations : u # t => op'[u] = op[u]
    BY <1>2, <1>5, <1>6 DEF OpType
  <1>8. q \in Projection /\ q.refs = 1 /\ q.busy = "no" /\ q.commands = (s \in pending)
    <2>1. (s \in pending) \in BOOLEAN
      OBVIOUS
    <2> QED BY <2>1, FreshType DEF Projection
  <1>9. projection' = [projection EXCEPT ![s][1] = q] /\ current' = [current EXCEPT ![s] = 1]
    BY DEF Place
  <1> HIDE DEF q
  <1>10. ProjectionType(projection) /\ Counted(projection, op)
    BY DEF Inv, Manager, Fits
  <1>11. /\ ProjectionType(projection') /\ projection'[s][1] = q
         /\ \A r \in Sessions : \A m \in 1..MaxProjections : r # s \/ m # 1 => projection'[r][m] = projection[r][m]
    BY <1>3, <1>4, <1>8, <1>9, <1>10 DEF ProjectionType
  <1>12. \A u \in Operations : op[u].on # 0 => op[u].session # s
    BY <1>3 DEF Inv, Manager, Operating, Operates
  <1>13. projection[s][1].refs = Works(projection[s][1])
    <2>1. On(op, s, 1) = {}
      BY <1>12 DEF On
    <2>2. Cardinality(On(op, s, 1)) = 0
      BY <2>1, FS_EmptySet
    <2>3. projection[s][1].refs = Cardinality(On(op, s, 1)) + Works(projection[s][1])
      BY <1>3, <1>4, <1>10 DEF Counted
    <2>4. Works(projection[s][1]) \in {0, 1}
      BY WorksType
    <2> QED BY <2>2, <2>3, <2>4
  <1>14. current[s] = 0
    BY <1>3 DEF Inv, Manager, Fits, Present
  <1>15. Makes(current, projection, current', projection', op, op', notified, t, s, 1)
    <2>1. op'[t].on = 1 /\ op'[t].session = s /\ op'[t].step # "archived"
      BY <1>5, <1>7
    <2> HIDE DEF s
    <2>2. s \in notified => projection'[s][1].commands
      BY <1>3, <1>8, <1>11
    <2> QED BY <1>2, <1>3, <1>4, <1>7, <1>8, <1>9, <1>11, <1>13, <1>14, <2>1, <2>2 DEF Makes
  <1>16. Operating(op', lifecycle', exists', placed', pending', notified')
    <2>1. Operates(op'[t], lifecycle', exists', placed', pending', notified')
      BY <1>1, <1>3, <1>5, <1>7 DEF Operates, OnOne, InUse, Named
    <2>2. Operating(op, lifecycle, exists, placed, pending, notified)
      BY DEF Inv, Manager
    <2>3. \A u \in Operations : u # t => Operates(op[u], lifecycle', exists', placed', pending', notified')
      <3>1. \A u \in Operations : u # t /\ op[u].step \in Named /\ op[u].session \in notified => op[u].session \in pending'
        BY <1>1, LeftKeeps
      <3>2. \A u \in Operations : u # t /\ op[u].step \in Named => op[u].session # s
        BY <1>1, <2>2 DEF Operating, Apart, Named
      <3> QED BY <1>1, <2>2, <3>1, <3>2 DEF Operating, Operates
    <2>4. \A u \in Operations : u # t => Apart(op'[t], op[u]) /\ Apart(op[u], op'[t])
      <3>1. \A u \in Operations : op[u].step \in {"reserved", "archived"} => op[u].session # s
        BY <1>12, <2>2 DEF Operating, Operates, OnOne, InUse
      <3> QED BY <1>5, <1>7, <3>1 DEF Apart, Named
    <2> QED BY <1>7, <2>1, <2>2, <2>3, <2>4, OperatingStep
  <1>17. /\ LeasesType(leases') /\ Leased(leases) \subseteq Leased(leases')
         /\ \A c \in Clients : leases'[c].sessions \subseteq leases[c].sessions \cup {s}
    BY <1>1, <1>3, RetainedGrows
  <1>18. s \in placed' /\ placed \subseteq placed'
    BY <1>1
  <1> HIDE DEF s
  <1> QED BY <1>1, <1>7, <1>15, <1>16, <1>17, <1>18, MakesKeep

-----------------------------------------------------------------------------
(* The other steps. *)

\* Projections change, and who is on them and works does not.
LEMMA SameFits ==
  ASSUME NEW cur, NEW pr, NEW pr2, NEW ls, NEW ops, NEW life, NEW arch, NEW told, NEW pl,
         Fits(cur, pr, ls, ops, life, arch, told, pl), told \subseteq Sessions, ProjectionType(pr2),
         \A s \in Sessions : \A n \in 1..MaxProjections :
           /\ pr2[s][n].refs - Works(pr2[s][n]) = pr[s][n].refs - Works(pr[s][n])
           /\ pr[s][n].commands => pr2[s][n].commands
  PROVE  Fits(cur, pr2, ls, ops, life, arch, told, pl)
  <1>1. ProjectionType(pr) /\ CurrentType(cur) /\ Counted(pr, ops)
    BY DEF Fits
  <1>2. Counted(pr2, ops)
    <2> SUFFICES ASSUME NEW s \in Sessions, NEW n \in 1..MaxProjections
        PROVE  pr2[s][n].refs = Cardinality(On(ops, s, n)) + Works(pr2[s][n])
      BY DEF Counted
    <2>1. /\ pr2[s][n].refs \in Nat /\ pr[s][n].refs \in Nat /\ Cardinality(On(ops, s, n)) \in Nat
          /\ Works(pr2[s][n]) \in {0, 1} /\ Works(pr[s][n]) \in {0, 1}
      <3>1. pr2[s][n] \in Projection /\ pr[s][n] \in Projection
        BY <1>1 DEF ProjectionType
      <3>2. pr2[s][n].refs \in Nat /\ pr[s][n].refs \in Nat
        BY <3>1 DEF Projection
      <3> QED BY <3>2, OnFinite, WorksType
    <2>2. pr[s][n].refs = Cardinality(On(ops, s, n)) + Works(pr[s][n])
      BY <1>1 DEF Counted
    <2>3. pr2[s][n].refs - Works(pr2[s][n]) = pr[s][n].refs - Works(pr[s][n])
      OBVIOUS
    <2> QED BY <2>1, <2>2, <2>3
  <1>3. Told(cur, pr2, told)
    <2> SUFFICES ASSUME NEW s \in told, cur[s] # 0
        PROVE  pr2[s][cur[s]].commands
      BY DEF Told
    <2>1. s \in Sessions /\ cur[s] \in 1..MaxProjections
      BY <1>1, ConstantsAssumption DEF CurrentType
    <2>2. pr[s][cur[s]].commands
      BY DEF Fits, Told
    <2> QED BY <2>1, <2>2
  <1> QED BY <1>2, <1>3 DEF Fits

\* The same, where leases are given up.
LEMMA FewerLeased ==
  ASSUME NEW cur, NEW pr, NEW ls, NEW ls2, NEW ops, NEW life, NEW arch, NEW told, NEW pl,
         Fits(cur, pr, ls, ops, life, arch, told, pl), LeasesType(ls2),
         \A c \in Clients : ls2[c].sessions \subseteq ls[c].sessions
  PROVE  Fits(cur, pr, ls2, ops, life, arch, told, pl)
  BY DEF Fits, Projected

\* Eviction, with nothing else.
LEMMA EvictsKeep ==
  ASSUME Inv, NEW pr, NEW ls, Fits(current, pr, ls, op, lifecycle, archived, notified, placed),
         Evict(current, pr, ls), UNCHANGED <<lifecycle, pending, op, exists, archived, notified, placed>>
  PROVE  Manager'
  <1>1. /\ Operating(op, lifecycle, exists, placed, pending, notified) /\ OpType(op)
        /\ notified \subseteq Sessions
    BY DEF Inv, Manager, Pages, TypeOK
  <1>2. Fits(current', projection', leases', op, lifecycle, archived, notified, placed) /\ WithinBudget'
    BY <1>1, EvictKeeps
  <1> QED BY <1>1, <1>2 DEF Manager

LEMMA StillKeeps ==
  ASSUME Inv, UNCHANGED <<current, projection, leases, lifecycle, pending, op, exists, archived, notified, placed>>
  PROVE  Manager'
  BY DEF Inv, Manager, WithinBudget, Evictable

LEMMA ReleaseClientKeeps ==
  ASSUME Inv, NEW c \in Clients, ReleaseClient(c)
  PROVE  Manager'
  <1> DEFINE ls == [leases EXCEPT ![c] = NoLeases]
  <1>1. UNCHANGED <<lifecycle, pending, op, exists, archived, notified, placed>> /\ Evict(current, projection, ls)
    BY DEF ReleaseClient, store, pi, history
  <1>2. Fits(current, projection, leases, op, lifecycle, archived, notified, placed) /\ LeasesType(leases)
    BY DEF Inv, Manager, Fits
  <1>3. NoLeases \in [revision : 0..MaxRevision, sessions : SUBSET Sessions] /\ NoLeases.sessions = {}
    BY ConstantsAssumption DEF NoLeases
  <1>4. LeasesType(ls) /\ \A d \in Clients : ls[d].sessions \subseteq leases[d].sessions
    BY <1>2, <1>3 DEF LeasesType
  <1> HIDE DEF ls
  <1>5. Fits(current, projection, ls, op, lifecycle, archived, notified, placed)
    BY <1>2, <1>4, FewerLeased
  <1> QED BY <1>1, <1>5, EvictsKeep

LEMMA ReleaseProjectKeeps ==
  ASSUME Inv, ReleaseProject
  PROVE  Manager'
  <1> DEFINE ls == [c \in Clients |-> [leases[c] EXCEPT !.sessions = {}]]
  <1>1. UNCHANGED <<lifecycle, pending, op, exists, archived, notified, placed>>
    BY DEF ReleaseProject, pi, history
  <1>2. CASE UNCHANGED <<current, projection, leases>>
    BY <1>1, <1>2, StillKeeps
  <1>3. CASE Evict(current, projection, ls)
    <2>1. Fits(current, projection, leases, op, lifecycle, archived, notified, placed) /\ LeasesType(leases)
      BY DEF Inv, Manager, Fits
    <2>2. LeasesType(ls) /\ \A d \in Clients : ls[d].sessions \subseteq leases[d].sessions
      BY <2>1 DEF LeasesType
    <2> HIDE DEF ls
    <2>3. Fits(current, projection, ls, op, lifecycle, archived, notified, placed)
      BY <2>1, <2>2, FewerLeased
    <2> QED BY <1>1, <1>3, <2>3, EvictsKeep
  <1> QED BY <1>2, <1>3 DEF ReleaseProject

LEMMA WorkEndsKeeps ==
  ASSUME Inv, NEW s \in Sessions, NEW n \in 1..MaxProjections, WorkEnds(s, n)
  PROVE  Manager'
  <1> DEFINE p == projection[s][n]
             q == [p EXCEPT !.busy = "no", !.refs = @ - 1]
             pr == [projection EXCEPT ![s][n].busy = "no", ![s][n].refs = @ - 1]
  <1>1. /\ UNCHANGED <<lifecycle, pending, op, exists, archived, notified, placed>>
        /\ Evict(current, pr, leases) /\ p.busy = "work"
    BY DEF WorkEnds, store, pi, history
  <1>2. Fits(current, projection, leases, op, lifecycle, archived, notified, placed) /\ notified \subseteq Sessions
    BY DEF Inv, Manager, Pages, TypeOK
  <1>3. ProjectionType(projection) /\ Counted(projection, op)
    BY <1>2 DEF Fits
  <1>4. p \in Projection /\ p.refs \in Nat /\ p.refs > 0
    <2>1. p.refs = Cardinality(On(op, s, n)) + 1
      BY <1>1, <1>3 DEF Counted, Works
    <2>2. p \in Projection /\ Cardinality(On(op, s, n)) \in Nat
      BY <1>3, OnFinite DEF ProjectionType
    <2> QED BY <2>1, <2>2
  <1> HIDE DEF p
  <1>5. q \in Projection /\ q.refs = p.refs - 1 /\ q.busy = "no" /\ q.commands = p.commands
    <2>1. p.refs - 1 \in Nat
      BY <1>4
    <2> QED BY <1>4, <2>1 DEF Projection
  <1>6. pr = [projection EXCEPT ![s][n] = q]
    BY <1>3, <1>4 DEF ProjectionType, p
  <1> HIDE DEF q, pr
  <1>7. /\ ProjectionType(pr) /\ pr[s][n] = q
        /\ \A r \in Sessions : \A m \in 1..MaxProjections : r # s \/ m # n => pr[r][m] = projection[r][m]
    BY <1>3, <1>5, <1>6 DEF ProjectionType
  <1>8. q.refs - Works(q) = p.refs - Works(p) /\ projection[s][n] = p
    BY <1>1, <1>4, <1>5 DEF Works, p
  <1>9. \A r \in Sessions : \A m \in 1..MaxProjections :
           /\ pr[r][m].refs - Works(pr[r][m]) = projection[r][m].refs - Works(projection[r][m])
           /\ projection[r][m].commands => pr[r][m].commands
    BY <1>5, <1>7, <1>8
  <1>10. Fits(current, pr, leases, op, lifecycle, archived, notified, placed)
    BY <1>2, <1>7, <1>9, SameFits
  <1> QED BY <1>1, <1>10, EvictsKeep

LEMMA StreamsKeeps ==
  ASSUME Inv, NEW s \in Sessions, Streams(s)
  PROVE  Manager'
  <1> DEFINE n == current[s]
             p == projection[s][n]
             Busy(b) == [projection EXCEPT ![s][n].busy = b]
  <1>1. UNCHANGED <<lifecycle, pending, op, exists, archived, notified, placed>> /\ n # 0 /\ p.busy # "work"
    BY DEF Streams, store, pi, history
  <1>2. /\ Fits(current, projection, leases, op, lifecycle, archived, notified, placed)
        /\ notified \subseteq Sessions /\ OpType(op)
        /\ Operating(op, lifecycle, exists, placed, pending, notified)
    BY DEF Inv, Manager, Pages, TypeOK
  <1>3. ProjectionType(projection) /\ CurrentType(current)
    BY <1>2 DEF Fits
  <1>4. n \in 1..MaxProjections /\ p \in Projection
    <2>1. n \in 1..MaxProjections
      BY <1>1, <1>3, ConstantsAssumption DEF CurrentType
    <2> QED BY <1>3, <2>1 DEF ProjectionType
  <1>5. ASSUME NEW b \in {"no", "stream"}
        PROVE  /\ Fits(current, Busy(b), leases, op, lifecycle, archived, notified, placed)
               /\ Busy(b)[s][n].busy = b
               /\ \A r \in Sessions : \A m \in 1..MaxProjections : r # s \/ m # n => Busy(b)[r][m] = projection[r][m]
    <2> DEFINE q == [p EXCEPT !.busy = b]
               pr == Busy(b)
    <2> HIDE DEF p
    <2>1. q \in Projection /\ q.refs = p.refs /\ q.busy = b /\ q.commands = p.commands
      BY <1>4 DEF Projection
    <2>2. pr = [projection EXCEPT ![s][n] = q]
      BY <1>3, <1>4 DEF ProjectionType, p
    <2> HIDE DEF q, n, pr
    <2>3. /\ ProjectionType(pr) /\ pr[s][n] = q
          /\ \A r \in Sessions : \A m \in 1..MaxProjections : r # s \/ m # n => pr[r][m] = projection[r][m]
      BY <1>3, <1>4, <2>1, <2>2 DEF ProjectionType
    <2>4. Works(q) = Works(p) /\ projection[s][n] = p
      BY <1>1, <2>1 DEF Works, p
    <2>5. \A r \in Sessions : \A m \in 1..MaxProjections :
             /\ pr[r][m].refs - Works(pr[r][m]) = projection[r][m].refs - Works(projection[r][m])
             /\ projection[r][m].commands => pr[r][m].commands
      BY <2>1, <2>3, <2>4
    <2>6. Fits(current, pr, leases, op, lifecycle, archived, notified, placed)
      BY <1>2, <2>3, <2>5, SameFits
    <2> QED BY <2>1, <2>3, <2>6 DEF pr
  <1>6. \/ projection' = Busy("stream") /\ UNCHANGED <<current, leases>>
        \/ Evict(current, Busy("no"), leases)
    BY DEF Streams
  <1> HIDE DEF Busy
  <1>7. CASE projection' = Busy("stream") /\ UNCHANGED <<current, leases>>
    <2>1. /\ Fits(current, projection', leases, op, lifecycle, archived, notified, placed)
          /\ projection'[s][n].busy = "stream"
          /\ \A r \in Sessions : \A m \in 1..MaxProjections : r # s \/ m # n => projection'[r][m] = projection[r][m]
      BY <1>5, <1>7
    <2>2. Fits(current', projection', leases', op', lifecycle', archived', notified', placed')
      BY <1>1, <1>7, <2>1
    <2>3. \A r \in Sessions : current[r] # 0 => current[r] \in 1..MaxProjections
      BY <1>3, ConstantsAssumption DEF CurrentType
    <2>4. WithinBudget'
      BY <1>7, <2>1, <2>3, BudgetKept DEF Idle, Inv, Manager
    <2> QED BY <1>1, <1>2, <2>2, <2>4 DEF Manager
  <1>8. CASE Evict(current, Busy("no"), leases)
    <2>1. Fits(current, Busy("no"), leases, op, lifecycle, archived, notified, placed)
      BY <1>5
    <2> QED BY <1>1, <1>8, <2>1, EvictsKeep
  <1> QED BY <1>6, <1>7, <1>8

LEMMA NotifyKeeps ==
  ASSUME Inv, NEW s \in Sessions, Notify(s)
  PROVE  Manager'
  <1>1. /\ UNCHANGED <<current, leases, lifecycle, op, exists, archived, placed>>
        /\ notified' = notified \cup {s}
    BY DEF Notify, store, pages, history
  <1>2. /\ Fits(current, projection, leases, op, lifecycle, archived, notified, placed)
        /\ notified \subseteq Sessions /\ OpType(op)
        /\ Operating(op, lifecycle, exists, placed, pending, notified)
    BY DEF Inv, Manager, Pages, TypeOK
  <1>3. ProjectionType(projection) /\ CurrentType(current) /\ Told(current, projection, notified) /\ Present(current, placed)
    BY <1>2 DEF Fits
  <1>4. CASE current[s] # 0 /\ projection' = [projection EXCEPT ![s][current[s]].commands = TRUE] /\ UNCHANGED pending
    <2> DEFINE n == current[s]
               p == projection[s][n]
               q == [p EXCEPT !.commands = TRUE]
    <2>1. n \in 1..MaxProjections /\ p \in Projection
      <3>1. n \in 1..MaxProjections
        BY <1>3, <1>4, ConstantsAssumption DEF CurrentType
      <3> QED BY <1>3, <3>1 DEF ProjectionType
    <2> HIDE DEF p
    <2>2. q \in Projection /\ q.refs = p.refs /\ q.busy = p.busy /\ q.commands = TRUE
      BY <2>1 DEF Projection
    <2>3. projection' = [projection EXCEPT ![s][n] = q]
      BY <1>3, <1>4, <2>1 DEF ProjectionType, p
    <2> HIDE DEF q, n
    <2>4. /\ ProjectionType(projection') /\ projection'[s][n] = q
          /\ \A r \in Sessions : \A m \in 1..MaxProjections : r # s \/ m # n => projection'[r][m] = projection[r][m]
      BY <1>3, <2>1, <2>2, <2>3 DEF ProjectionType
    <2>5. Works(q) = Works(p) /\ projection[s][n] = p
      BY <2>2 DEF Works, p
    <2>6. \A r \in Sessions : \A m \in 1..MaxProjections :
             /\ projection'[r][m].refs - Works(projection'[r][m]) = projection[r][m].refs - Works(projection[r][m])
             /\ projection[r][m].commands => projection'[r][m].commands
      BY <2>2, <2>4, <2>5
    <2>7. Fits(current, projection', leases, op, lifecycle, archived, notified, placed)
      BY <1>2, <2>4, <2>6, SameFits
    <2>8. Told(current, projection', notified')
      <3>1. projection'[s][current[s]].commands
        BY <2>2, <2>4 DEF n
      <3> QED BY <1>1, <2>7, <3>1 DEF Fits, Told
    <2>9. Fits(current', projection', leases', op', lifecycle', archived', notified', placed')
      BY <1>1, <2>7, <2>8 DEF Fits
    <2>10. s \in placed
      BY <1>3, <1>4 DEF Present
    <2>11. Operating(op', lifecycle', exists', placed', pending', notified')
      BY <1>1, <1>2, <1>4, <2>10 DEF Operating, Operates
    <2>12. \A r \in Sessions : \A m \in 1..MaxProjections : Idle(projection'[r][m]) => Idle(projection[r][m])
      BY <2>2, <2>4, <2>5 DEF Idle
    <2>13. \A r \in Sessions : current[r] # 0 => current[r] \in 1..MaxProjections
      BY <1>3, ConstantsAssumption DEF CurrentType
    <2>14. WithinBudget'
      BY <1>1, <2>12, <2>13, BudgetKept DEF Inv, Manager
    <2> QED BY <1>1, <1>2, <2>9, <2>11, <2>14 DEF Manager
  <1>5. CASE /\ current[s] = 0 /\ UNCHANGED projection
             /\ pending' = IF \E t \in Operations : Creating(op[t]) THEN pending \cup {s} ELSE pending
    <2>1. Fits(current', projection', leases', op', lifecycle', archived', notified', placed')
      BY <1>1, <1>2, <1>5 DEF Fits, Told
    <2>2. Operating(op', lifecycle', exists', placed', pending', notified')
      <3>1. ASSUME NEW t \in Operations, op[t].step \in Named
            PROVE  pending' = pending \cup {s}
        BY <1>2, <1>5, <3>1 DEF Operating, Operates, Creating, Named
      <3>2. \A t \in Operations : Operates(op[t], lifecycle, exists, placed, pending', notified')
        BY <1>1, <1>2, <3>1 DEF Operating, Operates
      <3> QED BY <1>1, <1>2, <3>2 DEF Operating
    <2>3. WithinBudget'
      BY <1>1, <1>5 DEF WithinBudget, Evictable, Inv, Manager
    <2> QED BY <1>1, <1>2, <2>1, <2>2, <2>3 DEF Manager
  <1> QED BY <1>4, <1>5 DEF Notify

LEMMA SetLeasesKeeps ==
  ASSUME Inv, NEW c \in Clients, NEW r \in Revisions, SetLeases(c, r)
  PROVE  Manager'
  <1>1. UNCHANGED <<lifecycle, pending, op, exists, archived, notified, placed>>
    BY DEF SetLeases, store, pi, manager
  <1>2. CASE Late(c, r)
    <2>1. UNCHANGED <<current, projection, leases>>
      BY <1>2 DEF SetLeases, manager
    <2> QED BY <1>1, <2>1, StillKeeps
  <1>3. CASE ~Late(c, r)
    <2> DEFINE granted == Claimed(sent[c][r])
               missing == {s \in granted : current[s] = 0} \ lifecycle
               cur == [s \in Sessions |-> IF s \in missing THEN Slot(s) ELSE current[s]]
               pr == [s \in Sessions |-> IF s \in missing
                        THEN [projection[s] EXCEPT ![Slot(s)] = Restored(s \in disk)]
                        ELSE projection[s]]
               ls == [leases EXCEPT ![c] = [revision |-> r, sessions |-> granted]]
    <2>1. (\A s \in missing : Slots(s) # {}) /\ Evict(cur, pr, ls)
      BY <1>3 DEF SetLeases
    <2>2. /\ Fits(current, projection, leases, op, lifecycle, archived, notified, placed)
          /\ notified \subseteq Sessions /\ placed \subseteq Sessions
          /\ Operating(op, lifecycle, exists, placed, pending, notified)
      BY DEF Inv, Manager, Pages, TypeOK
    <2>3. ProjectionType(projection) /\ CurrentType(current) /\ LeasesType(leases) /\ Counted(projection, op)
      BY <2>2 DEF Fits
    <2>4. granted \subseteq placed /\ granted \subseteq Sessions
      <3>1. sent[c][r] \subseteq placed
        BY DEF Inv, Pages, Asked
      <3> QED BY <2>2, <3>1 DEF Claimed
    <2>5. /\ missing \subseteq granted /\ missing \subseteq Sessions
          /\ \A s \in missing : current[s] = 0 /\ s \notin lifecycle
          /\ \A s \in granted : current[s] # 0 \/ s \in missing \/ s \in lifecycle
      BY <2>4
    <2> HIDE DEF granted
    <2> HIDE DEF missing
    <2>6. \A s \in missing : /\ Slot(s) \in 1..MaxProjections /\ projection[s][Slot(s)].refs = 0
                             /\ projection[s][Slot(s)].busy = "no"
      BY <2>1, <2>5, SlotFree
    <2>7. CurrentType(cur) /\ \A s \in Sessions : cur[s] = IF s \in missing THEN Slot(s) ELSE current[s]
      <3>1. \A s \in missing : Slot(s) \in 0..MaxProjections
        BY <2>6, ConstantsAssumption
      <3> QED BY <2>3, <3>1 DEF CurrentType
    <2>8. \A s \in Sessions : \A n \in 1..MaxProjections :
            pr[s][n] = IF s \in missing /\ n = Slot(s) THEN Restored(s \in disk) ELSE projection[s][n]
      BY <2>3, <2>6 DEF ProjectionType
    <2>9. \A s \in Sessions : /\ Restored(s \in disk) \in Projection /\ Restored(s \in disk).refs = 0
                              /\ Restored(s \in disk).busy = "no" /\ Restored(s \in disk).commands = TRUE
      <3> SUFFICES ASSUME NEW s \in Sessions
          PROVE  /\ Restored(s \in disk) \in Projection /\ Restored(s \in disk).refs = 0
                 /\ Restored(s \in disk).busy = "no" /\ Restored(s \in disk).commands = TRUE
        OBVIOUS
      <3> DEFINE b == s \in disk
      <3>1. b \in BOOLEAN
        OBVIOUS
      <3> HIDE DEF b
      <3>2. /\ Restored(b) \in Projection /\ Restored(b).refs = 0
            /\ Restored(b).busy = "no" /\ Restored(b).commands = TRUE
        BY <3>1, RestoredType
      <3> QED BY <3>2 DEF b
    <2>10. ProjectionType(pr)
      BY <2>3, <2>6, <2>9 DEF ProjectionType
    <2>11. LeasesType(ls) /\ ls[c].sessions = granted /\ \A d \in Clients : d # c => ls[d] = leases[d]
      BY <2>3, <2>4, ConstantsAssumption DEF LeasesType, Revisions
    <2> HIDE DEF cur, pr, ls
    <2>12. Counted(pr, op)
      <3> SUFFICES ASSUME NEW s \in Sessions, NEW n \in 1..MaxProjections
          PROVE  pr[s][n].refs = Cardinality(On(op, s, n)) + Works(pr[s][n])
        BY DEF Counted
      <3>1. CASE s \in missing /\ n = Slot(s)
        <4>1. pr[s][n].refs = projection[s][n].refs /\ Works(pr[s][n]) = Works(projection[s][n])
          BY <2>6, <2>8, <2>9, <3>1 DEF Works
        <4> QED BY <2>3, <4>1 DEF Counted
      <3>2. CASE ~(s \in missing /\ n = Slot(s))
        <4>1. pr[s][n] = projection[s][n]
          BY <2>8, <3>2
        <4> QED BY <2>3, <4>1 DEF Counted
      <3> QED BY <3>1, <3>2
    <2>13. Used(cur, op, archived)
      <3> SUFFICES ASSUME NEW t \in Operations
          PROVE  /\ op[t].step \in InUse => cur[op[t].session] = op[t].on
                 /\ op[t].step = "archived" => op[t].session \in archived \/ cur[op[t].session] = op[t].on
        BY DEF Used
      <3>1. /\ op[t].step \in InUse => current[op[t].session] = op[t].on
            /\ op[t].step = "archived" => op[t].session \in archived \/ current[op[t].session] = op[t].on
        BY <2>2 DEF Fits, Used
      <3>2. op[t].step \in InUse \/ op[t].step = "archived" => op[t].on # 0 /\ op[t].session \in Sessions
        BY <2>2 DEF Operating, Operates, OnOne
      <3> QED BY <2>5, <2>7, <3>1, <3>2
    <2>14. \A s \in Sessions : current[s] # 0 \/ s \in missing => cur[s] # 0
      BY <2>5, <2>6, <2>7, ConstantsAssumption
    <2>15. Projected(cur, ls, lifecycle, archived)
      <3> SUFFICES ASSUME NEW d \in Clients, NEW s \in ls[d].sessions
          PROVE  cur[s] # 0 \/ s \in lifecycle \cup archived
        BY DEF Projected
      <3>1. s \in Sessions
        BY <2>11 DEF LeasesType
      <3>2. CASE d = c
        BY <2>5, <2>11, <2>14, <3>1, <3>2
      <3>3. CASE d # c
        BY <2>2, <2>11, <2>14, <3>1, <3>3 DEF Fits, Projected
      <3> QED BY <3>2, <3>3
    <2>16. Told(cur, pr, notified)
      <3> SUFFICES ASSUME NEW s \in notified, cur[s] # 0
          PROVE  pr[s][cur[s]].commands
        BY DEF Told
      <3>1. s \in Sessions /\ cur[s] \in 1..MaxProjections
        BY <2>2, <2>7, ConstantsAssumption DEF CurrentType
      <3>2. CASE s \in missing
        BY <2>7, <2>8, <2>9, <3>1, <3>2
      <3>3. CASE s \notin missing
        BY <2>2, <2>7, <2>8, <3>1, <3>3 DEF Fits, Told
      <3> QED BY <3>2, <3>3
    <2>17. Present(cur, placed)
      BY <2>2, <2>4, <2>5, <2>7 DEF Fits, Present
    <2>18. Fits(cur, pr, ls, op, lifecycle, archived, notified, placed)
      BY <2>7, <2>10, <2>11, <2>12, <2>13, <2>15, <2>16, <2>17 DEF Fits
    <2>19. /\ Operating(op, lifecycle, exists, placed, pending, notified) /\ OpType(op)
      BY DEF Inv, Manager
    <2>20. Fits(current', projection', leases', op, lifecycle, archived, notified, placed) /\ WithinBudget'
      BY <2>1, <2>2, <2>18, <2>19, EvictKeeps
    <2> QED BY <1>1, <2>19, <2>20 DEF Manager
  <1> QED BY <1>2, <1>3

\* A step of the manager, of whatever kind, keeps what concerns the manager.
LEMMA ManagerKept ==
  ASSUME Inv, [Next]_vars
  PROVE  Manager'
  <1>1. CASE UNCHANGED vars
    BY <1>1, StillKeeps DEF vars, manager, store, pi, pages, history
  <1>2. ASSUME NEW c \in Clients, Flush(c)
        PROVE  Manager'
    BY <1>2, StillKeeps DEF Flush, manager, store, pi, pages, history
  <1>3. ASSUME NEW c \in Clients, ReleaseClient(c)
        PROVE  Manager'
    BY <1>3, ReleaseClientKeeps
  <1>4. ASSUME NEW c \in Clients, NEW r \in Revisions, SetLeases(c, r)
        PROVE  Manager'
    BY <1>4, SetLeasesKeeps
  <1>5. ASSUME NEW t \in Operations, OperationStep(t)
        PROVE  Manager'
    BY <1>5, BeginKeeps, InstallKeeps, LockKeeps, AttachFailsKeeps, OpenedKeeps, AnsweredKeeps, WorkKeeps,
       ReserveKeeps, ArchiveKeeps, FinishKeeps, BeginCreateKeeps, NewSessionKeeps, CreateFailsKeeps,
       RecordKeeps, PlaceKeeps DEF OperationStep
  <1>6. ASSUME NEW s \in Sessions, Streams(s)
        PROVE  Manager'
    BY <1>6, StreamsKeeps
  <1>7. ASSUME NEW s \in Sessions, Notify(s)
        PROVE  Manager'
    BY <1>7, NotifyKeeps
  <1>8. ASSUME NEW s \in Sessions, NEW n \in 1..MaxProjections, WorkEnds(s, n)
        PROVE  Manager'
    BY <1>8, WorkEndsKeeps
  <1>9. CASE CloseProject
    BY <1>9, StillKeeps DEF CloseProject, manager, store, pi, pages, history
  <1>10. CASE OpenProject
    BY <1>10, StillKeeps DEF OpenProject, manager, store, pi, pages, history
  <1>11. CASE ReleaseProject
    BY <1>11, ReleaseProjectKeeps
  <1> QED BY <1>1, <1>2, <1>3, <1>4, <1>5, <1>6, <1>7, <1>8, <1>9, <1>10, <1>11 DEF Next

-----------------------------------------------------------------------------
(* The pages. *)

LEMMA EvictLeases ==
  ASSUME NEW cur, NEW pr, NEW ls, Evict(cur, pr, ls)
  PROVE  leases' = ls
  BY DEF Evict

\* A step that concerns no page.  What a request adds is for a client that has declared nothing.
Calm ==
  /\ UNCHANGED <<revision, sent, asks, closed, releasing, touched, reaped>>
  /\ placed \subseteq placed'
  /\ \A c \in Clients : \/ leases'[c] = leases[c]
                        \/ /\ leases[c].revision = 0 /\ leases'[c].revision = 0
                           /\ leases'[c].sessions \subseteq leases[c].sessions \cup placed'

LEMMA CalmOperation ==
  ASSUME Inv, NEW t \in Operations, OperationStep(t)
  PROVE  Calm /\ Stored'
  <1>1. /\ Stored /\ OpType(op) /\ op[t] \in Operation
        /\ Operates(op[t], lifecycle, exists, placed, pending, notified)
        /\ LeasesType(leases) /\ placed \subseteq Sessions
    BY DEF Inv, Pages, Manager, Operating, OpType, Fits, TypeOK
  <1>2. ASSUME UNCHANGED <<leases, placed, recorded, exists, notified, pages, closed, releasing, touched, reaped>>,
               \A u \in Operations : op'[u].step = "place" => op'[u] = op[u]
        PROVE  Calm /\ Stored'
    BY <1>1, <1>2 DEF Calm, Stored, pages
  <1>3. ASSUME NEW step \in {"gate", "attached", "reserved", "archived", "use"}, Step(t, step)
        PROVE  \A u \in Operations : op'[u].step = "place" => op'[u] = op[u]
    <2>1. op'[t].step = step /\ \A u \in Operations : u # t => op'[u] = op[u]
      BY <1>1, <1>3, StepEffect
    <2>2. step # "place"
      OBVIOUS
    <2> QED BY <2>1, <2>2
  <1>4. ASSUME End(t)
        PROVE  \A u \in Operations : op'[u].step = "place" => op'[u] = op[u]
    BY <1>1, <1>4, EndEffect, NobodyType
  <1>5. ASSUME NEW p, Release(t, p, leases)
        PROVE  leases' = leases /\ \A u \in Operations : op'[u].step = "place" => op'[u] = op[u]
    <2>1. leases' = leases
      BY <1>5, EvictLeases DEF Release
    <2> QED BY <1>4, <1>5, <2>1 DEF Release
  <1>6. CASE Begin(t)
    <2>1. UNCHANGED <<leases, placed, recorded, exists, notified, pages, closed, releasing, touched, reaped>>
      BY <1>6 DEF Begin, store, pi, history
    <2>2. PICK k \in {"open", "work", "archive"}, c \in Clients, s \in placed :
        LET o == [Nobody EXCEPT !.kind = k, !.client = c, !.session = s] IN
        \/ op' = [op EXCEPT ![t] = [o EXCEPT !.step = "gate", !.on = current[s]]]
        \/ op' = [op EXCEPT ![t] = [o EXCEPT !.step = "install", !.queued = s \in disk]]
      <3>1. PICK k \in {"open", "work", "archive"}, c \in Clients, s \in placed :
          LET o == [Nobody EXCEPT !.kind = k, !.client = c, !.session = s] IN
          IF current[s] # 0 /\ s \notin lifecycle
          THEN /\ Use(s, current[s])
               /\ op' = [op EXCEPT ![t] = [o EXCEPT !.step = "gate", !.on = current[s]]]
          ELSE /\ op' = [op EXCEPT ![t] = [o EXCEPT !.step = "install", !.queued = s \in disk]]
               /\ UNCHANGED projection
        BY <1>6, Zenon DEF Begin
      <3> DEFINE o == [Nobody EXCEPT !.kind = k, !.client = c, !.session = s]
      <3>2. \/ op' = [op EXCEPT ![t] = [o EXCEPT !.step = "gate", !.on = current[s]]]
            \/ op' = [op EXCEPT ![t] = [o EXCEPT !.step = "install", !.queued = s \in disk]]
        BY <3>1, Zenon
      <3> QED BY <3>2, Zenon
    <2>3. (\A u \in Operations : u # t => op'[u] = op[u]) /\ op'[t].step # "place"
      BY <1>1, <2>2 DEF OpType, Nobody
    <2> QED BY <1>2, <2>1, <2>3
  <1>7. CASE Install(t)
    <2>1. UNCHANGED <<leases, placed, recorded, exists, notified, pages, closed, releasing, touched, reaped>>
      BY <1>7 DEF Install, store, pi, history
    <2>2. CASE End(t)
      BY <1>2, <1>4, <2>1, <2>2
    <2>3. CASE \E n : op' = [op EXCEPT ![t].step = "gate", ![t].on = n, ![t].queued = FALSE]
      <3>1. (\A u \in Operations : u # t => op'[u] = op[u]) /\ op'[t].step # "place"
        BY <1>1, <2>3 DEF OpType, Operation
      <3> QED BY <1>2, <2>1, <3>1
    <2> QED BY <1>7, <2>2, <2>3 DEF Install
  <1>8. CASE Lock(t)
    <2>1. UNCHANGED <<placed, recorded, exists, notified, pages, closed, releasing, touched, reaped>>
      BY <1>8 DEF Lock, store, pi, history
    <2>2. CASE Step(t, "attached") /\ UNCHANGED leases
      BY <1>2, <1>3, <2>1, <2>2
    <2>3. CASE Release(t, At(t), leases)
      BY <1>2, <1>5, <2>1, <2>3
    <2> QED BY <1>8, <2>2, <2>3 DEF Lock
  <1>9. CASE AttachFails(t)
    <2>1. UNCHANGED <<placed, recorded, exists, notified, pages, closed, releasing, touched, reaped>>
          /\ Release(t, Freed(t), leases)
      BY <1>9 DEF AttachFails, store, pi, history
    <2> QED BY <1>2, <1>5, <2>1
  <1>10. CASE Opened(t)
    <2>1. /\ UNCHANGED <<placed, recorded, exists, notified, pages, closed, releasing, touched, reaped>>
          /\ Step(t, "use") /\ leases' = Retained(op[t].client, op[t].session) /\ op[t].step = "attached"
      BY <1>10 DEF Opened, store, pi, history
    <2>2. op[t].client \in Clients /\ op[t].session \in placed
      BY <1>1, <2>1 DEF Operates, OnOne, InUse
    <2>3. Stored'
      BY <1>1, <1>3, <2>1 DEF Stored
    <2>4. \A c \in Clients : /\ leases'[c].sessions \subseteq leases[c].sessions \cup {op[t].session}
                             /\ leases'[c].revision = leases[c].revision
                             /\ leases[c].revision > 0 => leases'[c] = leases[c]
      BY <1>1, <2>1, <2>2, RetainedGrows
    <2>5. \A c \in Clients : leases[c].revision \in Nat
      BY <1>1 DEF LeasesType
    <2> QED BY <2>1, <2>2, <2>3, <2>4, <2>5 DEF Calm, pages
  <1>11. CASE Answered(t)
    <2>1. UNCHANGED <<placed, recorded, exists, notified, pages, closed, releasing, touched, reaped>>
          /\ Release(t, At(t), leases)
      BY <1>11 DEF Answered, store, pi, history
    <2> QED BY <1>2, <1>5, <2>1
  <1>12. CASE Work(t)
    <2>1. UNCHANGED <<placed, recorded, exists, notified, pages, closed, releasing, touched, reaped>>
          /\ \E p : Release(t, p, leases)
      BY <1>12 DEF Work, pi, history
    <2> QED BY <1>2, <1>5, <2>1
  <1>13. CASE Reserve(t)
    <2>1. UNCHANGED <<placed, recorded, exists, notified, pages, closed, releasing, touched, reaped>>
      BY <1>13 DEF Reserve, store, pi, history
    <2>2. CASE Step(t, "reserved") /\ UNCHANGED leases
      BY <1>2, <1>3, <2>1, <2>2
    <2>3. CASE Release(t, Freed(t), leases)
      BY <1>2, <1>5, <2>1, <2>3
    <2> QED BY <1>13, <2>2, <2>3 DEF Reserve
  <1>14. CASE Archive(t)
    <2>1. UNCHANGED <<leases, placed, recorded, exists, notified, pages, closed, releasing, touched, reaped>>
          /\ Step(t, "archived")
      BY <1>14 DEF Archive, store, history
    <2> QED BY <1>2, <1>3, <2>1
  <1>15. CASE Finish(t)
    <2>1. UNCHANGED <<placed, recorded, exists, notified, pages, closed, releasing, touched, reaped>>
          /\ Release(t, Freed(t), leases)
      BY <1>15 DEF Finish, store, pi, history
    <2> QED BY <1>2, <1>5, <2>1
  <1>16. CASE BeginCreate(t)
    <2>1. UNCHANGED <<leases, placed, recorded, exists, notified, pages, closed, releasing, touched, reaped>>
      BY <1>16 DEF BeginCreate, manager, store, pi, history
    <2>2. (\A u \in Operations : u # t => op'[u] = op[u]) /\ op'[t].step # "place"
      BY <1>1, <1>16 DEF OpType, Nobody, BeginCreate
    <2> QED BY <1>2, <2>1, <2>2
  <1>17. CASE NewSession(t)
    <2>1. /\ UNCHANGED <<leases, placed, recorded, notified, pages, closed, releasing, touched, reaped>>
          /\ exists \subseteq exists'
      BY <1>17 DEF NewSession, manager, store, history
    <2>2. (\A u \in Operations : u # t => op'[u] = op[u]) /\ op'[t].step # "place"
      BY <1>1, <1>17 DEF OpType, Operation, NewSession
    <2> QED BY <1>1, <2>1, <2>2 DEF Calm, Stored, pages
  <1>18. CASE CreateFails(t)
    <2>1. UNCHANGED <<leases, placed, recorded, exists, notified, pages, closed, releasing, touched, reaped>>
          /\ End(t)
      BY <1>18 DEF CreateFails, store, pi, history
    <2> QED BY <1>2, <1>4, <2>1
  <1>19. CASE Record(t)
    <2>1. /\ UNCHANGED <<leases, placed, exists, notified, pages, closed, releasing, touched, reaped>>
          /\ recorded' = recorded \cup {op[t].session} /\ Step(t, "place") /\ op[t].step = "record"
      BY <1>19 DEF Record, manager, pi, history
    <2>2. op[t].session \in exists
      BY <1>1, <2>1 DEF Operates, Named
    <2>3. op'[t].session = op[t].session /\ \A u \in Operations : u # t => op'[u] = op[u]
      BY <1>1, <2>1, StepEffect
    <2> QED BY <1>1, <2>1, <2>2, <2>3 DEF Calm, Stored, pages
  <1>20. CASE Place(t)
    <2>1. /\ UNCHANGED <<recorded, exists, notified, pages, closed, releasing, touched, reaped>>
          /\ placed' = placed \cup {op[t].session} /\ op[t].step = "place"
          /\ leases' = Retained(op[t].client, op[t].session)
      BY <1>20 DEF Place, store, pi
    <2>2. op[t].client \in Clients /\ op[t].session \in Sessions /\ op[t].session \in recorded
      BY <1>1, <2>1 DEF Operates, OnOne, InUse, Named, Stored
    <2>3. (\A u \in Operations : u # t => op'[u] = op[u]) /\ op'[t].step # "place"
      BY <1>1, <1>20 DEF OpType, Operation, Place
    <2>4. Stored'
      BY <1>1, <2>1, <2>2, <2>3 DEF Stored
    <2>5. \A c \in Clients : /\ leases'[c].sessions \subseteq leases[c].sessions \cup {op[t].session}
                             /\ leases'[c].revision = leases[c].revision
                             /\ leases[c].revision > 0 => leases'[c] = leases[c]
      BY <2>1, <2>2, RetainedGrows
    <2>6. \A c \in Clients : leases[c].revision \in Nat
      BY <1>1 DEF LeasesType
    <2> QED BY <2>1, <2>4, <2>5, <2>6 DEF Calm, pages
  <1> QED BY <1>6, <1>7, <1>8, <1>9, <1>10, <1>11, <1>12, <1>13, <1>14, <1>15, <1>16, <1>17, <1>18, <1>19, <1>20
          DEF OperationStep

LEMMA CalmKeeps ==
  ASSUME Inv, Calm, Stored'
  PROVE  Asked' /\ LatestSnapshot' /\ ClosedIsReleased' /\ ReopenedIsKept'
  <1>1. /\ Asked /\ LatestSnapshot /\ ClosedIsReleased /\ ReopenedIsKept /\ LeasesType(leases)
    BY DEF Inv, Pages, Manager, Fits
  <1>2. /\ UNCHANGED <<revision, sent, asks, closed, releasing, touched, reaped>> /\ placed \subseteq placed'
        /\ \A c \in Clients : \/ leases'[c] = leases[c]
                              \/ /\ leases[c].revision = 0 /\ leases'[c].revision = 0
                                 /\ leases'[c].sessions \subseteq leases[c].sessions \cup placed'
    BY DEF Calm
  <1>3. \A c \in Clients : /\ leases'[c].revision = leases[c].revision
                           /\ leases'[c].sessions \subseteq leases[c].sessions \cup placed'
                           /\ leases'[c].revision > 0 => leases'[c] = leases[c]
    BY <1>2
  <1>4. Asked'
    <2> SUFFICES ASSUME NEW c \in Clients
        PROVE  (/\ leases[c].sessions \subseteq placed
                /\ \A r \in Revisions : sent[c][r] \subseteq placed
                /\ \A r \in asks[c] : r <= revision[c]
                /\ leases[c].revision <= revision[c]
                /\ \/ revision[c] \in asks[c] \/ leases[c].revision = revision[c]
                   \/ c \in reaped /\ asks[c] = {})'
      BY <1>1, <1>2 DEF Asked
    <2>1. leases[c].sessions \subseteq placed /\ \A r \in Revisions : sent[c][r] \subseteq placed
      BY <1>1 DEF Asked
    <2>2. leases'[c].sessions \subseteq placed' /\ \A r \in Revisions : sent[c][r] \subseteq placed'
      BY <1>2, <1>3, <2>1
    <2> QED BY <1>1, <1>2, <1>3, <2>2 DEF Asked
  <1>5. LatestSnapshot'
    BY <1>1, <1>2, <1>3 DEF LatestSnapshot
  <1>6. ClosedIsReleased'
    BY <1>1, <1>2, <1>3 DEF ClosedIsReleased
  <1>7. ReopenedIsKept'
    BY <1>1, <1>2, <1>3 DEF ReopenedIsKept
  <1> QED BY <1>4, <1>5, <1>6, <1>7

LEMMA FlushKeeps ==
  ASSUME Inv, NEW c \in Clients, Flush(c)
  PROVE  Stored' /\ Asked' /\ LatestSnapshot' /\ ClosedIsReleased' /\ ReopenedIsKept'
  <1>1. /\ TypeOK /\ Stored /\ Asked /\ LatestSnapshot /\ ClosedIsReleased /\ ReopenedIsKept
    BY DEF Inv, Pages
  <1>2. PICK show \in SUBSET placed :
          /\ revision[c] < MaxRevision /\ revision' = [revision EXCEPT ![c] = @ + 1]
          /\ sent' = [sent EXCEPT ![c][revision[c] + 1] = show]
          /\ asks' = [asks EXCEPT ![c] = @ \cup {revision[c] + 1}]
    BY DEF Flush
  <1>3. UNCHANGED <<leases, recorded, closed, releasing, exists, notified, op, placed, touched, reaped>>
    BY DEF Flush, manager, store, pi, history
  <1>4. /\ revision[c] \in Nat /\ MaxRevision \in Nat /\ revision[c] + 1 \in Revisions
        /\ \A d \in Clients : leases[d].revision \in Nat /\ revision[d] \in Nat
    BY <1>1, <1>2, ConstantsAssumption DEF TypeOK, Revisions
  <1>5. /\ revision'[c] = revision[c] + 1 /\ asks'[c] = asks[c] \cup {revision[c] + 1}
        /\ \A d \in Clients : d # c => revision'[d] = revision[d] /\ asks'[d] = asks[d] /\ sent'[d] = sent[d]
        /\ \A r \in Revisions : sent'[c][r] = IF r = revision[c] + 1 THEN show ELSE sent[c][r]
    BY <1>1, <1>2 DEF TypeOK
  <1>6. Stored'
    BY <1>1, <1>3 DEF Stored
  <1>7. Asked'
    <2> SUFFICES ASSUME NEW d \in Clients
        PROVE  (/\ leases[d].sessions \subseteq placed
                /\ \A r \in Revisions : sent[d][r] \subseteq placed
                /\ \A r \in asks[d] : r <= revision[d]
                /\ leases[d].revision <= revision[d]
                /\ \/ revision[d] \in asks[d] \/ leases[d].revision = revision[d]
                   \/ d \in reaped /\ asks[d] = {})'
      BY <1>1, <1>3 DEF Asked
    <2>1. /\ leases[d].sessions \subseteq placed
          /\ \A r \in Revisions : sent[d][r] \subseteq placed
          /\ \A r \in asks[d] : r <= revision[d]
          /\ leases[d].revision <= revision[d]
          /\ \/ revision[d] \in asks[d] \/ leases[d].revision = revision[d]
             \/ d \in reaped /\ asks[d] = {}
      BY <1>1 DEF Asked
    <2>2. CASE d # c
      BY <1>3, <1>5, <2>1, <2>2
    <2>3. CASE d = c
      <3>1. \A r \in asks[c] : r \in Nat
        BY <1>1 DEF TypeOK, Revisions
      <3>2. \A r \in asks'[c] : r <= revision'[c]
        BY <1>4, <1>5, <2>1, <2>3, <3>1
      <3>3. leases'[c].revision <= revision'[c] /\ revision'[c] \in asks'[c]
        BY <1>3, <1>4, <1>5, <2>1, <2>3
      <3>4. \A r \in Revisions : sent'[c][r] \subseteq placed'
        BY <1>3, <1>5, <2>1, <2>3
      <3> QED BY <1>3, <2>1, <2>3, <3>2, <3>3, <3>4
    <2> QED BY <2>2, <2>3
  <1>8. \A d \in Clients : leases[d].revision > 0 => sent'[d][leases[d].revision] = sent[d][leases[d].revision]
    <2> SUFFICES ASSUME NEW d \in Clients, leases[d].revision > 0
        PROVE  sent'[d][leases[d].revision] = sent[d][leases[d].revision]
      OBVIOUS
    <2>1. leases[d].revision <= revision[d] /\ leases[d].revision \in 0..MaxRevision
      BY <1>1 DEF Asked, TypeOK
    <2>2. leases[d].revision \in Revisions
      BY <1>4, <2>1 DEF Revisions
    <2>3. d = c => leases[d].revision # revision[c] + 1
      BY <1>4, <2>1
    <2> QED BY <1>5, <2>2, <2>3
  <1>9. LatestSnapshot'
    <2>1. \A d \in Clients : leases'[d].revision > 0 => leases'[d].sessions \subseteq sent'[d][leases'[d].revision]
      BY <1>1, <1>3, <1>8 DEF LatestSnapshot
    <2>2. \A d \in Clients : asks'[d] = {} /\ d \notin reaped' => leases'[d].revision = revision'[d]
      BY <1>7 DEF Asked
    <2> QED BY <2>1, <2>2 DEF LatestSnapshot
  <1>10. ClosedIsReleased'
    BY <1>1, <1>3 DEF ClosedIsReleased
  <1>11. ReopenedIsKept'
    BY <1>1, <1>3, <1>8 DEF ReopenedIsKept
  <1> QED BY <1>6, <1>7, <1>9, <1>10, <1>11

LEMMA SetLeasesPages ==
  ASSUME Inv, NEW c \in Clients, NEW r \in Revisions, SetLeases(c, r)
  PROVE  Stored' /\ Asked' /\ LatestSnapshot' /\ ClosedIsReleased' /\ ReopenedIsKept'
  <1>1. TypeOK /\ Stored /\ Asked /\ LatestSnapshot /\ ClosedIsReleased /\ ReopenedIsKept
    BY DEF Inv, Pages
  <1>2. /\ r \in asks[c] /\ asks' = [asks EXCEPT ![c] = @ \ {r}]
        /\ UNCHANGED <<recorded, closed, releasing, exists, notified, op, placed, revision>>
    BY DEF SetLeases, store, pi
  <1>3. Stored'
    BY <1>1, <1>2 DEF Stored
  <1>4. /\ r \in Nat /\ r > 0 /\ revision[c] \in Nat /\ r <= revision[c]
        /\ leases[c].revision \in Nat /\ leases[c].revision <= revision[c]
    BY <1>1, <1>2, ConstantsAssumption DEF TypeOK, Asked, Revisions
  <1>5. asks'[c] = asks[c] \ {r} /\ \A d \in Clients : d # c => asks'[d] = asks[d]
    BY <1>1, <1>2 DEF TypeOK
  <1>6. \A d \in Clients : /\ leases[d].sessions \subseteq placed
                           /\ \A q \in Revisions : sent[d][q] \subseteq placed
                           /\ \A q \in asks[d] : q <= revision[d]
                           /\ leases[d].revision <= revision[d]
                           /\ \/ revision[d] \in asks[d] \/ leases[d].revision = revision[d]
                              \/ d \in reaped /\ asks[d] = {}
    BY <1>1 DEF Asked
  <1>7. CASE Late(c, r)
    <2>1. UNCHANGED <<leases, sent, touched, reaped>>
      BY <1>7 DEF SetLeases, manager
    <2>2. r <= leases[c].revision
      BY <1>7 DEF Late
    <2>3. Asked'
      <3> SUFFICES ASSUME NEW d \in Clients
          PROVE  (/\ leases[d].sessions \subseteq placed
                  /\ \A q \in Revisions : sent[d][q] \subseteq placed
                  /\ \A q \in asks[d] : q <= revision[d]
                  /\ leases[d].revision <= revision[d]
                  /\ \/ revision[d] \in asks[d] \/ leases[d].revision = revision[d]
                     \/ d \in reaped /\ asks[d] = {})'
        BY <1>1, <1>2, <2>1 DEF Asked
      <3>1. CASE d # c
        BY <1>2, <1>5, <1>6, <2>1, <3>1
      <3>2. CASE d = c
        <4>1. revision[c] \in asks'[c] \/ leases[c].revision = revision[c]
          BY <1>2, <1>4, <1>5, <1>6, <2>2
        <4> QED BY <1>2, <1>5, <1>6, <2>1, <3>2, <4>1
      <3> QED BY <3>1, <3>2
    <2>4. LatestSnapshot'
      <3>1. \A d \in Clients : leases'[d].revision > 0 => leases'[d].sessions \subseteq sent'[d][leases'[d].revision]
        BY <1>1, <2>1 DEF LatestSnapshot
      <3>2. \A d \in Clients : asks'[d] = {} /\ d \notin reaped' => leases'[d].revision = revision'[d]
        BY <2>3 DEF Asked
      <3> QED BY <3>1, <3>2 DEF LatestSnapshot
    <2>5. ClosedIsReleased' /\ ReopenedIsKept'
      BY <1>1, <1>2, <2>1 DEF ClosedIsReleased, ReopenedIsKept
    <2> QED BY <1>3, <2>3, <2>4, <2>5
  <1>8. CASE ~Late(c, r)
    <2> DEFINE granted == Claimed(sent[c][r])
               ls == [leases EXCEPT ![c] = [revision |-> r, sessions |-> granted]]
    <2>1. /\ sent' = [sent EXCEPT ![c] = [q \in Revisions |-> IF q < r THEN {} ELSE @[q]]]
          /\ touched' = (IF closed THEN touched \cup {c} ELSE touched \ {c})
          /\ reaped' = reaped \ {c}
      BY <1>8 DEF SetLeases
    <2>2. leases' = ls
      BY <1>8, EvictLeases DEF SetLeases
    <2>3. granted \subseteq sent[c][r] /\ (closed => granted = {}) /\ (~closed => granted = sent[c][r])
      <3>1. sent[c][r] \subseteq recorded
        BY <1>1, <1>6 DEF Stored
      <3> QED BY <3>1 DEF Claimed
    <2> HIDE DEF granted
    <2>4. /\ leases'[c].revision = r /\ leases'[c].sessions = granted
          /\ \A d \in Clients : d # c => leases'[d] = leases[d] /\ sent'[d] = sent[d]
          /\ \A q \in Revisions : sent'[c][q] = IF q < r THEN {} ELSE sent[c][q]
      BY <1>1, <2>1, <2>2 DEF TypeOK
    <2>5. sent'[c][r] = sent[c][r] /\ r > leases[c].revision
      BY <1>4, <1>8, <2>4 DEF Late
    <2>6. Asked'
      <3>1. closed' /\ releasing' => touched' = Clients
        BY <1>1, <1>2, <2>1 DEF Asked
      <3> SUFFICES ASSUME NEW d \in Clients
          PROVE  (/\ leases[d].sessions \subseteq placed
                  /\ \A q \in Revisions : sent[d][q] \subseteq placed
                  /\ \A q \in asks[d] : q <= revision[d]
                  /\ leases[d].revision <= revision[d]
                  /\ \/ revision[d] \in asks[d] \/ leases[d].revision = revision[d]
                     \/ d \in reaped /\ asks[d] = {})'
        BY <3>1 DEF Asked
      <3>2. CASE d # c
        BY <1>2, <1>5, <1>6, <2>1, <2>4, <3>2
      <3>3. CASE d = c
        <4>1. revision[c] \in asks[c] \/ leases[c].revision = revision[c]
          BY <1>2, <1>6
        <4>2. revision[c] \in asks'[c] \/ r = revision[c]
          BY <1>4, <1>5, <2>5, <4>1
        <4>3. granted \subseteq placed
          BY <1>6, <2>3
        <4>4. \A q \in Revisions : sent'[c][q] \subseteq placed
          BY <1>6, <2>4
        <4> QED BY <1>2, <1>4, <1>5, <1>6, <2>4, <3>3, <4>2, <4>3, <4>4
      <3> QED BY <3>2, <3>3
    <2>7. LatestSnapshot'
      <3>1. \A d \in Clients : leases'[d].revision > 0 => leases'[d].sessions \subseteq sent'[d][leases'[d].revision]
        BY <1>1, <2>3, <2>4, <2>5 DEF LatestSnapshot
      <3>2. \A d \in Clients : asks'[d] = {} /\ d \notin reaped' => leases'[d].revision = revision'[d]
        BY <2>6 DEF Asked
      <3> QED BY <3>1, <3>2 DEF LatestSnapshot
    <2>8. ClosedIsReleased'
      BY <1>1, <1>2, <2>3, <2>4 DEF ClosedIsReleased
    <2>9. ReopenedIsKept'
      <3> SUFFICES ASSUME NEW d \in Clients, d \notin touched', leases'[d].revision > 0
          PROVE  leases'[d].sessions = sent'[d][leases'[d].revision]
        BY DEF ReopenedIsKept
      <3>1. CASE d = c
        BY <2>1, <2>3, <2>4, <2>5, <3>1
      <3>2. CASE d # c
        BY <1>1, <2>1, <2>4, <3>2 DEF ReopenedIsKept
      <3> QED BY <3>1, <3>2
    <2> QED BY <1>3, <2>6, <2>7, <2>8, <2>9
  <1> QED BY <1>7, <1>8

LEMMA ReleaseClientPages ==
  ASSUME Inv, NEW c \in Clients, ReleaseClient(c)
  PROVE  Stored' /\ Asked' /\ LatestSnapshot' /\ ClosedIsReleased' /\ ReopenedIsKept'
  <1>1. TypeOK /\ Stored /\ Asked /\ LatestSnapshot /\ ClosedIsReleased /\ ReopenedIsKept
    BY DEF Inv, Pages
  <1>2. /\ UNCHANGED <<recorded, closed, releasing, exists, notified, op, placed, revision, sent, asks, touched>>
        /\ reaped' = reaped \cup {c} /\ asks[c] = {}
    BY DEF ReleaseClient, store, pi, pages
  <1>3. leases' = [leases EXCEPT ![c] = NoLeases]
    BY EvictLeases DEF ReleaseClient
  <1>4. /\ leases'[c].revision = 0 /\ leases'[c].sessions = {}
        /\ \A d \in Clients : d # c => leases'[d] = leases[d]
    BY <1>1, <1>3 DEF NoLeases, TypeOK
  <1>5. Stored'
    BY <1>1, <1>2 DEF Stored
  <1>6. Asked'
    <2> SUFFICES ASSUME NEW d \in Clients
        PROVE  (/\ leases[d].sessions \subseteq placed
                /\ \A q \in Revisions : sent[d][q] \subseteq placed
                /\ \A q \in asks[d] : q <= revision[d]
                /\ leases[d].revision <= revision[d]
                /\ \/ revision[d] \in asks[d] \/ leases[d].revision = revision[d]
                   \/ d \in reaped /\ asks[d] = {})'
      BY <1>1, <1>2 DEF Asked
    <2>1. /\ leases[d].sessions \subseteq placed
          /\ \A q \in Revisions : sent[d][q] \subseteq placed
          /\ \A q \in asks[d] : q <= revision[d]
          /\ leases[d].revision <= revision[d]
          /\ \/ revision[d] \in asks[d] \/ leases[d].revision = revision[d]
             \/ d \in reaped /\ asks[d] = {}
      BY <1>1 DEF Asked
    <2>2. CASE d # c
      BY <1>2, <1>4, <2>1, <2>2
    <2>3. CASE d = c
      <3>1. 0 <= revision[c]
        BY <1>1, ConstantsAssumption DEF TypeOK
      <3> QED BY <1>2, <1>4, <2>1, <2>3, <3>1
    <2> QED BY <2>2, <2>3
  <1>7. LatestSnapshot'
    <2>1. \A d \in Clients : leases'[d].revision > 0 => leases'[d].sessions \subseteq sent'[d][leases'[d].revision]
      BY <1>1, <1>2, <1>4 DEF LatestSnapshot
    <2>2. \A d \in Clients : asks'[d] = {} /\ d \notin reaped' => leases'[d].revision = revision'[d]
      BY <1>6 DEF Asked
    <2> QED BY <2>1, <2>2 DEF LatestSnapshot
  <1>8. ClosedIsReleased' /\ ReopenedIsKept'
    <2>1. \A d \in Clients : leases'[d].revision > 0 => leases'[d] = leases[d]
      BY <1>4
    <2> QED BY <1>1, <1>2, <2>1 DEF ClosedIsReleased, ReopenedIsKept
  <1> QED BY <1>5, <1>6, <1>7, <1>8

LEMMA ProjectPages ==
  ASSUME Inv, CloseProject \/ OpenProject \/ ReleaseProject
  PROVE  Stored' /\ Asked' /\ LatestSnapshot' /\ ClosedIsReleased' /\ ReopenedIsKept'
  <1>1. TypeOK /\ Stored /\ Asked /\ LatestSnapshot /\ ClosedIsReleased /\ ReopenedIsKept
    BY DEF Inv, Pages
  <1>2. UNCHANGED <<recorded, exists, notified, op, placed, revision, sent, asks, reaped>>
    BY DEF CloseProject, OpenProject, ReleaseProject, pi, pages, history
  <1>3. Stored'
    BY <1>1, <1>2 DEF Stored
  <1>4. CASE CloseProject
    <2>1. UNCHANGED leases /\ closed' = TRUE /\ releasing' = TRUE /\ touched' = Clients
      BY <1>4 DEF CloseProject, manager
    <2>2. Asked'
      BY <1>1, <1>2, <2>1 DEF Asked
    <2>3. LatestSnapshot' /\ ClosedIsReleased' /\ ReopenedIsKept'
      BY <1>1, <1>2, <2>1 DEF LatestSnapshot, ClosedIsReleased, ReopenedIsKept
    <2> QED BY <1>3, <2>2, <2>3
  <1>5. CASE OpenProject
    <2>1. UNCHANGED <<leases, releasing, touched>> /\ closed' = FALSE
      BY <1>5 DEF OpenProject, manager, history
    <2>2. Asked'
      BY <1>1, <1>2, <2>1 DEF Asked
    <2>3. LatestSnapshot' /\ ClosedIsReleased' /\ ReopenedIsKept'
      BY <1>1, <1>2, <2>1 DEF LatestSnapshot, ClosedIsReleased, ReopenedIsKept
    <2> QED BY <1>3, <2>2, <2>3
  <1>6. CASE ReleaseProject /\ ~closed
    <2>1. UNCHANGED <<leases, closed, touched>> /\ releasing' = FALSE
      BY <1>6 DEF ReleaseProject, history, StillClosed
    <2>2. Asked'
      BY <1>1, <1>2, <2>1 DEF Asked
    <2>3. LatestSnapshot' /\ ClosedIsReleased' /\ ReopenedIsKept'
      BY <1>1, <1>2, <1>6, <2>1 DEF LatestSnapshot, ClosedIsReleased, ReopenedIsKept
    <2> QED BY <1>3, <2>2, <2>3
  <1>7. CASE ReleaseProject /\ closed
    <2>1. /\ UNCHANGED <<closed, touched>> /\ releasing' = FALSE /\ touched = Clients
          /\ leases' = [c \in Clients |-> [leases[c] EXCEPT !.sessions = {}]]
      BY <1>1, <1>7, EvictLeases DEF ReleaseProject, history, StillClosed, Asked
    <2>2. \A c \in Clients : leases'[c].revision = leases[c].revision /\ leases'[c].sessions = {}
      BY <1>1, <2>1 DEF TypeOK
    <2>3. Asked'
      BY <1>1, <1>2, <2>1, <2>2 DEF Asked
    <2>4. LatestSnapshot' /\ ClosedIsReleased' /\ ReopenedIsKept'
      BY <1>1, <1>2, <2>1, <2>2 DEF LatestSnapshot, ClosedIsReleased, ReopenedIsKept
    <2> QED BY <1>3, <2>3, <2>4
  <1> QED BY <1>4, <1>5, <1>6, <1>7

-----------------------------------------------------------------------------
(* Types. *)

Ranges == /\ lifecycle \subseteq Sessions /\ pending \subseteq Sessions /\ recorded \subseteq Sessions
          /\ disk \subseteq Sessions /\ exists \subseteq Sessions /\ archived \subseteq Sessions
          /\ notified \subseteq Sessions /\ placed \subseteq Sessions

LEMMA OperationRanges ==
  ASSUME Inv, Ranges, NEW t \in Operations, OperationStep(t)
  PROVE  Ranges'
  <1>1. /\ Operates(op[t], lifecycle, exists, placed, pending, notified)
        /\ op[t].step \in OnOne \cup Named => op[t].session \in Sessions
    BY DEF Inv, Manager, Operating, Operates
  <1>2. Left(t) \subseteq pending
    BY DEF Left
  <1>3. CASE Begin(t) \/ Install(t) \/ Lock(t) \/ AttachFails(t) \/ Opened(t) \/ Answered(t) \/ BeginCreate(t)
    BY <1>3 DEF Ranges, Begin, Install, Lock, AttachFails, Opened, Answered, BeginCreate, manager, store, pi, history
  <1>4. CASE Work(t)
    <2>1. op[t].session \in Sessions
      BY <1>1, <1>4 DEF Work, OnOne, InUse
    <2>2. disk' \subseteq disk \cup {op[t].session}
      BY <1>4 DEF Work
    <2> QED BY <1>4, <2>1, <2>2 DEF Ranges, Work, pi, history
  <1>5. CASE Reserve(t)
    <2>1. op[t].session \in Sessions
      BY <1>1, <1>5 DEF Reserve, OnOne, InUse
    <2>2. lifecycle' \subseteq lifecycle \cup {op[t].session}
      BY <1>5 DEF Reserve
    <2> QED BY <1>5, <2>1, <2>2 DEF Ranges, Reserve, store, pi, history
  <1>6. CASE Archive(t)
    <2>1. op[t].session \in Sessions
      BY <1>1, <1>6 DEF Archive, OnOne, InUse
    <2>2. archived' \subseteq archived \cup {op[t].session}
      BY <1>6 DEF Archive
    <2> QED BY <1>6, <2>1, <2>2 DEF Ranges, Archive, store, history
  <1>7. CASE Finish(t)
    <2>1. lifecycle' \subseteq lifecycle
      BY <1>7 DEF Finish
    <2> QED BY <1>7, <2>1 DEF Ranges, Finish, store, pi, history
  <1>8. CASE NewSession(t)
    <2>1. exists' \subseteq exists \cup Sessions
      BY <1>8 DEF NewSession
    <2> QED BY <1>8, <2>1 DEF Ranges, NewSession, manager, store, history
  <1>9. CASE CreateFails(t)
    BY <1>2, <1>9 DEF Ranges, CreateFails, store, pi, history
  <1>10. CASE Record(t)
    <2>1. op[t].session \in Sessions
      BY <1>1, <1>10 DEF Record, Named
    <2> QED BY <1>10, <2>1 DEF Ranges, Record, manager, pi, history
  <1>11. CASE Place(t)
    <2>1. op[t].session \in Sessions
      BY <1>1, <1>11 DEF Place, Named
    <2>2. placed' = placed \cup {op[t].session} /\ pending' \subseteq pending
      BY <1>2, <1>11 DEF Place
    <2> QED BY <1>11, <2>1, <2>2 DEF Ranges, Place, store, pi
  <1> QED BY <1>3, <1>4, <1>5, <1>6, <1>7, <1>8, <1>9, <1>10, <1>11 DEF OperationStep

LEMMA RangesKept ==
  ASSUME Inv, Ranges, [Next]_vars
  PROVE  Ranges'
  <1>1. CASE UNCHANGED vars
    BY <1>1 DEF Ranges, vars, manager, store, pi, history
  <1>2. CASE \E c \in Clients : Flush(c) \/ ReleaseClient(c) \/ \E r \in Revisions : SetLeases(c, r)
    BY <1>2 DEF Ranges, Flush, ReleaseClient, SetLeases, manager, store, pi, history
  <1>3. CASE \E t \in Operations : OperationStep(t)
    BY <1>3, OperationRanges
  <1>4. CASE \E s \in Sessions : Streams(s) \/ \E n \in 1..MaxProjections : WorkEnds(s, n)
    BY <1>4 DEF Ranges, Streams, WorkEnds, store, pi, history
  <1>5. ASSUME NEW s \in Sessions, Notify(s)
        PROVE  Ranges'
    <2>1. pending' \subseteq pending \cup {s} /\ notified' = notified \cup {s}
      BY <1>5 DEF Notify
    <2> QED BY <1>5, <2>1 DEF Ranges, Notify, store, history
  <1>6. CASE CloseProject \/ OpenProject \/ ReleaseProject
    BY <1>6 DEF Ranges, CloseProject, OpenProject, ReleaseProject, manager, pi, history
  <1> QED BY <1>1, <1>2, <1>3, <1>4, <1>5, <1>6 DEF Next

LEMMA PagesType ==
  ASSUME Inv, [Next]_vars
  PROVE  /\ closed' \in BOOLEAN /\ releasing' \in BOOLEAN
         /\ revision' \in [Clients -> 0..MaxRevision]
         /\ sent' \in [Clients -> [Revisions -> SUBSET Sessions]]
         /\ asks' \in [Clients -> SUBSET Revisions]
         /\ touched' \subseteq Clients /\ reaped' \subseteq Clients
  <1>1. /\ closed \in BOOLEAN /\ releasing \in BOOLEAN
        /\ revision \in [Clients -> 0..MaxRevision]
        /\ sent \in [Clients -> [Revisions -> SUBSET Sessions]]
        /\ asks \in [Clients -> SUBSET Revisions]
        /\ touched \subseteq Clients /\ reaped \subseteq Clients /\ placed \subseteq Sessions
    BY DEF Inv, Pages, TypeOK
  <1>2. CASE UNCHANGED <<closed, releasing, pages, touched, reaped>>
    BY <1>1, <1>2 DEF pages
  <1>3. ASSUME NEW c \in Clients, Flush(c)
        PROVE  /\ revision' \in [Clients -> 0..MaxRevision]
               /\ sent' \in [Clients -> [Revisions -> SUBSET Sessions]]
               /\ asks' \in [Clients -> SUBSET Revisions]
               /\ UNCHANGED <<closed, releasing, touched, reaped>>
    <2>1. PICK show \in SUBSET placed :
          /\ revision[c] < MaxRevision /\ revision' = [revision EXCEPT ![c] = @ + 1]
          /\ sent' = [sent EXCEPT ![c][revision[c] + 1] = show]
          /\ asks' = [asks EXCEPT ![c] = @ \cup {revision[c] + 1}]
      BY <1>3 DEF Flush
    <2>2. revision[c] + 1 \in 0..MaxRevision /\ revision[c] + 1 \in Revisions /\ show \in SUBSET Sessions
      BY <1>1, <2>1, ConstantsAssumption DEF Revisions
    <2>3. revision' \in [Clients -> 0..MaxRevision] /\ asks' \in [Clients -> SUBSET Revisions]
      BY <1>1, <2>1, <2>2
    <2>4. sent' \in [Clients -> [Revisions -> SUBSET Sessions]]
      BY <1>1, <2>1, <2>2
    <2> QED BY <1>3, <2>3, <2>4 DEF Flush, store, history
  <1>4. ASSUME NEW c \in Clients, NEW r \in Revisions, SetLeases(c, r)
        PROVE  /\ sent' \in [Clients -> [Revisions -> SUBSET Sessions]]
               /\ asks' \in [Clients -> SUBSET Revisions]
               /\ touched' \subseteq Clients /\ reaped' \subseteq Clients
               /\ UNCHANGED <<closed, releasing, revision>>
    <2>1. asks' = [asks EXCEPT ![c] = @ \ {r}] /\ UNCHANGED <<closed, releasing, revision>>
      BY <1>4 DEF SetLeases, store
    <2>2. asks' \in [Clients -> SUBSET Revisions]
      BY <1>1, <2>1
    <2>3. CASE Late(c, r)
      BY <1>1, <1>4, <2>1, <2>2, <2>3 DEF SetLeases
    <2>4. CASE ~Late(c, r)
      <3>1. /\ sent' = [sent EXCEPT ![c] = [q \in Revisions |-> IF q < r THEN {} ELSE @[q]]]
            /\ touched' = (IF closed THEN touched \cup {c} ELSE touched \ {c}) /\ reaped' = reaped \ {c}
        BY <1>4, <2>4 DEF SetLeases
      <3>2. sent' \in [Clients -> [Revisions -> SUBSET Sessions]]
        BY <1>1, <3>1
      <3> QED BY <1>1, <2>1, <2>2, <3>1, <3>2
    <2> QED BY <2>3, <2>4
  <1>5. ASSUME NEW c \in Clients, ReleaseClient(c)
        PROVE  reaped' \subseteq Clients /\ UNCHANGED <<closed, releasing, pages, touched>>
    BY <1>1, <1>5 DEF ReleaseClient, store, pages
  <1>6. CASE CloseProject \/ OpenProject \/ ReleaseProject
    BY <1>1, <1>6 DEF CloseProject, OpenProject, ReleaseProject, pages, history
  <1>7. ASSUME NEW t \in Operations, OperationStep(t)
        PROVE  UNCHANGED <<closed, releasing, pages, touched, reaped>>
    BY <1>7, CalmOperation DEF Calm, pages
  <1>8. CASE \E s \in Sessions : Streams(s) \/ Notify(s) \/ \E n \in 1..MaxProjections : WorkEnds(s, n)
    BY <1>2, <1>8 DEF Streams, Notify, WorkEnds, store, history
  <1>9. CASE UNCHANGED vars
    BY <1>2, <1>9 DEF vars, store, history
  <1> QED BY <1>1, <1>2, <1>3, <1>4, <1>5, <1>6, <1>7, <1>8, <1>9 DEF Next, pages

LEMMA PagesKept ==
  ASSUME Inv, [Next]_vars, Manager'
  PROVE  Pages'
  <1>1. TypeOK'
    <2>1. Ranges
      BY DEF Inv, Pages, TypeOK, Ranges
    <2>2. Ranges'
      BY <2>1, RangesKept
    <2>3. (UNION {lifecycle, pending, recorded, disk, exists, archived, notified, placed})' \subseteq Sessions
      BY <2>2 DEF Ranges
    <2>4. CurrentType(current') /\ ProjectionType(projection') /\ LeasesType(leases') /\ OpType(op')
      BY DEF Manager, Fits
    <2> QED BY <2>3, <2>4, PagesType DEF TypeOK, CurrentType, ProjectionType, LeasesType, OpType
  <1>2. Stored /\ Asked /\ LatestSnapshot /\ ClosedIsReleased /\ ReopenedIsKept
    BY DEF Inv, Pages
  <1>3. ASSUME NEW t \in Operations, OperationStep(t)
        PROVE  Calm /\ Stored'
    BY <1>3, CalmOperation
  <1>4. ASSUME NEW s \in Sessions, Streams(s) \/ Notify(s) \/ \E n \in 1..MaxProjections : WorkEnds(s, n)
        PROVE  Calm /\ Stored'
    <2>1. leases' = leases
      BY <1>4, EvictLeases DEF Streams, Notify, WorkEnds
    <2>2. UNCHANGED <<op, recorded, exists, placed, pages, closed, releasing, touched, reaped>>
      BY <1>4 DEF Streams, Notify, WorkEnds, store, pi, history
    <2>3. notified' \subseteq exists
      BY <1>2, <1>4 DEF Streams, Notify, WorkEnds, pi, Stored
    <2> QED BY <1>2, <2>1, <2>2, <2>3 DEF Calm, Stored, pages
  <1>5. CASE UNCHANGED vars
    <2>1. UNCHANGED <<leases, op, recorded, exists, notified, placed, pages, closed, releasing, touched, reaped>>
      BY <1>5 DEF vars, manager, store, pi, history
    <2> QED BY <1>1, <1>2, <2>1, CalmKeeps DEF Calm, Stored, pages, Pages
  <1>6. CASE Calm /\ Stored'
    BY <1>1, <1>6, CalmKeeps DEF Pages
  <1>7. ASSUME NEW c \in Clients, Flush(c)
        PROVE  Pages'
    BY <1>1, <1>7, FlushKeeps DEF Pages
  <1>8. ASSUME NEW c \in Clients, ReleaseClient(c)
        PROVE  Pages'
    BY <1>1, <1>8, ReleaseClientPages DEF Pages
  <1>9. ASSUME NEW c \in Clients, NEW r \in Revisions, SetLeases(c, r)
        PROVE  Pages'
    BY <1>1, <1>9, SetLeasesPages DEF Pages
  <1>10. CASE CloseProject \/ OpenProject \/ ReleaseProject
    BY <1>1, <1>10, ProjectPages DEF Pages
  <1> QED BY <1>3, <1>4, <1>5, <1>6, <1>7, <1>8, <1>9, <1>10 DEF Next

-----------------------------------------------------------------------------
(* The initial states. *)

LEMMA InitManager ==
  ASSUME Init
  PROVE  Manager
  <1>1. /\ current = [s \in Sessions |-> 0]
        /\ projection = [s \in Sessions |-> [n \in 1..MaxProjections |-> Fresh]]
        /\ leases = [c \in Clients |-> NoLeases] /\ op = [t \in Operations |-> Nobody]
    BY DEF Init
  <1>2. OpType(op) /\ CurrentType(current) /\ ProjectionType(projection) /\ LeasesType(leases)
    BY <1>1, NobodyType, FreshType, ConstantsAssumption DEF OpType, CurrentType, ProjectionType, LeasesType, NoLeases
  <1>3. \A t \in Operations : op[t].step = "idle" /\ op[t].on = 0 /\ op[t].session = "none"
    BY <1>1, NobodyType
  <1>4. Operating(op, lifecycle, exists, placed, pending, notified)
    BY <1>3 DEF Operating, Operates, Apart, OnOne, InUse, Named
  <1>5. Counted(projection, op)
    <2> SUFFICES ASSUME NEW s \in Sessions, NEW n \in 1..MaxProjections
        PROVE  projection[s][n].refs = Cardinality(On(op, s, n)) + Works(projection[s][n])
      BY DEF Counted
    <2>1. n # 0
      BY ConstantsAssumption
    <2>2. On(op, s, n) = {}
      BY <1>3, <2>1 DEF On
    <2>3. Cardinality(On(op, s, n)) = 0
      BY <2>2, FS_EmptySet
    <2>4. projection[s][n].refs = 0 /\ Works(projection[s][n]) = 0
      BY <1>1, FreshType DEF Works
    <2> QED BY <2>3, <2>4
  <1>6. Used(current, op, archived)
    BY <1>3 DEF Used, InUse
  <1>7. Projected(current, leases, lifecycle, archived)
    BY <1>1 DEF Projected, NoLeases
  <1>8. Told(current, projection, notified) /\ Present(current, placed)
    <2>1. notified \subseteq Sessions
      BY DEF Init
    <2> QED BY <1>1, <2>1 DEF Told, Present
  <1>9. WithinBudget
    <2>1. Evictable(current, projection, leases) = {}
      BY <1>1 DEF Evictable
    <2>2. Cardinality(Evictable(current, projection, leases)) = 0 /\ MaxIdle \in Nat
      BY <2>1, FS_EmptySet, ConstantsAssumption
    <2> QED BY <2>2 DEF WithinBudget
  <1> QED BY <1>2, <1>4, <1>5, <1>6, <1>7, <1>8, <1>9 DEF Manager, Fits

LEMMA InitPages ==
  ASSUME Init
  PROVE  Pages
  <1>1. CurrentType(current) /\ ProjectionType(projection) /\ LeasesType(leases) /\ OpType(op)
    BY InitManager DEF Manager, Fits
  <1>2. /\ leases = [c \in Clients |-> NoLeases] /\ op = [t \in Operations |-> Nobody]
        /\ lifecycle = {} /\ pending = {} /\ disk = {} /\ archived = {}
        /\ closed = FALSE /\ releasing = FALSE
        /\ revision = [c \in Clients |-> 0] /\ sent = [c \in Clients |-> [r \in Revisions |-> {}]]
        /\ asks = [c \in Clients |-> {}] /\ touched = {} /\ reaped = {}
    BY DEF Init
  <1>3. PICK old \in SUBSET Sessions : recorded = old /\ exists = old /\ notified = old /\ placed = old
    BY DEF Init
  <1>4. UNION {lifecycle, pending, recorded, disk, exists, archived, notified, placed} \subseteq Sessions
    BY <1>2, <1>3
  <1>5. /\ revision \in [Clients -> 0..MaxRevision] /\ sent \in [Clients -> [Revisions -> SUBSET Sessions]]
        /\ asks \in [Clients -> SUBSET Revisions]
    BY <1>2, ConstantsAssumption
  <1>6. TypeOK
    BY <1>1, <1>2, <1>4, <1>5 DEF TypeOK, CurrentType, ProjectionType, LeasesType, OpType
  <1>7. Stored
    BY <1>2, <1>3, NobodyType DEF Stored
  <1>8. Asked
    BY <1>2 DEF Asked, NoLeases
  <1>9. LatestSnapshot /\ ClosedIsReleased /\ ReopenedIsKept
    BY <1>2 DEF LatestSnapshot, ClosedIsReleased, ReopenedIsKept, NoLeases
  <1> QED BY <1>6, <1>7, <1>8, <1>9 DEF Pages

-----------------------------------------------------------------------------
(* Inv holds, and what the manager promises follows from it. *)

\* Every reference is counted, every answer of a page's is told apart from a
\* later one's, and eviction stays within its budget (session_manager.go:840-1110).
THEOREM Invariant == Spec => []Inv
  <1>1. Init => Inv
    BY InitManager, InitPages DEF Inv
  <1>2. Inv /\ [Next]_vars => Inv'
    BY ManagerKept, PagesKept DEF Inv
  <1> QED BY <1>1, <1>2, PTL DEF Spec

\* A session that a client shows has a projection unless it was archived, a
\* client holds what its latest snapshot says in whatever order its snapshots
\* came, and what a project's closing has released stays released, whatever
\* else is under way (session_manager.go:838-958, 994-1016).
THEOREM LeasesKept == Spec => []LeasesAreKept
  <1>1. Inv => LeasesAreKept
    <2> SUFFICES ASSUME Inv
        PROVE  LeasesAreKept
      OBVIOUS
    <2>1. LeasedIsProjected
      BY DEF Inv, Manager, Fits, Projected, LeasedIsProjected
    <2> QED BY <2>1 DEF Inv, Pages, LeasesAreKept
  <1> QED BY <1>1, Invariant, PTL

\* A projection that an operation waits for, works on or reads is the session's,
\* neither evicted nor archived by another one; what nobody uses stays within
\* the budget; and a session's commands reach its projection whether they come
\* before its name or after (session_manager.go:243-246, 1046, 1087-1092,
\* session_operations.go:111).
THEOREM ProjectionsKept == Spec => []ProjectionsAreKept
  <1>1. Inv => ProjectionsAreKept
    <2> SUFFICES ASSUME Inv
        PROVE  ProjectionsAreKept
      OBVIOUS
    <2>1. InUseIsProjected
      BY DEF Inv, Manager, Fits, Used, InUse, InUseIsProjected
    <2>2. CommandsArrive
      BY DEF Inv, Manager, Fits, Told, CommandsArrive
    <2> QED BY <2>1, <2>2 DEF Inv, Manager, ProjectionsAreKept
  <1> QED BY <1>1, Invariant, PTL
==============================================================================
