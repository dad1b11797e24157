------------------------------- MODULE PageProofs -------------------------------
(***************************************************************************)
(* Proofs about the logins that the pages are shown.                        *)
(*                                                                         *)
(* ProviderLogins, for any browsers, providers, logins, frames and faults:  *)
(* that a browser and a provider take part in one login at a time, that a   *)
(* login whose start was answered ends once, and that a browser is shown    *)
(* nothing of a login that is over while it has another.  Two facts carry   *)
(* the argument.  What the controller has registered agrees with how far    *)
(* the goroutine of a login has come (Registered).  And Pi says nothing of  *)
(* a login before it was told to begin it, so that no frame can end a login *)
(* whose browser does not know of it yet (BegunFirst).                      *)
(***************************************************************************)
EXTENDS ProviderLogins, FiniteSetTheorems, SequenceTheorems, TLAPS

Registered ==
    /\ \A l \in pending : Known(l) \/ starter[l] = "start"
    /\ \A l \in pending : l \notin cancelled
    /\ \A l \in cancelled : Known(l)
    /\ \A l \in Logins : starter[l] = "start" => l \in pending \/ closed
    /\ closed => pending = {}

\* The logins whose loginBegin was called, or that ended before it could be.
Beginners == {l \in Logins : starter[l] \in {"begin", "over"}}

BegunFirst ==
    /\ \A k \in DOMAIN calls : calls[k].what = "begin" => calls[k].login \in Beginners
    /\ \A k \in DOMAIN frames : frames[k].login \in Beginners
    /\ \A l \in Logins : Begun(l) => l \in Beginners

Inv == LoginsAreSafe /\ Registered /\ BegunFirst
-----------------------------------------------------------------------------
(* The helpers of the model. *)

\* A sequence with one more, one that has lost its first, and two of them.
LEMMA Lengthened ==
    ASSUME NEW S, NEW s \in Seq(S), NEW x \in S
    PROVE  /\ Append(s, x) \in Seq(S) /\ Len(s) \in Nat /\ DOMAIN s = 1..Len(s)
           /\ Len(Append(s, x)) = Len(s) + 1 /\ DOMAIN Append(s, x) = 1..(Len(s) + 1)
           /\ Append(s, x)[Len(s) + 1] = x
           /\ \A k \in 1..Len(s) : Append(s, x)[k] = s[k]
  <1>1. Append(s, x) \in Seq(S) /\ Len(Append(s, x)) = Len(s) + 1
    BY AppendProperties
  <1>2. Append(s, x)[Len(s) + 1] = x /\ \A k \in 1..Len(s) : Append(s, x)[k] = s[k]
    BY AppendProperties
  <1>3. Len(s) \in Nat /\ DOMAIN s = 1..Len(s) /\ DOMAIN Append(s, x) = 1..Len(Append(s, x))
    BY <1>1, LenProperties
  <1> QED BY <1>1, <1>2, <1>3

\* What is in a sequence that has one more.
LEMMA LengthenedPlaces ==
    ASSUME NEW S, NEW s \in Seq(S), NEW x \in S, NEW r, r = Append(s, x)
    PROVE  /\ \A k \in DOMAIN s : k \in DOMAIN r /\ r[k] = s[k]
           /\ \A k \in DOMAIN r : (k \in DOMAIN s /\ r[k] = s[k]) \/ r[k] = x
           /\ \A k, l \in DOMAIN r : k < l => k \in DOMAIN s
  <1>1. /\ Len(s) \in Nat /\ DOMAIN s = 1..Len(s) /\ DOMAIN r = 1..(Len(s) + 1)
        /\ r[Len(s) + 1] = x /\ \A k \in 1..Len(s) : r[k] = s[k]
    BY Lengthened
  <1>2. ASSUME NEW k \in DOMAIN r PROVE k \in DOMAIN s \/ k = Len(s) + 1
    BY <1>1
  <1>3. ASSUME NEW k \in DOMAIN r, NEW l \in DOMAIN r, k < l PROVE k \in DOMAIN s
    BY <1>1, <1>3
  <1>4. \A k \in DOMAIN s : k \in DOMAIN r /\ r[k] = s[k]
    BY <1>1
  <1>5. \A k \in DOMAIN r : (k \in DOMAIN s /\ r[k] = s[k]) \/ r[k] = x
    BY <1>1, <1>2
  <1> QED BY <1>3, <1>4, <1>5

LEMMA Shortened ==
    ASSUME NEW S, NEW s \in Seq(S), s # <<>>
    PROVE  /\ Tail(s) \in Seq(S) /\ Len(s) \in Nat \ {0} /\ DOMAIN s = 1..Len(s)
           /\ Head(s) = s[1] /\ s[1] \in S /\ 1 \in DOMAIN s
           /\ Len(Tail(s)) = Len(s) - 1 /\ DOMAIN Tail(s) = 1..(Len(s) - 1)
           /\ \A k \in 1..(Len(s) - 1) : Tail(s)[k] = s[k + 1]
  <1>1. /\ Tail(s) \in Seq(S) /\ Len(Tail(s)) = Len(s) - 1 /\ Head(s) \in S
        /\ \A k \in 1..Len(Tail(s)) : Tail(s)[k] = s[k + 1]
    BY HeadTailProperties
  <1>2. Len(s) \in Nat \ {0} /\ DOMAIN s = 1..Len(s) /\ DOMAIN Tail(s) = 1..Len(Tail(s))
    BY <1>1, EmptySeq, LenProperties
  <1>3. Head(s) = s[1]
    BY <1>2
  <1> QED BY <1>1, <1>2, <1>3

\* What is in a sequence that has one more, or one less.
LEMMA Longer ==
    ASSUME NEW S, NEW s \in Seq(S), NEW x \in S
    PROVE  /\ Append(s, x) \in Seq(S)
           /\ \A k \in DOMAIN Append(s, x) :
                Append(s, x)[k] = x \/ (k \in DOMAIN s /\ Append(s, x)[k] = s[k])
  <1>1. Append(s, x) \in Seq(S) /\ Len(Append(s, x)) = Len(s) + 1
    BY AppendProperties
  <1>2. \A k \in 1 .. Len(s) + 1 : Append(s, x)[k] = IF k <= Len(s) THEN s[k] ELSE x
    BY AppendProperties
  <1>3. DOMAIN Append(s, x) = 1 .. Len(s) + 1 /\ DOMAIN s = 1 .. Len(s) /\ Len(s) \in Nat
    BY <1>1, LenProperties
  <1> QED BY <1>1, <1>2, <1>3

LEMMA Shorter ==
    ASSUME NEW S, NEW s \in Seq(S), s # <<>>
    PROVE  /\ Tail(s) \in Seq(S) /\ Head(s) \in S
           /\ 1 \in DOMAIN s /\ Head(s) = s[1]
           /\ \A k \in DOMAIN Tail(s) : k + 1 \in DOMAIN s /\ Tail(s)[k] = s[k + 1]
  <1>1. /\ Tail(s) \in Seq(S) /\ Len(Tail(s)) = Len(s) - 1 /\ Head(s) \in S
        /\ \A k \in 1 .. Len(Tail(s)) : Tail(s)[k] = s[k + 1]
    BY HeadTailProperties
  <1>2. Len(s) \in Nat \ {0} /\ DOMAIN s = 1 .. Len(s) /\ DOMAIN Tail(s) = 1 .. Len(Tail(s))
    BY <1>1, EmptySeq, LenProperties
  <1>3. Head(s) = s[1]
    BY <1>2
  <1> QED BY <1>1, <1>2, <1>3

\* The kinds of records on the wire.
CallRecord  == [what : {"start", "begin", "reply", "cancel"}, login : Logins]
FrameRecord == [login : Logins, kind : Kinds]

LEMMA CallIsRecord ==
    ASSUME NEW l \in Logins, NEW what \in {"start", "begin", "reply", "cancel"}
    PROVE  Call(what, l) \in CallRecord /\ Call(what, l).what = what /\ Call(what, l).login = l
  BY DEF Call, CallRecord

LEMMA FrameIsRecord ==
    ASSUME NEW l \in Logins, NEW kind \in Kinds
    PROVE  Frame(l, kind) \in FrameRecord /\ Frame(l, kind).login = l
  BY DEF Frame, FrameRecord

\* A frame is cached for the browser of its login, and for no other.
LEMMA CacheKeeps ==
    ASSUME TypeOK, NEW l \in Logins, NEW kind \in Kinds, Cache(l, kind)
    PROVE  /\ snapshot' \in [Clients -> FrameRecord \cup {NoFrame}]
           /\ snapshot'[ClientOf[l]].login = l
           /\ \A c \in Clients : c # ClientOf[l] => snapshot'[c] = snapshot[c]
  <1>1. ClientOf[l] \in Clients /\ Frame(l, kind) \in FrameRecord /\ Frame(l, kind).login = l
    BY FrameIsRecord DEF Clients
  <1> QED BY <1>1 DEF Cache, TypeOK, FrameRecord

\* A login that ends has its last frame cached and its browser told once more.
LEMMA EndTells ==
    ASSUME TypeOK, NEW l \in Logins, NEW kind \in Kinds, End(l, kind)
    PROVE  /\ snapshot' \in [Clients -> FrameRecord \cup {NoFrame}]
           /\ \A c \in Clients : c # ClientOf[l] => snapshot'[c] = snapshot[c]
           /\ pending' = pending \ {l} /\ pending' \subseteq Logins
           /\ told' \in [Logins -> Nat] /\ told'[l] = told[l] + 1
           /\ \A m \in Logins : m # l => told'[m] = told[m]
  BY CacheKeeps DEF End, TypeOK

\* What a browser loses when it ends its login is that login's frame.
LEMMA ForgottenKeeps ==
    ASSUME TypeOK, NEW l \in Logins, snapshot' = Forgotten(l)
    PROVE  /\ snapshot' \in [Clients -> FrameRecord \cup {NoFrame}]
           /\ \A c \in Clients : snapshot'[c] \in {snapshot[c], NoFrame}
  <1>1. ClientOf[l] \in Clients
    BY DEF Clients
  <1> QED BY <1>1 DEF Forgotten, TypeOK, FrameRecord

-----------------------------------------------------------------------------
(* What the browser relies on, when a step leaves Pi's part of the argument. *)

\* The controller's part, of a step that does not touch it.
LEMMA ControllerStays ==
    ASSUME Inv, UNCHANGED <<controller, told, cancelled>>
    PROVE  OneEach' /\ ToldOnce' /\ SnapshotIsCurrent' /\ CancelledIsForgotten' /\ Registered'
  BY DEF Inv, LoginsAreSafe, controller, OneEach, ToldOnce, SnapshotIsCurrent, CancelledIsForgotten, Registered, Known

\* A step that shows no frame of a cancelled login leaves every such login forgotten.
LEMMA StaysForgotten ==
    ASSUME Inv, UNCHANGED cancelled,
           \A c \in Clients : snapshot'[c] \in {snapshot[c], NoFrame} \/ snapshot'[c].login \notin cancelled
    PROVE  CancelledIsForgotten'
  <1>1. cancelled \subseteq Logins /\ \A l \in Logins : ClientOf[l] \in Clients /\ l # 0
    BY ConstantsAssumption DEF Inv, LoginsAreSafe, TypeOK, Clients, Logins
  <1>2. \A l \in cancelled : snapshot[ClientOf[l]].login # l
    BY DEF Inv, LoginsAreSafe, CancelledIsForgotten
  <1>3. NoFrame.login = 0
    BY DEF NoFrame
  <1> QED BY <1>1, <1>2, <1>3 DEF CancelledIsForgotten

\* Of a step that ends one login, with a frame in the end or without, or none.
LEMMA OneEnds ==
    ASSUME Inv, NEW l \in pending, Known(l), l \notin cancelled,
           UNCHANGED <<closed, cancelled>>,
           \A m \in Logins : starter'[m] = starter[m] \/ (starter[m] = "begin" /\ starter'[m] = "over"),
           pending' = pending \ {l}, told' = [told EXCEPT ![l] = @ + 1],
           \A c \in Clients : c # ClientOf[l] => snapshot'[c] = snapshot[c],
           snapshot'[ClientOf[l]].login = l
    PROVE  OneEach' /\ ToldOnce' /\ SnapshotIsCurrent' /\ CancelledIsForgotten' /\ Registered'
  <1> USE DEF Inv, LoginsAreSafe
  <1>0. l \in Logins /\ pending \subseteq Logins /\ cancelled \subseteq Logins /\ told \in [Logins -> Nat]
    BY DEF TypeOK
  <1>1. /\ \A m \in Logins : (Known(m))' = Known(m) /\ (starter'[m] = "start" <=> starter[m] = "start")
        /\ starter[l] # "start"
    BY DEF Known
  <1>2. OneEach'
    BY DEF OneEach
  <1>3. ToldOnce'
    BY <1>0, <1>1 DEF ToldOnce
  <1>4. SnapshotIsCurrent'
    <2>1. \A m \in pending' : ClientOf[m] \in Clients /\ ClientOf[m] # ClientOf[l]
      BY <1>0 DEF OneEach, Clients
    <2> QED BY <1>0, <1>1, <2>1 DEF SnapshotIsCurrent
  <1>5. Registered'
    BY <1>0, <1>1 DEF Registered
  <1>6. CancelledIsForgotten'
    BY StaysForgotten
  <1> QED BY <1>2, <1>3, <1>4, <1>5, <1>6

-----------------------------------------------------------------------------
(* The controller's part of the invariant, by step of the controller.       *)

LEMMA ControllerSteps ==
    ASSUME Inv, NEW l \in Logins,
           \/ Start(l) \/ StartAnswered(l) \/ (StartGivenUp(l) /\ starter[l] = "start")
           \/ Begin(l) \/ BeginAnswered(l) \/ Cancel(l) \/ Expire(l) \/ CallCancel(l)
    PROVE  OneEach' /\ ToldOnce' /\ SnapshotIsCurrent' /\ CancelledIsForgotten' /\ Registered'
  <1> USE DEF Inv, LoginsAreSafe
  <1>0. /\ TypeOK /\ pending \subseteq Logins /\ cancelled \subseteq Logins
        /\ ClientOf[l] \in Clients /\ \A m \in Logins : ClientOf[m] \in Clients
        /\ "error" \in Kinds /\ "progress" \in Kinds
    BY DEF TypeOK, Clients, Kinds
  <1>1. CASE Start(l)
    <2>1. /\ starter[l] = "none" /\ starter'[l] = "start" /\ ~closed /\ FreeFor(l)
          /\ \A m \in Logins : m # l => starter'[m] = starter[m]
          /\ pending' = pending \cup {l}
          /\ UNCHANGED <<closed, snapshot, told, cancelled>>
      BY <1>0, <1>1 DEF Start, TypeOK
    <2>2. ~Known(l) /\ ~Known(l)' /\ \A m \in Logins : m # l => Known(m)' = Known(m)
      BY <2>1 DEF Known
    <2>3. OneEach'
      BY <2>1 DEF OneEach, FreeFor
    <2>4. ToldOnce' /\ SnapshotIsCurrent'
      BY <1>0, <2>1, <2>2 DEF ToldOnce, SnapshotIsCurrent
    <2>5. Registered'
      BY <1>0, <2>1, <2>2 DEF Registered
    <2> QED BY <2>1, <2>3, <2>4, <2>5, StaysForgotten
  <1>2. CASE StartAnswered(l)
    <2>1. /\ starter[l] = "start" /\ starter'[l] = "answered"
          /\ \A m \in Logins : m # l => starter'[m] = starter[m]
          /\ UNCHANGED <<closed, pending, told, cancelled>>
      BY <1>0, <1>2 DEF StartAnswered, TypeOK
    <2>2. ~Known(l) /\ Known(l)' /\ \A m \in Logins : m # l => Known(m)' = Known(m)
      BY <2>1 DEF Known
    <2>3. /\ snapshot'[ClientOf[l]].login = l
          /\ \A c \in Clients : c # ClientOf[l] => snapshot'[c] = snapshot[c]
      BY <1>0, <1>2, CacheKeeps DEF StartAnswered
    <2>4. l \in pending \/ pending = {}
      BY <1>0, <2>1 DEF Registered
    <2>5. OneEach' /\ ToldOnce'
      BY <1>0, <2>1, <2>2, <2>4 DEF OneEach, ToldOnce, Registered
    <2>6. SnapshotIsCurrent'
      BY <1>0, <2>1, <2>2, <2>3, <2>4 DEF SnapshotIsCurrent, OneEach
    <2>7. Registered'
      BY <1>0, <2>1, <2>2 DEF Registered
    <2>8. CancelledIsForgotten'
      <3>1. l \notin cancelled
        BY <2>2 DEF Registered
      <3> QED BY <2>1, <2>3, <3>1, StaysForgotten
    <2> QED BY <2>5, <2>6, <2>7, <2>8
  <1>3. CASE StartGivenUp(l) /\ starter[l] = "start"
    <2>1. /\ starter[l] = "start" /\ starter'[l] = "failed" /\ pending' = pending \ {l}
          /\ \A m \in Logins : m # l => starter'[m] = starter[m]
          /\ UNCHANGED <<closed, snapshot, told, cancelled>>
      BY <1>0, <1>3 DEF StartGivenUp, TypeOK
    <2>2. ~Known(l) /\ ~Known(l)' /\ \A m \in Logins : m # l => Known(m)' = Known(m)
      BY <2>1 DEF Known
    <2>3. OneEach' /\ ToldOnce' /\ SnapshotIsCurrent'
      BY <1>0, <2>1, <2>2 DEF OneEach, ToldOnce, SnapshotIsCurrent
    <2>4. Registered'
      BY <1>0, <2>1, <2>2 DEF Registered
    <2> QED BY <2>1, <2>3, <2>4, StaysForgotten
  <1>4. CASE Begin(l)
    <2>1. /\ starter[l] = "answered" /\ starter'[l] \in {"begin", "over"}
          /\ \A m \in Logins : m # l => starter'[m] = starter[m]
          /\ UNCHANGED <<closed, pending, snapshot, told, cancelled>>
      BY <1>0, <1>4 DEF Begin, TypeOK
    <2>2. \A m \in Logins : Known(m)' = Known(m)
      BY <2>1 DEF Known
    <2>3. OneEach' /\ ToldOnce' /\ SnapshotIsCurrent'
      BY <1>0, <2>1, <2>2 DEF OneEach, ToldOnce, SnapshotIsCurrent
    <2>4. Registered'
      BY <1>0, <2>1, <2>2 DEF Registered
    <2> QED BY <2>1, <2>3, <2>4, StaysForgotten
  <1>5. CASE BeginAnswered(l)
    <2>1. /\ starter[l] = "begin" /\ starter'[l] = "over"
          /\ \A m \in Logins : m # l => starter'[m] = starter[m]
          /\ UNCHANGED <<closed, cancelled>>
      BY <1>0, <1>5 DEF BeginAnswered, TypeOK
    <2>2. Known(l) /\ \A m \in Logins : Known(m)' = Known(m)
      BY <2>1 DEF Known
    <2>3. CASE UNCHANGED <<pending, snapshot, told>>
      <3>1. OneEach' /\ ToldOnce' /\ SnapshotIsCurrent'
        BY <1>0, <2>1, <2>2, <2>3 DEF OneEach, ToldOnce, SnapshotIsCurrent
      <3>2. Registered'
        BY <1>0, <2>1, <2>2, <2>3 DEF Registered
      <3> QED BY <2>1, <2>3, <3>1, <3>2, StaysForgotten
    <2>4. CASE l \in pending /\ End(l, "error")
      <3>1. /\ pending' = pending \ {l} /\ told' = [told EXCEPT ![l] = @ + 1]
            /\ \A c \in Clients : c # ClientOf[l] => snapshot'[c] = snapshot[c]
        BY <1>0, <2>4, EndTells DEF End
      <3>2. snapshot'[ClientOf[l]].login = l
        BY <1>0, <2>4, CacheKeeps DEF End
      <3> QED BY <2>1, <2>2, <2>4, <3>1, <3>2, OneEnds DEF Registered
    <2> QED BY <1>5, <2>3, <2>4 DEF BeginAnswered, Finish
  <1>6. CASE Cancel(l)
    <2>1. /\ Known(l) /\ pending' = pending \ {l}
          /\ cancelled' = cancelled \cup (pending \cap {l})
          /\ UNCHANGED <<closed, starter, told>>
      BY <1>6 DEF Cancel
    <2>2. \A c \in Clients : snapshot'[c] \in {snapshot[c], NoFrame}
      BY <1>0, <1>6, ForgottenKeeps DEF Cancel
    <2>3. \A m \in Logins : Known(m)' = Known(m)
      BY <2>1 DEF Known
    <2>4. OneEach' /\ ToldOnce'
      BY <1>0, <2>1, <2>3 DEF OneEach, ToldOnce
    <2>5. SnapshotIsCurrent'
      BY <1>0, <2>1, <2>2, <2>3 DEF SnapshotIsCurrent, NoFrame
    <2>6. Registered'
      BY <1>0, <2>1, <2>3 DEF Registered, Known
    <2>7. CancelledIsForgotten'
      <3>1. ASSUME NEW m \in cancelled' PROVE snapshot'[ClientOf[m]].login # m
        <4>1. m \in Logins /\ m # 0 /\ ClientOf[m] \in Clients /\ NoFrame.login = 0
          BY <1>0, <2>1, ConstantsAssumption DEF Logins, NoFrame
        <4>2. CASE m = l
          <5>1. snapshot'[ClientOf[l]] = IF snapshot[ClientOf[l]].login = l THEN NoFrame ELSE snapshot[ClientOf[l]]
            BY <1>0, <1>6 DEF Cancel, Forgotten, TypeOK
          <5> QED BY <4>1, <4>2, <5>1
        <4>3. CASE m # l
          <5>1. m \in cancelled
            BY <2>1, <4>3
          <5> QED BY <2>2, <4>1, <5>1 DEF CancelledIsForgotten
        <4> QED BY <4>2, <4>3
      <3> QED BY <3>1 DEF CancelledIsForgotten
    <2> QED BY <2>4, <2>5, <2>6, <2>7
  <1>7. CASE Expire(l)
    <2>1. l \in pending /\ starter[l] # "start" /\ UNCHANGED <<closed, starter, cancelled>>
      BY <1>7 DEF Expire
    <2>2. Known(l) /\ l \notin cancelled
      BY <2>1 DEF Registered
    <2>3. /\ pending' = pending \ {l} /\ told' = [told EXCEPT ![l] = @ + 1]
          /\ \A c \in Clients : c # ClientOf[l] => snapshot'[c] = snapshot[c]
      BY <1>0, <1>7, EndTells DEF Expire, End
    <2>4. snapshot'[ClientOf[l]].login = l
      BY <1>0, <1>7, CacheKeeps DEF Expire, End
    <2> QED BY <2>1, <2>2, <2>3, <2>4, OneEnds
  <1>8. CASE CallCancel(l)
    BY <1>8 DEF CallCancel, OneEach, ToldOnce, SnapshotIsCurrent, CancelledIsForgotten, Registered, Known
  <1> QED BY <1>1, <1>2, <1>3, <1>4, <1>5, <1>6, <1>7, <1>8

\* A frame is of a login that was told to begin, so that its browser knows of it.
LEMMA FrameSteps ==
    ASSUME Inv, DeviceCode
    PROVE  OneEach' /\ ToldOnce' /\ SnapshotIsCurrent' /\ CancelledIsForgotten' /\ Registered'
  <1> USE DEF Inv, LoginsAreSafe
  <1> DEFINE f == Head(frames)
             l == f.login
  <1>0. /\ TypeOK /\ pending \subseteq Logins /\ frames \in Seq(FrameRecord) /\ frames # <<>>
        /\ UNCHANGED <<closed, starter, cancelled>>
    BY DEF TypeOK, DeviceCode, FrameRecord
  <1>1. f \in FrameRecord /\ 1 \in DOMAIN frames /\ f = frames[1]
    BY <1>0, Shorter
  <1>2. l \in Logins /\ f.kind \in Kinds /\ l \in Beginners
    BY <1>1 DEF FrameRecord, BegunFirst
  <1>3. Known(l) /\ \A m \in Logins : Known(m)' = Known(m)
    BY <1>0, <1>2 DEF Beginners, Known
  <1>4. CASE UNCHANGED <<pending, snapshot, told>>
    BY <1>0, <1>4 DEF OneEach, ToldOnce, SnapshotIsCurrent, CancelledIsForgotten, Registered, Known
  <1>5. ASSUME NEW kind \in Ends, l \in pending, End(l, kind)
        PROVE  OneEach' /\ ToldOnce' /\ SnapshotIsCurrent' /\ CancelledIsForgotten' /\ Registered'
    <2>1. kind \in Kinds
      BY DEF Ends, Kinds
    <2>2. /\ pending' = pending \ {l} /\ told' = [told EXCEPT ![l] = @ + 1]
          /\ \A c \in Clients : c # ClientOf[l] => snapshot'[c] = snapshot[c]
      BY <1>0, <1>2, <1>5, <2>1, EndTells DEF End
    <2>3. l \notin cancelled
      BY <1>5 DEF Registered
    <2>4. snapshot'[ClientOf[l]].login = l
      BY <1>0, <1>2, <1>5, <2>1, CacheKeeps DEF End
    <2> QED BY <1>0, <1>3, <1>5, <2>2, <2>3, <2>4, OneEnds
  <1>6. ASSUME NEW kind \in Kinds, l \in pending, Cache(l, kind), UNCHANGED <<pending, told>>
        PROVE  OneEach' /\ ToldOnce' /\ SnapshotIsCurrent' /\ CancelledIsForgotten' /\ Registered'
    <2>1. /\ snapshot'[ClientOf[l]].login = l
          /\ \A c \in Clients : c # ClientOf[l] => snapshot'[c] = snapshot[c]
      BY <1>0, <1>2, <1>6, CacheKeeps
    <2>2. \A m \in pending : ClientOf[m] \in Clients /\ (m # l => ClientOf[m] # ClientOf[l])
      BY <1>0, <1>6 DEF OneEach, Clients
    <2>3. SnapshotIsCurrent'
      BY <1>0, <1>3, <1>6, <2>1, <2>2 DEF SnapshotIsCurrent
    <2>4. CancelledIsForgotten'
      <3>1. l \notin cancelled
        BY <1>6 DEF Registered
      <3> QED BY <1>0, <2>1, <3>1, StaysForgotten
    <2> QED BY <1>0, <1>6, <2>3, <2>4 DEF OneEach, ToldOnce, Registered, Known
  <1>7. CASE l \in pending
    <2> DEFINE kinds == {f.kind} \cup (IF f.kind = "progress" THEN {"error"} ELSE {})
    <2>1. PICK kind \in kinds : IF kind \in Ends THEN End(l, kind)
                                ELSE Cache(l, kind) /\ UNCHANGED <<pending, told>>
      BY <1>7 DEF DeviceCode
    <2>2. kind \in Kinds
      BY <1>2 DEF Kinds
    <2> QED BY <1>5, <1>6, <1>7, <2>1, <2>2
  <1>8. CASE l \notin pending
    BY <1>4, <1>8 DEF DeviceCode
  <1> QED BY <1>7, <1>8

LEMMA CloseSteps ==
    ASSUME Inv, Close \/ \E c \in Clients : SnapshotExpires(c)
    PROVE  OneEach' /\ ToldOnce' /\ SnapshotIsCurrent' /\ CancelledIsForgotten' /\ Registered'
  <1> USE DEF Inv, LoginsAreSafe
  <1>0. TypeOK /\ pending \subseteq Logins /\ \A m \in Logins : ClientOf[m] \in Clients
    BY DEF TypeOK, Clients
  <1>1. CASE Close
    <2>1. OneEach' /\ ToldOnce' /\ SnapshotIsCurrent' /\ Registered'
      BY <1>0, <1>1 DEF Close, OneEach, ToldOnce, SnapshotIsCurrent, Registered, Known, TypeOK
    <2> QED BY <1>1, <2>1, StaysForgotten DEF Close
  <1>2. ASSUME NEW c \in Clients, SnapshotExpires(c)
        PROVE  OneEach' /\ ToldOnce' /\ SnapshotIsCurrent' /\ CancelledIsForgotten' /\ Registered'
    <2>1. /\ \A d \in Clients : snapshot'[d] \in {snapshot[d], NoFrame}
          /\ UNCHANGED <<closed, pending, starter, told, cancelled>>
      BY <1>0, <1>2 DEF SnapshotExpires, TypeOK
    <2>2. SnapshotIsCurrent'
      BY <1>0, <2>1 DEF SnapshotIsCurrent, Known, NoFrame
    <2>3. CancelledIsForgotten'
      BY <2>1, StaysForgotten
    <2> QED BY <2>1, <2>2, <2>3 DEF OneEach, ToldOnce, Registered, Known
  <1> QED BY <1>1, <1>2

-----------------------------------------------------------------------------
(* What Pi may do, and the types.                                            *)

\* One call more, or the first one gone.
LEMMA CallMade ==
    ASSUME TypeOK, NEW l \in Logins, NEW what \in {"start", "begin", "reply", "cancel"},
           calls' = Append(calls, Call(what, l))
    PROVE  /\ calls' \in Seq(CallRecord)
           /\ \A k \in DOMAIN calls' :
                (calls'[k].what = what /\ calls'[k].login = l) \/ (k \in DOMAIN calls /\ calls'[k] = calls[k])
  BY CallIsRecord, Longer DEF TypeOK, CallRecord

LEMMA CallSeen ==
    ASSUME TypeOK, NEW l \in Logins, NEW what, Handles(what, l)
    PROVE  /\ calls' \in Seq(CallRecord)
           /\ \A k \in DOMAIN calls' : k + 1 \in DOMAIN calls /\ calls'[k] = calls[k + 1]
           /\ 1 \in DOMAIN calls /\ calls[1].what = what /\ calls[1].login = l
  <1>1. calls \in Seq(CallRecord) /\ calls # <<>>
    BY DEF TypeOK, CallRecord, Handles
  <1>2. /\ Tail(calls) \in Seq(CallRecord) /\ 1 \in DOMAIN calls /\ Head(calls) = calls[1]
        /\ \A k \in DOMAIN Tail(calls) : k + 1 \in DOMAIN calls /\ Tail(calls)[k] = calls[k + 1]
    BY <1>1, Shorter
  <1> QED BY <1>2 DEF Handles, Call

\* One frame more.
LEMMA FrameSent ==
    ASSUME TypeOK, NEW l \in Logins, NEW kind \in Kinds, frames' = Append(frames, Frame(l, kind))
    PROVE  /\ frames' \in Seq(FrameRecord)
           /\ \A k \in DOMAIN frames' :
                frames'[k].login = l \/ (k \in DOMAIN frames /\ frames'[k] = frames[k])
  BY FrameIsRecord, Longer DEF TypeOK, FrameRecord

\* Pi says something of a login that it ends only when that had begun.
LEMMA StoppedSays ==
    ASSUME TypeOK, NEW l \in Logins, Stopped(l)
    PROVE  /\ held' \in [Logins -> {"none", "started", "running", "asking", "over"}]
           /\ frames' \in Seq(FrameRecord)
           /\ \A k \in DOMAIN frames' :
                (frames'[k].login = l /\ Begun(l)) \/ (k \in DOMAIN frames /\ frames'[k] = frames[k])
           /\ \A m \in Logins : Begun(m)' => Begun(m)
  <1>1. "error" \in Kinds
    BY DEF Kinds
  <1>2. /\ frames' \in Seq(FrameRecord)
        /\ \A k \in DOMAIN frames' :
             (frames'[k].login = l /\ Begun(l)) \/ (k \in DOMAIN frames /\ frames'[k] = frames[k])
    <2>1. CASE Begun(l)
      BY <1>1, <2>1, FrameSent DEF Stopped
    <2>2. CASE ~Begun(l)
      BY <2>2 DEF Stopped, TypeOK, FrameRecord
    <2> QED BY <2>1, <2>2
  <1>3. /\ held' \in [Logins -> {"none", "started", "running", "asking", "over"}]
        /\ \A m \in Logins : Begun(m)' => Begun(m)
    BY DEF Stopped, TypeOK, Begun
  <1> QED BY <1>2, <1>3

\* The starter's answer.
LEMMA AnswerTypes ==
    ASSUME TypeOK, NEW l \in Logins, NEW waiting, NEW result \in {"ok", "failed"},
           Answer(l, waiting, result)
    PROVE  answer' \in [Logins -> {"none", "ok", "failed"}]
  BY DEF Answer, TypeOK

\* Whether a login may begin: once it may, it stays so.
LEMMA MayBeginStays ==
    ASSUME TypeOK, Next
    PROVE  Beginners \subseteq Beginners'
  <1>1. ASSUME NEW m \in Logins, Start(m) \/ StartAnswered(m) \/ Begin(m) \/ BeginAnswered(m)
        PROVE  Beginners \subseteq Beginners'
    BY <1>1 DEF Start, StartAnswered, Begin, BeginAnswered, Beginners, TypeOK
  <1>2. ASSUME NEW m \in Logins, StartRefused(m) \/ StartTimesOut(m)
        PROVE  Beginners \subseteq Beginners'
    BY <1>2 DEF StartRefused, StartTimesOut, StartGivenUp, Beginners, TypeOK
  <1>3. CASE UNCHANGED starter
    BY <1>3 DEF Beginners
  <1>4. ASSUME NEW m \in Logins,
               \/ Reply(m) \/ Cancel(m) \/ CallCancel(m) \/ HandleCall(m) \/ Expire(m)
               \/ HostExpire(m) \/ Publish(m) \/ Conclude(m)
        PROVE  UNCHANGED starter
    BY <1>4 DEF Reply, Cancel, CallCancel, HandleCall, HandleStart, HandleBegin, HandleReply,
         HandleCancel, Expire, HostExpire, Publish, Conclude, controller
  <1>5. ASSUME DeviceCode \/ Close \/ Drop \/ (\E c \in Clients : SnapshotExpires(c))
        PROVE  UNCHANGED starter
    BY <1>5 DEF DeviceCode, Close, Drop, SnapshotExpires, controller
  <1> QED BY <1>1, <1>2, <1>3, <1>4, <1>5 DEF Next, Browser, Goroutine

LEMMA WireTypes ==
    ASSUME TypeOK
    PROVE  /\ calls \in Seq(CallRecord) /\ frames \in Seq(FrameRecord)
           /\ \A k \in DOMAIN calls : calls[k].login \in Logins
           /\ \A k \in DOMAIN frames : frames[k].login \in Logins
  <1>1. calls \in Seq(CallRecord) /\ frames \in Seq(FrameRecord)
    BY DEF TypeOK, CallRecord, FrameRecord
  <1>2. \A k \in DOMAIN calls : calls[k] \in CallRecord
    BY <1>1, LenProperties, ElementOfSeq
  <1>3. \A k \in DOMAIN frames : frames[k] \in FrameRecord
    BY <1>1, LenProperties, ElementOfSeq
  <1> QED BY <1>1, <1>2, <1>3 DEF CallRecord, FrameRecord

\* What Pi was told and says, when calls, frames and logins are those of before
\* or of a login that may begin.
LEMMA BegunMoves ==
    ASSUME TypeOK, BegunFirst,
           Beginners \subseteq Beginners',
           \A k \in DOMAIN calls' :
             (\E j \in DOMAIN calls : calls'[k] = calls[j])
               \/ (calls'[k].what = "begin" => calls'[k].login \in Beginners'),
           \A k \in DOMAIN frames' :
             (\E j \in DOMAIN frames : frames'[k] = frames[j])
               \/ \E l \in Logins : frames'[k].login = l /\ (Begun(l) \/ l \in Beginners),
           \A l \in Logins : Begun(l)' => Begun(l) \/ l \in Beginners
    PROVE  BegunFirst'
  <1>1. \A k \in DOMAIN calls' : calls'[k].what = "begin" => calls'[k].login \in Beginners'
    BY WireTypes DEF BegunFirst
  <1>2. \A k \in DOMAIN frames' : frames'[k].login \in Beginners'
    BY WireTypes DEF BegunFirst
  <1>3. \A l \in Logins : Begun(l)' => l \in Beginners'
    BY DEF BegunFirst
  <1> QED BY <1>1, <1>2, <1>3 DEF BegunFirst

\* Steps of the controller: one call more, or none, or frames fewer.
LEMMA ControllerTypes ==
    ASSUME Inv, Next, NEW l \in Logins,
           \/ Start(l) \/ StartAnswered(l) \/ StartRefused(l) \/ StartTimesOut(l) \/ Begin(l)
           \/ BeginAnswered(l) \/ Cancel(l) \/ Expire(l) \/ CallCancel(l) \/ Reply(l)
    PROVE  TypeOK' /\ BegunFirst'
  <1> USE DEF Inv, LoginsAreSafe
  <1>0. /\ TypeOK /\ calls \in Seq(CallRecord) /\ frames \in Seq(FrameRecord)
        /\ "error" \in Kinds /\ "progress" \in Kinds
        /\ Beginners \subseteq Beginners'
    BY WireTypes, MayBeginStays DEF Kinds
  <1>1. ASSUME UNCHANGED <<calls, frames, held>>
        PROVE  BegunFirst'
    BY <1>0, <1>1, BegunMoves DEF Begun
  <1>2. ASSUME NEW what \in {"start", "begin", "reply", "cancel"}, calls' = Append(calls, Call(what, l)),
               what = "begin" => l \in Beginners', UNCHANGED <<frames, held>>
        PROVE  BegunFirst'
    <2>1. \A k \in DOMAIN calls' :
            (calls'[k].what = what /\ calls'[k].login = l) \/ (k \in DOMAIN calls /\ calls'[k] = calls[k])
      BY <1>0, <1>2, CallMade
    <2> QED BY <1>0, <1>2, <2>1, BegunMoves DEF Begun
  <1>3. CASE Start(l)
    <2>1. BegunFirst'
      BY <1>2, <1>3 DEF Start, pi
    <2>2. TypeOK'
      BY <1>0, <1>3, CallMade DEF Start, TypeOK, CallRecord, pi
    <2> QED BY <2>1, <2>2
  <1>4. CASE StartAnswered(l)
    <2>1. TypeOK'
      BY <1>0, <1>4, CacheKeeps DEF StartAnswered, TypeOK, FrameRecord, pi
    <2> QED BY <1>1, <1>4, <2>1 DEF StartAnswered, pi
  <1>5. CASE StartRefused(l) \/ StartTimesOut(l)
    <2>1. StartGivenUp(l) /\ faults' \in 0..MaxFaults
      BY <1>0, <1>5, ConstantsAssumption DEF StartRefused, StartTimesOut, TypeOK
    <2>2. TypeOK'
      BY <1>0, <2>1 DEF StartGivenUp, TypeOK, pi
    <2> QED BY <1>1, <2>1, <2>2 DEF StartGivenUp, pi
  <1>6. CASE Begin(l)
    <2>1. CASE l \in pending
      <3>1. l \in Beginners' /\ calls' = Append(calls, Call("begin", l))
        BY <1>0, <1>6, <2>1 DEF Begin, Beginners, TypeOK
      <3>2. BegunFirst'
        BY <1>2, <1>6, <3>1 DEF Begin, pi
      <3>3. TypeOK'
        BY <1>0, <1>6, <3>1, CallMade DEF Begin, TypeOK, CallRecord, pi
      <3> QED BY <3>2, <3>3
    <2>2. CASE l \notin pending
      <3>1. TypeOK'
        BY <1>0, <1>6, <2>2 DEF Begin, TypeOK, pi
      <3> QED BY <1>1, <1>6, <2>2, <3>1 DEF Begin, pi
    <2> QED BY <2>1, <2>2
  <1>7. CASE BeginAnswered(l)
    <2>1. /\ snapshot' \in [Clients -> FrameRecord \cup {NoFrame}]
          /\ pending' \subseteq Logins /\ told' \in [Logins -> Nat]
      <3>1. CASE UNCHANGED <<pending, snapshot, told>>
        BY <1>0, <3>1 DEF TypeOK, FrameRecord
      <3>2. CASE End(l, "error")
        BY <1>0, <3>2, EndTells
      <3> QED BY <1>7, <3>1, <3>2 DEF BeginAnswered, Finish
    <2>2. TypeOK'
      BY <1>0, <1>7, <2>1 DEF BeginAnswered, TypeOK, FrameRecord, pi
    <2> QED BY <1>1, <1>7, <2>2 DEF BeginAnswered, pi
  <1>8. CASE Cancel(l)
    <2>1. TypeOK'
      BY <1>0, <1>8, ForgottenKeeps DEF Cancel, TypeOK, FrameRecord, pi, onTheWire
    <2> QED BY <1>1, <1>8, <2>1 DEF Cancel, pi, onTheWire
  <1>9. CASE Expire(l)
    <2>1. TypeOK'
      BY <1>0, <1>9, EndTells DEF Expire, TypeOK, FrameRecord, pi, onTheWire
    <2> QED BY <1>1, <1>9, <2>1 DEF Expire, pi, onTheWire
  <1>10. CASE CallCancel(l)
    <2>1. BegunFirst'
      BY <1>2, <1>10 DEF CallCancel, pi
    <2>2. TypeOK'
      BY <1>0, <1>10, CallMade DEF CallCancel, TypeOK, CallRecord, pi
    <2> QED BY <2>1, <2>2
  <1>11. CASE Reply(l)
    <2>1. BegunFirst'
      BY <1>2, <1>11 DEF Reply, pi
    <2>2. TypeOK'
      BY <1>0, <1>11, CallMade DEF Reply, TypeOK, CallRecord, pi, controller
    <2> QED BY <2>1, <2>2
  <1> QED BY <1>3, <1>4, <1>5, <1>6, <1>7, <1>8, <1>9, <1>10, <1>11

\* The reader takes a frame; the process closes; a snapshot's time is over.
LEMMA ReaderTypes ==
    ASSUME Inv, Next, DeviceCode \/ Close \/ \E c \in Clients : SnapshotExpires(c)
    PROVE  TypeOK' /\ BegunFirst'
  <1> USE DEF Inv, LoginsAreSafe
  <1>0. /\ TypeOK /\ calls \in Seq(CallRecord) /\ frames \in Seq(FrameRecord)
        /\ Beginners \subseteq Beginners'
    BY WireTypes, MayBeginStays
  <1>1. CASE DeviceCode
    <2> DEFINE f == Head(frames)
    <2>1. /\ frames' \in Seq(FrameRecord) /\ f \in FrameRecord
          /\ \A k \in DOMAIN frames' : k + 1 \in DOMAIN frames /\ frames'[k] = frames[k + 1]
      BY <1>0, <1>1, Shorter DEF DeviceCode
    <2>2. BegunFirst'
      BY <1>0, <1>1, <2>1, BegunMoves DEF DeviceCode, Begun, pi
    <2>3. f.login \in Logins /\ f.kind \in Kinds /\ "error" \in Kinds
      BY <2>1 DEF FrameRecord, Kinds
    <2>4. /\ snapshot' \in [Clients -> FrameRecord \cup {NoFrame}]
          /\ pending' \subseteq Logins /\ told' \in [Logins -> Nat]
      <3>1. CASE UNCHANGED <<pending, snapshot, told>>
        BY <1>0, <3>1 DEF TypeOK, FrameRecord
      <3>2. ASSUME NEW kind \in Kinds, End(f.login, kind)
            PROVE  /\ snapshot' \in [Clients -> FrameRecord \cup {NoFrame}]
                   /\ pending' \subseteq Logins /\ told' \in [Logins -> Nat]
        BY <1>0, <2>3, <3>2, EndTells
      <3>3. ASSUME NEW kind \in Kinds, Cache(f.login, kind), UNCHANGED <<pending, told>>
            PROVE  /\ snapshot' \in [Clients -> FrameRecord \cup {NoFrame}]
                   /\ pending' \subseteq Logins /\ told' \in [Logins -> Nat]
        <4>1. pending \subseteq Logins /\ told \in [Logins -> Nat]
          BY <1>0 DEF TypeOK
        <4> QED BY <1>0, <2>3, <3>3, <4>1, CacheKeeps
      <3>4. CASE f.login \in pending
        <4>1. PICK kind \in {f.kind} \cup (IF f.kind = "progress" THEN {"error"} ELSE {}) :
                IF kind \in Ends THEN End(f.login, kind)
                ELSE Cache(f.login, kind) /\ UNCHANGED <<pending, told>>
          BY <1>1, <3>4 DEF DeviceCode
        <4>2. kind \in Kinds
          BY <2>3
        <4> QED BY <3>2, <3>3, <4>1, <4>2
      <3>5. CASE f.login \notin pending
        BY <1>1, <3>1, <3>5 DEF DeviceCode
      <3> QED BY <3>4, <3>5
    <2>5. TypeOK'
      BY <1>0, <1>1, <2>1, <2>4 DEF DeviceCode, TypeOK, FrameRecord, pi
    <2> QED BY <2>2, <2>5
  <1>2. CASE Close \/ \E c \in Clients : SnapshotExpires(c)
    <2>1. UNCHANGED <<calls, frames, held>>
      BY <1>2 DEF Close, SnapshotExpires, onTheWire, pi
    <2>2. BegunFirst'
      BY <1>0, <2>1, BegunMoves DEF Begun
    <2>3. TypeOK'
      BY <1>0, <1>2 DEF Close, SnapshotExpires, onTheWire, pi, TypeOK
    <2> QED BY <2>2, <2>3
  <1> QED BY <1>1, <1>2

\* Steps of Pi.
LEMMA PiTypes ==
    ASSUME Inv, Next, NEW l \in Logins,
           HandleCall(l) \/ HostExpire(l) \/ Publish(l) \/ Conclude(l)
    PROVE  TypeOK' /\ BegunFirst'
  <1> USE DEF Inv, LoginsAreSafe
  <1>0. /\ TypeOK /\ calls \in Seq(CallRecord) /\ frames \in Seq(FrameRecord)
        /\ Beginners \subseteq Beginners'
        /\ \A kind \in {"progress", "prompt", "success", "error"} : kind \in Kinds
    BY WireTypes, MayBeginStays DEF Kinds
  <1>1. CASE HandleStart(l)
    <2>1. /\ calls' \in Seq(CallRecord) /\ UNCHANGED frames
          /\ \A k \in DOMAIN calls' : k + 1 \in DOMAIN calls /\ calls'[k] = calls[k + 1]
      BY <1>0, <1>1, CallSeen DEF HandleStart
    <2>2. /\ held' \in [Logins -> {"none", "started", "running", "asking", "over"}]
          /\ \A m \in Logins : Begun(m)' => Begun(m)
      BY <1>0, <1>1 DEF HandleStart, TypeOK, Begun
    <2>3. answer' \in [Logins -> {"none", "ok", "failed"}]
      BY <1>0, <1>1, AnswerTypes DEF HandleStart
    <2>4. TypeOK'
      BY <1>0, <1>1, <2>1, <2>2, <2>3 DEF HandleStart, TypeOK, CallRecord, controller
    <2> QED BY <1>0, <2>1, <2>2, <2>4, BegunMoves
  <1>2. CASE HandleBegin(l)
    <2>1. /\ calls' \in Seq(CallRecord) /\ UNCHANGED frames
          /\ \A k \in DOMAIN calls' : k + 1 \in DOMAIN calls /\ calls'[k] = calls[k + 1]
          /\ 1 \in DOMAIN calls /\ calls[1].what = "begin" /\ calls[1].login = l
      BY <1>0, <1>2, CallSeen DEF HandleBegin
    <2>2. l \in Beginners
      BY <2>1 DEF BegunFirst
    <2>3. /\ held' \in [Logins -> {"none", "started", "running", "asking", "over"}]
          /\ \A m \in Logins : Begun(m)' => Begun(m) \/ m = l
      BY <1>0, <1>2 DEF HandleBegin, TypeOK, Begun
    <2>4. answer' \in [Logins -> {"none", "ok", "failed"}]
      BY <1>0, <1>2, AnswerTypes DEF HandleBegin
    <2>5. TypeOK'
      BY <1>0, <1>2, <2>1, <2>3, <2>4 DEF HandleBegin, TypeOK, CallRecord, controller
    <2> QED BY <1>0, <2>1, <2>2, <2>3, <2>5, BegunMoves
  <1>3. CASE HandleReply(l)
    <2>1. /\ calls' \in Seq(CallRecord) /\ UNCHANGED frames
          /\ \A k \in DOMAIN calls' : k + 1 \in DOMAIN calls /\ calls'[k] = calls[k + 1]
      BY <1>0, <1>3, CallSeen DEF HandleReply
    <2>2. /\ held' \in [Logins -> {"none", "started", "running", "asking", "over"}]
          /\ \A m \in Logins : Begun(m)' => Begun(m)
      BY <1>0, <1>3 DEF HandleReply, TypeOK, Begun
    <2>3. TypeOK'
      BY <1>0, <1>3, <2>1, <2>2 DEF HandleReply, TypeOK, CallRecord, controller
    <2> QED BY <1>0, <2>1, <2>2, <2>3, BegunMoves
  <1>4. CASE HandleCancel(l)
    <2>1. /\ calls' \in Seq(CallRecord)
          /\ \A k \in DOMAIN calls' : k + 1 \in DOMAIN calls /\ calls'[k] = calls[k + 1]
      BY <1>0, <1>4, CallSeen DEF HandleCancel
    <2>2. TypeOK'
      BY <1>0, <1>4, <2>1, StoppedSays DEF HandleCancel, TypeOK, CallRecord, FrameRecord, controller
    <2>3. Stopped(l)
      BY <1>4 DEF HandleCancel
    <2> QED BY <1>0, <2>1, <2>2, <2>3, StoppedSays, BegunMoves
  <1>5. CASE HostExpire(l)
    <2>1. Stopped(l) /\ calls' = calls
      BY <1>5 DEF HostExpire
    <2>2. TypeOK'
      BY <1>0, <1>5, StoppedSays DEF HostExpire, TypeOK, FrameRecord, controller
    <2> QED BY <1>0, <2>1, <2>2, StoppedSays, BegunMoves
  <1>6. CASE Publish(l)
    <2>1. PICK kind \in {"progress", "prompt"} :
            /\ frames' = Append(frames, Frame(l, kind))
            /\ held' = IF kind = "prompt" THEN [held EXCEPT ![l] = "asking"] ELSE held
      BY <1>6 DEF Publish
    <2>2. /\ frames' \in Seq(FrameRecord) /\ calls' = calls /\ Begun(l)
          /\ \A k \in DOMAIN frames' :
               frames'[k].login = l \/ (k \in DOMAIN frames /\ frames'[k] = frames[k])
      BY <1>0, <1>6, <2>1, FrameSent DEF Publish, Begun
    <2>3. /\ held' \in [Logins -> {"none", "started", "running", "asking", "over"}]
          /\ \A m \in Logins : Begun(m)' => Begun(m)
      BY <1>0, <2>1, <2>2 DEF TypeOK, Begun
    <2>4. published' \in 0..MaxFrames
      BY <1>0, <1>6, ConstantsAssumption DEF Publish, TypeOK
    <2>5. TypeOK'
      BY <1>0, <1>6, <2>2, <2>3, <2>4 DEF Publish, TypeOK, FrameRecord, controller
    <2> QED BY <1>0, <2>2, <2>3, <2>5, BegunMoves
  <1>7. CASE Conclude(l)
    <2>1. PICK kind \in Ends : frames' = Append(frames, Frame(l, kind))
      BY <1>7 DEF Conclude
    <2>2. kind \in Kinds
      BY <1>0 DEF Ends
    <2>3. /\ frames' \in Seq(FrameRecord) /\ calls' = calls /\ Begun(l)
          /\ \A k \in DOMAIN frames' :
               frames'[k].login = l \/ (k \in DOMAIN frames /\ frames'[k] = frames[k])
      BY <1>0, <1>7, <2>1, <2>2, FrameSent DEF Conclude, Begun
    <2>4. /\ held' \in [Logins -> {"none", "started", "running", "asking", "over"}]
          /\ \A m \in Logins : Begun(m)' => Begun(m)
      BY <1>0, <1>7 DEF Conclude, TypeOK, Begun
    <2>5. TypeOK'
      BY <1>0, <1>7, <2>3, <2>4 DEF Conclude, TypeOK, FrameRecord, controller
    <2> QED BY <1>0, <2>3, <2>4, <2>5, BegunMoves
  <1> QED BY <1>1, <1>2, <1>3, <1>4, <1>5, <1>6, <1>7 DEF HandleCall

LEMMA DropTypes ==
    ASSUME Inv, Next, Drop
    PROVE  TypeOK' /\ BegunFirst'
  <1> USE DEF Inv, LoginsAreSafe
  <1>0. TypeOK /\ Beginners \subseteq Beginners'
    BY MayBeginStays
  <1>1. calls' = <<>> /\ frames' = <<>> /\ \A m \in Logins : Begun(m)' => Begun(m)
    BY <1>0 DEF Drop, TypeOK, Begun, Held
  <1>2. DOMAIN calls' = {} /\ DOMAIN frames' = {}
    BY <1>1
  <1>3. faults' \in 0..MaxFaults
    BY <1>0, ConstantsAssumption DEF Drop, TypeOK
  <1>4. TypeOK'
    BY <1>0, <1>1, <1>3 DEF Drop, TypeOK, controller
  <1> QED BY <1>0, <1>1, <1>2, <1>4, BegunMoves

-----------------------------------------------------------------------------
(* The theorem. *)

LEMMA InvInit == Init => Inv
  <1> SUFFICES ASSUME Init PROVE Inv
    OBVIOUS
  <1>1. TypeOK
    <2>1. calls \in Seq(CallRecord) /\ frames \in Seq(FrameRecord)
      BY EmptySeq DEF Init
    <2>2. 0 \in 0..MaxFrames /\ MaxFaults \in 0..MaxFaults
      BY ConstantsAssumption
    <2> QED BY <2>1, <2>2 DEF Init, TypeOK, CallRecord, FrameRecord
  <1>2. OneEach /\ ToldOnce /\ SnapshotIsCurrent /\ CancelledIsForgotten /\ Registered
    BY DEF Init, OneEach, ToldOnce, SnapshotIsCurrent, CancelledIsForgotten, Registered, Known
  <1>3. DOMAIN calls = {} /\ DOMAIN frames = {}
    BY DEF Init
  <1>4. BegunFirst
    BY <1>3 DEF Init, BegunFirst, Begun
  <1> QED BY <1>1, <1>2, <1>4 DEF Inv, LoginsAreSafe

LEMMA InvStep == Inv /\ [Next]_vars => Inv'
  <1> SUFFICES ASSUME Inv, [Next]_vars PROVE Inv'
    OBVIOUS
  <1> USE DEF Inv, LoginsAreSafe
  <1>1. CASE UNCHANGED vars
    <2>1. TypeOK' /\ BegunFirst'
      BY <1>1 DEF vars, controller, onTheWire, pi, TypeOK, BegunFirst, Begun, Beginners
    <2> QED BY <1>1, <2>1, ControllerStays DEF vars
  <1>2. ASSUME NEW l \in Logins, Next,
               \/ Start(l) \/ StartAnswered(l) \/ StartRefused(l) \/ StartTimesOut(l) \/ Begin(l)
               \/ BeginAnswered(l) \/ Cancel(l) \/ Expire(l) \/ CallCancel(l)
        PROVE  Inv'
    <2>1. TypeOK' /\ BegunFirst'
      BY <1>2, ControllerTypes
    <2>2. OneEach' /\ ToldOnce' /\ SnapshotIsCurrent' /\ CancelledIsForgotten' /\ Registered'
      BY <1>2, ControllerSteps DEF StartRefused, StartTimesOut
    <2> QED BY <2>1, <2>2
  <1>3. ASSUME NEW l \in Logins, Next,
               Reply(l) \/ HandleCall(l) \/ HostExpire(l) \/ Publish(l) \/ Conclude(l)
        PROVE  Inv'
    <2>1. TypeOK' /\ BegunFirst'
      BY <1>3, ControllerTypes, PiTypes
    <2>2. UNCHANGED <<controller, told, cancelled>>
      BY <1>3 DEF Reply, HandleCall, HandleStart, HandleBegin, HandleReply, HandleCancel,
           HostExpire, Publish, Conclude
    <2> QED BY <2>1, <2>2, ControllerStays
  <1>4. CASE Next /\ DeviceCode
    BY <1>4, ReaderTypes, FrameSteps
  <1>5. CASE Next /\ (Close \/ \E c \in Clients : SnapshotExpires(c))
    BY <1>5, ReaderTypes, CloseSteps
  <1>6. CASE Next /\ Drop
    <2>1. UNCHANGED <<controller, told, cancelled>>
      BY <1>6 DEF Drop
    <2> QED BY <1>6, <2>1, DropTypes, ControllerStays
  <1>7. CASE Next
    BY <1>2, <1>3, <1>4, <1>5, <1>6, <1>7 DEF Next, Browser, Goroutine
  <1> QED BY <1>1, <1>7

\* However the frames of Pi, failed and lost calls, dropped connections, the timers
\* and the browser meet, a browser and a provider take part in one login at a time,
\* a login whose start was answered ends once, its browser then sees no remnant of an
\* earlier one, and none at all of one that it cancelled (provider_login.go: Start, DeviceCode, finish, expire, Cancel, Close).
THEOREM LoginsSafe == Spec => []LoginsAreSafe
  <1>1. Inv => LoginsAreSafe
    BY DEF Inv
  <1> QED BY <1>1, InvInit, InvStep, PTL DEF Spec

=============================================================================
