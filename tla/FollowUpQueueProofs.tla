-------------------------- MODULE FollowUpQueueProofs --------------------------
(***************************************************************************)
(* Proofs about FollowUpQueue, for any messages, texts and retries and any  *)
(* number of faults: that a message is given to Pi once and once more for   *)
(* each retry, that nothing is lost, that every file is one that the next   *)
(* start accepts, and that the order is kept.                               *)
(*                                                                         *)
(* A queue is seen as one line: what is dispatched or blocked, and behind   *)
(* it the messages that wait.  All operations keep the line a part of the   *)
(* requests that were handled, in their order (Lined).  The queue in memory *)
(* and the record in the file may differ after a write that failed late, so *)
(* that everything else is claimed of both: what may still be given to Pi   *)
(* is within the budget of a message (InBudget), and a message that was     *)
(* handled has not vanished (Complete).                                     *)
(***************************************************************************)
EXTENDS FollowUpQueue, FiniteSetTheorems, SequenceTheorems, TLAPS

\* No request is forgotten: there are no more than the queue remembers.  Beyond
\* that, a repeated request is one that the queue has not seen.
NeverForgotten ==
    IsFiniteSet(Items \cup RetryKeys) /\ Cardinality(Items \cup RetryKeys) <= MaxHandled

-----------------------------------------------------------------------------
(* The line of a queue. *)

Known(q) == {q.handled[k] : k \in DOMAIN q.handled}

Front(q)   == IF q.dispatch # None \/ q.blocked # None THEN 1 ELSE 0
FrontId(q) == IF q.dispatch # None THEN q.dispatch.id ELSE q.blocked.id
Size(q)    == Front(q) + Len(q.followUp)
Line(q)    == [n \in 1..Size(q) |-> IF n <= Front(q) THEN FrontId(q) ELSE q.followUp[n - Front(q)].id]

Distinct(seq) == \A m, n \in DOMAIN seq : seq[m] = seq[n] => m = n

Lined(q) ==
    /\ q \in Queue /\ Distinct(q.handled)
    /\ q.dispatch = None \/ q.blocked = None
    /\ Size(q) <= MaxQueued
    /\ \A n \in 1..Size(q) : Line(q)[n] \in Known(q)
    /\ \A m, n \in 1..Size(q) : m < n => Before(Line(q)[m], Line(q)[n], q.handled)

\* The items that may be given to Pi without a retry: those that are not queued
\* yet, those that wait, and one that is dispatched and was not attempted.
Givable(q) ==
    (Items \ Known(q)) \cup Ids(q.followUp)
    \cup {d.id : d \in {x \in {q.dispatch} \ {None} : ~x.attempted}}

\* A queue of the same line, which gives nothing that the other does not.
Moved(q, n) ==
    Lined(n) /\ Known(n) = Known(q) /\ Held(n) = Held(q) /\ Givable(n) \subseteq Givable(q)

LEMMA QueueFields ==
    ASSUME NEW q \in Queue
    PROVE  /\ q.followUp \in Seq(Item) /\ Len(q.followUp) \in Nat
           /\ DOMAIN q.followUp = 1..Len(q.followUp)
           /\ \A n \in 1..Len(q.followUp) : q.followUp[n] \in Item
           /\ q.dispatch \in Dispatch \cup {None} /\ q.blocked \in Item \cup {None}
           /\ q.handled \in Seq(Items \cup RetryKeys) /\ Len(q.handled) \in Nat
           /\ DOMAIN q.handled = 1..Len(q.handled)
           /\ Known(q) \subseteq Items \cup RetryKeys
           /\ Front(q) \in {0, 1} /\ Size(q) \in Nat
  <1>1. /\ q.followUp \in Seq(Item) /\ q.handled \in Seq(Items \cup RetryKeys)
        /\ q.dispatch \in Dispatch \cup {None} /\ q.blocked \in Item \cup {None}
    BY DEF Queue
  <1>2. /\ Len(q.followUp) \in Nat /\ DOMAIN q.followUp = 1..Len(q.followUp)
        /\ \A n \in 1..Len(q.followUp) : q.followUp[n] \in Item
    BY <1>1, LenProperties, ElementOfSeq
  <1>3. /\ Len(q.handled) \in Nat /\ DOMAIN q.handled = 1..Len(q.handled)
        /\ \A n \in 1..Len(q.handled) : q.handled[n] \in Items \cup RetryKeys
    BY <1>1, LenProperties, ElementOfSeq
  <1>4. Front(q) \in {0, 1}
    BY DEF Front
  <1>5. Known(q) \subseteq Items \cup RetryKeys
    BY <1>3 DEF Known
  <1>6. Size(q) \in Nat
    BY <1>2, <1>4 DEF Size
  <1> QED BY <1>1, <1>2, <1>3, <1>4, <1>5, <1>6

LEMMA LineAt ==
    ASSUME NEW q, NEW k \in 1..Size(q)
    PROVE  Line(q)[k] = IF k <= Front(q) THEN FrontId(q) ELSE q.followUp[k - Front(q)].id
  BY DEF Line

\* What a queue holds is what is in its line.
LEMMA HeldIsLine ==
    ASSUME NEW q \in Queue, q.dispatch = None \/ q.blocked = None
    PROVE  Held(q) = {Line(q)[n] : n \in 1..Size(q)} /\ Held(q) \subseteq Items
  <1> USE QueueFields
  <1>0. None \notin Dispatch /\ None \notin Item
    BY ConstantsAssumption
  <1>1. CASE Front(q) = 0
    <2>1. q.dispatch = None /\ q.blocked = None
      BY <1>1 DEF Front
    <2>2. \A n \in 1..Size(q) : Line(q)[n] = q.followUp[n].id
      BY <1>1 DEF Line, Size
    <2> QED BY <1>1, <2>1, <2>2 DEF Held, Ids, Size, Item
  <1>2. CASE Front(q) = 1
    <2>1. {x.id : x \in {q.dispatch, q.blocked} \ {None}} = {FrontId(q)}
      BY <1>2 DEF Front, FrontId
    <2>2. /\ 1 \in 1..Size(q) /\ Line(q)[1] = FrontId(q)
          /\ \A n \in 2..Size(q) : n \in 1..Size(q) /\ Line(q)[n] = q.followUp[n - 1].id
      BY <1>2 DEF Line, Size
    <2>3. \A n \in 1..Len(q.followUp) : n + 1 \in 2..Size(q) /\ (n + 1) - 1 = n
      BY <1>2 DEF Size
    <2>4. \A n \in 2..Size(q) : n - 1 \in 1..Len(q.followUp)
      BY <1>2 DEF Size
    <2>5. Held(q) = {FrontId(q)} \cup {q.followUp[n].id : n \in 1..Len(q.followUp)}
      BY <2>1 DEF Held, Ids
    <2>6. Held(q) = {Line(q)[n] : n \in 1..Size(q)}
      <3>1. \A i \in Held(q) : \E n \in 1..Size(q) : Line(q)[n] = i
        BY <2>2, <2>3, <2>5
      <3>2. \A n \in 1..Size(q) : Line(q)[n] \in Held(q)
        BY <2>2, <2>4, <2>5
      <3> QED BY <3>1, <3>2
    <2>7. FrontId(q) \in Items
      BY <1>0, <1>2 DEF FrontId, Front, Item, Dispatch
    <2> QED BY <2>5, <2>6, <2>7 DEF Item
  <1> QED BY <1>1, <1>2

LEMMA CountIsSize ==
    ASSUME NEW q \in Queue, q.dispatch = None \/ q.blocked = None
    PROVE  Count(q) = Size(q)
  <1>1. CASE Front(q) = 0
    <2>1. {q.dispatch, q.blocked} \ {None} = {}
      BY <1>1 DEF Front
    <2>2. Cardinality({q.dispatch, q.blocked} \ {None}) = 0
      BY <2>1, FS_EmptySet
    <2> QED BY <1>1, <2>2, QueueFields DEF Count, Size
  <1>2. CASE Front(q) = 1
    <2>1. \E x : {q.dispatch, q.blocked} \ {None} = {x}
      BY <1>2 DEF Front
    <2>2. Cardinality({q.dispatch, q.blocked} \ {None}) = 1
      BY <2>1, FS_Singleton
    <2> QED BY <1>2, <2>2, QueueFields DEF Count, Size
  <1> QED BY <1>1, <1>2, QueueFields

\* In a sequence without duplicates, what comes before does not come after.
LEMMA BeforeIsStrict ==
    ASSUME NEW S, NEW seq \in Seq(S), Distinct(seq), NEW i, NEW j, Before(i, j, seq)
    PROVE  i # j /\ ~Before(j, i, seq)
  <1>1. DOMAIN seq = 1..Len(seq) /\ Len(seq) \in Nat
    BY LenProperties
  <1> QED BY <1>1 DEF Distinct, Before

\* A line holds nothing twice.
LEMMA LineIsDistinct ==
    ASSUME NEW q, Lined(q), NEW m \in 1..Size(q), NEW n \in 1..Size(q), Line(q)[m] = Line(q)[n]
    PROVE  m = n
  <1>1. q.handled \in Seq(Items \cup RetryKeys) /\ Distinct(q.handled) /\ Size(q) \in Nat
    BY QueueFields DEF Lined
  <1>2. m < n => Before(Line(q)[m], Line(q)[n], q.handled)
    BY DEF Lined
  <1>3. n < m => Before(Line(q)[n], Line(q)[m], q.handled)
    BY DEF Lined
  <1>4. ~(m < n) /\ ~(n < m)
    BY <1>1, <1>2, <1>3, BeforeIsStrict
  <1> QED BY <1>1, <1>4

\* There are no more requests in a queue than there are requests.
LEMMA HandledIsShort ==
    ASSUME NeverForgotten, NEW seq \in Seq(Items \cup RetryKeys), Distinct(seq)
    PROVE  Len(seq) <= MaxHandled /\ Len(seq) \in Nat
  <1>1. Len(seq) \in Nat /\ DOMAIN seq = 1..Len(seq) /\ seq \in [1..Len(seq) -> Items \cup RetryKeys]
    BY LenProperties
  <1>2. seq \in Injection(1..Len(seq), Items \cup RetryKeys)
    BY <1>1 DEF Injection, IsInjective, Distinct
  <1>3. Cardinality(1..Len(seq)) <= Cardinality(Items \cup RetryKeys)
    BY <1>2, FS_Injection DEF NeverForgotten
  <1>4. Cardinality(1..Len(seq)) = Len(seq)
    BY <1>1, FS_Interval
  <1>5. Cardinality(Items \cup RetryKeys) \in Nat /\ MaxHandled \in Nat
    BY FS_CardinalityType, ConstantsAssumption DEF NeverForgotten
  <1> QED BY <1>1, <1>3, <1>4, <1>5 DEF NeverForgotten

\* A start accepts a queue that is a line.
LEMMA LinedIsAccepted ==
    ASSUME NeverForgotten, NEW q, Lined(q)
    PROVE  Accepted(q)
  <1>1. q \in Queue /\ (q.dispatch = None \/ q.blocked = None) /\ Size(q) \in Nat
    BY QueueFields DEF Lined
  <1>2. Count(q) = Size(q) /\ Held(q) = {Line(q)[n] : n \in 1..Size(q)}
    BY <1>1, CountIsSize, HeldIsLine
  <1>3. Line(q) \in [1..Size(q) -> Held(q)]
    BY <1>2 DEF Line
  <1>4. Line(q) \in Injection(1..Size(q), Held(q)) /\ Line(q) \in Surjection(1..Size(q), Held(q))
    <2>1. \A m, n \in 1..Size(q) : Line(q)[m] = Line(q)[n] => m = n
      BY LineIsDistinct
    <2>2. \A i \in Held(q) : \E n \in 1..Size(q) : Line(q)[n] = i
      BY <1>2
    <2> QED BY <1>3, <2>1, <2>2 DEF Injection, IsInjective, Surjection
  <1>5. IsFiniteSet(1..Size(q)) /\ Cardinality(1..Size(q)) = Size(q)
    BY <1>1, FS_Interval
  <1>6. Cardinality(Held(q)) = Size(q)
    BY <1>4, <1>5, FS_Surjection
  <1>7. Len(q.handled) <= MaxHandled
    BY <1>1, QueueFields, HandledIsShort DEF Lined
  <1> QED BY <1>1, <1>2, <1>6, <1>7 DEF Accepted, Lined

\* The same line with the same requests.
LEMMA SameLine ==
    ASSUME NEW q, Lined(q), NEW n \in Queue, n.handled = q.handled,
           n.dispatch = None \/ n.blocked = None, Size(n) = Size(q),
           \A k \in 1..Size(q) : Line(n)[k] = Line(q)[k]
    PROVE  Lined(n) /\ Known(n) = Known(q) /\ Held(n) = Held(q)
  <1>1. Known(n) = Known(q)
    BY DEF Known
  <1>2. Lined(n)
    BY <1>1 DEF Lined
  <1>3. Held(n) = Held(q)
    <2>1. q \in Queue /\ (q.dispatch = None \/ q.blocked = None)
      BY DEF Lined
    <2>2. Held(q) = {Line(q)[k] : k \in 1..Size(q)}
      BY <2>1, HeldIsLine
    <2>3. Held(n) = {Line(n)[k] : k \in 1..Size(n)}
      BY HeldIsLine
    <2> QED BY <2>2, <2>3
  <1> QED BY <1>1, <1>2, <1>3

\* PutBack: what was in front waits again, in front.
LEMMA PutBackMoves ==
    ASSUME NEW q, Lined(q), Front(q) = 1, NEW item \in Item, item.id = FrontId(q),
           NEW n, n = PutBack(q, item)
    PROVE  /\ Lined(n) /\ Known(n) = Known(q) /\ Held(n) = Held(q)
           /\ n.dispatch = None /\ n.blocked = None /\ n.handled = q.handled
           /\ n.followUp = <<item>> \o q.followUp
           /\ Givable(n) \subseteq Givable(q) \cup {item.id}
  <1>0. q \in Queue /\ q.followUp \in Seq(Item) /\ Len(q.followUp) \in Nat
    BY QueueFields DEF Lined
  <1>1. <<item>> \in Seq(Item) /\ Len(<<item>>) = 1 /\ <<item>>[1] = item
    OBVIOUS
  <1>2. /\ <<item>> \o q.followUp \in Seq(Item)
        /\ Len(<<item>> \o q.followUp) = 1 + Len(q.followUp)
        /\ \A k \in 1..(1 + Len(q.followUp)) :
              (<<item>> \o q.followUp)[k] = IF k <= 1 THEN item ELSE q.followUp[k - 1]
    BY <1>0, <1>1, ConcatProperties
  <1>3. /\ n \in Queue /\ n.dispatch = None /\ n.blocked = None /\ n.handled = q.handled
        /\ n.followUp = <<item>> \o q.followUp
    BY <1>0, <1>2 DEF PutBack, Queue
  <1>4. Front(n) = 0 /\ Size(n) = Size(q)
    <2>1. Front(n) = 0
      BY <1>3 DEF Front
    <2>2. Size(n) = Len(<<item>> \o q.followUp) /\ Size(q) = 1 + Len(q.followUp)
      BY <1>0, <1>2, <1>3, <2>1 DEF Size
    <2> QED BY <1>2, <2>1, <2>2
  <1>5. \A k \in 1..Size(q) : Line(n)[k] = Line(q)[k]
    BY <1>0, <1>2, <1>3, <1>4 DEF Line, Size
  <1>6. Lined(n) /\ Known(n) = Known(q) /\ Held(n) = Held(q)
    BY <1>3, <1>4, <1>5, SameLine
  <1>7. Ids(n.followUp) = {item.id} \cup Ids(q.followUp)
    <2>1. DOMAIN n.followUp = 1..(1 + Len(q.followUp)) /\ DOMAIN q.followUp = 1..Len(q.followUp)
      BY <1>0, <1>2, <1>3, LenProperties
    <2>2. \A k \in 1..Len(q.followUp) : k + 1 \in DOMAIN n.followUp /\ n.followUp[k + 1] = q.followUp[k]
      BY <1>0, <1>2, <1>3, <2>1
    <2>3. 1 \in DOMAIN n.followUp /\ n.followUp[1] = item
      BY <1>0, <1>2, <1>3, <2>1
    <2>4. \A k \in DOMAIN n.followUp :
            k = 1 \/ (k - 1 \in DOMAIN q.followUp /\ n.followUp[k] = q.followUp[k - 1])
      BY <1>0, <1>2, <1>3, <2>1
    <2>5. \A k \in DOMAIN n.followUp : n.followUp[k].id \in {item.id} \cup Ids(q.followUp)
      BY <2>3, <2>4 DEF Ids
    <2>6. \A k \in DOMAIN q.followUp : q.followUp[k].id \in Ids(n.followUp)
      BY <2>1, <2>2 DEF Ids
    <2>7. item.id \in Ids(n.followUp)
      BY <2>3 DEF Ids
    <2> QED BY <2>5, <2>6, <2>7 DEF Ids
  <1>8. Givable(n) \subseteq Givable(q) \cup {item.id}
    BY <1>3, <1>6, <1>7 DEF Givable
  <1> QED BY <1>3, <1>6, <1>8

\* What is in front changes, and stays the same message.
LEMMA FrontMoves ==
    ASSUME NEW q, Lined(q), NEW n \in Queue, n.followUp = q.followUp, n.handled = q.handled,
           n.dispatch = None \/ n.blocked = None, Front(n) = Front(q),
           Front(q) = 1 => FrontId(n) = FrontId(q),
           n.dispatch # None /\ ~n.dispatch.attempted =>
             q.dispatch # None /\ ~q.dispatch.attempted /\ q.dispatch.id = n.dispatch.id
    PROVE  Moved(q, n)
  <1>1. Size(n) = Size(q)
    BY DEF Size
  <1>2. \A k \in 1..Size(q) : Line(n)[k] = Line(q)[k]
    <2>1. Front(q) \in {0, 1}
      BY DEF Front
    <2> QED BY <1>1, <2>1 DEF Line
  <1>3. Lined(n) /\ Known(n) = Known(q) /\ Held(n) = Held(q)
    BY <1>1, <1>2, SameLine
  <1>4. Givable(n) \subseteq Givable(q)
    BY <1>3 DEF Givable
  <1> QED BY <1>3, <1>4 DEF Moved

\* What is in front leaves.
LEMMA FrontLeaves ==
    ASSUME NEW q, Lined(q), Front(q) = 1, NEW n \in Queue, n.followUp = q.followUp,
           n.handled = q.handled, n.dispatch = None, n.blocked = None
    PROVE  /\ Lined(n) /\ Known(n) = Known(q) /\ Held(q) \subseteq Held(n) \cup {FrontId(q)}
           /\ Givable(n) \subseteq Givable(q)
  <1>0. /\ q \in Queue /\ Len(q.followUp) \in Nat /\ Size(q) = 1 + Len(q.followUp)
        /\ Size(q) <= MaxQueued /\ MaxQueued \in Nat
    BY QueueFields, ConstantsAssumption DEF Lined, Size
  <1>1. Front(n) = 0
    BY DEF Front
  <1>2. Size(n) = Len(q.followUp)
    BY <1>0, <1>1 DEF Size
  <1>3. \A k \in 1..Size(n) : k + 1 \in 1..Size(q) /\ Line(n)[k] = Line(q)[k + 1]
    BY <1>0, <1>1, <1>2 DEF Line
  <1>4. Known(n) = Known(q)
    BY DEF Known
  <1>5. Lined(n)
    <2>1. \A k \in 1..Size(n) : Line(n)[k] \in Known(n)
      BY <1>3, <1>4 DEF Lined
    <2>2. \A k, l \in 1..Size(n) : k < l => Before(Line(n)[k], Line(n)[l], n.handled)
      BY <1>0, <1>2, <1>3 DEF Lined
    <2> QED BY <1>0, <1>2, <2>1, <2>2 DEF Lined
  <1>6. Held(q) \subseteq Held(n) \cup {FrontId(q)}
    <2>1. \A x \in {q.dispatch, q.blocked} \ {None} : x.id = FrontId(q)
      BY DEF FrontId, Lined
    <2> QED BY <2>1 DEF Held
  <1>7. Givable(n) \subseteq Givable(q)
    BY <1>4 DEF Givable
  <1> QED BY <1>4, <1>5, <1>6, <1>7

\* The text of a message that waits changes.
LEMMA WaitingEdited ==
    ASSUME NEW q, Lined(q), NEW k \in DOMAIN q.followUp, NEW x \in Item, x.id = q.followUp[k].id,
           NEW n, n = [q EXCEPT !.followUp = [@ EXCEPT ![k] = x]]
    PROVE  Moved(q, n) /\ n.dispatch = q.dispatch /\ n.handled = q.handled
  <1>0. q \in Queue /\ q.followUp \in Seq(Item) /\ DOMAIN q.followUp = 1..Len(q.followUp)
    BY QueueFields DEF Lined
  <1>1. /\ [q.followUp EXCEPT ![k] = x] \in Seq(Item)
        /\ Len([q.followUp EXCEPT ![k] = x]) = Len(q.followUp)
        /\ \A j \in 1..Len(q.followUp) : [q.followUp EXCEPT ![k] = x][j] = IF j = k THEN x ELSE q.followUp[j]
    BY <1>0, ExceptSeq
  <1>2. /\ n \in Queue /\ n.dispatch = q.dispatch /\ n.blocked = q.blocked /\ n.handled = q.handled
        /\ n.followUp = [q.followUp EXCEPT ![k] = x]
    BY <1>0, <1>1 DEF Queue
  <1>3. \A j \in 1..Len(q.followUp) : n.followUp[j].id = q.followUp[j].id
    BY <1>1, <1>2
  <1>4. Front(n) = Front(q) /\ FrontId(n) = FrontId(q) /\ Size(n) = Size(q)
    BY <1>1, <1>2 DEF Front, FrontId, Size
  <1>5. \A j \in 1..Size(q) : Line(n)[j] = Line(q)[j]
    <2>1. Front(q) \in {0, 1} /\ Len(q.followUp) \in Nat
      BY <1>0, QueueFields
    <2> QED BY <1>3, <1>4, <2>1 DEF Line, Size
  <1>6. Lined(n) /\ Known(n) = Known(q) /\ Held(n) = Held(q)
    BY <1>2, <1>4, <1>5, SameLine DEF Lined
  <1>7. DOMAIN n.followUp = DOMAIN q.followUp
    BY <1>2
  <1>8. Ids(n.followUp) = Ids(q.followUp)
    BY <1>0, <1>3, <1>7 DEF Ids
  <1> QED BY <1>2, <1>6, <1>8 DEF Moved, Givable

\* A sequence without one of its elements.
LEMMA WithoutProperties ==
    ASSUME NEW S, NEW seq \in Seq(S), NEW k \in DOMAIN seq
    PROVE  /\ Without(seq, k) \in Seq(S) /\ Len(Without(seq, k)) = Len(seq) - 1
           /\ DOMAIN Without(seq, k) = 1..(Len(seq) - 1)
           /\ \A j \in 1..(Len(seq) - 1) : Without(seq, k)[j] = IF j < k THEN seq[j] ELSE seq[j + 1]
  <1>0. Len(seq) \in Nat /\ DOMAIN seq = 1..Len(seq) /\ \A j \in 1..Len(seq) : seq[j] \in S
    BY LenProperties, ElementOfSeq
  <1>1. /\ SubSeq(seq, 1, k - 1) \in Seq(S) /\ Len(SubSeq(seq, 1, k - 1)) = k - 1
        /\ \A j \in 1..(k - 1) : SubSeq(seq, 1, k - 1)[j] = seq[j]
    <2>1. \A j \in 1..(k - 1) : seq[j] \in S
      BY <1>0
    <2> QED BY <1>0, <2>1, SubSeqProperties
  <1>2. /\ SubSeq(seq, k + 1, Len(seq)) \in Seq(S) /\ Len(SubSeq(seq, k + 1, Len(seq))) = Len(seq) - k
        /\ \A j \in 1..(Len(seq) - k) : SubSeq(seq, k + 1, Len(seq))[j] = seq[k + j]
    <2>1. \A j \in (k + 1)..Len(seq) : seq[j] \in S
      BY <1>0
    <2> QED BY <1>0, <2>1, SubSeqProperties
  <1> DEFINE left  == SubSeq(seq, 1, k - 1)
             right == SubSeq(seq, k + 1, Len(seq))
  <1>3. /\ left \o right \in Seq(S) /\ Len(left \o right) = Len(left) + Len(right)
        /\ \A j \in 1..(Len(left) + Len(right)) :
              (left \o right)[j] = IF j <= Len(left) THEN left[j] ELSE right[j - Len(left)]
    <2> HIDE DEF left, right
    <2> QED BY <1>1, <1>2, ConcatProperties DEF left, right
  <1>4. Without(seq, k) = left \o right /\ Len(left) = k - 1 /\ Len(right) = Len(seq) - k
    BY <1>1, <1>2 DEF Without
  <1>5. \A j \in 1..(Len(seq) - 1) : (left \o right)[j] = IF j < k THEN seq[j] ELSE seq[j + 1]
    <2> SUFFICES ASSUME NEW j \in 1..(Len(seq) - 1)
                 PROVE  (left \o right)[j] = IF j < k THEN seq[j] ELSE seq[j + 1]
      OBVIOUS
    <2>1. CASE j < k
      <3>1. j \in 1..(k - 1)
        BY <1>0, <2>1
      <3> QED BY <1>0, <1>1, <1>3, <1>4, <2>1, <3>1
    <2>2. CASE ~(j < k)
      <3>1. j - (k - 1) \in 1..(Len(seq) - k) /\ k + (j - (k - 1)) = j + 1 /\ ~(j <= k - 1)
        BY <1>0, <2>2
      <3>2. right[j - (k - 1)] = seq[j + 1]
        BY <1>2, <3>1
      <3>3. j \in 1..(Len(left) + Len(right))
        BY <1>0, <1>4
      <3> QED BY <1>3, <1>4, <2>2, <3>1, <3>2, <3>3
    <2> QED BY <2>1, <2>2
  <1>6. Len(left \o right) = Len(seq) - 1
    BY <1>0, <1>3, <1>4
  <1> HIDE DEF left, right
  <1>7. DOMAIN (left \o right) = 1..(Len(seq) - 1)
    BY <1>3, <1>6, LenProperties
  <1> QED BY <1>3, <1>4, <1>5, <1>6, <1>7

\* A message that waits is taken out.
LEMMA WaitingLeaves ==
    ASSUME NEW q, Lined(q), NEW k \in DOMAIN q.followUp,
           NEW n, n = [q EXCEPT !.followUp = Without(@, k)]
    PROVE  /\ Lined(n) /\ Known(n) = Known(q) /\ Held(q) \subseteq Held(n) \cup {q.followUp[k].id}
           /\ Givable(n) \subseteq Givable(q) /\ n.dispatch = q.dispatch /\ n.handled = q.handled
  <1>0. /\ q \in Queue /\ q.followUp \in Seq(Item) /\ DOMAIN q.followUp = 1..Len(q.followUp)
        /\ Len(q.followUp) \in Nat /\ Front(q) \in {0, 1} /\ Size(q) <= MaxQueued /\ MaxQueued \in Nat
    BY QueueFields, ConstantsAssumption DEF Lined
  <1>1. /\ Without(q.followUp, k) \in Seq(Item) /\ Len(Without(q.followUp, k)) = Len(q.followUp) - 1
        /\ DOMAIN Without(q.followUp, k) = 1..(Len(q.followUp) - 1)
        /\ \A j \in 1..(Len(q.followUp) - 1) :
              Without(q.followUp, k)[j] = IF j < k THEN q.followUp[j] ELSE q.followUp[j + 1]
    BY <1>0, WithoutProperties
  <1>2. /\ n \in Queue /\ n.dispatch = q.dispatch /\ n.blocked = q.blocked /\ n.handled = q.handled
        /\ n.followUp = Without(q.followUp, k)
    BY <1>0, <1>1 DEF Queue
  <1>3. Front(n) = Front(q) /\ FrontId(n) = FrontId(q) /\ Known(n) = Known(q)
    BY <1>2 DEF Front, FrontId, Known
  <1>4. Size(n) = Size(q) - 1 /\ Size(q) = Front(q) + Len(q.followUp)
    BY <1>0, <1>1, <1>2, <1>3 DEF Size
  <1> DEFINE Old(j) == IF j < Front(q) + k THEN j ELSE j + 1
  <1>5. \A j \in 1..Size(n) : Old(j) \in 1..Size(q) /\ Line(n)[j] = Line(q)[Old(j)]
    <2> SUFFICES ASSUME NEW j \in 1..Size(n)
                 PROVE  Old(j) \in 1..Size(q) /\ Line(n)[j] = Line(q)[Old(j)]
      OBVIOUS
    <2>1. Old(j) \in 1..Size(q)
      BY <1>0, <1>4
    <2>2. CASE j <= Front(q)
      <3>1. Old(j) = j /\ j \in 1..Size(q)
        BY <1>0, <1>4, <2>2
      <3> QED BY <1>3, <2>1, <2>2, <3>1 DEF Line
    <2>3. CASE ~(j <= Front(q))
      <3>1. j - Front(q) \in 1..(Len(q.followUp) - 1) /\ ~(Old(j) <= Front(q))
        BY <1>0, <1>4, <2>3
      <3>2. Line(n)[j] = n.followUp[j - Front(q)].id /\ Line(q)[Old(j)] = q.followUp[Old(j) - Front(q)].id
        BY <1>3, <2>1, <2>3, <3>1 DEF Line
      <3>3. n.followUp[j - Front(q)] = q.followUp[Old(j) - Front(q)]
        <4>1. n.followUp[j - Front(q)] = IF j - Front(q) < k THEN q.followUp[j - Front(q)]
                                                             ELSE q.followUp[(j - Front(q)) + 1]
          BY <1>1, <1>2, <3>1
        <4>2. j \in Nat /\ Front(q) \in Nat /\ k \in Nat
          BY <1>0, <1>4
        <4>3. /\ j - Front(q) < k <=> j < Front(q) + k
              /\ (j + 1) - Front(q) = (j - Front(q)) + 1
          BY <4>2
        <4> QED BY <4>1, <4>3
      <3> QED BY <2>1, <3>2, <3>3
    <2> QED BY <2>2, <2>3
  <1>6. Lined(n)
    <2>1. \A j \in 1..Size(n) : Line(n)[j] \in Known(n)
      BY <1>3, <1>5 DEF Lined
    <2>2. \A i, j \in 1..Size(n) : i < j => Before(Line(n)[i], Line(n)[j], n.handled)
      <3>1. \A i, j \in 1..Size(n) : i < j => Old(i) < Old(j)
        BY <1>0, <1>4
      <3> QED BY <1>2, <1>5, <3>1 DEF Lined
    <2>3. Size(n) <= MaxQueued
      BY <1>0, <1>4
    <2> QED BY <1>2, <2>1, <2>2, <2>3 DEF Lined
  <1>7. Ids(q.followUp) \subseteq Ids(n.followUp) \cup {q.followUp[k].id}
    <2> SUFFICES ASSUME NEW j \in 1..Len(q.followUp), j # k
                 PROVE  \E i \in DOMAIN n.followUp : n.followUp[i] = q.followUp[j]
      BY <1>0 DEF Ids
    <2>1. CASE j < k
      <3>1. j \in 1..(Len(q.followUp) - 1)
        BY <1>0, <2>1
      <3> QED BY <1>1, <1>2, <2>1, <3>1
    <2>2. CASE ~(j < k)
      <3>1. j - 1 \in 1..(Len(q.followUp) - 1) /\ ~(j - 1 < k) /\ (j - 1) + 1 = j
        BY <1>0, <2>2
      <3> QED BY <1>1, <1>2, <3>1
    <2> QED BY <2>1, <2>2
  <1>8. Ids(n.followUp) \subseteq Ids(q.followUp)
    <2>1. ASSUME NEW j \in DOMAIN n.followUp
          PROVE  \E i \in DOMAIN q.followUp : n.followUp[j] = q.followUp[i]
      <3>1. j \in 1..(Len(q.followUp) - 1)
        BY <1>1, <1>2
      <3>2. j \in DOMAIN q.followUp /\ j + 1 \in DOMAIN q.followUp
        BY <1>0, <3>1
      <3>3. n.followUp[j] = q.followUp[j] \/ n.followUp[j] = q.followUp[j + 1]
        BY <1>1, <1>2, <3>1
      <3> QED BY <3>2, <3>3
    <2> QED BY <2>1 DEF Ids
  <1>9. Held(q) \subseteq Held(n) \cup {q.followUp[k].id} /\ Givable(n) \subseteq Givable(q)
    BY <1>2, <1>3, <1>7, <1>8 DEF Held, Givable
  <1> QED BY <1>2, <1>3, <1>6, <1>9

\* The head of those that wait is dispatched, and not attempted yet.
LEMMA HeadMoves ==
    ASSUME NEW q, Lined(q), q.dispatch = None, q.blocked = None, q.followUp # <<>>,
           NEW d \in Dispatch, d.id = Head(q.followUp).id,
           NEW n \in Queue, n.dispatch = d, n.blocked = None, n.handled = q.handled,
           n.followUp = Tail(q.followUp)
    PROVE  Moved(q, n)
  <1>0. /\ q \in Queue /\ q.followUp \in Seq(Item) /\ DOMAIN q.followUp = 1..Len(q.followUp)
        /\ Len(q.followUp) \in Nat \ {0} /\ None # d
    BY QueueFields, EmptySeq, ConstantsAssumption DEF Lined
  <1>1. /\ Tail(q.followUp) \in Seq(Item) /\ Len(Tail(q.followUp)) = Len(q.followUp) - 1
        /\ DOMAIN Tail(q.followUp) = 1..(Len(q.followUp) - 1) /\ Head(q.followUp) = q.followUp[1]
        /\ \A j \in 1..(Len(q.followUp) - 1) : Tail(q.followUp)[j] = q.followUp[j + 1]
    BY <1>0, HeadTailProperties, LenProperties
  <1>2. n.dispatch = d /\ n.followUp = Tail(q.followUp)
    OBVIOUS
  <1>3. Front(q) = 0 /\ Front(n) = 1 /\ FrontId(n) = q.followUp[1].id
    BY <1>0, <1>1, <1>2 DEF Front, FrontId
  <1>4. Size(n) = Len(q.followUp) /\ Size(q) = Len(q.followUp)
    BY <1>0, <1>1, <1>2, <1>3 DEF Size
  <1>5. \A k \in 1..Size(q) : Line(n)[k] = Line(q)[k]
    <2>1. \A k \in 1..Size(q) : Line(q)[k] = q.followUp[k].id
      BY <1>0, <1>3, <1>4 DEF Line
    <2>2. \A k \in 1..Size(q) : Line(n)[k] = IF k <= 1 THEN q.followUp[1].id ELSE n.followUp[k - 1].id
      <3>1. ASSUME NEW k \in 1..Size(q)
            PROVE  Line(n)[k] = IF k <= 1 THEN q.followUp[1].id ELSE n.followUp[k - 1].id
        <4>1. k \in 1..Size(n)
          BY <1>4
        <4>2. Line(n)[k] = IF k <= Front(n) THEN FrontId(n) ELSE n.followUp[k - Front(n)].id
          BY <4>1, LineAt
        <4> QED BY <1>3, <4>2
      <3> QED BY <3>1
    <2>3. ASSUME NEW k \in 1..Size(q), ~(k <= 1)
          PROVE  n.followUp[k - 1] = q.followUp[k]
      <3>1. k - 1 \in 1..(Len(q.followUp) - 1) /\ (k - 1) + 1 = k
        BY <1>0, <1>4, <2>3
      <3> QED BY <1>1, <1>2, <3>1
    <2>4. \A k \in 1..Size(q) : k <= 1 => k = 1
      BY <1>0, <1>4
    <2>5. \A k \in 1..Size(q) : k <= 1 \/ ~(k <= 1)
      OBVIOUS
    <2> QED BY <2>1, <2>2, <2>3, <2>4, <2>5
  <1>6. Lined(n) /\ Known(n) = Known(q) /\ Held(n) = Held(q)
    BY <1>2, <1>4, <1>5, SameLine
  <1>7. Ids(n.followUp) \subseteq Ids(q.followUp) /\ d.id \in Ids(q.followUp)
    <2>0. DOMAIN n.followUp = 1..(Len(q.followUp) - 1)
      BY <1>1, <1>2
    <2>1. ASSUME NEW j \in DOMAIN n.followUp
          PROVE  \E i \in DOMAIN q.followUp : n.followUp[j] = q.followUp[i]
      <3>1. j \in 1..(Len(q.followUp) - 1) /\ j + 1 \in DOMAIN q.followUp
        BY <1>0, <2>0, <2>1
      <3> QED BY <1>1, <1>2, <3>1
    <2>2. 1 \in DOMAIN q.followUp
      BY <1>0
    <2> QED BY <1>1, <2>1, <2>2 DEF Ids
  <1>8. Givable(n) \subseteq Givable(q)
    BY <1>2, <1>6, <1>7 DEF Givable
  <1> QED BY <1>2, <1>6, <1>8 DEF Moved

\* What a sequence holds when something is added.
LEMMA AppendKnows ==
    ASSUME NEW S, NEW seq \in Seq(S), NEW x \in S, \A k \in DOMAIN seq : seq[k] # x, Distinct(seq)
    PROVE  /\ Append(seq, x) \in Seq(S) /\ Distinct(Append(seq, x))
           /\ {Append(seq, x)[k] : k \in DOMAIN Append(seq, x)} = {seq[k] : k \in DOMAIN seq} \cup {x}
           /\ \A i, j : Before(i, j, seq) => Before(i, j, Append(seq, x))
           /\ \A i \in {seq[k] : k \in DOMAIN seq} : Before(i, x, Append(seq, x))
  <1>1. /\ Append(seq, x) \in Seq(S) /\ Len(Append(seq, x)) = Len(seq) + 1
        /\ \A k \in 1..(Len(seq) + 1) : Append(seq, x)[k] = IF k <= Len(seq) THEN seq[k] ELSE x
    BY AppendProperties
  <1>2. DOMAIN Append(seq, x) = 1..(Len(seq) + 1) /\ DOMAIN seq = 1..Len(seq) /\ Len(seq) \in Nat
    BY <1>1, LenProperties
  <1>3. \A k \in DOMAIN seq : k \in DOMAIN Append(seq, x) /\ Append(seq, x)[k] = seq[k] /\ k < Len(seq) + 1
    BY <1>1, <1>2
  <1>4. Len(seq) + 1 \in DOMAIN Append(seq, x) /\ Append(seq, x)[Len(seq) + 1] = x
    BY <1>1, <1>2
  <1>5. \A k \in DOMAIN Append(seq, x) : k \in DOMAIN seq \/ k = Len(seq) + 1
    BY <1>2
  <1>6. Distinct(Append(seq, x))
    BY <1>3, <1>4, <1>5 DEF Distinct
  <1>7. {Append(seq, x)[k] : k \in DOMAIN Append(seq, x)} = {seq[k] : k \in DOMAIN seq} \cup {x}
    <2>1. \A k \in DOMAIN Append(seq, x) : Append(seq, x)[k] \in {seq[l] : l \in DOMAIN seq} \cup {x}
      BY <1>3, <1>4, <1>5
    <2>2. \A k \in DOMAIN seq : seq[k] \in {Append(seq, x)[l] : l \in DOMAIN Append(seq, x)}
      BY <1>3
    <2>3. x \in {Append(seq, x)[l] : l \in DOMAIN Append(seq, x)}
      BY <1>4
    <2> QED BY <2>1, <2>2, <2>3
  <1>8. \A i, j : Before(i, j, seq) => Before(i, j, Append(seq, x))
    BY <1>3 DEF Before
  <1>9. \A i \in {seq[k] : k \in DOMAIN seq} : Before(i, x, Append(seq, x))
    BY <1>3, <1>4 DEF Before
  <1> QED BY <1>1, <1>6, <1>7, <1>8, <1>9

\* A request is remembered, and the line is the same.
LEMMA RequestRemembered ==
    ASSUME NEW q, Lined(q), NEW key \in Items \cup RetryKeys, key \notin Known(q),
           NEW n \in Queue, n.handled = Append(q.handled, key),
           n.followUp = q.followUp, n.dispatch = q.dispatch, n.blocked = q.blocked
    PROVE  /\ Lined(n) /\ Known(n) = Known(q) \cup {key} /\ Held(n) = Held(q)
           /\ Givable(n) \subseteq Givable(q)
  <1>1. q.handled \in Seq(Items \cup RetryKeys) /\ Distinct(q.handled)
    BY QueueFields DEF Lined
  <1>2. /\ Distinct(n.handled) /\ Known(n) = Known(q) \cup {key}
        /\ \A i, j : Before(i, j, q.handled) => Before(i, j, n.handled)
    BY <1>1, AppendKnows DEF Known
  <1>3. Size(n) = Size(q) /\ Front(n) = Front(q) /\ FrontId(n) = FrontId(q) /\ Held(n) = Held(q)
    BY DEF Size, Front, FrontId, Held
  <1>4. Line(n) = Line(q)
    BY <1>3 DEF Line
  <1>5. Lined(n)
    BY <1>2, <1>3, <1>4 DEF Lined
  <1>6. Givable(n) \subseteq Givable(q)
    BY <1>2 DEF Givable
  <1> QED BY <1>2, <1>3, <1>5, <1>6

\* A message is queued, behind all others.
LEMMA MessageJoins ==
    ASSUME NEW q, Lined(q), Size(q) < MaxQueued, NEW x \in Item, x.id \notin Known(q),
           NEW n \in Queue, n.handled = Append(q.handled, x.id), n.followUp = Append(q.followUp, x),
           n.dispatch = q.dispatch, n.blocked = q.blocked
    PROVE  /\ Lined(n) /\ Known(n) = Known(q) \cup {x.id} /\ Held(n) = Held(q) \cup {x.id}
           /\ Givable(n) \subseteq Givable(q) /\ n.dispatch = q.dispatch /\ n.handled = Append(q.handled, x.id)
  <1>0. /\ q \in Queue /\ q.followUp \in Seq(Item) /\ DOMAIN q.followUp = 1..Len(q.followUp)
        /\ Len(q.followUp) \in Nat /\ Front(q) \in {0, 1} /\ MaxQueued \in Nat
        /\ q.handled \in Seq(Items \cup RetryKeys) /\ Distinct(q.handled)
    BY QueueFields, ConstantsAssumption DEF Lined
  <1>1. /\ Append(q.followUp, x) \in Seq(Item) /\ Len(Append(q.followUp, x)) = Len(q.followUp) + 1
        /\ \A k \in 1..(Len(q.followUp) + 1) :
              Append(q.followUp, x)[k] = IF k <= Len(q.followUp) THEN q.followUp[k] ELSE x
    BY <1>0, AppendProperties
  <1>2. x.id \in Items
    BY DEF Item
  <1>3. /\ Append(q.handled, x.id) \in Seq(Items \cup RetryKeys) /\ Distinct(Append(q.handled, x.id))
        /\ {Append(q.handled, x.id)[k] : k \in DOMAIN Append(q.handled, x.id)} = Known(q) \cup {x.id}
        /\ \A i, j : Before(i, j, q.handled) => Before(i, j, Append(q.handled, x.id))
        /\ \A i \in Known(q) : Before(i, x.id, Append(q.handled, x.id))
    <2>1. \A k \in DOMAIN q.handled : q.handled[k] # x.id
      BY DEF Known
    <2>2. q.handled \in Seq(Items \cup RetryKeys) /\ Distinct(q.handled) /\ x.id \in Items \cup RetryKeys
      BY <1>0, <1>2
    <2>3. /\ Append(q.handled, x.id) \in Seq(Items \cup RetryKeys) /\ Distinct(Append(q.handled, x.id))
          /\ {Append(q.handled, x.id)[k] : k \in DOMAIN Append(q.handled, x.id)}
                = {q.handled[k] : k \in DOMAIN q.handled} \cup {x.id}
          /\ \A i, j : Before(i, j, q.handled) => Before(i, j, Append(q.handled, x.id))
          /\ \A i \in {q.handled[k] : k \in DOMAIN q.handled} : Before(i, x.id, Append(q.handled, x.id))
      BY <2>1, <2>2, AppendKnows, Zenon
    <2> QED BY <2>3, Zenon DEF Known
  <1>4. /\ n \in Queue /\ n.dispatch = q.dispatch /\ n.blocked = q.blocked
        /\ n.handled = Append(q.handled, x.id) /\ n.followUp = Append(q.followUp, x)
    OBVIOUS
  <1>5. Front(n) = Front(q) /\ FrontId(n) = FrontId(q) /\ Known(n) = Known(q) \cup {x.id}
    <2>1. Front(n) = Front(q) /\ FrontId(n) = FrontId(q)
      BY <1>4, Zenon DEF Front, FrontId
    <2>2. Known(n) = Known(q) \cup {x.id}
      BY <1>3, <1>4, Zenon DEF Known
    <2> QED BY <2>1, <2>2
  <1>6. Size(n) = Size(q) + 1 /\ Size(q) = Front(q) + Len(q.followUp)
    BY <1>0, <1>1, <1>4, <1>5 DEF Size
  <1>7. \A k \in 1..Size(n) : Line(n)[k] = IF k <= Size(q) THEN Line(q)[k] ELSE x.id
    <2> SUFFICES ASSUME NEW k \in 1..Size(n)
                 PROVE  Line(n)[k] = IF k <= Size(q) THEN Line(q)[k] ELSE x.id
      OBVIOUS
    <2>1. CASE k <= Front(q)
      <3>1. k \in 1..Size(q) /\ k <= Size(q)
        BY <1>0, <1>6, <2>1
      <3> QED BY <1>5, <2>1, <3>1 DEF Line
    <2>2. CASE ~(k <= Front(q)) /\ k <= Size(q)
      <3>1. k \in 1..Size(q) /\ k - Front(q) \in 1..Len(q.followUp) /\ k - Front(q) <= Len(q.followUp)
            /\ k - Front(q) \in 1..(Len(q.followUp) + 1)
        BY <1>0, <1>6, <2>2
      <3>2. n.followUp[k - Front(q)] = q.followUp[k - Front(q)]
        BY <1>1, <1>4, <3>1
      <3>3. Line(n)[k] = n.followUp[k - Front(q)].id
        BY <1>5, <2>2, LineAt
      <3>4. Line(q)[k] = q.followUp[k - Front(q)].id
        BY <2>2, <3>1, LineAt
      <3> QED BY <2>2, <3>2, <3>3, <3>4
    <2>3. CASE ~(k <= Size(q))
      <3>1. k - Front(q) = Len(q.followUp) + 1 /\ ~(k <= Front(q))
        BY <1>0, <1>6, <2>3
      <3>2. n.followUp[k - Front(q)] = x
        BY <1>0, <1>1, <1>4, <3>1
      <3>3. Line(n)[k] = n.followUp[k - Front(q)].id
        BY <1>5, <3>1, LineAt
      <3> QED BY <2>3, <3>2, <3>3
    <2> QED BY <2>1, <2>2, <2>3
  <1>8. Lined(n)
    <2>1. \A k \in 1..Size(n) : k <= Size(q) => k \in 1..Size(q)
      BY <1>0, <1>6
    <2>2. \A k \in 1..Size(n) : Line(n)[k] \in Known(n)
      BY <1>5, <1>7, <2>1 DEF Lined
    <2>3. ASSUME NEW i \in 1..Size(n), NEW j \in 1..Size(n), i < j
          PROVE  Before(Line(n)[i], Line(n)[j], n.handled)
      <3>1. i <= Size(q)
        BY <1>0, <1>6, <2>3
      <3>2. CASE j <= Size(q)
        BY <1>3, <1>4, <1>7, <2>1, <2>3, <3>1, <3>2 DEF Lined
      <3>3. CASE ~(j <= Size(q))
        BY <1>3, <1>4, <1>7, <2>1, <2>3, <3>1, <3>3 DEF Lined
      <3> QED BY <3>2, <3>3
    <2>4. Size(n) <= MaxQueued
      BY <1>0, <1>6
    <2> QED BY <1>3, <1>4, <2>2, <2>3, <2>4 DEF Lined
  <1>9. Ids(n.followUp) = Ids(q.followUp) \cup {x.id}
    <2>1. DOMAIN n.followUp = 1..(Len(q.followUp) + 1)
      BY <1>1, <1>4, LenProperties
    <2>2. \A k \in DOMAIN q.followUp : k \in DOMAIN n.followUp /\ n.followUp[k] = q.followUp[k]
      BY <1>0, <1>1, <1>4, <2>1
    <2>3. Len(q.followUp) + 1 \in DOMAIN n.followUp /\ n.followUp[Len(q.followUp) + 1] = x
      BY <1>0, <1>1, <1>4, <2>1
    <2>4. \A k \in DOMAIN n.followUp : k \in DOMAIN q.followUp \/ k = Len(q.followUp) + 1
      BY <1>0, <2>1
    <2>5. \A k \in DOMAIN n.followUp : n.followUp[k].id \in Ids(q.followUp) \cup {x.id}
      BY <2>2, <2>3, <2>4 DEF Ids
    <2>6. \A k \in DOMAIN q.followUp : q.followUp[k].id \in Ids(n.followUp)
      BY <2>2 DEF Ids
    <2>7. x.id \in Ids(n.followUp)
      BY <2>3 DEF Ids
    <2> QED BY <2>5, <2>6, <2>7 DEF Ids
  <1>10. Held(n) = Held(q) \cup {x.id}
    BY <1>4, <1>9 DEF Held
  <1>11. Givable(n) \subseteq Givable(q)
    BY <1>2, <1>4, <1>5, <1>9 DEF Givable
  <1> QED BY <1>4, <1>5, <1>8, <1>10, <1>11

-----------------------------------------------------------------------------
(* The invariant. *)

Retries == [key : RetryKeys, id : Items, changed : BOOLEAN]

Ops == [who : {"none", "drain", "retry", "open", "prompt"},
        step : {"none", "attach", "load", "restore", "take", "attempt", "undo",
                "retry", "submit", "done", "error"},
        next : {"none", "restore", "take", "retry", "submit"},
        retry : Retries \cup {None}]

Calls == [pc : {"idle", "call", "flight", "returned"}, id : Items \cup {Manual, None},
          text : Texts \cup {Manual, None}, ok : BOOLEAN]

Typed == TypeOK /\ op \in Ops /\ prompt \in Calls /\ IsFiniteSet(authorized)

\* Whose turns Pi has.
Seen == {transcript[k].id : k \in DOMAIN transcript}

\* What the prompt's goroutine is about to give to Pi.
Calling == IF prompt.pc = "call" THEN {prompt.id} ELSE {}

One(i, S) == IF i \in S THEN 1 ELSE 0

\* How often an item was retried by the requests of one queue.
Retried(i, A, known) == Cardinality({r \in A : r[2] = i /\ r[1] \in known})

\* What was given, what is about to be given and what may be given without a
\* retry come to one, and one for each retry that this queue remembers.
InBudget ==
    {q \in Queue : \A i \in Items :
        sent[i] + One(i, Givable(q)) + One(i, Calling) <= 1 + Retried(i, authorized, Known(q))}

\* What was queued is still there, unless it went where it should.
Complete ==
    {q \in Queue : (Known(q) \cap Items) \ (removed \cup mistaken) \subseteq Held(q) \cup Seen}

QueuesKept ==
    /\ Lined(queue) /\ queue \in InBudget /\ queue \in Complete
    /\ Lined(disk) /\ disk \in InBudget /\ disk \in Complete
    /\ accepted \subseteq Known(queue) /\ Known(queue) \subseteq Known(disk)

\* What the holder of the gate relies on from one of its steps to the next.
GateKept ==
    /\ op.step \in {"attempt", "undo"} =>
         ~promptActive /\ queue.dispatch # None /\ ~queue.dispatch.attempted
    /\ op.step = "load" => attached # "current"
    /\ op.step = "retry" \/ op.next = "retry" => op.who = "retry"
    /\ op.who = "retry" => op.retry \in Retries /\ op.retry.key \notin Known(queue)

\* A prompt about to be called is the dispatch that was attempted, and no load
\* can recover that dispatch meanwhile; one that went well is in Pi's transcript.
PromptKept ==
    /\ prompt.pc # "idle" =>
         promptActive /\ prompt.id \in Items \cup {Manual} /\ prompt.text \in Texts \cup {Manual}
    /\ prompt.pc = "call" =>
         /\ attached = "current"
         /\ prompt.id # Manual =>
              queue.dispatch # None /\ queue.dispatch.attempted /\ queue.dispatch.id = prompt.id
    /\ prompt.pc # "idle" /\ (prompt.ok \/ acknowledged) => prompt.id \in Seen

\* What Pi has of this connection is the prompt in flight, once.
AgentKept ==
    /\ agent # None => agent.id \in Seen
    /\ agent # None /\ agent.live => prompt.pc = "flight" /\ agent.id = prompt.id
    /\ \A k \in DOMAIN wire : wire[k].live =>
         prompt.pc = "flight" /\ wire[k].id = prompt.id /\ ~(agent # None /\ agent.live)
    /\ \A k, l \in DOMAIN wire : wire[k].live /\ wire[l].live => k = l

Inv == Typed /\ QueuesKept /\ GateKept /\ PromptKept /\ AgentKept

-----------------------------------------------------------------------------
(* Budgets and completeness of the queues, when one of them is replaced. *)

LEMMA RetriedGrows ==
    ASSUME NEW A, NEW B, IsFiniteSet(B), A \subseteq B, NEW K, NEW L, K \subseteq L, NEW i
    PROVE  /\ Retried(i, A, K) \in Nat /\ Retried(i, B, L) \in Nat
           /\ Retried(i, A, K) <= Retried(i, B, L)
  <1> DEFINE a == {r \in A : r[2] = i /\ r[1] \in K}
             b == {r \in B : r[2] = i /\ r[1] \in L}
  <1>1. a \subseteq b /\ b \subseteq B
    OBVIOUS
  <1>2. IsFiniteSet(b)
    BY <1>1, FS_Subset
  <1>3. IsFiniteSet(a) /\ Cardinality(a) <= Cardinality(b)
    BY <1>1, <1>2, FS_Subset
  <1>4. Cardinality(a) \in Nat /\ Cardinality(b) \in Nat
    BY <1>2, <1>3, FS_CardinalityType
  <1> QED BY <1>3, <1>4 DEF Retried

\* A retry that a queue did not know of is one more.
LEMMA RetriedOnceMore ==
    ASSUME NEW A, IsFiniteSet(A), NEW K, NEW key, key \notin K, NEW i
    PROVE  Retried(i, A \cup {<<key, i>>}, K \cup {key}) >= Retried(i, A, K) + 1
  <1> DEFINE a == {r \in A : r[2] = i /\ r[1] \in K}
             b == {r \in A \cup {<<key, i>>} : r[2] = i /\ r[1] \in K \cup {key}}
  <1>1. IsFiniteSet(a) /\ IsFiniteSet(b)
    <2>1. IsFiniteSet(A \cup {<<key, i>>})
      BY FS_AddElement
    <2> QED BY <2>1, FS_Subset
  <1>2. a \cup {<<key, i>>} \subseteq b /\ <<key, i>> \notin a
    OBVIOUS
  <1>3. Cardinality(a \cup {<<key, i>>}) = Cardinality(a) + 1
    BY <1>1, <1>2, FS_AddElement
  <1>4. Cardinality(a \cup {<<key, i>>}) <= Cardinality(b)
    BY <1>1, <1>2, FS_Subset
  <1>5. Cardinality(a) \in Nat /\ Cardinality(b) \in Nat
    BY <1>1, FS_CardinalityType
  <1> QED BY <1>3, <1>4, <1>5 DEF Retried

\* A queue that may give no more than another is in budget with it.
LEMMA BudgetHolds ==
    ASSUME Typed, UNCHANGED sent, Calling' \cap Items \subseteq Calling,
           authorized \subseteq authorized', IsFiniteSet(authorized'),
           NEW q \in InBudget, NEW n \in Queue,
           Known(q) \subseteq Known(n), Givable(n) \subseteq Givable(q)
    PROVE  n \in InBudget'
  <1> SUFFICES ASSUME NEW i \in Items
               PROVE  sent'[i] + One(i, Givable(n)) + One(i, Calling') <= 1 + Retried(i, authorized', Known(n))
    BY DEF InBudget
  <1>1. sent[i] + One(i, Givable(q)) + One(i, Calling) <= 1 + Retried(i, authorized, Known(q))
    BY DEF InBudget
  <1>2. /\ Retried(i, authorized, Known(q)) <= Retried(i, authorized', Known(n))
        /\ Retried(i, authorized, Known(q)) \in Nat /\ Retried(i, authorized', Known(n)) \in Nat
    BY RetriedGrows
  <1>3. One(i, Givable(n)) <= One(i, Givable(q)) /\ One(i, Calling') <= One(i, Calling)
    BY DEF One
  <1>4. sent[i] \in Nat /\ \A S : One(i, S) \in Nat
    BY DEF Typed, TypeOK, One
  <1> QED BY <1>1, <1>2, <1>3, <1>4

\* A queue lost nothing if what it does not hold any more is where it should be.
LEMMA CompleteHolds ==
    ASSUME Seen \subseteq Seen', removed \subseteq removed', mistaken \subseteq mistaken',
           NEW q \in Complete, NEW n \in Queue, Known(n) \cap Items \subseteq Known(q) \cup Held(n),
           Held(q) \subseteq Held(n) \cup Seen' \cup removed' \cup mistaken'
    PROVE  n \in Complete'
  BY DEF Complete

\* The queues are left alone.
LEMMA QueuesStay ==
    ASSUME Inv, UNCHANGED <<queue, disk, sent, authorized>>, Calling' \cap Items \subseteq Calling,
           Seen \subseteq Seen', removed \subseteq removed', mistaken \subseteq mistaken',
           accepted' \subseteq Known(queue)
    PROVE  QueuesKept'
  <1>1. /\ Typed /\ queue \in Queue /\ disk \in Queue /\ queue \in InBudget /\ disk \in InBudget
        /\ queue \in Complete /\ disk \in Complete /\ IsFiniteSet(authorized')
    BY DEF Inv, Typed, TypeOK, QueuesKept
  <1>2. queue \in InBudget' /\ disk \in InBudget'
    BY <1>1, BudgetHolds
  <1>3. queue \in Complete' /\ disk \in Complete'
    BY <1>1, CompleteHolds
  <1> QED BY <1>2, <1>3 DEF Inv, QueuesKept

\* A queue is saved, or its write fails.
LEMMA QueuesSaved ==
    ASSUME Inv, NEW n, NEW outcome \in Outcomes, Save(n, outcome),
           UNCHANGED <<sent>>, Calling' \subseteq Calling,
           authorized \subseteq authorized', IsFiniteSet(authorized'),
           Seen \subseteq Seen', removed \subseteq removed', mistaken \subseteq mistaken',
           Lined(n), Known(queue) \subseteq Known(n),
           outcome # "lost" => n \in InBudget' /\ n \in Complete',
           accepted' \subseteq accepted \cup (IF outcome = "ok" THEN Known(n) ELSE {})
    PROVE  QueuesKept' /\ faults' \in 0..MaxFaults
  <1>1. /\ Typed /\ queue \in Queue /\ disk \in Queue /\ queue \in InBudget /\ disk \in InBudget
        /\ queue \in Complete /\ disk \in Complete /\ QueuesKept
    BY DEF Inv, Typed, TypeOK, QueuesKept
  <1>2. queue \in InBudget' /\ disk \in InBudget'
    BY <1>1, BudgetHolds
  <1>3. queue \in Complete' /\ disk \in Complete'
    BY <1>1, CompleteHolds
  <1>4. faults' \in 0..MaxFaults
    BY <1>1, ConstantsAssumption DEF Save, Spend, Typed, TypeOK
  <1>5. /\ queue' = IF outcome = "ok" THEN n ELSE queue
        /\ disk' = IF outcome = "lost" THEN disk ELSE n
    BY DEF Save
  <1>6. Lined(queue') /\ Lined(disk') /\ Known(queue') \subseteq Known(disk') /\ accepted' \subseteq Known(queue')
    BY <1>1, <1>5 DEF QueuesKept, Outcomes
  <1>7. queue' \in InBudget' /\ disk' \in InBudget' /\ queue' \in Complete' /\ disk' \in Complete'
    BY <1>2, <1>3, <1>5 DEF Outcomes
  <1> QED BY <1>4, <1>6, <1>7 DEF QueuesKept

\* A queue that only moved is saved.
LEMMA MoveSaved ==
    ASSUME Inv, NEW n, NEW outcome \in Outcomes, Save(n, outcome), Moved(queue, n),
           Calling' \subseteq Calling,
           UNCHANGED <<transcript, sent, accepted, removed, authorized, mistaken>>
    PROVE  QueuesKept' /\ faults' \in 0..MaxFaults
  <1>1. /\ Typed /\ queue \in InBudget /\ queue \in Complete /\ IsFiniteSet(authorized')
        /\ n \in Queue /\ Seen' = Seen
    BY DEF Inv, Typed, QueuesKept, Moved, Lined, Seen
  <1>2. n \in InBudget'
    BY <1>1, BudgetHolds DEF Moved
  <1>3. n \in Complete'
    BY <1>1, CompleteHolds DEF Moved
  <1> QED BY <1>1, <1>2, <1>3, QueuesSaved DEF Moved

-----------------------------------------------------------------------------
(* The other parts of the invariant, when they are not at stake. *)

LEMMA DrainTypes ==
    ASSUME Typed, NEW q, NEW busy, NEW at, NEW t \in {"none", "armed", "fired"}, Schedule(q, busy, at, t)
    PROVE  drain' \in {"idle", "waiting", "working"} /\ timer' \in {"none", "armed", "fired"}
  BY DEF Typed, TypeOK, Schedule

LEMMA TimerTypes ==
    ASSUME Typed, NEW n, NEW outcome
    PROVE  TimerAfter(n, outcome) \in {"none", "armed", "fired"} /\ timer \in {"none", "armed", "fired"}
  BY DEF Typed, TypeOK, TimerAfter

\* The holder of the gate ends, fails, or goes on after an attachment.
LEMMA GateGoesOn ==
    ASSUME Inv, op' \in {NoOp, Failure, Success}, Known(queue') = Known(queue)
    PROVE  op' \in Ops /\ GateKept'
  <1>1. op \in Ops /\ GateKept
    BY DEF Inv, Typed
  <1>2. NoOp \in Ops
    BY DEF Ops, NoOp
  <1>3. [op EXCEPT !.step = "error"] \in Ops /\ [op EXCEPT !.step = op.next] \in Ops
    BY <1>1 DEF Ops
  <1>4. Failure \in Ops /\ Success \in Ops
    BY <1>2, <1>3 DEF Failure, Success
  <1>5. CASE op' = NoOp
    BY <1>2, <1>5 DEF GateKept, NoOp
  <1>6. CASE op.who = "drain" /\ op' = [op EXCEPT !.step = "error"]
    BY <1>1, <1>3, <1>6 DEF GateKept, Ops
  <1>7. CASE op' = [op EXCEPT !.step = op.next]
    BY <1>1, <1>3, <1>7 DEF GateKept, Ops
  <1> QED BY <1>2, <1>4, <1>5, <1>6, <1>7 DEF Failure, Success

\* The holder of the gate moves on to another step of its own.
LEMMA GateMoves ==
    ASSUME Inv, NEW step \in {"none", "attach", "restore", "take", "submit", "done", "error"},
           NEW next \in {"none", "restore", "take", "submit"}, Known(queue') = Known(queue),
           op' = [op EXCEPT !.step = step, !.next = next]
    PROVE  op' \in Ops /\ GateKept'
  <1>1. op \in Ops
    BY DEF Inv, Typed
  <1>2. /\ op' \in Ops /\ op'.step = step /\ op'.next = next
        /\ op'.who = op.who /\ op'.retry = op.retry
    BY <1>1 DEF Ops
  <1> QED BY <1>2 DEF GateKept, Inv

LEMMA GateStays ==
    ASSUME Inv, UNCHANGED <<op, promptActive>>, op.step = "load" => attached' # "current",
           queue' = queue \/ op = NoOp
    PROVE  GateKept'
  BY DEF Inv, GateKept, NoOp

LEMMA PromptStays ==
    ASSUME Inv, UNCHANGED <<prompt, promptActive, acknowledged, transcript>>,
           prompt.pc = "call" => attached' = attached /\ queue'.dispatch = queue.dispatch
    PROVE  PromptKept' /\ Calling' = Calling
  <1>1. Seen' = Seen
    BY DEF Seen
  <1> QED BY <1>1 DEF Inv, PromptKept, Calling

LEMMA AgentStays ==
    ASSUME Inv, UNCHANGED <<prompt, pi>>
    PROVE  AgentKept' /\ Seen' = Seen
  <1>1. UNCHANGED <<wire, agent, transcript>>
    BY DEF pi
  <1>2. Seen' = Seen
    BY <1>1 DEF Seen
  <1> QED BY <1>1, <1>2 DEF Inv, AgentKept

\* A step that leaves the queues, the prompt and Pi alone.
LEMMA QuietStep ==
    ASSUME Inv, Typed', GateKept', UNCHANGED <<queue, disk, promptActive, acknowledged, prompt, pi>>,
           UNCHANGED <<sent, removed, authorized, mistaken>>, accepted' \subseteq Known(queue),
           prompt.pc = "call" => attached' = attached
    PROVE  Inv'
  <1>1. UNCHANGED transcript
    BY DEF pi
  <1>2. PromptKept' /\ Calling' = Calling
    BY <1>1, PromptStays
  <1>3. AgentKept' /\ Seen' = Seen
    BY AgentStays
  <1>4. QueuesKept'
    BY <1>2, <1>3, QueuesStay
  <1> QED BY <1>2, <1>3, <1>4 DEF Inv

-----------------------------------------------------------------------------
(* Steps that only move the gate, the drain and the timer. *)

LEMMA QuietSteps ==
    ASSUME Inv,
           \/ \E i \in Items : EnqueueAgain(i)
           \/ Open \/ AlreadyAttached \/ BeginLoad \/ AttachFails \/ LoadFails
           \/ \E key \in RetryKeys : RetryStart(key)
           \/ PromptStart \/ DrainTakesOp \/ DrainEnds \/ DrainTimesOut
           \/ RetryFollowUp \/ TimerFires \/ Connect \/ Restart
    PROVE  Inv'
  <1> USE DEF Inv
  <1>0. /\ Typed /\ TypeOK /\ GateKept /\ QueuesKept /\ accepted \subseteq Known(queue) /\ op \in Ops
        /\ faults > 0 => faults - 1 \in 0..MaxFaults
    BY ConstantsAssumption DEF Typed, TypeOK, QueuesKept
  <1>1. ASSUME NEW i \in Items, EnqueueAgain(i) PROVE Inv'
    <2>1. accepted' \subseteq Known(queue)
      BY <1>0, <1>1 DEF EnqueueAgain, InSeq, Known
    <2>2. Typed'
      BY <1>0, <1>1 DEF Typed, TypeOK, EnqueueAgain, pixie, pi
    <2> QED BY <1>0, <1>1, <2>1, <2>2, QuietStep, GateStays DEF EnqueueAgain, pixie, history, GateKept
  <1>2. CASE Open
    <2>1. op' \in Ops /\ GateKept'
      BY <1>2 DEF Open, Ops, GateKept
    <2>2. Typed'
      BY <1>0, <1>2, <2>1 DEF Typed, TypeOK, Open, OnlyOp, pi, history
    <2> QED BY <1>0, <1>2, <2>1, <2>2, QuietStep DEF Open, OnlyOp, history
  <1>3. CASE AlreadyAttached
    <2>1. op' \in Ops /\ GateKept'
      BY <1>3, GateGoesOn DEF AlreadyAttached, OnlyOp
    <2>2. drain' \in {"idle", "waiting", "working"} /\ timer' \in {"none", "armed", "fired"}
      BY <1>0, <1>3, DrainTypes, TimerTypes DEF AlreadyAttached
    <2>3. Typed'
      BY <1>0, <1>3, <2>1, <2>2 DEF Typed, TypeOK, Ops, AlreadyAttached, OnlyOp, pi, history
    <2> QED BY <1>0, <1>3, <2>1, <2>3, QuietStep DEF AlreadyAttached, OnlyOp, history
  <1>4. CASE BeginLoad
    <2>1. op' \in Ops /\ op'.step = "load" /\ op'.who = op.who /\ op'.next = op.next /\ op'.retry = op.retry
      BY <1>0, <1>4 DEF BeginLoad, Ops
    <2>2. GateKept'
      BY <1>0, <1>4, <2>1 DEF BeginLoad, OnlyOp, GateKept
    <2>3. Typed'
      BY <1>0, <1>4, <2>1 DEF Typed, TypeOK, Ops, BeginLoad, OnlyOp, pi, history
    <2> QED BY <1>0, <1>4, <2>2, <2>3, QuietStep DEF BeginLoad, OnlyOp, history
  <1>5. CASE AttachFails
    <2>1. op' \in Ops /\ GateKept'
      BY <1>5, GateGoesOn DEF AttachFails, OnlyOp
    <2>3. Typed'
      BY <1>0, <1>5, <2>1 DEF Typed, TypeOK, Ops, AttachFails, OnlyOp, pi, history
    <2> QED BY <1>0, <1>5, <2>1, <2>3, QuietStep DEF AttachFails, OnlyOp, history
  <1>6. CASE LoadFails
    <2>1. op' \in Ops /\ GateKept'
      BY <1>6, GateGoesOn DEF LoadFails
    <2>3. Typed'
      BY <1>0, <1>6, <2>1 DEF Typed, TypeOK, Ops, LoadFails, pi, history
    <2> QED BY <1>0, <1>6, <2>1, <2>3, QuietStep DEF LoadFails, history
  <1>7. ASSUME NEW key \in RetryKeys, RetryStart(key) PROVE Inv'
    <2>1. \E id \in Items : op' = [who |-> "retry", step |-> "attach", next |-> "retry",
                                   retry |-> [key |-> key, id |-> id, changed |-> FALSE]]
      <3>1. queue.dispatch \in Dispatch \cup {None} /\ queue.blocked \in Item \cup {None}
        BY <1>0 DEF TypeOK, Queue
      <3> QED BY <1>7, <3>1 DEF RetryStart, Dispatch, Item
    <2>2. op' \in Ops /\ GateKept'
      <3>1. key \notin Known(queue) /\ queue' = queue
        BY <1>7 DEF RetryStart, InSeq, Known
      <3> QED BY <2>1, <3>1 DEF Ops, Retries, GateKept
    <2>3. prompt.pc = "call" => attached' = attached
      BY <1>0, <1>7 DEF RetryStart, PromptKept
    <2>4. Typed'
      BY <1>0, <1>7, <2>1, <2>2 DEF Typed, TypeOK, RetryStart, pi, history
    <2> QED BY <1>0, <1>7, <2>2, <2>3, <2>4, QuietStep DEF RetryStart, history
  <1>8. CASE PromptStart
    <2>1. op' \in Ops /\ GateKept'
      BY <1>8 DEF PromptStart, Ops, GateKept
    <2>2. Typed'
      BY <1>0, <1>8, <2>1 DEF Typed, TypeOK, PromptStart, OnlyOp, pi, history
    <2> QED BY <1>0, <1>8, <2>1, <2>2, QuietStep DEF PromptStart, OnlyOp, history
  <1>9. CASE DrainTakesOp
    <2>1. op' \in Ops /\ GateKept'
      BY <1>9 DEF DrainTakesOp, Ops, GateKept
    <2>2. Typed'
      BY <1>0, <1>9, <2>1 DEF Typed, TypeOK, Ops, DrainTakesOp, OnlyOp, pi, history
    <2> QED BY <1>0, <1>9, <2>1, <2>2, QuietStep DEF DrainTakesOp, OnlyOp, history
  <1>10. CASE DrainEnds
    <2>1. op' \in Ops /\ GateKept'
      BY <1>10, GateGoesOn DEF DrainEnds
    <2>2. Typed'
      BY <1>0, <1>10, <2>1 DEF Typed, TypeOK, Ops, DrainEnds, pi, history
    <2> QED BY <1>0, <1>10, <2>1, <2>2, QuietStep DEF DrainEnds, history
  <1>11. CASE DrainTimesOut
    <2>1. Typed'
      BY <1>0, <1>11 DEF Typed, TypeOK, DrainTimesOut, pi, history
    <2> QED BY <1>0, <1>11, <2>1, QuietStep, GateStays DEF DrainTimesOut, GateKept, history
  <1>12. CASE RetryFollowUp
    <2>0. timer' \in {"none", "armed", "fired"}
      BY <1>0, <1>12 DEF TypeOK, RetryFollowUp
    <2>1. /\ UNCHANGED <<up, queue, streaming, promptActive, acknowledged, users, attached, drain, op,
                         prompt, online, disk, pi, faults, history>>
          /\ retrying' \in BOOLEAN
      BY <1>12 DEF RetryFollowUp
    <2>2. Typed'
      BY <1>0, <2>0, <2>1 DEF Typed, TypeOK, pi, history
    <2> QED BY <1>0, <1>12, <2>2, QuietStep, GateStays DEF RetryFollowUp, GateKept, history
  <1>13. CASE TimerFires
    <2>1. drain' \in {"idle", "waiting", "working"} /\ timer' \in {"none", "armed", "fired"}
      BY <1>0, <1>13, DrainTypes DEF TimerFires
    <2>2. Typed'
      BY <1>0, <1>13, <2>1 DEF Typed, TypeOK, TimerFires, OnlyOp, pi, history
    <2> QED BY <1>0, <1>13, <2>2, QuietStep, GateStays DEF TimerFires, OnlyOp, GateKept, history
  <1>14. CASE Connect
    <2>1. Typed'
      BY <1>0, <1>14 DEF Typed, TypeOK, Connect, pixie, pi, history
    <2> QED BY <1>0, <1>14, <2>1, QuietStep, GateStays DEF Connect, GateKept, pixie, history
  <1>15. CASE Restart
    <2>0. drain' \in {"idle", "waiting", "working"}
      BY <1>15 DEF Restart
    <2>1. Typed'
      BY <1>0, <1>15, <2>0 DEF Typed, TypeOK, Restart, pi, history
    <2> QED BY <1>0, <1>15, <2>1, QuietStep, GateStays DEF Restart, GateKept, history
  <1> QED BY <1>1, <1>2, <1>3, <1>4, <1>5, <1>6, <1>7, <1>8, <1>9, <1>10, <1>11, <1>12, <1>13, <1>14, <1>15

-----------------------------------------------------------------------------
(* Steps that save the queue. *)

LEMMA RememberAppends ==
    ASSUME NeverForgotten, NEW q, Lined(q), NEW key \in Items \cup RetryKeys, key \notin Known(q)
    PROVE  Remember(q, key) = Append(q.handled, key)
  <1>1. q.handled \in Seq(Items \cup RetryKeys) /\ Distinct(q.handled)
    BY QueueFields DEF Lined
  <1>2. Append(q.handled, key) \in Seq(Items \cup RetryKeys) /\ Distinct(Append(q.handled, key))
    BY <1>1, AppendKnows DEF Known
  <1>3. Len(Append(q.handled, key)) <= MaxHandled /\ Len(Append(q.handled, key)) \in Nat
    BY <1>2, HandledIsShort
  <1>4. SubSeq(Append(q.handled, key), 1, Len(Append(q.handled, key))) = Append(q.handled, key)
    BY <1>2, SubSeqFull
  <1>5. ~(Len(Append(q.handled, key)) > MaxHandled)
    BY <1>3, ConstantsAssumption
  <1> QED BY <1>4, <1>5 DEF Remember, Last

LEMMA SavedStep ==
    ASSUME Inv, QueuesKept', op' \in Ops, GateKept', faults' \in 0..MaxFaults,
           drain' \in {"idle", "waiting", "working"}, timer' \in {"none", "armed", "fired"},
           UNCHANGED <<up, promptActive, acknowledged, retrying, prompt, online, pi, sent>>,
           users' \in Nat, streaming' \in BOOLEAN, attached' \in {"none", "stale", "current"},
           prompt.pc = "call" => attached' = attached /\ queue'.dispatch = queue.dispatch,
           accepted' \subseteq Items, removed' \subseteq Items, mistaken' \subseteq Items,
           authorized' \subseteq RetryKeys \X Items, IsFiniteSet(authorized')
    PROVE  Inv'
  <1>1. UNCHANGED <<wire, agent, transcript>>
    BY DEF pi
  <1>2. PromptKept' /\ AgentKept'
    BY <1>1, PromptStays, AgentStays
  <1>3. queue' \in Queue /\ disk' \in Queue
    BY DEF QueuesKept, Lined
  <1>4. Typed'
    BY <1>1, <1>3 DEF Inv, Typed, TypeOK, Ops, Calls
  <1> QED BY <1>2, <1>4 DEF Inv

\* What every queue-saving step may use.
LEMMA InvFacts ==
    ASSUME Inv
    PROVE  /\ Typed /\ TypeOK /\ GateKept /\ PromptKept /\ QueuesKept /\ op \in Ops
           /\ Lined(queue) /\ queue \in Queue /\ (queue.dispatch = None \/ queue.blocked = None)
           /\ queue \in InBudget /\ queue \in Complete
           /\ queue.dispatch \in Dispatch \cup {None} /\ queue.blocked \in Item \cup {None}
           /\ accepted \subseteq Known(queue) /\ IsFiniteSet(authorized)
           /\ Known(queue) \subseteq Items \cup RetryKeys
  <1>1. queue \in Queue /\ Lined(queue) /\ Typed
    BY DEF Inv, QueuesKept, Lined
  <1> QED BY <1>1, QueueFields DEF Inv, Typed, QueuesKept, Lined

LEMMA EnqueueSteps ==
    ASSUME NeverForgotten, Inv, NEW i \in Items, Enqueue(i)
    PROVE  Inv'
  <1> USE InvFacts
  <1> DEFINE x == [id |-> i, text |-> TextOf[i]]
             n == [queue EXCEPT !.handled = Append(@, i), !.followUp = Append(@, x)]
  <1>1. x \in Item /\ x.id = i
    BY ConstantsAssumption DEF Item
  <1>2. op = NoOp /\ i \notin Known(queue) /\ Size(queue) < MaxQueued
    BY CountIsSize DEF Enqueue, Free, InSeq, Known
  <1>3. Remember(queue, i) = Append(queue.handled, i)
    BY <1>2, RememberAppends
  <1>4. PICK outcome \in Outcomes :
          /\ Save(n, outcome)
          /\ IF outcome = "ok"
             THEN accepted' = accepted \cup {i} /\ Schedule(n, Busy, attached, TimerAfter(n, outcome))
             ELSE UNCHANGED <<accepted, drain, timer>>
    BY <1>3 DEF Enqueue
  <1>5. /\ Lined(n) /\ Known(n) = Known(queue) \cup {i} /\ Held(n) = Held(queue) \cup {i}
        /\ Givable(n) \subseteq Givable(queue) /\ n.dispatch = queue.dispatch /\ n \in Queue
    <2>0. Lined(queue)
      OBVIOUS
    <2> HIDE DEF x
    <2>1. /\ n \in Queue /\ n.handled = Append(queue.handled, x.id) /\ n.followUp = Append(queue.followUp, x)
          /\ n.dispatch = queue.dispatch /\ n.blocked = queue.blocked
      <3>1. queue \in Queue /\ queue.followUp \in Seq(Item) /\ queue.handled \in Seq(Items \cup RetryKeys)
        BY QueueFields
      <3>2. Append(queue.followUp, x) \in Seq(Item) /\ Append(queue.handled, i) \in Seq(Items \cup RetryKeys)
        BY <1>1, <3>1, AppendProperties
      <3> QED BY <1>1, <3>1, <3>2 DEF Queue
    <2> HIDE DEF n
    <2>2. /\ Lined(n) /\ Known(n) = Known(queue) \cup {i} /\ Held(n) = Held(queue) \cup {i}
          /\ Givable(n) \subseteq Givable(queue) /\ n.dispatch = queue.dispatch
      <3>1. x \in Item /\ x.id \notin Known(queue) /\ Size(queue) < MaxQueued
        BY <1>1, <1>2
      <3>2. /\ Lined(n) /\ Known(n) = Known(queue) \cup {x.id} /\ Held(n) = Held(queue) \cup {x.id}
            /\ Givable(n) \subseteq Givable(queue) /\ n.dispatch = queue.dispatch
        BY <2>0, <2>1, <3>1, MessageJoins, Zenon
      <3> QED BY <1>1, <3>2
    <2> QED BY <2>2 DEF Lined
  <1> HIDE DEF n
  <1>6. UNCHANGED <<up, streaming, promptActive, acknowledged, users, attached, retrying, op, prompt,
                    online, pi, transcript, sent, removed, authorized, mistaken>>
    BY DEF Enqueue, pi
  <1>7. Calling' = Calling /\ Seen' = Seen
    BY <1>6 DEF Calling, Seen
  <1>8. n \in InBudget' /\ n \in Complete'
    BY <1>5, <1>6, <1>7, BudgetHolds, CompleteHolds
  <1>9. accepted' \subseteq accepted \cup (IF outcome = "ok" THEN Known(n) ELSE {}) /\ accepted' \subseteq Items
    BY <1>4, <1>5 DEF TypeOK
  <1>10. QueuesKept' /\ faults' \in 0..MaxFaults
    BY <1>4, <1>5, <1>6, <1>7, <1>8, <1>9, QueuesSaved
  <1>11. GateKept'
    BY <1>2, <1>6, GateStays DEF NoOp
  <1>12. drain' \in {"idle", "waiting", "working"} /\ timer' \in {"none", "armed", "fired"}
    BY <1>4, DrainTypes, TimerTypes DEF TypeOK
  <1>13. queue'.dispatch = queue.dispatch
    BY <1>4, <1>5 DEF Save
  <1> QED BY <1>6, <1>9, <1>10, <1>11, <1>12, <1>13, SavedStep DEF TypeOK

LEMMA EditSteps ==
    ASSUME Inv, EditQueue
    PROVE  Inv'
  <1> USE InvFacts
  <1>1. PICK text \in Edits, place \in Places, outcome \in Outcomes :
          Save(EditedAt(place, text), outcome) /\ timer' = TimerAfter(EditedAt(place, text), outcome)
    BY DEF EditQueue
  <1> DEFINE n == EditedAt(place, text)
  <1>2. op = NoOp /\ text \in Texts
    BY ConstantsAssumption DEF EditQueue, Free
  <1>3. Moved(queue, n) /\ (promptActive => n.dispatch = queue.dispatch)
    <2>1. CASE place # 0
      <3>1. place \in DOMAIN queue.followUp
        BY <2>1 DEF Places
      <3>2. queue.followUp[place] \in Item
        BY <3>1, QueueFields
      <3> DEFINE x == [queue.followUp[place] EXCEPT !.text = text]
      <3>3. x \in Item
        BY <1>2, <3>2 DEF Item
      <3>4. x.id = queue.followUp[place].id
        BY <3>2 DEF Item
      <3>5. n = [queue EXCEPT !.followUp = [@ EXCEPT ![place] = x]]
        BY <2>1 DEF EditedAt, Queue
      <3> HIDE DEF n, x
      <3> QED BY <3>1, <3>3, <3>4, <3>5, WaitingEdited
    <2>2. CASE place = 0 /\ Stuck
      <3>1. queue.dispatch \in Dispatch /\ queue.dispatch # None /\ ~promptActive /\ queue.blocked = None
        BY <2>2 DEF Stuck
      <3>2. [queue.dispatch EXCEPT !.text = text] \in Dispatch
        BY <1>2, <3>1 DEF Dispatch
      <3>3. n = [queue EXCEPT !.dispatch = [queue.dispatch EXCEPT !.text = text]]
        BY <2>2 DEF EditedAt, Queue
      <3>4. /\ n \in Queue /\ n.followUp = queue.followUp /\ n.handled = queue.handled /\ n.blocked = None
            /\ n.dispatch = [queue.dispatch EXCEPT !.text = text]
        BY <3>1, <3>2, <3>3 DEF Queue
      <3>5. n.dispatch # None /\ n.dispatch.id = queue.dispatch.id /\ n.dispatch.attempted = queue.dispatch.attempted
        BY <3>1, <3>2, <3>4, ConstantsAssumption DEF Dispatch
      <3> HIDE DEF n
      <3>6. Front(n) = Front(queue) /\ FrontId(n) = FrontId(queue)
        BY <3>1, <3>5 DEF Front, FrontId
      <3> QED BY <3>1, <3>4, <3>5, <3>6, FrontMoves
    <2>3. CASE place = 0 /\ ~Stuck
      <3>1. First # None /\ First = queue.blocked
        BY <2>3, QueueFields DEF Places, First
      <3>2. queue.blocked \in Item /\ queue.blocked # None /\ queue.dispatch = None
        BY <3>1
      <3>3. [queue.blocked EXCEPT !.text = text] \in Item
        BY <1>2, <3>2 DEF Item
      <3>4. n = [queue EXCEPT !.blocked = [queue.blocked EXCEPT !.text = text]]
        BY <2>3 DEF EditedAt, Queue
      <3>5. /\ n \in Queue /\ n.followUp = queue.followUp /\ n.handled = queue.handled /\ n.dispatch = None
            /\ n.blocked = [queue.blocked EXCEPT !.text = text]
        BY <3>2, <3>3, <3>4 DEF Queue
      <3>6. n.blocked # None /\ n.blocked.id = queue.blocked.id
        BY <3>2, <3>3, <3>5, ConstantsAssumption DEF Item
      <3> HIDE DEF n
      <3>7. Front(n) = Front(queue) /\ FrontId(n) = FrontId(queue)
        BY <3>2, <3>5, <3>6 DEF Front, FrontId
      <3> QED BY <3>2, <3>5, <3>7, FrontMoves
    <2> QED BY <2>1, <2>2, <2>3
  <1> HIDE DEF n
  <1>4. UNCHANGED <<up, streaming, promptActive, acknowledged, users, attached, drain, retrying, op, prompt,
                    online, pi, transcript, sent, accepted, removed, authorized, mistaken>>
    BY DEF EditQueue, pi
  <1>5. Save(n, outcome) /\ timer' = TimerAfter(n, outcome)
    BY <1>1 DEF n
  <1>6. Calling' = Calling
    BY <1>4 DEF Calling
  <1>7. QueuesKept' /\ faults' \in 0..MaxFaults
    BY <1>3, <1>4, <1>5, <1>6, MoveSaved
  <1>8. GateKept'
    BY <1>2, <1>4, GateStays DEF NoOp
  <1>9. prompt.pc = "call" => queue'.dispatch = queue.dispatch
    BY <1>3, <1>5 DEF Save, PromptKept
  <1>10. timer' \in {"none", "armed", "fired"}
    BY <1>5, TimerTypes
  <1> QED BY <1>4, <1>7, <1>8, <1>9, <1>10, SavedStep DEF TypeOK

LEMMA RemoveSteps ==
    ASSUME Inv, RemoveQueue
    PROVE  Inv'
  <1> USE InvFacts
  <1>1. PICK place \in Places, outcome \in Outcomes :
          /\ Save(RemovedAt(place), outcome)
          /\ IF outcome = "ok" /\ place = 0
             THEN Schedule(RemovedAt(place), Busy, attached, TimerAfter(RemovedAt(place), outcome))
             ELSE timer' = TimerAfter(RemovedAt(place), outcome) /\ UNCHANGED drain
          /\ removed' = IF outcome = "lost" THEN removed ELSE removed \cup {Named(place)}
    BY DEF RemoveQueue
  <1> DEFINE n == RemovedAt(place)
  <1>2. op = NoOp
    BY DEF RemoveQueue, Free
  <1>3. /\ Lined(n) /\ Known(n) = Known(queue) /\ Held(queue) \subseteq Held(n) \cup {Named(place)}
        /\ Givable(n) \subseteq Givable(queue) /\ (promptActive => n.dispatch = queue.dispatch)
        /\ Named(place) \in Items
    <2>1. CASE place # 0
      <3>1. place \in DOMAIN queue.followUp
        BY <2>1 DEF Places
      <3>2. queue.followUp[place] \in Item
        BY <3>1, QueueFields
      <3>3. n = [queue EXCEPT !.followUp = Without(@, place)] /\ Named(place) = queue.followUp[place].id
        BY <2>1 DEF RemovedAt, Named
      <3> HIDE DEF n
      <3> QED BY <3>1, <3>2, <3>3, WaitingLeaves DEF Item
    <2>2. CASE place = 0 /\ Stuck
      <3>1. queue.dispatch \in Dispatch /\ queue.dispatch # None /\ ~promptActive /\ queue.blocked = None
        BY <2>2 DEF Stuck
      <3>2. n = [queue EXCEPT !.dispatch = None]
        BY <2>2 DEF RemovedAt
      <3>3. /\ n \in Queue /\ n.followUp = queue.followUp /\ n.handled = queue.handled /\ n.blocked = None
            /\ n.dispatch = None
        BY <3>1, <3>2 DEF Queue
      <3>4. Front(queue) = 1 /\ FrontId(queue) = queue.dispatch.id /\ Named(place) = queue.dispatch.id
        BY <2>2, <3>1 DEF Front, FrontId, Named, First
      <3> HIDE DEF n
      <3> QED BY <3>1, <3>3, <3>4, FrontLeaves DEF Dispatch
    <2>3. CASE place = 0 /\ ~Stuck
      <3>1. First # None /\ First = queue.blocked
        BY <2>3, QueueFields DEF Places, First
      <3>2. queue.blocked \in Item /\ queue.blocked # None /\ queue.dispatch = None
        BY <3>1
      <3>3. n = [queue EXCEPT !.blocked = None]
        BY <2>3 DEF RemovedAt
      <3>4. /\ n \in Queue /\ n.followUp = queue.followUp /\ n.handled = queue.handled /\ n.dispatch = None
            /\ n.blocked = None
        BY <3>2, <3>3 DEF Queue
      <3>5. Front(queue) = 1 /\ FrontId(queue) = queue.blocked.id /\ Named(place) = queue.blocked.id
        BY <2>3, <3>1, <3>2 DEF Front, FrontId, Named
      <3> HIDE DEF n
      <3> QED BY <3>2, <3>4, <3>5, FrontLeaves DEF Item
    <2> QED BY <2>1, <2>2, <2>3
  <1> HIDE DEF n
  <1>4. UNCHANGED <<up, streaming, promptActive, acknowledged, users, attached, retrying, op, prompt,
                    online, pi, transcript, sent, accepted, authorized, mistaken>>
    BY DEF RemoveQueue, pi
  <1>5. /\ Save(n, outcome)
        /\ IF outcome = "ok" /\ place = 0 THEN Schedule(n, Busy, attached, TimerAfter(n, outcome))
           ELSE timer' = TimerAfter(n, outcome) /\ UNCHANGED drain
    BY <1>1 DEF n
  <1>6. Calling' = Calling /\ Seen' = Seen /\ n \in Queue
    BY <1>3, <1>4 DEF Calling, Seen, Lined
  <1>7. n \in InBudget'
    BY <1>3, <1>4, <1>6, BudgetHolds
  <1>8. outcome # "lost" => n \in Complete'
    BY <1>1, <1>3, <1>4, <1>6, CompleteHolds
  <1>9. removed \subseteq removed' /\ removed' \subseteq Items
    BY <1>1, <1>3 DEF TypeOK
  <1>10. QueuesKept' /\ faults' \in 0..MaxFaults
    BY <1>3, <1>4, <1>5, <1>6, <1>7, <1>8, <1>9, QueuesSaved
  <1>11. GateKept'
    BY <1>2, <1>4, GateStays DEF NoOp
  <1>12. prompt.pc = "call" => queue'.dispatch = queue.dispatch
    BY <1>3, <1>5 DEF Save, PromptKept
  <1>13. drain' \in {"idle", "waiting", "working"} /\ timer' \in {"none", "armed", "fired"}
    BY <1>5, DrainTypes, TimerTypes DEF TypeOK
  <1> QED BY <1>4, <1>9, <1>10, <1>11, <1>12, <1>13, SavedStep DEF TypeOK

\* A dispatch that was not attempted goes back to the head.
LEMMA UndoMoves ==
    ASSUME NEW q, Lined(q), q.dispatch # None, ~q.dispatch.attempted,
           NEW n, n = PutBack(q, Plain(q.dispatch))
    PROVE  Moved(q, n) /\ n.dispatch = None
  <1>1. q.dispatch \in Dispatch
    BY QueueFields DEF Lined
  <1>2. Plain(q.dispatch) \in Item /\ Plain(q.dispatch).id = q.dispatch.id
    BY <1>1 DEF Plain, Item, Dispatch
  <1>3. Front(q) = 1 /\ FrontId(q) = q.dispatch.id
    BY DEF Front, FrontId
  <1>4. q.dispatch.id \in Givable(q)
    BY DEF Givable
  <1> DEFINE item == Plain(q.dispatch)
  <1>5. item \in Item /\ item.id = FrontId(q) /\ n = PutBack(q, item)
    BY <1>2, <1>3
  <1> HIDE DEF item
  <1>6. /\ Lined(n) /\ Known(n) = Known(q) /\ Held(n) = Held(q) /\ n.dispatch = None
        /\ Givable(n) \subseteq Givable(q) \cup {item.id}
    BY <1>3, <1>5, PutBackMoves
  <1> QED BY <1>3, <1>4, <1>5, <1>6 DEF Moved

LEMMA RestoreSteps ==
    ASSUME Inv, DrainRestores
    PROVE  Inv'
  <1> USE InvFacts
  <1> DEFINE n == PutBack(queue, Plain(queue.dispatch))
             goes(q) == op' = [op EXCEPT !.step = IF Ready(q) THEN "attach" ELSE "done", !.next = "take"]
  <1>1. UNCHANGED <<up, streaming, promptActive, acknowledged, users, attached, drain, retrying, prompt,
                    online, pi, transcript, sent, accepted, removed, authorized, mistaken>>
    BY DEF DrainRestores, pi
  <1>2. Calling' = Calling /\ Seen' = Seen
    BY <1>1 DEF Calling, Seen
  <1>3. CASE queue.dispatch # None /\ ~queue.dispatch.attempted
    <2>1. PICK outcome \in Outcomes :
            /\ Save(n, outcome) /\ timer' = TimerAfter(n, outcome)
            /\ IF outcome = "ok" THEN goes(n) ELSE op' = Failure
      BY <1>3 DEF DrainRestores
    <2>2. Moved(queue, n)
      BY <1>3, UndoMoves
    <2> HIDE DEF n
    <2>3. QueuesKept' /\ faults' \in 0..MaxFaults
      BY <1>1, <1>2, <2>1, <2>2, MoveSaved
    <2>4. Known(queue') = Known(queue)
      BY <2>1, <2>2 DEF Save, Moved
    <2>5. op' \in Ops /\ GateKept'
      BY <2>1, <2>4, GateMoves, GateGoesOn
    <2>6. prompt.pc # "call" \/ prompt.id = Manual
      BY <1>3 DEF PromptKept
    <2>7. timer' \in {"none", "armed", "fired"}
      BY <2>1, TimerTypes
    <2>8. PromptKept'
      BY <1>1, <1>2, <2>6 DEF PromptKept
    <2>9. AgentKept'
      BY <1>1, AgentStays
    <2>10. queue' \in Queue /\ disk' \in Queue
      BY <2>3 DEF QueuesKept, Lined
    <2>11. Typed'
      BY <1>1, <2>3, <2>5, <2>7, <2>10 DEF Typed, TypeOK, Ops, pi
    <2> QED BY <2>3, <2>5, <2>8, <2>9, <2>11 DEF Inv
  <1>4. CASE ~(queue.dispatch # None /\ ~queue.dispatch.attempted)
    <2>1. goes(queue) /\ UNCHANGED <<queue, disk, faults, timer>>
      BY <1>4 DEF DrainRestores
    <2>2. op' \in Ops /\ GateKept'
      BY <2>1, GateMoves
    <2>3. Typed'
      BY <1>1, <2>1, <2>2 DEF Typed, TypeOK, Ops, pi
    <2> QED BY <1>1, <2>1, <2>2, <2>3, QuietStep
  <1> QED BY <1>3, <1>4

LEMMA UndoSteps ==
    ASSUME Inv, DrainUndoes
    PROVE  Inv'
  <1> USE InvFacts
  <1> DEFINE n == PutBack(queue, Plain(queue.dispatch))
  <1>1. UNCHANGED <<up, streaming, promptActive, acknowledged, users, attached, drain, retrying, prompt,
                    online, pi, transcript, sent, accepted, removed, authorized, mistaken>>
    BY DEF DrainUndoes, pi
  <1>2. Calling' = Calling
    BY <1>1 DEF Calling
  <1>3. ~promptActive /\ queue.dispatch # None /\ ~queue.dispatch.attempted
    BY DEF DrainUndoes, GateKept
  <1>4. PICK outcome \in Outcomes : Save(n, outcome) /\ timer' = TimerAfter(n, outcome)
    BY DEF DrainUndoes
  <1>5. Moved(queue, n)
    BY <1>3, UndoMoves
  <1> HIDE DEF n
  <1>6. QueuesKept' /\ faults' \in 0..MaxFaults
    BY <1>1, <1>2, <1>4, <1>5, MoveSaved
  <1>7. Known(queue') = Known(queue)
    BY <1>4, <1>5 DEF Save, Moved
  <1>8. op' \in Ops /\ GateKept'
    BY <1>7, GateGoesOn DEF DrainUndoes
  <1>9. prompt.pc # "call"
    BY <1>3 DEF PromptKept
  <1>10. timer' \in {"none", "armed", "fired"}
    BY <1>4, TimerTypes
  <1> QED BY <1>1, <1>6, <1>8, <1>9, <1>10, SavedStep DEF TypeOK

\* As HeadMoves, of what drainFollowUp makes of the head.
LEMMA TakeMoves ==
    ASSUME NEW q, Lined(q), q.dispatch = None, q.blocked = None, q.followUp # <<>>,
           NEW previous \in Nat, NEW d,
           d = [id |-> Head(q.followUp).id, text |-> Head(q.followUp).text,
                previous |-> previous, attempted |-> FALSE],
           NEW n, n = [q EXCEPT !.followUp = Tail(@), !.dispatch = d]
    PROVE  Moved(q, n) /\ n.dispatch # None /\ ~n.dispatch.attempted
  <1>1. Head(q.followUp) \in Item
    BY QueueFields, HeadTailProperties DEF Lined
  <1>2. d \in Dispatch /\ d.id = Head(q.followUp).id /\ ~d.attempted
    BY <1>1 DEF Item, Dispatch
  <1>3. q \in Queue /\ q.followUp \in Seq(Item) /\ Tail(q.followUp) \in Seq(Item)
    BY QueueFields, HeadTailProperties DEF Lined
  <1>4. /\ n \in Queue /\ n.dispatch = d /\ n.blocked = None /\ n.handled = q.handled
        /\ n.followUp = Tail(q.followUp)
    BY <1>2, <1>3 DEF Queue
  <1>5. Moved(q, n)
    BY <1>2, <1>4, HeadMoves
  <1> QED BY <1>2, <1>4, <1>5, ConstantsAssumption

LEMMA TakeSteps ==
    ASSUME Inv, DrainTakesItem
    PROVE  Inv'
  <1> USE InvFacts
  <1> DEFINE item == Head(queue.followUp)
             taken == [id |-> item.id, text |-> item.text, previous |-> users, attempted |-> FALSE]
             n == [queue EXCEPT !.followUp = Tail(@), !.dispatch = taken]
  <1>1. UNCHANGED <<up, streaming, promptActive, acknowledged, users, attached, drain, retrying, prompt,
                    online, pi, transcript, sent, accepted, removed, authorized, mistaken>>
    BY DEF DrainTakesItem, pi
  <1>2. Calling' = Calling
    BY <1>1 DEF Calling
  <1>3. CASE Ready(queue)
    <2>1. /\ ~promptActive /\ queue.dispatch = None /\ queue.blocked = None /\ queue.followUp # <<>>
          /\ queue.followUp \in Seq(Item)
      BY <1>3, QueueFields DEF Ready, Busy
    <2>4. PICK outcome \in Outcomes :
            /\ Save(n, outcome) /\ timer' = TimerAfter(n, outcome)
            /\ op' = IF outcome = "ok" THEN [op EXCEPT !.step = "attempt"] ELSE Failure
      BY <1>3 DEF DrainTakesItem
    <2>5. Moved(queue, n) /\ n.dispatch # None /\ ~n.dispatch.attempted
      <3>1. Lined(queue) /\ users \in Nat
        BY DEF TypeOK
      <3> QED BY ONLY <2>1, <3>1, TakeMoves
    <2> HIDE DEF n, taken
    <2>6. QueuesKept' /\ faults' \in 0..MaxFaults
      BY <1>1, <1>2, <2>4, <2>5, MoveSaved
    <2>7. Known(queue') = Known(queue)
      BY <2>4, <2>5 DEF Save, Moved
    <2>8. op' \in Ops /\ GateKept'
      <3>1. CASE outcome = "ok"
        <4>1. op' \in Ops /\ op'.step = "attempt" /\ op'.next = op.next /\ op'.who = op.who /\ op'.retry = op.retry
          BY <2>4, <3>1 DEF Ops
        <4>2. queue'.dispatch # None /\ ~queue'.dispatch.attempted
          BY <2>4, <2>5, <3>1 DEF Save
        <4> QED BY <1>1, <2>1, <2>7, <4>1, <4>2 DEF GateKept
      <3>2. CASE outcome # "ok"
        BY <2>4, <2>7, <3>2, GateGoesOn
      <3> QED BY <3>1, <3>2
    <2>9. prompt.pc # "call"
      BY <2>1 DEF PromptKept
    <2>10. timer' \in {"none", "armed", "fired"}
      BY <2>4, TimerTypes
    <2> QED BY <1>1, <2>6, <2>8, <2>9, <2>10, SavedStep DEF TypeOK
  <1>4. CASE ~Ready(queue)
    <2>1. op' = [op EXCEPT !.step = "done"] /\ UNCHANGED <<queue, disk, faults, timer>>
      BY <1>4 DEF DrainTakesItem
    <2>2. op' \in Ops /\ op'.step = "done" /\ op'.next = op.next /\ op'.who = op.who /\ op'.retry = op.retry
      BY <2>1 DEF Ops
    <2>3. GateKept'
      BY <2>1, <2>2 DEF GateKept
    <2>4. Typed'
      BY <1>1, <2>1, <2>2 DEF Typed, TypeOK, Ops, pi
    <2> QED BY <1>1, <2>1, <2>3, <2>4, QuietStep
  <1> QED BY <1>3, <1>4

-----------------------------------------------------------------------------
(* The prompt: submitted, called, settled. *)

\* A prompt that is not in flight has nothing at Pi.
LEMMA AgentRests ==
    ASSUME Inv, prompt.pc # "flight", UNCHANGED pi
    PROVE  AgentKept' /\ Seen' = Seen
  <1>1. UNCHANGED <<wire, agent, transcript>>
    BY DEF pi
  <1> QED BY <1>1 DEF Inv, AgentKept, Seen

LEMMA SubmitKeeps ==
    ASSUME Inv, ~promptActive, NEW id \in Items \cup {Manual}, NEW text \in Texts \cup {Manual},
           Submit(id, text), UNCHANGED <<attached, pi>>,
           id # Manual => queue'.dispatch # None /\ queue'.dispatch.attempted /\ queue'.dispatch.id = id
    PROVE  /\ AgentKept' /\ PromptKept' /\ Seen' = Seen /\ Calling = {} /\ Calling' \subseteq {id}
           /\ prompt' \in Calls /\ users' \in Nat
  <1>1. prompt.pc = "idle" /\ users \in Nat
    BY DEF Inv, PromptKept, Typed, TypeOK, Calls
  <1>2. AgentKept' /\ Seen' = Seen
    BY <1>1, AgentRests
  <1>3. /\ prompt'.pc = (IF attached = "current" THEN "call" ELSE "returned")
        /\ prompt'.id = id /\ prompt'.text = text /\ prompt'.ok = FALSE
        /\ promptActive' /\ ~acknowledged' /\ users' = users + 1
    BY DEF Submit
  <1>4. prompt' \in Calls
    BY DEF Submit, Calls
  <1>5. PromptKept'
    BY <1>3 DEF PromptKept
  <1>6. Calling = {} /\ Calling' \subseteq {id}
    BY <1>1, <1>3 DEF Calling
  <1> QED BY <1>1, <1>2, <1>3, <1>4, <1>5, <1>6

\* What the drain attempts may not be given again.
LEMMA AttemptMoves ==
    ASSUME NEW q, Lined(q), q.dispatch # None, ~q.dispatch.attempted,
           NEW n, n = [q EXCEPT !.dispatch.attempted = TRUE]
    PROVE  /\ Moved(q, n) /\ n.dispatch # None /\ n.dispatch.attempted /\ n.dispatch.id = q.dispatch.id
           /\ n.dispatch.id \in Items /\ n.dispatch.text \in Texts
           /\ n.dispatch.id \notin Givable(n) /\ n.dispatch.id \in Givable(q)
  <1>0. /\ q \in Queue /\ q.dispatch \in Dispatch /\ q.blocked = None /\ None \notin Dispatch
        /\ q.followUp \in Seq(Item) /\ DOMAIN q.followUp = 1..Len(q.followUp) /\ Len(q.followUp) \in Nat
    BY QueueFields, ConstantsAssumption DEF Lined
  <1>1. [q.dispatch EXCEPT !.attempted = TRUE] \in Dispatch
    BY <1>0 DEF Dispatch
  <1>2. /\ n \in Queue /\ n.followUp = q.followUp /\ n.handled = q.handled /\ n.blocked = None
        /\ n.dispatch = [q.dispatch EXCEPT !.attempted = TRUE]
    BY <1>0, <1>1 DEF Queue
  <1>3. /\ n.dispatch # None /\ n.dispatch.attempted /\ n.dispatch.id = q.dispatch.id
        /\ n.dispatch.id \in Items /\ n.dispatch.text \in Texts
    BY <1>0, <1>1, <1>2 DEF Dispatch
  <1>4. Front(q) = 1 /\ Front(n) = 1 /\ FrontId(q) = q.dispatch.id /\ FrontId(n) = FrontId(q)
    BY <1>3 DEF Front, FrontId
  <1>5. Moved(q, n)
    BY <1>2, <1>3, <1>4, FrontMoves
  <1>6. Size(q) = 1 + Len(q.followUp) /\ 1 \in 1..Size(q) /\ Line(q)[1] = q.dispatch.id
    <2>1. Size(q) = 1 + Len(q.followUp) /\ 1 \in 1..Size(q)
      BY <1>0, <1>4 DEF Size
    <2> QED BY <1>4, <2>1, LineAt
  <1>7. n.dispatch.id \in Known(n)
    BY <1>3, <1>5, <1>6 DEF Lined, Moved
  <1>8. n.dispatch.id \notin Ids(n.followUp)
    <2> SUFFICES ASSUME NEW k \in DOMAIN q.followUp, q.followUp[k].id = q.dispatch.id
                 PROVE  FALSE
      BY <1>2, <1>3 DEF Ids
    <2>1. k + 1 \in 1..Size(q) /\ ~(k + 1 <= 1) /\ (k + 1) - 1 = k
      BY <1>0, <1>6
    <2>2. Line(q)[k + 1] = q.followUp[k].id
      BY <1>4, <2>1, LineAt
    <2>3. k + 1 = 1
      BY <1>6, <2>1, <2>2, LineIsDistinct
    <2> QED BY <1>0, <2>3
  <1>9. n.dispatch.id \notin Givable(n)
    BY <1>3, <1>7, <1>8 DEF Givable
  <1>10. n.dispatch.id \in Givable(q)
    BY <1>3 DEF Givable
  <1> QED BY <1>3, <1>5, <1>9, <1>10

LEMMA AttemptSteps ==
    ASSUME Inv, DrainAttempts
    PROVE  Inv'
  <1> USE InvFacts
  <1> DEFINE n == [queue EXCEPT !.dispatch.attempted = TRUE]
  <1>1. /\ UNCHANGED <<up, attached, drain, retrying, online, pi, transcript, sent, accepted, removed,
                       authorized, mistaken>>
        /\ op.step = "attempt"
    BY DEF DrainAttempts, pi
  <1>2. ~promptActive /\ queue.dispatch # None /\ ~queue.dispatch.attempted /\ prompt.pc # "call"
    BY <1>1 DEF GateKept, PromptKept
  <1>3. PICK outcome \in Outcomes :
          /\ Save(n, outcome) /\ timer' = TimerAfter(n, outcome)
          /\ IF outcome = "ok"
             THEN Submit(n.dispatch.id, n.dispatch.text) /\ op' = [op EXCEPT !.step = "done"]
             ELSE /\ op' = [op EXCEPT !.step = "undo"]
                  /\ UNCHANGED <<users, streaming, promptActive, acknowledged, prompt>>
    BY DEF DrainAttempts
  <1>4. /\ Moved(queue, n) /\ n.dispatch # None /\ n.dispatch.attempted
        /\ n.dispatch.id \in Items /\ n.dispatch.text \in Texts
        /\ n.dispatch.id \notin Givable(n) /\ n.dispatch.id \in Givable(queue)
    BY <1>2, AttemptMoves
  <1> HIDE DEF n
  <1>5. timer' \in {"none", "armed", "fired"}
    BY <1>3, TimerTypes
  <1>6. CASE outcome # "ok"
    <2>1. UNCHANGED <<queue, users, streaming, promptActive, acknowledged, prompt>>
      BY <1>3, <1>6 DEF Save
    <2>2. Calling' = Calling
      BY <2>1 DEF Calling
    <2>3. QueuesKept' /\ faults' \in 0..MaxFaults
      BY <1>1, <1>3, <1>4, <2>2, MoveSaved
    <2>4. op' \in Ops /\ op'.step = "undo" /\ op'.next = op.next /\ op'.who = op.who /\ op'.retry = op.retry
      BY <1>3, <1>6 DEF Ops
    <2>5. GateKept'
      BY <1>1, <1>2, <2>1, <2>4 DEF GateKept
    <2> QED BY <1>1, <1>2, <1>5, <2>1, <2>3, <2>4, <2>5, SavedStep DEF TypeOK
  <1>7. CASE outcome = "ok"
    <2>1. queue' = n /\ disk' = n /\ Submit(n.dispatch.id, n.dispatch.text) /\ op' = [op EXCEPT !.step = "done"]
      BY <1>3, <1>7 DEF Save
    <2>2. /\ AgentKept' /\ PromptKept' /\ Seen' = Seen /\ Calling = {} /\ Calling' \subseteq {n.dispatch.id}
          /\ prompt' \in Calls /\ users' \in Nat
      BY <1>1, <1>2, <1>4, <2>1, SubmitKeeps
    <2>3. n \in InBudget'
      <3>0. n \in Queue
        BY <1>4 DEF Moved, Lined
      <3> SUFFICES ASSUME NEW i \in Items
                   PROVE  sent'[i] + One(i, Givable(n)) + One(i, Calling') <= 1 + Retried(i, authorized', Known(n))
        BY <3>0 DEF InBudget
      <3>1. sent[i] + One(i, Givable(queue)) + One(i, Calling) <= 1 + Retried(i, authorized, Known(queue))
        BY DEF InBudget
      <3>2. Retried(i, authorized', Known(n)) = Retried(i, authorized, Known(queue))
        BY <1>1, <1>4 DEF Moved
      <3>3. One(i, Givable(n)) + One(i, Calling') <= One(i, Givable(queue)) + One(i, Calling)
        BY <1>4, <2>2 DEF One, Moved
      <3>4. /\ sent[i] \in Nat /\ sent' = sent /\ \A S : One(i, S) \in Nat
            /\ Retried(i, authorized, Known(queue)) \in Nat
        BY <1>1, RetriedGrows DEF TypeOK, One
      <3> HIDE DEF n
      <3> QED BY <3>1, <3>2, <3>3, <3>4
    <2>4. n \in Complete'
      BY <1>1, <1>4, <2>2, CompleteHolds DEF Moved, Lined
    <2>5. Lined(n) /\ Known(n) = Known(queue)
      BY <1>4 DEF Moved
    <2>6. QueuesKept'
      BY <1>1, <2>1, <2>3, <2>4, <2>5 DEF QueuesKept
    <2>7. op' \in Ops /\ op'.step = "done" /\ op'.next = op.next /\ op'.who = op.who /\ op'.retry = op.retry
      BY <2>1 DEF Ops
    <2>8. GateKept'
      BY <1>1, <2>1, <2>5, <2>7 DEF GateKept
    <2>9. streaming' \in BOOLEAN /\ promptActive' \in BOOLEAN /\ acknowledged' \in BOOLEAN /\ faults' = faults
      BY <1>3, <1>7, <2>1 DEF Submit, Save, Spend
    <2>10. prompt'.pc \in {"idle", "call", "flight", "returned"} /\ op'.who \in {"none", "drain", "retry", "open", "prompt"}
      BY <2>2, <2>7 DEF Calls, Ops
    <2>11. Typed'
      BY <1>1, <1>5, <2>1, <2>2, <2>5, <2>7, <2>9, <2>10 DEF Typed, TypeOK, pi, Lined
    <2> QED BY <2>2, <2>6, <2>8, <2>11 DEF Inv
  <1> QED BY <1>6, <1>7

LEMMA SubmitSteps ==
    ASSUME Inv, PromptSubmit
    PROVE  Inv'
  <1> USE InvFacts
  <1>1. /\ UNCHANGED <<up, queue, attached, drain, timer, retrying, online, disk, pi, transcript, faults, history>>
        /\ op' = NoOp
    BY DEF PromptSubmit, pi
  <1>2. op' \in Ops /\ GateKept'
    BY <1>1, GateGoesOn
  <1>3. CASE Busy \/ Count(queue) > 0
    <2>1. UNCHANGED <<users, streaming, promptActive, acknowledged, prompt>>
      BY <1>3 DEF PromptSubmit
    <2>2. Typed'
      BY <1>1, <1>2, <2>1 DEF Typed, TypeOK, NoOp, pi, history
    <2> QED BY <1>1, <1>2, <2>1, <2>2, QuietStep DEF history
  <1>4. CASE ~(Busy \/ Count(queue) > 0)
    <2>1. ~promptActive /\ Submit(Manual, Manual)
      BY <1>4 DEF PromptSubmit, Busy
    <2>2. /\ AgentKept' /\ PromptKept' /\ Seen' = Seen /\ Calling = {} /\ Calling' \subseteq {Manual}
          /\ prompt' \in Calls /\ users' \in Nat
      BY <1>1, <2>1, SubmitKeeps
    <2>3. Calling' \cap Items \subseteq Calling
      BY <2>2, ConstantsAssumption
    <2>4. QueuesKept'
      BY <1>1, <2>2, <2>3, QueuesStay DEF history
    <2>5. streaming' \in BOOLEAN /\ promptActive' \in BOOLEAN /\ acknowledged' \in BOOLEAN
      BY <2>1 DEF Submit
    <2>6. prompt'.pc \in {"idle", "call", "flight", "returned"}
      BY <2>2 DEF Calls
    <2>7. Typed'
      BY <1>1, <1>2, <2>2, <2>5, <2>6 DEF Typed, TypeOK, NoOp, pi, history
    <2> QED BY <1>2, <2>2, <2>4, <2>7 DEF Inv
  <1> QED BY <1>3, <1>4

\* The prompt is not at stake: its goroutine gives up, which leaves it active.
LEMMA AbandonSteps ==
    ASSUME Inv, SettleTimesOut
    PROVE  Inv'
  <1> USE InvFacts
  <1>1. /\ UNCHANGED <<up, queue, streaming, promptActive, acknowledged, users, attached, drain, timer, retrying,
                       op, online, disk, pi, transcript, history>>
        /\ prompt' = NoCall /\ prompt.pc = "returned" /\ faults' \in 0..MaxFaults
    BY ConstantsAssumption DEF SettleTimesOut, pi, TypeOK
  <1>2. prompt' \in Calls /\ prompt'.pc = "idle"
    BY <1>1 DEF NoCall, Calls
  <1>3. AgentKept' /\ Seen' = Seen
    BY <1>1, AgentRests
  <1>4. PromptKept' /\ Calling' = {}
    BY <1>2 DEF PromptKept, Calling
  <1>5. QueuesKept'
    BY <1>1, <1>3, <1>4, QueuesStay DEF history
  <1>6. GateKept'
    BY <1>1, GateStays DEF GateKept
  <1>7. Typed'
    BY <1>1, <1>2 DEF Typed, TypeOK, Ops, pi, history
  <1> QED BY <1>3, <1>4, <1>5, <1>6, <1>7 DEF Inv

LEMMA CallSteps ==
    ASSUME Inv, CallPrompt
    PROVE  Inv'
  <1> USE InvFacts
  <1>1. /\ UNCHANGED <<up, queue, streaming, promptActive, acknowledged, users, attached, drain, timer, retrying,
                       op, online, disk, agent, transcript, faults, accepted, removed, authorized, mistaken>>
        /\ prompt.pc = "call" /\ prompt' = [prompt EXCEPT !.pc = "flight"]
        /\ sent' = [sent EXCEPT ![prompt.id] = @ + 1]
    BY DEF CallPrompt
  <1>2. /\ prompt \in Calls /\ prompt.id \in Items \cup {Manual} /\ prompt.text \in Texts \cup {Manual}
        /\ sent \in [Items \cup {Manual} -> Nat] /\ wire \in Seq(Message) /\ promptActive
    BY <1>1 DEF PromptKept, Typed, TypeOK
  <1>3. /\ prompt' \in Calls /\ prompt'.pc = "flight" /\ prompt'.id = prompt.id /\ prompt'.text = prompt.text
        /\ prompt'.ok = prompt.ok
    BY <1>1, <1>2 DEF Calls
  <1>4. sent' \in [Items \cup {Manual} -> Nat]
    BY <1>1, <1>2
  <1> DEFINE m == [id |-> prompt.id, live |-> TRUE, text |-> prompt.text]
  <1>5. m \in Message /\ wire' = Append(wire, m)
    BY <1>2 DEF Message, CallPrompt
  <1>6. m.live /\ m.id = prompt.id
    OBVIOUS
  <1> HIDE DEF m
  <1>7. /\ wire' \in Seq(Message) /\ DOMAIN wire' = 1..(Len(wire) + 1) /\ DOMAIN wire = 1..Len(wire)
        /\ Len(wire) \in Nat
        /\ \A k \in 1..(Len(wire) + 1) : wire'[k] = IF k <= Len(wire) THEN wire[k] ELSE m
    <2>1. /\ Append(wire, m) \in Seq(Message) /\ Len(Append(wire, m)) = Len(wire) + 1
          /\ \A k \in 1..(Len(wire) + 1) : Append(wire, m)[k] = IF k <= Len(wire) THEN wire[k] ELSE m
      BY <1>2, <1>5, AppendProperties
    <2>2. DOMAIN Append(wire, m) = 1..(Len(wire) + 1) /\ DOMAIN wire = 1..Len(wire) /\ Len(wire) \in Nat
      BY <1>2, <2>1, LenProperties
    <2> QED BY <1>5, <2>1, <2>2
  <1>8. AgentKept'
    <2>1. /\ ~(agent # None /\ agent.live) /\ (agent # None => agent.id \in Seen)
          /\ \A k \in DOMAIN wire : ~wire[k].live
      BY <1>1 DEF Inv, AgentKept
    <2>2. Seen' = Seen
      BY <1>1 DEF Seen
    <2>3. ASSUME NEW k \in DOMAIN wire', wire'[k].live
          PROVE  wire'[k] = m /\ k = Len(wire) + 1
      <3>1. CASE k <= Len(wire)
        <4>1. k \in DOMAIN wire /\ wire'[k] = wire[k]
          BY <1>7, <2>3, <3>1
        <4> QED BY <2>1, <2>3, <4>1
      <3>2. CASE ~(k <= Len(wire))
        BY <1>7, <2>3, <3>2
      <3> QED BY <3>1, <3>2
    <2> QED BY <1>1, <1>3, <1>6, <2>1, <2>2, <2>3 DEF AgentKept
  <1>9. PromptKept'
    <2>1. Seen' = Seen
      BY <1>1 DEF Seen
    <2> QED BY <1>1, <1>2, <1>3, <2>1 DEF PromptKept
  <1>10. ASSUME NEW q \in InBudget
         PROVE  q \in InBudget'
    <2> SUFFICES ASSUME NEW i \in Items
                 PROVE  sent'[i] + One(i, Givable(q)) + One(i, Calling') <= 1 + Retried(i, authorized', Known(q))
      BY DEF InBudget
    <2>1. sent[i] + One(i, Givable(q)) + One(i, Calling) <= 1 + Retried(i, authorized, Known(q))
      BY DEF InBudget
    <2>2. Calling = {prompt.id} /\ Calling' = {}
      BY <1>1, <1>3 DEF Calling
    <2>3. sent'[i] + One(i, Calling') = sent[i] + One(i, Calling)
      BY <1>1, <1>2, <2>2 DEF One
    <2>4. /\ sent[i] \in Nat /\ sent'[i] \in Nat /\ \A S : One(i, S) \in Nat
          /\ Retried(i, authorized, Known(q)) \in Nat /\ authorized' = authorized
      BY <1>1, <1>2, <1>4, RetriedGrows DEF One
    <2> QED BY <2>1, <2>3, <2>4
  <1>11. QueuesKept'
    <2>1. queue \in Complete' /\ disk \in Complete'
      BY <1>1 DEF QueuesKept, Complete, Seen
    <2>2. queue \in InBudget' /\ disk \in InBudget'
      BY <1>10 DEF QueuesKept
    <2> QED BY <1>1, <2>1, <2>2 DEF QueuesKept
  <1>12. GateKept'
    BY <1>1, GateStays DEF GateKept
  <1>13. Typed'
    BY <1>1, <1>3, <1>4, <1>7 DEF Typed, TypeOK
  <1> QED BY <1>8, <1>9, <1>11, <1>12, <1>13 DEF Inv

\* What was dispatched is blocked.
LEMMA BlockMoves ==
    ASSUME NEW q, Lined(q), q.dispatch # None,
           NEW n, n = [q EXCEPT !.dispatch = None, !.blocked = Plain(q.dispatch)]
    PROVE  Moved(q, n) /\ n.dispatch = None
  <1>1. q \in Queue /\ q.dispatch \in Dispatch
    BY QueueFields DEF Lined
  <1>2. Plain(q.dispatch) \in Item /\ Plain(q.dispatch).id = q.dispatch.id /\ Plain(q.dispatch) # None
    BY <1>1, ConstantsAssumption DEF Plain, Item, Dispatch
  <1>3. /\ n \in Queue /\ n.followUp = q.followUp /\ n.handled = q.handled /\ n.dispatch = None
        /\ n.blocked = Plain(q.dispatch)
    BY <1>1, <1>2 DEF Queue
  <1>4. Front(q) = 1 /\ Front(n) = 1 /\ FrontId(q) = FrontId(n)
    BY <1>2, <1>3 DEF Front, FrontId
  <1> QED BY <1>3, <1>4, FrontMoves

\* What was dispatched reached Pi.
LEMMA DeliveredLeaves ==
    ASSUME NEW q, Lined(q), q.dispatch # None, NEW n, n = [q EXCEPT !.dispatch = None]
    PROVE  /\ Lined(n) /\ Known(n) = Known(q) /\ Held(q) \subseteq Held(n) \cup {q.dispatch.id}
           /\ Givable(n) \subseteq Givable(q) /\ n.dispatch = None
  <1>1. q \in Queue /\ q.blocked = None
    BY DEF Lined
  <1>2. /\ n \in Queue /\ n.followUp = q.followUp /\ n.handled = q.handled /\ n.dispatch = None
        /\ n.blocked = None
    BY <1>1 DEF Queue
  <1>3. Front(q) = 1 /\ FrontId(q) = q.dispatch.id
    BY DEF Front, FrontId
  <1> QED BY <1>2, <1>3, FrontLeaves

LEMMA SettleSteps ==
    ASSUME Inv, Settle
    PROVE  Inv'
  <1> USE InvFacts
  <1>1. /\ UNCHANGED <<up, users, attached, retrying, op, online, pi, transcript, sent, accepted, removed,
                       authorized, mistaken>>
        /\ op = NoOp /\ prompt.pc = "returned" /\ prompt' = NoCall
        /\ promptActive' = FALSE /\ streaming' = FALSE /\ acknowledged' = FALSE
    BY DEF Settle, Free, pi
  <1>2. prompt' \in Calls /\ prompt'.pc = "idle"
    BY <1>1 DEF NoCall, Calls
  <1>3. AgentKept' /\ Seen' = Seen
    BY <1>1, AgentRests
  <1>4. PromptKept' /\ Calling' = {} /\ Calling = {}
    BY <1>1, <1>2 DEF PromptKept, Calling
  <1>5. GateKept'
    BY <1>1 DEF GateKept, NoOp
  <1>6. QueuesKept' /\ faults' \in 0..MaxFaults /\ timer' \in {"none", "armed", "fired"}
        /\ drain' \in {"idle", "waiting", "working"}
    <2>1. CASE queue.dispatch = None \/ prompt.id = Manual \/ queue.dispatch.id # prompt.id
      <3>1. Schedule(queue, FALSE, attached, timer) /\ UNCHANGED <<queue, disk, faults>>
        BY <2>1 DEF Settle
      <3>2. QueuesKept'
        BY <1>1, <1>3, <1>4, <3>1, QueuesStay
      <3>3. timer \in {"none", "armed", "fired"} /\ faults \in 0..MaxFaults
        BY DEF TypeOK
      <3>4. drain' \in {"idle", "waiting", "working"} /\ timer' \in {"none", "armed", "fired"}
        BY <3>1, <3>3, DrainTypes
      <3> QED BY <3>1, <3>2, <3>3, <3>4
    <2>2. CASE ~(queue.dispatch = None \/ prompt.id = Manual \/ queue.dispatch.id # prompt.id)
      <3> DEFINE n == [queue EXCEPT !.dispatch = None,
                          !.blocked = IF prompt.ok \/ acknowledged THEN @ ELSE Plain(queue.dispatch)]
      <3>1. PICK outcome \in Outcomes :
              /\ Save(n, outcome)
              /\ Schedule(IF outcome = "ok" THEN n ELSE queue, FALSE, attached, TimerAfter(n, outcome))
        BY <2>2 DEF Settle
      <3> HIDE DEF n
      <3>2. timer' \in {"none", "armed", "fired"} /\ drain' \in {"idle", "waiting", "working"}
        <4>1. PICK q, after : Schedule(q, FALSE, attached, after) /\ after = TimerAfter(n, outcome)
          BY <3>1
        <4>2. TimerAfter(n, outcome) \in {"none", "armed", "fired"}
          BY TimerTypes
        <4> QED BY <4>1, <4>2, DrainTypes
      <3> USE DEF n
      <3>3. CASE prompt.ok \/ acknowledged
        <4>1. n = [queue EXCEPT !.dispatch = None]
          BY <3>3 DEF Queue
        <4> HIDE DEF n
        <4>2. /\ Lined(n) /\ Known(n) = Known(queue) /\ Held(queue) \subseteq Held(n) \cup {prompt.id}
              /\ Givable(n) \subseteq Givable(queue) /\ n \in Queue
          BY <2>2, <4>1, DeliveredLeaves DEF Lined
        <4>3. prompt.id \in Seen
          BY <1>1, <3>3 DEF PromptKept
        <4>4. n \in InBudget' /\ n \in Complete'
          BY <1>1, <1>3, <1>4, <4>2, <4>3, BudgetHolds, CompleteHolds
        <4>5. QueuesKept' /\ faults' \in 0..MaxFaults
          BY <1>1, <1>3, <1>4, <3>1, <4>2, <4>4, QueuesSaved
        <4> QED BY <3>2, <4>5
      <3>4. CASE ~(prompt.ok \/ acknowledged)
        <4>1. n = [queue EXCEPT !.dispatch = None, !.blocked = Plain(queue.dispatch)]
          BY <3>4
        <4> HIDE DEF n
        <4>2. Moved(queue, n)
          BY <2>2, <4>1, BlockMoves
        <4>3. QueuesKept' /\ faults' \in 0..MaxFaults
          BY <1>1, <1>4, <3>1, <4>2, MoveSaved
        <4> QED BY <3>2, <4>3
      <3> QED BY <3>3, <3>4
    <2> QED BY <2>1, <2>2
  <1>7. queue' \in Queue /\ disk' \in Queue
    BY <1>6 DEF QueuesKept, Lined
  <1>8. UNCHANGED <<wire, agent, transcript>>
    BY DEF Settle, pi
  <1>9. promptActive' \in BOOLEAN /\ streaming' \in BOOLEAN /\ acknowledged' \in BOOLEAN
    BY <1>1
  <1>10. TypeOK'
    <2>1. op'.who = op.who /\ op'.step = op.step
      BY <1>1
    <2>2. /\ up' \in BOOLEAN /\ users' \in Nat /\ attached' \in {"none", "stale", "current"}
          /\ online' \in BOOLEAN /\ retrying' \in BOOLEAN
      BY <1>1 DEF TypeOK
    <2>3. /\ wire' \in Seq(Message) /\ transcript' \in Seq(Turn) /\ sent' \in [Items \cup {Manual} -> Nat]
          /\ agent' \in [id : Items \cup {Manual}, live : BOOLEAN] \cup {None}
          /\ accepted' \subseteq Items /\ removed' \subseteq Items
          /\ authorized' \subseteq RetryKeys \X Items /\ mistaken' \subseteq Items
      BY <1>1, <1>8 DEF TypeOK
    <2> QED BY <1>2, <1>6, <1>7, <1>9, <2>1, <2>2, <2>3 DEF TypeOK
  <1>11. Typed'
    BY <1>1, <1>2, <1>10 DEF Typed
  <1> QED BY <1>3, <1>4, <1>5, <1>6, <1>11 DEF Inv

-----------------------------------------------------------------------------
(* The replay of Pi's transcript. *)

\* The three ways of recoverQueuedDispatchLocked.
LEMMA RecoveredIs ==
    ASSUME NEW q, Lined(q), q.dispatch # None, transcript \in Seq(Turn)
    PROVE  LET d == q.dispatch
           IN \/ Admitted(d) /\ Recovered(q) = [q EXCEPT !.dispatch = None]
              \/ ~d.attempted /\ Recovered(q) = PutBack(q, Plain(d))
              \/ Recovered(q) = [q EXCEPT !.dispatch = None, !.blocked = Plain(d)]
  <1>1. Len(transcript) \in Nat
    BY LenProperties
  <1>2. q.dispatch.previous \in Nat /\ q.blocked = None
    BY QueueFields DEF Lined, Dispatch
  <1>3. CASE Admitted(q.dispatch)
    BY <1>1, <1>2, <1>3 DEF Recovered, Admitted
  <1>4. CASE ~Admitted(q.dispatch) /\ q.dispatch.previous = Len(transcript) /\ ~q.dispatch.attempted
    BY <1>2, <1>4 DEF Recovered, PutBack
  <1>5. CASE ~Admitted(q.dispatch) /\ ~(q.dispatch.previous = Len(transcript) /\ ~q.dispatch.attempted)
    BY <1>5 DEF Recovered
  <1> QED BY <1>3, <1>4, <1>5

\* An item that a replay takes for delivered is in the transcript, or mistaken.
LEMMA AdmittedIsSeen ==
    ASSUME NEW d \in Dispatch, transcript \in Seq(Turn), Admitted(d), ~Mistakes(d)
    PROVE  d.id \in Seen
  <1>1. Len(transcript) \in Nat /\ DOMAIN transcript = 1..Len(transcript) /\ d.previous \in Nat
    BY LenProperties DEF Dispatch
  <1>2. d.previous + 1 \in DOMAIN transcript /\ transcript[d.previous + 1].id = d.id
    BY <1>1 DEF Admitted, Mistakes
  <1> QED BY <1>2 DEF Seen

\* What the replay makes of the queue.
LEMMA RecoveredSaved ==
    ASSUME Inv, queue.dispatch # None, NEW outcome \in Outcomes, Save(Recovered(queue), outcome),
           mistaken' = IF outcome # "lost" /\ Mistakes(queue.dispatch)
                       THEN mistaken \cup {queue.dispatch.id} ELSE mistaken,
           Calling' \subseteq Calling,
           UNCHANGED <<transcript, sent, accepted, removed, authorized>>
    PROVE  /\ QueuesKept' /\ faults' \in 0..MaxFaults /\ mistaken' \subseteq Items
           /\ Known(queue') = Known(queue)
  <1> USE InvFacts
  <1> DEFINE n == Recovered(queue)
  <1>1. queue.dispatch \in Dispatch /\ transcript \in Seq(Turn) /\ queue.dispatch.id \in Items
    BY DEF TypeOK, Dispatch
  <1>2. Seen' = Seen
    BY DEF Seen
  <1>3. mistaken \subseteq mistaken' /\ mistaken' \subseteq Items
    BY <1>1 DEF TypeOK
  <1>4. /\ Lined(n) /\ Known(n) = Known(queue) /\ Givable(n) \subseteq Givable(queue)
        /\ outcome # "lost" => Held(queue) \subseteq Held(n) \cup Seen \cup mistaken'
    <2>1. CASE Admitted(queue.dispatch) /\ n = [queue EXCEPT !.dispatch = None]
      <3> HIDE DEF n
      <3>1. /\ Lined(n) /\ Known(n) = Known(queue) /\ Held(queue) \subseteq Held(n) \cup {queue.dispatch.id}
            /\ Givable(n) \subseteq Givable(queue)
        BY <2>1, DeliveredLeaves
      <3>2. outcome # "lost" => queue.dispatch.id \in Seen \cup mistaken'
        BY <1>1, <2>1, AdmittedIsSeen
      <3> QED BY <3>1, <3>2
    <2>2. CASE ~queue.dispatch.attempted /\ n = PutBack(queue, Plain(queue.dispatch))
      <3> HIDE DEF n
      <3>1. Moved(queue, n)
        BY <2>2, UndoMoves
      <3> QED BY <3>1 DEF Moved
    <2>3. CASE n = [queue EXCEPT !.dispatch = None, !.blocked = Plain(queue.dispatch)]
      <3> HIDE DEF n
      <3>1. Moved(queue, n)
        BY <2>3, BlockMoves
      <3> QED BY <3>1 DEF Moved
    <2> QED BY <1>1, <2>1, <2>2, <2>3, RecoveredIs
  <1> HIDE DEF n
  <1>5. Save(n, outcome)
    BY DEF n
  <1>6. n \in Queue
    BY <1>4 DEF Lined
  <1>7. n \in InBudget'
    BY <1>4, <1>6, BudgetHolds
  <1>8. outcome # "lost" => n \in Complete'
    BY <1>2, <1>3, <1>4, <1>6, CompleteHolds
  <1>9. QueuesKept' /\ faults' \in 0..MaxFaults
    BY <1>2, <1>3, <1>4, <1>5, <1>7, <1>8, QueuesSaved
  <1>10. Known(queue') = Known(queue)
    BY <1>4, <1>5 DEF Save
  <1> QED BY <1>3, <1>9, <1>10

LEMMA LoadSteps ==
    ASSUME Inv, Load
    PROVE  Inv'
  <1> USE InvFacts
  <1> DEFINE recover == queue.dispatch # None
             next == IF recover THEN Recovered(queue) ELSE queue
  <1>1. /\ UNCHANGED <<up, promptActive, acknowledged, retrying, prompt, online, pi, transcript,
                       sent, accepted, removed, authorized>>
        /\ op.step = "load" /\ attached # "current" /\ prompt.pc # "call"
    BY DEF Load, GateKept, PromptKept, pi
  <1>2. PICK outcome \in Outcomes :
          /\ ~recover => outcome = "ok"
          /\ IF recover THEN Save(next, outcome) ELSE UNCHANGED <<queue, disk, faults>>
          /\ mistaken' = IF outcome # "lost" /\ recover /\ Mistakes(queue.dispatch)
                         THEN mistaken \cup {queue.dispatch.id} ELSE mistaken
          /\ IF outcome = "ok"
             THEN /\ attached' = "current" /\ users' = Len(transcript) /\ streaming' = FALSE
                  /\ op' = IF op.who = "retry" /\ recover
                           THEN [Success EXCEPT !.retry.changed = TRUE] ELSE Success
                  /\ Schedule(next, promptActive, "current", timer)
             ELSE /\ op' = Failure
                  /\ UNCHANGED <<attached, users, streaming, drain, timer>>
    BY DEF Load
  <1>3. Calling' = Calling /\ Seen' = Seen
    BY <1>1 DEF Calling, Seen
  <1>4. QueuesKept' /\ faults' \in 0..MaxFaults /\ mistaken' \subseteq Items /\ Known(queue') = Known(queue)
    <2>1. CASE recover
      <3>1. Save(Recovered(queue), outcome)
        BY <1>2, <2>1
      <3> QED BY <1>1, <1>2, <1>3, <2>1, <3>1, RecoveredSaved
    <2>2. CASE ~recover
      <3>1. UNCHANGED <<queue, disk, faults, mistaken>>
        BY <1>2, <2>2
      <3>2. QueuesKept'
        BY <1>1, <1>3, <3>1, QueuesStay
      <3> QED BY <3>1, <3>2 DEF TypeOK
    <2> QED BY <2>1, <2>2
  <1> HIDE DEF next, recover
  <1>5. op' \in Ops /\ GateKept'
    <2>1. CASE op' \in {Failure, Success}
      BY <1>4, <2>1, GateGoesOn
    <2>2. CASE op.who = "retry" /\ op' = [Success EXCEPT !.retry.changed = TRUE]
      <3>1. Success = [op EXCEPT !.step = op.next] /\ op.retry \in Retries
        BY <2>2 DEF Success, GateKept
      <3>2. [op.retry EXCEPT !.changed = TRUE] \in Retries /\ [op.retry EXCEPT !.changed = TRUE].key = op.retry.key
        BY <3>1 DEF Retries
      <3>3. op' = [op EXCEPT !.step = op.next, !.retry = [op.retry EXCEPT !.changed = TRUE]]
        BY <2>2, <3>1 DEF Ops
      <3>4. /\ op' \in Ops /\ op'.step = op.next /\ op'.next = op.next /\ op'.who = op.who
            /\ op'.retry = [op.retry EXCEPT !.changed = TRUE]
        BY <3>2, <3>3 DEF Ops
      <3>5. op'.step \in {"none", "restore", "take", "retry", "submit"}
        BY <3>4 DEF Ops
      <3> QED BY <1>4, <2>2, <3>2, <3>4, <3>5 DEF GateKept
    <2> QED BY <1>2, <2>1, <2>2
  <1>6. timer' \in {"none", "armed", "fired"} /\ drain' \in {"idle", "waiting", "working"}
    <2>1. timer \in {"none", "armed", "fired"} /\ drain \in {"idle", "waiting", "working"}
      BY DEF TypeOK
    <2> QED BY <1>2, <2>1, DrainTypes
  <1>7. users' \in Nat /\ streaming' \in BOOLEAN /\ attached' \in {"none", "stale", "current"}
    <2>1. Len(transcript) \in Nat /\ users \in Nat /\ streaming \in BOOLEAN
          /\ attached \in {"none", "stale", "current"}
      BY LenProperties DEF TypeOK
    <2> QED BY <1>2, <2>1
  <1> QED BY <1>1, <1>4, <1>5, <1>6, <1>7, SavedStep DEF TypeOK

-----------------------------------------------------------------------------
(* The retry of what is blocked. *)

\* The retried item goes back to the head, and the request is remembered: the
\* item may be given once more, and its budget has one more.
LEMMA RetryMoves ==
    ASSUME NeverForgotten, NEW q, Lined(q), Front(q) = 1, NEW item \in Item, item.id = FrontId(q),
           NEW key \in RetryKeys, key \notin Known(q),
           NEW n \in Queue, n.followUp = <<item>> \o q.followUp, n.handled = Remember(q, key),
           n.dispatch = None, n.blocked = None
    PROVE  /\ Lined(n) /\ Known(n) = Known(q) \cup {key} /\ Held(n) = Held(q)
           /\ Givable(n) \subseteq Givable(q) \cup {item.id}
  <1>1. PICK m : m = PutBack(q, item)
    OBVIOUS
  <1>2. /\ Lined(m) /\ Known(m) = Known(q) /\ Held(m) = Held(q)
        /\ m.dispatch = None /\ m.blocked = None /\ m.handled = q.handled
        /\ m.followUp = <<item>> \o q.followUp /\ Givable(m) \subseteq Givable(q) \cup {item.id}
    BY <1>1, PutBackMoves
  <1>3. n.handled = Append(m.handled, key)
    BY <1>2, RememberAppends
  <1>4. /\ Lined(n) /\ Known(n) = Known(m) \cup {key} /\ Held(n) = Held(m)
        /\ Givable(n) \subseteq Givable(m)
    BY <1>2, <1>3, RequestRemembered
  <1> QED BY <1>2, <1>4

LEMMA RetryAuthorized ==
    ASSUME Inv, NEW n, Lined(n), NEW key \in RetryKeys, key \notin Known(queue),
           Known(n) = Known(queue) \cup {key}, NEW i \in Items, Givable(n) \subseteq Givable(queue) \cup {i},
           UNCHANGED sent, Calling' = Calling, authorized' = authorized \cup {<<key, i>>}
    PROVE  n \in InBudget'
  <1> USE InvFacts
  <1>0. IsFiniteSet(authorized') /\ n \in Queue
    BY FS_AddElement DEF Lined
  <1> SUFFICES ASSUME NEW j \in Items
               PROVE  sent'[j] + One(j, Givable(n)) + One(j, Calling') <= 1 + Retried(j, authorized', Known(n))
    BY <1>0 DEF InBudget
  <1>1. sent[j] + One(j, Givable(queue)) + One(j, Calling) <= 1 + Retried(j, authorized, Known(queue))
    BY DEF InBudget
  <1>2. /\ sent[j] \in Nat /\ sent' = sent /\ \A S : One(j, S) \in Nat
    BY DEF TypeOK, One
  <1>3. /\ Retried(j, authorized, Known(queue)) \in Nat /\ Retried(j, authorized', Known(n)) \in Nat
        /\ Retried(j, authorized, Known(queue)) <= Retried(j, authorized', Known(n))
    BY <1>0, RetriedGrows
  <1>4. CASE j # i
    <2>1. One(j, Givable(n)) <= One(j, Givable(queue))
      BY <1>4 DEF One
    <2> QED BY <1>1, <1>2, <1>3, <2>1
  <1>5. CASE j = i
    <2>1. Retried(j, authorized', Known(n)) >= Retried(j, authorized, Known(queue)) + 1
      <3>1. authorized' = authorized \cup {<<key, j>>} /\ Known(n) = Known(queue) \cup {key}
        BY <1>5
      <3>2. Retried(j, authorized \cup {<<key, j>>}, Known(queue) \cup {key})
              >= Retried(j, authorized, Known(queue)) + 1
        BY RetriedOnceMore
      <3> QED BY <3>1, <3>2
    <2>2. One(j, Givable(n)) <= One(j, Givable(queue)) + 1
      BY DEF One
    <2> QED BY <1>1, <1>2, <1>3, <2>1, <2>2
  <1> QED BY <1>4, <1>5

LEMMA RetrySteps ==
    ASSUME NeverForgotten, Inv, Retry
    PROVE  Inv'
  <1> USE InvFacts
  <1> DEFINE uncertain == queue.dispatch # None /\ queue.dispatch.attempted /\ ~promptActive
             item == IF uncertain THEN Plain(queue.dispatch) ELSE queue.blocked
             key == op.retry.key
  <1>1. /\ UNCHANGED <<up, streaming, promptActive, acknowledged, users, attached, retrying, prompt,
                       online, pi, transcript, sent, accepted, removed, mistaken>>
        /\ op.step = "retry" /\ op' = NoOp
    BY DEF Retry, pi
  <1>2. key \in RetryKeys /\ key \notin Known(queue) /\ key \notin Items
    BY <1>1, ConstantsAssumption DEF GateKept, Retries
  <1>3. op' \in Ops /\ GateKept'
    BY <1>1 DEF Ops, GateKept, NoOp
  <1>4. Calling' = Calling /\ Seen' = Seen
    BY <1>1 DEF Calling, Seen
  <1>5. timer \in {"none", "armed", "fired"} /\ drain \in {"idle", "waiting", "working"}
    BY DEF TypeOK
  <1>6. CASE ~RetryResolved /\ item = None
    <2>1. UNCHANGED <<queue, disk, faults, authorized, drain, timer>>
      BY <1>6 DEF Retry
    <2>2. Typed'
      BY <1>1, <1>3, <2>1 DEF Typed, TypeOK, Ops, pi
    <2> QED BY <1>1, <1>3, <2>1, <2>2, QuietStep
  <1>7. CASE RetryResolved
    <2> DEFINE n == [queue EXCEPT !.handled = Remember(queue, key)]
    <2>1. PICK outcome \in Outcomes :
            Save(n, outcome) /\ timer' = TimerAfter(n, outcome) /\ UNCHANGED <<authorized, drain>>
      BY <1>7 DEF Retry
    <2>2. n = [queue EXCEPT !.handled = Append(queue.handled, key)]
      BY <1>2, RememberAppends
    <2> HIDE DEF n
    <2>3. Append(queue.handled, key) \in Seq(Items \cup RetryKeys)
      <3>1. queue.handled \in Seq(Items \cup RetryKeys)
        BY QueueFields
      <3> QED BY <1>2, <3>1, AppendProperties
    <2>4. /\ n \in Queue /\ n.handled = Append(queue.handled, key) /\ n.followUp = queue.followUp
          /\ n.dispatch = queue.dispatch /\ n.blocked = queue.blocked
      BY <2>2, <2>3 DEF Queue
    <2>5. /\ Lined(n) /\ Known(n) = Known(queue) \cup {key} /\ Held(n) = Held(queue)
          /\ Givable(n) \subseteq Givable(queue)
      BY <1>2, <2>4, RequestRemembered
    <2>6. n \in InBudget' /\ n \in Complete'
      BY <1>1, <1>2, <1>4, <2>1, <2>4, <2>5, BudgetHolds, CompleteHolds
    <2>7. QueuesKept' /\ faults' \in 0..MaxFaults
      BY <1>1, <1>4, <2>1, <2>5, <2>6, QueuesSaved
    <2>8. timer' \in {"none", "armed", "fired"}
      BY <2>1, TimerTypes
    <2>9. queue'.dispatch = queue.dispatch
      BY <2>1, <2>4 DEF Save
    <2> QED BY <1>1, <1>3, <1>5, <2>1, <2>7, <2>8, <2>9, SavedStep DEF TypeOK
  <1>8. CASE ~RetryResolved /\ item # None
    <2> DEFINE n == [PutBack(queue, item) EXCEPT !.handled = Remember(queue, key)]
    <2>1. PICK outcome \in Outcomes :
            /\ Save(n, outcome)
            /\ authorized' = IF outcome = "lost" THEN authorized ELSE authorized \cup {<<key, item.id>>}
            /\ IF outcome = "ok" THEN Schedule(n, Busy, attached, TimerAfter(n, outcome))
               ELSE UNCHANGED <<drain, timer>>
      BY <1>8 DEF Retry
    <2>2. Front(queue) = 1 /\ item \in Item /\ item.id = FrontId(queue)
      BY <1>8 DEF Front, FrontId, Plain, Item, Dispatch
    <2>3. promptActive => queue.dispatch = None
      BY <1>8
    <2>4. /\ Lined(n) /\ Known(n) = Known(queue) \cup {key} /\ Held(n) = Held(queue) /\ n.dispatch = None
          /\ Givable(n) \subseteq Givable(queue) \cup {item.id}
      <3>1. queue.followUp \in Seq(Item) /\ queue.handled \in Seq(Items \cup RetryKeys)
        BY QueueFields
      <3>2. Remember(queue, key) = Append(queue.handled, key)
        BY <1>2, RememberAppends
      <3>3. Remember(queue, key) \in Seq(Items \cup RetryKeys)
        BY <1>2, <3>1, <3>2, AppendProperties
      <3> HIDE DEF item, key
      <3>4. <<item>> \o queue.followUp \in Seq(Item)
        BY <2>2, <3>1, ConcatProperties
      <3>5. /\ n \in Queue /\ n.followUp = <<item>> \o queue.followUp /\ n.handled = Remember(queue, key)
            /\ n.dispatch = None /\ n.blocked = None
        BY <3>3, <3>4 DEF Queue, PutBack
      <3>6. Lined(queue)
        OBVIOUS
      <3> HIDE DEF n
      <3> QED BY ONLY NeverForgotten, <1>2, <2>2, <3>5, <3>6, RetryMoves
    <2>5. item.id \in Items
      BY <2>2 DEF Item
    <2> HIDE DEF n, item, key
    <2>6. /\ authorized \subseteq authorized' /\ authorized' \subseteq RetryKeys \X Items
          /\ IsFiniteSet(authorized')
      <3>1. <<key, item.id>> \in RetryKeys \X Items
        BY <1>2, <2>5
      <3>2. authorized \subseteq RetryKeys \X Items
        BY DEF TypeOK
      <3>3. IsFiniteSet(authorized \cup {<<key, item.id>>})
        BY FS_AddElement
      <3> QED BY <2>1, <3>1, <3>2, <3>3
    <2>7. outcome # "lost" => n \in InBudget'
      BY <1>1, <1>2, <1>4, <2>1, <2>4, <2>5, RetryAuthorized
    <2>8. n \in Complete'
      BY <1>1, <1>2, <1>4, <2>4, CompleteHolds DEF Lined
    <2>9. QueuesKept' /\ faults' \in 0..MaxFaults
      BY <1>1, <1>4, <2>1, <2>4, <2>6, <2>7, <2>8, QueuesSaved
    <2>10. timer' \in {"none", "armed", "fired"} /\ drain' \in {"idle", "waiting", "working"}
      BY <1>5, <2>1, DrainTypes, TimerTypes
    <2>11. prompt.pc = "call" => queue'.dispatch = queue.dispatch
      BY <2>1, <2>3, <2>4 DEF Save, PromptKept
    <2> QED BY <1>1, <1>3, <2>6, <2>9, <2>10, <2>11, SavedStep DEF TypeOK
  <1> QED BY <1>6, <1>7, <1>8

-----------------------------------------------------------------------------
(* Pi, the connection and the crash. *)

\* Where a prompt on the wire was before the k-th one left.
Was(k, l) == IF l < k THEN l ELSE l + 1

LEMMA WireLoses ==
    ASSUME wire \in Seq(Message), NEW k \in DOMAIN wire, wire' = Without(wire, k)
    PROVE  /\ wire' \in Seq(Message) /\ wire[k] \in Message
           /\ \A l \in DOMAIN wire' : Was(k, l) \in DOMAIN wire \ {k} /\ wire'[l] = wire[Was(k, l)]
           /\ \A l, m \in DOMAIN wire' : Was(k, l) = Was(k, m) => l = m
  <1>1. /\ wire' \in Seq(Message) /\ DOMAIN wire' = 1..(Len(wire) - 1)
        /\ \A j \in 1..(Len(wire) - 1) : wire'[j] = IF j < k THEN wire[j] ELSE wire[j + 1]
    BY WithoutProperties
  <1>2. Len(wire) \in Nat /\ DOMAIN wire = 1..Len(wire) /\ wire[k] \in Message
    BY LenProperties, ElementOfSeq
  <1>3. \A l \in DOMAIN wire' : Was(k, l) \in DOMAIN wire \ {k} /\ wire'[l] = wire[Was(k, l)]
    BY <1>1, <1>2 DEF Was
  <1>4. \A l, m \in DOMAIN wire' : Was(k, l) = Was(k, m) => l = m
    BY <1>1, <1>2 DEF Was
  <1> QED BY <1>1, <1>2, <1>3, <1>4

\* A step of Pi leaves the queues alone.
LEMMA PiStep ==
    ASSUME Inv, Typed', GateKept', PromptKept', AgentKept',
           UNCHANGED <<queue, disk, sent, accepted, removed, authorized, mistaken>>,
           Calling' \subseteq Calling, Seen \subseteq Seen'
    PROVE  Inv'
  <1>1. accepted' \subseteq Known(queue)
    BY InvFacts
  <1>2. QueuesKept'
    BY <1>1, QueuesStay
  <1> QED BY <1>2 DEF Inv

LEMMA DeliverSteps ==
    ASSUME Inv, NEW k \in DOMAIN wire, Deliver(k)
    PROVE  Inv'
  <1> USE InvFacts
  <1>1. /\ UNCHANGED <<up, queue, promptActive, acknowledged, attached, drain, timer, retrying, op, prompt,
                       online, disk, faults, sent, accepted, removed, authorized, mistaken>>
        /\ agent = None /\ wire' = Without(wire, k)
        /\ agent' = [id |-> wire[k].id, live |-> wire[k].live]
        /\ transcript' = Append(transcript, [id |-> wire[k].id, text |-> wire[k].text])
    BY DEF Deliver, history
  <1>2. users' \in Nat /\ streaming' \in BOOLEAN
    <2>1. users \in Nat /\ streaming \in BOOLEAN
      BY DEF TypeOK
    <2>2. users' = users + 1 \/ users' = users
      BY DEF Deliver
    <2>3. streaming' = TRUE \/ streaming' = streaming
      BY DEF Deliver
    <2>4. users' \in Nat
      BY ONLY <2>1, <2>2
    <2>5. streaming' \in BOOLEAN
      BY ONLY <2>1, <2>3
    <2> QED BY <2>4, <2>5
  <1>3. wire \in Seq(Message) /\ transcript \in Seq(Turn)
    BY DEF TypeOK
  <1>4. /\ wire' \in Seq(Message) /\ wire[k] \in Message
        /\ \A l \in DOMAIN wire' : Was(k, l) \in DOMAIN wire \ {k} /\ wire'[l] = wire[Was(k, l)]
        /\ \A l, m \in DOMAIN wire' : Was(k, l) = Was(k, m) => l = m
    BY <1>1, <1>3, WireLoses
  <1> DEFINE turn == [id |-> wire[k].id, text |-> wire[k].text]
  <1>5. turn \in Turn /\ turn.id = wire[k].id
    BY <1>4 DEF Turn, Message
  <1> HIDE DEF turn
  <1>6. transcript' \in Seq(Turn) /\ Seen \subseteq Seen' /\ wire[k].id \in Seen'
    <2>1. /\ Append(transcript, turn) \in Seq(Turn) /\ Len(Append(transcript, turn)) = Len(transcript) + 1
          /\ \A l \in 1..(Len(transcript) + 1) :
                Append(transcript, turn)[l] = IF l <= Len(transcript) THEN transcript[l] ELSE turn
      BY <1>3, <1>5, AppendProperties
    <2>2. /\ DOMAIN Append(transcript, turn) = 1..(Len(transcript) + 1)
          /\ DOMAIN transcript = 1..Len(transcript) /\ Len(transcript) \in Nat
      BY <1>3, <2>1, LenProperties
    <2>3. transcript' = Append(transcript, turn)
      BY <1>1 DEF turn
    <2>4. \A l \in DOMAIN transcript : l \in DOMAIN transcript' /\ transcript'[l] = transcript[l]
      BY <2>1, <2>2, <2>3
    <2>5. Len(transcript) + 1 \in DOMAIN transcript' /\ transcript'[Len(transcript) + 1] = turn
      BY <2>1, <2>2, <2>3
    <2> QED BY <1>5, <2>1, <2>3, <2>4, <2>5 DEF Seen
  <1>7. agent' \in [id : Items \cup {Manual}, live : BOOLEAN] /\ agent'.id = wire[k].id /\ agent'.live = wire[k].live
    BY <1>1, <1>4 DEF Message
  <1>8. AgentKept'
    <2>1. ASSUME NEW l \in DOMAIN wire', wire'[l].live
          PROVE  prompt.pc = "flight" /\ wire'[l].id = prompt.id /\ ~wire[k].live
      <3>1. Was(k, l) \in DOMAIN wire /\ Was(k, l) # k /\ wire[Was(k, l)].live /\ wire'[l] = wire[Was(k, l)]
        BY <1>4, <2>1
      <3> QED BY <3>1 DEF Inv, AgentKept
    <2>2. \A l, m \in DOMAIN wire' : wire'[l].live /\ wire'[m].live => l = m
      BY <1>4 DEF Inv, AgentKept
    <2>3. wire[k].live => prompt.pc = "flight" /\ wire[k].id = prompt.id
      BY DEF Inv, AgentKept
    <2> QED BY <1>1, <1>6, <1>7, <2>1, <2>2, <2>3 DEF AgentKept
  <1>9. PromptKept' /\ Calling' = Calling
    BY <1>1, <1>6 DEF PromptKept, Calling
  <1>10. GateKept'
    BY <1>1, GateStays DEF GateKept
  <1>11. Typed'
    BY <1>1, <1>2, <1>4, <1>6, <1>7 DEF Typed, TypeOK, Ops
  <1> QED BY <1>1, <1>6, <1>8, <1>9, <1>10, <1>11, PiStep

LEMMA ReturnedKeeps ==
    ASSUME Inv, prompt.pc # "idle", NEW ok \in BOOLEAN, prompt' = Returned(ok),
           UNCHANGED <<promptActive, acknowledged, transcript>>, ok => prompt.id \in Seen
    PROVE  /\ PromptKept' /\ prompt' \in Calls /\ prompt'.pc = "returned" /\ prompt'.id = prompt.id
           /\ Calling' = {} /\ Seen' = Seen
  <1>1. prompt \in Calls /\ PromptKept
    BY DEF Inv, Typed
  <1>2. /\ prompt' \in Calls /\ prompt'.pc = "returned" /\ prompt'.id = prompt.id
        /\ prompt'.text = prompt.text /\ prompt'.ok = ok
    BY <1>1 DEF Returned, Calls
  <1>3. Seen' = Seen
    BY DEF Seen
  <1> QED BY <1>1, <1>2, <1>3 DEF PromptKept, Calling

LEMMA RefuseSteps ==
    ASSUME Inv, NEW k \in DOMAIN wire, Refuse(k) \/ Lose(k)
    PROVE  Inv'
  <1> USE InvFacts
  <1>1. /\ UNCHANGED <<up, queue, streaming, users, promptActive, acknowledged, attached, drain, timer, retrying, op,
                       online, disk, agent, transcript, sent, accepted, removed, authorized, mistaken>>
        /\ wire' = Without(wire, k)
    BY DEF Refuse, Lose, history, pixie
  <1>2. prompt' = IF wire[k].live THEN Returned(FALSE) ELSE prompt
    BY DEF Refuse, Lose, pixie
  <1>3. wire \in Seq(Message) /\ faults' \in 0..MaxFaults
    <2>1. wire \in Seq(Message) /\ faults \in 0..MaxFaults /\ MaxFaults \in Nat
      BY ConstantsAssumption DEF TypeOK
    <2>2. faults' = faults \/ (faults > 0 /\ faults' = faults - 1)
      BY DEF Refuse, Lose
    <2> QED BY ONLY <2>1, <2>2
  <1>4. /\ wire' \in Seq(Message)
        /\ \A l \in DOMAIN wire' : Was(k, l) \in DOMAIN wire \ {k} /\ wire'[l] = wire[Was(k, l)]
        /\ \A l, m \in DOMAIN wire' : Was(k, l) = Was(k, m) => l = m
    BY <1>1, <1>3, WireLoses
  <1>5. GateKept'
    BY <1>1, GateStays DEF GateKept
  <1>6. Seen' = Seen
    BY <1>1 DEF Seen
  <1>7. CASE wire[k].live
    <2>1. prompt.pc = "flight" /\ ~(agent # None /\ agent.live)
      BY <1>7 DEF Inv, AgentKept
    <2>2. /\ PromptKept' /\ prompt' \in Calls /\ prompt'.pc = "returned" /\ Calling' = {}
      BY <1>1, <1>2, <1>7, <2>1, ReturnedKeeps
    <2>3. \A l \in DOMAIN wire' : ~wire'[l].live
      BY <1>4, <1>7 DEF Inv, AgentKept
    <2>4. AgentKept'
      BY <1>1, <1>6, <2>1, <2>3 DEF Inv, AgentKept
    <2>5. Typed'
      BY <1>1, <1>3, <1>4, <2>2 DEF Typed, TypeOK
    <2> QED BY <1>1, <1>5, <1>6, <2>2, <2>4, <2>5, PiStep
  <1>8. CASE ~wire[k].live
    <2>1. UNCHANGED prompt
      BY <1>2, <1>8
    <2>2. PromptKept' /\ Calling' = Calling
      BY <1>1, <1>6, <2>1 DEF PromptKept, Calling
    <2>3. AgentKept'
      <3>1. ASSUME NEW l \in DOMAIN wire', wire'[l].live
            PROVE  prompt.pc = "flight" /\ wire'[l].id = prompt.id /\ ~(agent # None /\ agent.live)
        <4>1. Was(k, l) \in DOMAIN wire /\ wire[Was(k, l)].live /\ wire'[l] = wire[Was(k, l)]
          BY <1>4, <3>1
        <4> QED BY <4>1 DEF Inv, AgentKept
      <3>2. \A l, m \in DOMAIN wire' : wire'[l].live /\ wire'[m].live => l = m
        BY <1>4 DEF Inv, AgentKept
      <3> QED BY <1>1, <1>6, <2>1, <3>1, <3>2 DEF Inv, AgentKept
    <2>4. Typed'
      BY <1>1, <1>3, <1>4, <2>1 DEF Typed, TypeOK
    <2> QED BY <1>1, <1>5, <1>6, <2>2, <2>3, <2>4, PiStep
  <1> QED BY <1>7, <1>8

LEMMA AgentSteps ==
    ASSUME Inv, Echo \/ Chunk \/ AgentEnds
    PROVE  Inv'
  <1> USE InvFacts
  <1>1. CASE Echo
    <2>1. /\ UNCHANGED <<up, queue, streaming, users, promptActive, attached, drain, timer, retrying, op, prompt,
                         online, disk, pi, wire, agent, transcript, faults, sent, accepted, removed, authorized,
                         mistaken>>
          /\ acknowledged' = TRUE /\ agent # None /\ agent.live
      BY <1>1 DEF Echo, history, pi
    <2>2. prompt.id \in Seen
      BY <2>1 DEF Inv, AgentKept
    <2>3. AgentKept' /\ Seen' = Seen
      BY <2>1, AgentStays
    <2>4. PromptKept' /\ Calling' = Calling
      BY <2>1, <2>2, <2>3 DEF PromptKept, Calling
    <2>5. GateKept'
      BY <2>1, GateStays DEF GateKept
    <2>6. Typed'
      BY <2>1 DEF Typed, TypeOK, Ops
    <2> QED BY <2>1, <2>3, <2>4, <2>5, <2>6, PiStep
  <1>2. CASE Chunk
    <2>1. /\ UNCHANGED <<up, queue, acknowledged, users, promptActive, attached, drain, timer, retrying, op, prompt,
                         online, disk, pi, wire, agent, transcript, faults, sent, accepted, removed, authorized,
                         mistaken>>
          /\ streaming' = TRUE
      BY <1>2 DEF Chunk, history, pi
    <2>2. GateKept'
      BY <2>1, GateStays DEF GateKept
    <2>3. Typed'
      BY <2>1 DEF Typed, TypeOK, Ops
    <2> QED BY <2>1, <2>2, <2>3, QuietStep
  <1>3. CASE AgentEnds
    <2>1. /\ UNCHANGED <<up, queue, promptActive, acknowledged, users, attached, retrying, op,
                         online, disk, wire, transcript, faults, sent, accepted, removed, authorized, mistaken>>
          /\ agent # None /\ agent' = None
          /\ agent.live \/ UNCHANGED prompt
      BY <1>3 DEF AgentEnds, history
    <2>2. /\ streaming' \in BOOLEAN /\ timer' \in {"none", "armed", "fired"}
          /\ drain' \in {"idle", "waiting", "working"}
      <3>1. /\ streaming \in BOOLEAN /\ timer \in {"none", "armed", "fired"}
            /\ drain \in {"idle", "waiting", "working"}
        BY DEF TypeOK
      <3>2. \/ UNCHANGED <<streaming, drain, timer>>
            \/ streaming' = FALSE /\ Schedule(queue, FALSE, attached, timer)
        BY <1>3 DEF AgentEnds
      <3> QED BY <3>1, <3>2, DrainTypes
    <2>3. /\ PromptKept' /\ prompt' \in Calls /\ Calling' \subseteq Calling /\ Seen' = Seen
          /\ agent.live \/ UNCHANGED prompt
      <3>1. CASE agent.live
        <4>1. prompt.pc = "flight" /\ prompt.id \in Seen
          BY <2>1, <3>1 DEF Inv, AgentKept
        <4>2. PICK ok \in BOOLEAN : prompt' = Returned(ok)
          BY <1>3, <3>1 DEF AgentEnds
        <4> QED BY <2>1, <3>1, <4>1, <4>2, ReturnedKeeps
      <3>2. CASE ~agent.live
        <4>1. Seen' = Seen
          BY <2>1 DEF Seen
        <4> QED BY <2>1, <3>2, <4>1 DEF PromptKept, Calling, Typed
      <3> QED BY <3>1, <3>2
    <2>4. AgentKept'
      BY <2>1, <2>3 DEF Inv, AgentKept
    <2>5. GateKept'
      BY <2>1, GateStays DEF GateKept
    <2>6. prompt'.pc \in {"idle", "call", "flight", "returned"}
      BY <2>3 DEF Calls
    <2>7. Typed'
      BY <2>1, <2>2, <2>3, <2>6 DEF Typed, TypeOK, Ops
    <2> QED BY <2>1, <2>3, <2>4, <2>5, <2>7, PiStep
  <1> QED BY <1>1, <1>2, <1>3

\* What the connection's end leaves at Pi is nobody's.
LEMMA OrphansRemain ==
    ASSUME Inv, wire' = Orphaned, agent' = Orphan, UNCHANGED transcript
    PROVE  /\ AgentKept' /\ Seen' = Seen /\ wire' \in Seq(Message)
           /\ agent' \in [id : Items \cup {Manual}, live : BOOLEAN] \cup {None}
  <1>1. /\ wire \in Seq(Message) /\ agent \in [id : Items \cup {Manual}, live : BOOLEAN] \cup {None}
        /\ (agent # None => agent.id \in Seen)
    BY DEF Inv, Typed, TypeOK, AgentKept
  <1>2. /\ Len(wire) \in Nat /\ DOMAIN wire = 1..Len(wire) /\ \A k \in DOMAIN wire : wire[k] \in Message
    BY <1>1, LenProperties, ElementOfSeq
  <1>3. \A k \in DOMAIN wire : [wire[k] EXCEPT !.live = FALSE] \in Message /\ ~[wire[k] EXCEPT !.live = FALSE].live
    BY <1>2 DEF Message
  <1>4. wire' \in [1..Len(wire) -> Message] /\ \A k \in DOMAIN wire' : ~wire'[k].live
    BY <1>2, <1>3 DEF Orphaned
  <1>5. wire' \in Seq(Message)
    BY <1>2, <1>4, SeqDef
  <1>6. Seen' = Seen
    BY DEF Seen
  <1>7. CASE agent = None
    BY <1>4, <1>5, <1>6, <1>7 DEF Orphan, AgentKept
  <1>8. CASE agent # None
    <2>1. /\ agent' = [agent EXCEPT !.live = FALSE] /\ agent \in [id : Items \cup {Manual}, live : BOOLEAN]
      BY <1>1, <1>8 DEF Orphan
    <2>2. /\ agent' \in [id : Items \cup {Manual}, live : BOOLEAN] /\ agent'.id = agent.id /\ ~agent'.live
      BY <2>1
    <2> QED BY <1>1, <1>4, <1>5, <1>6, <1>8, <2>2 DEF AgentKept
  <1> QED BY <1>7, <1>8

LEMMA DropSteps ==
    ASSUME Inv, Drop
    PROVE  Inv'
  <1> USE InvFacts
  <1>1. /\ UNCHANGED <<up, queue, streaming, promptActive, acknowledged, users, drain, timer, retrying,
                       disk, transcript, sent, accepted, removed, authorized, mistaken>>
        /\ online' = FALSE /\ attached' = (IF attached = "current" THEN "stale" ELSE attached)
        /\ wire' = Orphaned /\ agent' = Orphan
        /\ prompt' = (IF prompt.pc \in {"call", "flight"} THEN Returned(FALSE) ELSE prompt)
        /\ op' = (IF op.step = "load" THEN Failure ELSE op)
    BY DEF Drop, history
  <1>2. faults' \in 0..MaxFaults
    <2>1. faults \in 0..MaxFaults /\ MaxFaults \in Nat /\ faults > 0 /\ faults' = faults - 1
      BY ConstantsAssumption DEF TypeOK, Drop
    <2> QED BY ONLY <2>1
  <1>3. /\ AgentKept' /\ Seen' = Seen /\ wire' \in Seq(Message)
        /\ agent' \in [id : Items \cup {Manual}, live : BOOLEAN] \cup {None}
    BY <1>1, OrphansRemain
  <1>4. PromptKept' /\ prompt' \in Calls /\ prompt'.pc \in {"idle", "call", "flight", "returned"}
        /\ Calling' \subseteq Calling
    <2>1. CASE prompt.pc \in {"call", "flight"}
      BY <1>1, <2>1, ReturnedKeeps
    <2>2. CASE prompt.pc \notin {"call", "flight"}
      BY <1>1, <1>3, <2>2 DEF PromptKept, Calling, Typed, Calls
    <2> QED BY <2>1, <2>2
  <1>5. GateKept' /\ op' \in Ops
    <2>1. CASE op.step = "load"
      <3>1. op' \in {NoOp, Failure, Success} /\ Known(queue') = Known(queue)
        BY <1>1, <2>1
      <3> QED BY <3>1, GateGoesOn
    <2>2. CASE op.step # "load"
      BY <1>1, <2>2, GateStays
    <2> QED BY <2>1, <2>2
  <1>6. op'.who \in {"none", "drain", "retry", "open", "prompt"}
        /\ op'.step \in {"none", "attach", "load", "restore", "take", "attempt", "undo",
                         "retry", "submit", "done", "error"}
    BY <1>5 DEF Ops
  <1>7. attached' \in {"none", "stale", "current"}
    <2>1. attached \in {"none", "stale", "current"}
      BY DEF TypeOK
    <2> QED BY <1>1, <2>1
  <1>8. Typed'
    BY <1>1, <1>2, <1>3, <1>4, <1>5, <1>6, <1>7 DEF Typed, TypeOK
  <1> QED BY <1>1, <1>3, <1>4, <1>5, <1>8, PiStep

LEMMA CrashSteps ==
    ASSUME Inv, Crash
    PROVE  Inv'
  <1> USE InvFacts
  <1>1. /\ UNCHANGED <<disk, transcript, sent, accepted, removed, authorized, mistaken>>
        /\ up' = FALSE /\ online' = FALSE /\ queue' = disk
        /\ streaming' = FALSE /\ promptActive' = FALSE /\ acknowledged' = FALSE
        /\ users' = 0 /\ attached' = "none"
        /\ drain' = "idle" /\ timer' = "none" /\ retrying' = FALSE /\ op' = NoOp /\ prompt' = NoCall
        /\ wire' = Orphaned /\ agent' = Orphan
    BY DEF Crash
  <1>2. faults' \in 0..MaxFaults
    <2>1. faults \in 0..MaxFaults /\ MaxFaults \in Nat /\ faults > 0 /\ faults' = faults - 1
      BY ConstantsAssumption DEF TypeOK, Crash
    <2> QED BY ONLY <2>1
  <1>3. /\ AgentKept' /\ Seen' = Seen /\ wire' \in Seq(Message)
        /\ agent' \in [id : Items \cup {Manual}, live : BOOLEAN] \cup {None}
    BY <1>1, OrphansRemain
  <1>4. prompt' \in Calls /\ prompt'.pc = "idle"
    BY <1>1 DEF NoCall, Calls
  <1>5. PromptKept' /\ Calling' = {}
    BY <1>4 DEF PromptKept, Calling
  <1>6. op' \in Ops /\ GateKept'
    BY <1>1 DEF Ops, NoOp, GateKept
  <1>7. QueuesKept'
    <2>1. disk \in InBudget' /\ disk \in Queue
      BY <1>1, <1>5, BudgetHolds DEF QueuesKept, Lined
    <2>2. disk \in Complete'
      BY <1>1, <1>3 DEF QueuesKept, Complete
    <2>3. accepted \subseteq Known(disk)
      BY DEF QueuesKept
    <2> QED BY <1>1, <2>1, <2>2, <2>3 DEF QueuesKept
  <1>8. op'.who \in {"none", "drain", "retry", "open", "prompt"}
        /\ op'.step \in {"none", "attach", "load", "restore", "take", "attempt", "undo",
                         "retry", "submit", "done", "error"}
    BY <1>6 DEF Ops
  <1>9. queue' \in Queue /\ disk' \in Queue
    BY <1>7 DEF QueuesKept, Lined
  <1>10. /\ up' \in BOOLEAN /\ online' \in BOOLEAN /\ streaming' \in BOOLEAN /\ promptActive' \in BOOLEAN
         /\ acknowledged' \in BOOLEAN /\ retrying' \in BOOLEAN /\ users' \in Nat
    BY <1>1
  <1>11. Typed'
    BY <1>1, <1>2, <1>3, <1>4, <1>6, <1>8, <1>9, <1>10 DEF Typed, TypeOK
  <1> QED BY <1>3, <1>5, <1>6, <1>7, <1>11 DEF Inv

-----------------------------------------------------------------------------
(* The theorems. *)

LEMMA InitHolds == Init => Inv
  <1> SUFFICES ASSUME Init PROVE Inv
    OBVIOUS
  <1>1. /\ queue = Empty /\ disk = Empty /\ op = NoOp /\ prompt = NoCall /\ prompt.pc = "idle" /\ wire = <<>>
        /\ agent = None /\ transcript = <<>> /\ accepted = {} /\ removed = {} /\ authorized = {} /\ mistaken = {}
        /\ sent = [i \in Items \cup {Manual} |-> 0] /\ attached = "none"
    BY DEF Init, NoCall
  <1>2. <<>> \in Seq(Item) /\ <<>> \in Seq(Items \cup RetryKeys) /\ Len(<<>>) = 0 /\ DOMAIN <<>> = {}
    BY EmptySeq
  <1>3. Empty \in Queue /\ Known(Empty) = {} /\ Size(Empty) = 0
    BY <1>2 DEF Empty, Queue, Known, Size, Front
  <1>4. Lined(Empty)
    <2>1. Distinct(Empty.handled) /\ (Empty.dispatch = None \/ Empty.blocked = None)
      BY <1>2 DEF Empty, Distinct
    <2>2. Size(Empty) <= MaxQueued /\ \A n \in 1..Size(Empty) : FALSE
      BY <1>3, ConstantsAssumption
    <2> QED BY <1>3, <2>1, <2>2 DEF Lined
  <1>5. Typed
    <2>1. op \in Ops /\ prompt \in Calls /\ IsFiniteSet(authorized)
      BY <1>1, FS_EmptySet DEF Ops, Calls, NoOp, NoCall
    <2>2. <<>> \in Seq(Message) /\ <<>> \in Seq(Turn) /\ faults \in 0..MaxFaults
      BY ConstantsAssumption DEF Init
    <2>3. /\ up \in BOOLEAN /\ streaming \in BOOLEAN /\ promptActive \in BOOLEAN /\ acknowledged \in BOOLEAN
          /\ online \in BOOLEAN /\ retrying \in BOOLEAN /\ users \in Nat
          /\ drain \in {"idle", "waiting", "working"} /\ timer \in {"none", "armed", "fired"}
      BY DEF Init
    <2>4. op.who = "none" /\ op.step = "none" /\ sent \in [Items \cup {Manual} -> Nat]
      BY <1>1 DEF NoOp
    <2>5. TypeOK
      BY <1>1, <1>3, <2>2, <2>3, <2>4 DEF TypeOK
    <2> QED BY <2>1, <2>5 DEF Typed
  <1>6. Empty \in InBudget
    <2> SUFFICES ASSUME NEW i \in Items
                 PROVE  sent[i] + One(i, Givable(Empty)) + One(i, Calling) <= 1 + Retried(i, authorized, Known(Empty))
      BY <1>3 DEF InBudget
    <2>1. sent[i] = 0 /\ Calling = {} /\ One(i, Calling) = 0 /\ One(i, Givable(Empty)) \in {0, 1}
      BY <1>1 DEF Calling, One
    <2>2. Retried(i, authorized, Known(Empty)) \in Nat
      BY <1>5, RetriedGrows DEF Typed
    <2> QED BY <2>1, <2>2
  <1>7. Empty \in Complete
    BY <1>3 DEF Complete
  <1>8. QueuesKept
    BY <1>1, <1>4, <1>6, <1>7 DEF QueuesKept
  <1>9. GateKept
    BY <1>1 DEF GateKept, NoOp
  <1>10. PromptKept /\ AgentKept
    BY <1>1, <1>2 DEF PromptKept, AgentKept
  <1> QED BY <1>5, <1>8, <1>9, <1>10 DEF Inv

LEMMA NextHolds == NeverForgotten /\ Inv /\ [Next]_vars => Inv'
  <1> SUFFICES ASSUME NeverForgotten, Inv, [Next]_vars PROVE Inv'
    OBVIOUS
  <1>1. CASE Client
    <2>1. ASSUME NEW i \in Items, Enqueue(i) PROVE Inv'
      BY <2>1, EnqueueSteps
    <2> QED BY <1>1, <2>1, QuietSteps, RemoveSteps, EditSteps DEF Client
  <1>2. CASE Open \/ Operation
    BY <1>2, QuietSteps, LoadSteps, RetrySteps, SubmitSteps DEF Operation, Attach
  <1>3. CASE DrainStep
    BY <1>3, QuietSteps, RestoreSteps, TakeSteps, AttemptSteps, UndoSteps DEF DrainStep
  <1>4. CASE Background
    BY <1>4, QuietSteps, CallSteps, SettleSteps DEF Background
  <1>5. CASE Pi
    <2>1. ASSUME NEW k \in DOMAIN wire, Deliver(k) \/ Refuse(k) \/ Lose(k) PROVE Inv'
      BY <2>1, DeliverSteps, RefuseSteps
    <2> QED BY <1>5, <2>1, AgentSteps DEF Pi
  <1>6. CASE LoadFails \/ DrainTimesOut \/ SettleTimesOut \/ Connect \/ Drop \/ Crash \/ Restart
    BY <1>6, QuietSteps, AbandonSteps, DropSteps, CrashSteps
  <1>7. CASE UNCHANGED vars
    <2>1. UNCHANGED <<up, queue, streaming, promptActive, acknowledged, users, attached, drain, timer, retrying, op,
                      prompt, online, disk, pi, wire, agent, transcript, faults, sent, accepted, removed, authorized,
                      mistaken>>
      BY <1>7 DEF vars, pixie, pi, history
    <2>2. Typed'
      BY <2>1 DEF Inv, Typed, TypeOK, Ops
    <2>3. GateKept' /\ accepted' \subseteq Known(queue)
      BY <2>1, InvFacts DEF GateKept
    <2> QED BY <2>1, <2>2, <2>3, QuietStep
  <1> QED BY <1>1, <1>2, <1>3, <1>4, <1>5, <1>6, <1>7 DEF Next

\* The invariant, for any number of faults, messages and retries.
THEOREM Invariant ==
    ASSUME NeverForgotten
    PROVE  Spec => []Inv
  <1>1. Inv /\ [Next]_vars => Inv'
    BY NextHolds
  <1> QED BY InitHolds, <1>1, PTL DEF Spec

\* Every step leaves the variables in the values that session_queues.go,
\* session_actions.go and session_manager.go give them.
THEOREM TypeCorrect ==
    ASSUME NeverForgotten
    PROVE  Spec => []TypeOK
  <1>1. Inv => TypeOK
    BY DEF Inv, Typed
  <1> QED BY Invariant, <1>1, PTL

\* A message is given to Pi once, and once more for each retry that a client asked
\* for: what drainFollowUp saves before it prompts is enough for that, whatever
\* fails, is lost or is repeated, and however often.
THEOREM GivenOnce ==
    ASSUME NeverForgotten
    PROVE  Spec => []AtMostOnce
  <1>1. ASSUME Inv PROVE AtMostOnce
    <2> USE InvFacts, <1>1
    <2> SUFFICES ASSUME NEW i \in Items
                 PROVE  sent[i] <= 1 + Cardinality({r \in authorized : r[2] = i})
      BY DEF AtMostOnce
    <2>1. sent[i] + One(i, Givable(queue)) + One(i, Calling) <= 1 + Retried(i, authorized, Known(queue))
      BY DEF InBudget
    <2> DEFINE a == {r \in authorized : r[2] = i /\ r[1] \in Known(queue)}
               b == {r \in authorized : r[2] = i}
    <2>2. a \subseteq b /\ b \subseteq authorized
      OBVIOUS
    <2>3. IsFiniteSet(b)
      BY <2>2, FS_Subset
    <2>4. IsFiniteSet(a) /\ Cardinality(a) <= Cardinality(b)
      BY <2>2, <2>3, FS_Subset
    <2>5. Cardinality(a) \in Nat /\ Cardinality(b) \in Nat /\ Retried(i, authorized, Known(queue)) = Cardinality(a)
      BY <2>3, <2>4, FS_CardinalityType DEF Retried
    <2>6. sent[i] \in Nat /\ \A S : One(i, S) \in Nat
      BY DEF TypeOK, One
    <2> QED BY <2>1, <2>4, <2>5, <2>6
  <1> QED BY Invariant, <1>1, PTL

\* A message that was answered for, and that nobody removed, is in the file or in
\* Pi's transcript, and validateStoredQueues accepts the file at every point
\* where a crash may find it.
THEOREM QueueKept ==
    ASSUME NeverForgotten
    PROVE  Spec => []QueueIsKept
  <1>1. ASSUME Inv PROVE QueueIsKept
    <2>1. QueuesKept /\ TypeOK
      BY <1>1, InvFacts
    <2>2. RestartAccepts
      BY <2>1, LinedIsAccepted DEF RestartAccepts, QueuesKept
    <2>3. NothingLost
      <3> SUFFICES ASSUME NEW i \in accepted, i \notin removed
                   PROVE  i \in Held(disk) \/ InTranscript(i) \/ i \in mistaken
        BY DEF NothingLost
      <3>1. i \in Known(disk) /\ i \in Items
        BY <2>1 DEF QueuesKept, TypeOK
      <3>2. i \in Seen => InTranscript(i)
        BY DEF Seen, InTranscript
      <3> QED BY <2>1, <3>1, <3>2 DEF QueuesKept, Complete
    <2> QED BY <2>2, <2>3 DEF QueueIsKept
  <1> QED BY Invariant, <1>1, PTL

\* Messages are given to Pi in the order in which their requests were carried out.
THEOREM OrderKept ==
    ASSUME NeverForgotten
    PROVE  Spec => InOrder
  <1> DEFINE Kept == \A i, j \in Items :
                       sent'[j] > sent[j] /\ Before(i, j, queue.handled) => i \notin Held(queue)
  <1>1. ASSUME Inv, [Next]_vars PROVE [Kept]_vars
    <2> USE InvFacts, <1>1
    <2>1. CASE CallPrompt
      <3> SUFFICES ASSUME NEW i \in Items, NEW j \in Items, sent'[j] > sent[j], Before(i, j, queue.handled),
                          i \in Held(queue)
                   PROVE  FALSE
        OBVIOUS
      <3>1. j = prompt.id /\ j # Manual /\ prompt.pc = "call"
        <4>1. sent[j] \in Nat /\ sent' = [sent EXCEPT ![prompt.id] = @ + 1] /\ prompt.pc = "call"
          BY <2>1 DEF CallPrompt, TypeOK
        <4> QED BY <4>1, ConstantsAssumption DEF TypeOK
      <3>2. queue.dispatch # None /\ queue.dispatch.id = j
        BY <3>1 DEF PromptKept
      <3>3. Front(queue) = 1 /\ FrontId(queue) = j /\ Size(queue) \in Nat
        BY <3>2, QueueFields DEF Front, FrontId
      <3>4. 1 \in 1..Size(queue) /\ Line(queue)[1] = j
        <4>1. 1 \in 1..Size(queue)
          BY <3>3, QueueFields DEF Size
        <4> QED BY <3>3, <4>1, LineAt
      <3>5. PICK n \in 1..Size(queue) : Line(queue)[n] = i
        BY HeldIsLine
      <3>6. /\ queue.handled \in Seq(Items \cup RetryKeys) /\ Distinct(queue.handled)
        BY QueueFields DEF Lined
      <3>7. i # j /\ ~Before(j, i, queue.handled)
        BY <3>6, BeforeIsStrict
      <3>8. 1 < n
        BY <3>3, <3>4, <3>5, <3>7
      <3> QED BY <3>4, <3>5, <3>7, <3>8 DEF Lined
    <2>2. CASE ~CallPrompt
      <3>1. sent' = sent
        BY <2>2 DEF Next, Client, Enqueue, EnqueueAgain, RemoveQueue, EditQueue, RetryStart, PromptStart, Open,
             Operation, Attach, AlreadyAttached, BeginLoad, AttachFails, Load, Retry, PromptSubmit, OnlyOp,
             DrainStep, DrainTakesOp, DrainRestores, DrainTakesItem, DrainAttempts, DrainUndoes, DrainEnds,
             Background, RetryFollowUp, TimerFires, Settle, Pi, Deliver, Refuse, Lose, Echo, Chunk, AgentEnds,
             LoadFails, DrainTimesOut, SettleTimesOut, Connect, Drop, Crash, Restart, history, vars
      <3>2. ASSUME NEW j \in Items PROVE ~(sent'[j] > sent[j])
        <4>1. sent[j] \in Nat
          BY DEF TypeOK
        <4> QED BY ONLY <3>1, <4>1
      <3> QED BY <3>2
    <2> QED BY <2>1, <2>2
  <1> QED BY Invariant, <1>1, PTL DEF Spec, InOrder
=============================================================================
