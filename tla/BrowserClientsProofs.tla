------------------------- MODULE BrowserClientsProofs -------------------------
(***************************************************************************)
(* Proofs about BrowserClients, for every value of its constants: that a    *)
(* client is reaped only while it is away, that what a page is told is      *)
(* true, that a mutation is executed once until the server has forgotten it *)
(* or a stale goroutine ran it, that a socket never brings an older state,  *)
(* and that requests, sockets and caches together implement RemoteCalls.    *)
(*                                                                         *)
(* The invariant, Inv, follows a request from the page to its answer.  Its  *)
(* core is Over: a request is over when the page does not wait for it and   *)
(* whatever would still begin it is stale, that is, its socket is behind a  *)
(* later one that was installed.  What is over stays over.  The server      *)
(* forgets an executed mutation that has not lapsed only when it is over:   *)
(* what the page acknowledges, and what it leaves out when it resumes.      *)
(***************************************************************************)
EXTENDS BrowserClients, SequenceTheorems, TLAPS

Live(s) == serve[s] \in {"accepted", "serving"}

\* Frames that are under way in a queue.
Has(q, f) == \E n \in DOMAIN q : q[n] = f

Asked(s, i) == Has(up[s], Ask(i))

\* A goroutine of some socket took the request up.
Seen(i) == \E s \in Sockets : handler[s][i].step # "none"

\* It will, or may, be run for a socket.
Begins(s, i) == Asked(s, i) \/ handler[s][i].step = "begin"

\* Only stale sockets run it again.
Ended(i) == \A s \in Sockets : Begins(s, i) => Stale(s)

Over(i) == kind[i] # "none" /\ i \notin Pending /\ Ended(i)

\* The types of the page, of the server and of the frames between them.
PageOK ==
    /\ kind \in [Requests -> {"none", "mutation", "messages"}]
    /\ pending \in Seq(Requests) /\ got \in [Requests -> Results \cup {[is |-> "given up"]}]
    /\ at \in 0..MaxSockets /\ applied \in 0..MaxEvents

ServerOK ==
    /\ {installed, timer, reaping, opened} \subseteq 0..MaxSockets /\ fired \subseteq Sockets
    /\ serve \in [Sockets -> {"none", "accepted", "serving", "gone"}]
    /\ handler \in [Sockets -> [Requests -> Handlers]]
    /\ cache \in [Caches -> [Requests -> Entries]]
    /\ version \in 0..MaxEvents /\ target \in 0..MaxSockets
    /\ lock \in {<<>>, <<"event">>} \cup Sockets \X Requests
    /\ lock = <<"event">> => version > 0
    /\ times \in [Requests -> Nat] /\ lapsed \subseteq Requests

NetOK ==
    /\ link \in [Sockets -> {"none", "open", "broken", "shut"}]
    /\ up \in [Sockets -> Seq(FromPage)] /\ down \in [Sockets -> Seq(ToPage)]

Types == PageOK /\ ServerOK /\ NetOK

\* The sockets, as the page, the network and the server know them: they are opened
\* one after the other.
Connections ==
    /\ at # 0 => link[at] # "none"
    /\ installed # 0 => installed = opened /\ serve[installed] = "serving"
    /\ \A s \in Sockets :
         /\ s > at /\ at # 0 => link[s] = "none"
         /\ link[s] = "none" => \A r \in Sockets : r > s => link[r] = "none"
         /\ link[s] = "open" => s = at /\ Live(s)
         /\ serve[s] = "none" <=> link[s] = "none"
         /\ up[s] # <<>> => Live(s)
         /\ serve[s] \in {"none", "accepted"} => \A i \in Requests : handler[s][i].step = "none"
         /\ down[s] # <<>> => link[s] = "open"

\* What a page sends over a socket: first what it still wants, and no request twice.
Proper(q) ==
    /\ \A m, n \in DOMAIN q : q[m].is = "request" /\ q[m] = q[n] => m = n
    /\ \A n \in DOMAIN q : q[n].is = "resume" => n = 1

Asking ==
    /\ \A m, n \in DOMAIN pending : pending[m] = pending[n] => m = n
    /\ \A i \in Pending : kind[i] # "none" /\ got[i] = None
    /\ \A s \in Sockets :
         /\ Proper(up[s])
         /\ \A i \in Requests : Asked(s, i) => handler[s][i].step = "none"
         /\ \A S \in SUBSET Requests : Has(up[s], Resume(S)) =>
              \A i \in Requests : handler[s][i].step = "none"

\* What was not asked has left no trace, and what was executed was taken up.
Asks ==
    \A i \in Requests :
        /\ times[i] > 0 => Seen(i)
        /\ kind[i] = "none" =>
             /\ times[i] = 0 /\ got[i] = None
             /\ \A s \in Sockets : ~Asked(s, i) /\ handler[s][i].step = "none"
             /\ \A n \in Caches : cache[n][i] = NoEntry

\* An answer that may be given to a request of this kind, executed so often.
Fit(k, n, r) ==
    /\ r # None /\ (k = "mutation" => r \in {Done, Spent, Full})
    /\ r # Full => n > 0
Good(i, r) == Fit(kind[i], times[i], r)

Answers ==
    /\ \A i \in Requests : got[i] \notin {None, [is |-> "given up"]} => Good(i, got[i])
    /\ \A s \in Sockets, i \in Requests :
         /\ handler[s][i].step = "answer" => Good(i, handler[s][i].result)
         /\ \A r \in Results : Has(down[s], Answer(i, r)) => Good(i, r) /\ handler[s][i].step = "done"
    /\ \A n \in Caches, i \in Requests :
         /\ cache[n][i].state = "kept" => Good(i, cache[n][i].result) /\ cache[n][i].result # Full
         /\ cache[n][i].state = "spent" => times[i] > 0

\* A request that was refused is not executed after all, but by a stale goroutine.
Dead(i) == times[i] = 0 /\ Ended(i) /\ \A s \in Sockets : handler[s][i].step # "execute"

Refusals ==
    \A i \in Requests \ lapsed : kind[i] = "mutation" =>
        /\ got[i] = Full => Dead(i)
        /\ \A s \in Sockets :
             /\ Has(down[s], Answer(i, Full)) => Dead(i)
             /\ handler[s][i].step = "answer" /\ handler[s][i].result = Full /\ link[s] = "open" => Dead(i)

\* The entry of a request, and its execution.
Executions ==
    \A i \in Requests :
        /\ kind[i] = "mutation" =>
             /\ \A s \in Sockets : handler[s][i].step = "execute" =>
                  /\ cache[0][i].state = "running"
                  /\ \A r \in Sockets : handler[r][i].step = "execute" => r = s
             /\ i \notin lapsed =>
                  /\ cache[0][i].state = "running" => times[i] = 0
                  /\ times[i] > 0 /\ cache[0][i].state = "none" => Over(i)
                  /\ times[i] <= 1
        /\ kind[i] = "messages" =>
             \A s \in Sockets : handler[s][i].step \in {"none", "begin"} => cache[s][i] = NoEntry

\* What a page does not resume it either had no more use for when it connected, or it
\* has asked for it since.
Before(s, i) == i \notin Pending /\ \A r \in Sockets : r >= s => ~Begins(r, i)
Since(s, i) == \A r \in Sockets : /\ r <= s => handler[r][i].step = "none"
                                  /\ r < s => ~Asked(r, i)

Unwanted ==
    \A s \in Sockets :
        /\ \A i \in Requests : Has(up[s], Ack(i)) => Over(i)
        /\ \A S \in SUBSET Requests : Has(up[s], Resume(S)) =>
             \A i \in Requests \ S : Before(s, i) \/ Since(s, i)

\* Timers, and who is being reaped.
Reaping ==
    /\ timer # 0 => installed = 0 /\ timer = opened
    /\ reaping # 0 => installed = 0 /\ reaping = opened

\* Versions of the session, on their way to the page.
Dated(f) == f.is = "event" \/ f.result.is = "snapshot"
Date(f)  == IF f.is = "event" THEN f.version ELSE f.result.version

\* They do not decrease along a queue, and lie between two bounds.
Forward(q, from, to) ==
    \A n \in DOMAIN q : Dated(q[n]) =>
        /\ from <= Date(q[n]) /\ Date(q[n]) <= to
        /\ \A m \in 1..n : Dated(q[m]) => Date(q[m]) <= Date(q[n])

Versions ==
    /\ applied <= version
    /\ \A s \in Sockets, i \in Requests :
         handler[s][i].step = "answer" /\ handler[s][i].result.is = "snapshot" =>
             handler[s][i].result.version = version /\ lock = <<s, i>>
    /\ \A s \in Sockets : Forward(down[s], applied, version)

Inv == /\ Types /\ Connections /\ Asking /\ Asks /\ Answers
       /\ Refusals /\ Executions /\ Unwanted /\ Reaping

-----------------------------------------------------------------------------
(* Frames and queues. *)

LEMMA FramesFromPage ==
    ASSUME NEW f \in FromPage
    PROVE  /\ f.is \in {"request", "ack", "resume"}
           /\ f.is = "request" => f.id \in Requests /\ f = Ask(f.id)
           /\ f.is = "ack" => \E i \in Requests : f = Ack(i)
           /\ f.is = "resume" => f.ids \in SUBSET Requests /\ f = Resume(f.ids)
  BY DEF FromPage, Ask, Ack, Resume

LEMMA FramesDiffer ==
    ASSUME NEW i, NEW j, NEW S, NEW T
    PROVE  /\ Ask(i).is = "request" /\ Ack(i).is = "ack" /\ Resume(S).is = "resume"
           /\ Ask(i) # Ack(j) /\ Ask(i) # Resume(S) /\ Ack(i) # Resume(S)
           /\ Ask(i) = Ask(j) => i = j
           /\ Ack(i) = Ack(j) => i = j
           /\ Resume(S) = Resume(T) => S = T
           /\ Ask(i).id = i /\ Ack(i).ids = {i} /\ Resume(S).ids = S
  <1>1. /\ Ask(i).is = "request" /\ Ack(i).is = "ack" /\ Resume(S).is = "resume"
        /\ Ask(i).id = i /\ Ack(i).ids = {i} /\ Resume(S).ids = S
        /\ Ask(j).id = j /\ Ack(j).is = "ack" /\ Ack(j).ids = {j} /\ Resume(T).ids = T
    BY DEF Ask, Ack, Resume
  <1> QED BY <1>1

LEMMA FramesToPage ==
    ASSUME NEW f \in ToPage
    PROVE  \/ \E i \in Requests, r \in Results : f = Answer(i, r)
           \/ \E v \in 1..MaxEvents : f = Event(v)
  BY DEF ToPage

LEMMA AnswersDiffer ==
    ASSUME NEW i, NEW j, NEW r, NEW t, NEW v
    PROVE  /\ Answer(i, r).is = "answer" /\ Event(v).is = "event" /\ Answer(i, r) # Event(v)
           /\ Answer(i, r).id = i /\ Answer(i, r).result = r /\ Event(v).version = v
           /\ Answer(i, r) = Answer(j, t) => i = j /\ r = t
  <1>1. /\ Answer(i, r).is = "answer" /\ Event(v).is = "event"
        /\ Answer(i, r).id = i /\ Answer(i, r).result = r /\ Event(v).version = v
        /\ Answer(j, t).id = j /\ Answer(j, t).result = t
    BY DEF Answer, Event
  <1> QED BY <1>1

LEMMA HasNothing == \A f : ~Has(<<>>, f)
  BY DEF Has

LEMMA HasAppend ==
    ASSUME NEW T, NEW q \in Seq(T), NEW f \in T
    PROVE  /\ Append(q, f) \in Seq(T)
           /\ \A g : Has(Append(q, f), g) <=> Has(q, g) \/ g = f
  <1>1. /\ Append(q, f) \in Seq(T) /\ Len(Append(q, f)) = Len(q) + 1 /\ Len(q) \in Nat
        /\ \A n \in 1..Len(q) : Append(q, f)[n] = q[n]
        /\ Append(q, f)[Len(q) + 1] = f
    BY AppendProperties
  <1>2. DOMAIN Append(q, f) = 1..(Len(q) + 1) /\ DOMAIN q = 1..Len(q)
    BY <1>1
  <1>3. ASSUME NEW g PROVE Has(Append(q, f), g) <=> Has(q, g) \/ g = f
    <2>1. ASSUME Has(Append(q, f), g) PROVE Has(q, g) \/ g = f
      BY <1>1, <1>2, <2>1 DEF Has
    <2>2. ASSUME Has(q, g) PROVE Has(Append(q, f), g)
      BY <1>1, <1>2, <2>2 DEF Has
    <2>3. Has(Append(q, f), f)
      BY <1>1, <1>2 DEF Has
    <2> QED BY <2>1, <2>2, <2>3
  <1> QED BY <1>1, <1>3

LEMMA HasHeadTail ==
    ASSUME NEW T, NEW q \in Seq(T), q # <<>>
    PROVE  /\ Head(q) \in T /\ Tail(q) \in Seq(T) /\ Has(q, Head(q))
           /\ \A f : Has(Tail(q), f) => Has(q, f)
           /\ \A f : Has(q, f) => f = Head(q) \/ Has(Tail(q), f)
  <1>1. /\ Len(q) \in Nat /\ Len(q) >= 1 /\ DOMAIN q = 1..Len(q)
        /\ Head(q) = q[1] /\ Tail(q) \in Seq(T) /\ DOMAIN Tail(q) = 1..(Len(q) - 1)
        /\ \A n \in 1..(Len(q) - 1) : Tail(q)[n] = q[n + 1]
    BY HeadTailProperties
  <1>2. Head(q) \in T /\ Has(q, Head(q))
    BY <1>1 DEF Has
  <1>3. ASSUME NEW f, Has(Tail(q), f) PROVE Has(q, f)
    BY <1>1, <1>3 DEF Has
  <1>4. ASSUME NEW f, Has(q, f), f # Head(q) PROVE Has(Tail(q), f)
    <2>1. PICK n \in 1..Len(q) : q[n] = f
      BY <1>1, <1>4 DEF Has
    <2>2. n # 1 /\ n - 1 \in 1..(Len(q) - 1) /\ (n - 1) + 1 = n
      BY <1>1, <1>4, <2>1
    <2> QED BY <1>1, <2>1, <2>2 DEF Has
  <1> QED BY <1>1, <1>2, <1>3, <1>4

LEMMA ProperAppend ==
    ASSUME NEW q \in Seq(FromPage), NEW f \in FromPage, Proper(q),
           f.is # "resume", f.is = "request" => ~Has(q, f)
    PROVE  Proper(Append(q, f))
  <1>1. /\ DOMAIN Append(q, f) = 1..(Len(q) + 1) /\ DOMAIN q = 1..Len(q) /\ Len(q) \in Nat
        /\ \A n \in 1..Len(q) : Append(q, f)[n] = q[n]
        /\ Append(q, f)[Len(q) + 1] = f
    BY AppendProperties
  <1>2. f.is = "request" => \A n \in DOMAIN q : q[n] # f
    BY DEF Has
  <1> QED BY <1>1, <1>2 DEF Proper

LEMMA ProperTail ==
    ASSUME NEW q \in Seq(FromPage), q # <<>>, Proper(q)
    PROVE  /\ Proper(Tail(q))
           /\ Head(q).is = "request" => ~Has(Tail(q), Head(q))
           /\ \A f : Has(q, f) /\ f.is = "resume" => f = Head(q)
           /\ \A f : Has(Tail(q), f) => f.is # "resume"
  <1>1. /\ Len(q) \in Nat /\ Len(q) >= 1 /\ DOMAIN q = 1..Len(q)
        /\ Head(q) = q[1] /\ Tail(q) \in Seq(FromPage) /\ DOMAIN Tail(q) = 1..(Len(q) - 1)
        /\ \A n \in 1..(Len(q) - 1) : Tail(q)[n] = q[n + 1] /\ n + 1 \in DOMAIN q /\ n + 1 # 1
    BY HeadTailProperties
  <1>2. \A n \in DOMAIN Tail(q) : Tail(q)[n].is # "resume"
    BY <1>1 DEF Proper
  <1>3. Proper(Tail(q))
    BY <1>1, <1>2 DEF Proper
  <1>4. Head(q).is = "request" => ~Has(Tail(q), Head(q))
    BY <1>1 DEF Has, Proper
  <1>5. \A f : Has(q, f) /\ f.is = "resume" => f = Head(q)
    BY <1>1 DEF Has, Proper
  <1> QED BY <1>2, <1>3, <1>4, <1>5 DEF Has

\* What the page waits for, when it waits for one request less.
LEMMA OthersKept ==
    ASSUME pending \in Seq(Requests), NEW i,
           \A m, n \in DOMAIN pending : pending[m] = pending[n] => m = n
    PROVE  /\ Others(i) \in Seq(Requests)
           /\ {Others(i)[n] : n \in DOMAIN Others(i)} = Pending \ {i}
           /\ \A m, n \in DOMAIN Others(i) : Others(i)[m] = Others(i)[n] => m = n
  <1>1. CASE i \notin Pending
    BY <1>1 DEF Others, Pending
  <1>2. CASE i \in Pending
    <2> DEFINE p == CHOOSE n \in DOMAIN pending : pending[n] = i
               o == [k \in 1..(Len(pending) - 1) |-> pending[IF k < p THEN k ELSE k + 1]]
    <2>1. p \in DOMAIN pending /\ pending[p] = i
      BY <1>2 DEF Pending
    <2>2. Others(i) = o
      BY <1>2 DEF Others
    <2>3. /\ DOMAIN pending = 1..Len(pending) /\ Len(pending) \in Nat /\ Len(pending) >= 1
          /\ \A n \in 1..Len(pending) : pending[n] \in Requests
      BY <2>1
    <2>4. /\ DOMAIN o = 1..(Len(pending) - 1)
          /\ \A k \in DOMAIN o : o[k] = pending[IF k < p THEN k ELSE k + 1]
      OBVIOUS
    <2> HIDE DEF p, o
    <2>5. \A k \in DOMAIN o : (IF k < p THEN k ELSE k + 1) \in DOMAIN pending \ {p}
      BY <2>1, <2>3, <2>4
    <2>6. o \in [1..(Len(pending) - 1) -> Requests]
      <3>1. o = [k \in 1..(Len(pending) - 1) |-> o[k]]
        BY <2>4 DEF o
      <3> QED BY <2>3, <2>4, <2>5, <3>1
    <2>7. o \in Seq(Requests)
      <3>1. Len(pending) - 1 \in Nat
        BY <2>3
      <3> QED BY <2>6, <3>1
    <2>8. \A m, n \in DOMAIN o : o[m] = o[n] => m = n
      <3> SUFFICES ASSUME NEW m \in DOMAIN o, NEW n \in DOMAIN o, o[m] = o[n] PROVE m = n
        OBVIOUS
      <3>1. (IF m < p THEN m ELSE m + 1) = (IF n < p THEN n ELSE n + 1)
        BY <2>4, <2>5
      <3> QED BY <2>1, <2>3, <2>4, <3>1
    <2>9. \A n \in DOMAIN pending \ {p} : \E k \in DOMAIN o : (IF k < p THEN k ELSE k + 1) = n
      <3> SUFFICES ASSUME NEW n \in DOMAIN pending, n # p
                   PROVE  \E k \in DOMAIN o : (IF k < p THEN k ELSE k + 1) = n
        OBVIOUS
      <3>1. CASE n < p
        BY <2>1, <2>3, <2>4, <3>1
      <3>2. CASE n > p
        <4>1. n - 1 \in DOMAIN o /\ ~(n - 1 < p) /\ (n - 1) + 1 = n
          BY <2>1, <2>3, <2>4, <3>2
        <4> QED BY <4>1
      <3> QED BY <2>1, <2>3, <3>1, <3>2
    <2>10. {o[n] : n \in DOMAIN o} = Pending \ {i}
      <3>1. \A k \in DOMAIN o : o[k] \in Pending \ {i}
        BY <2>1, <2>4, <2>5 DEF Pending
      <3>2. \A j \in Pending \ {i} : \E k \in DOMAIN o : o[k] = j
        <4> SUFFICES ASSUME NEW n \in DOMAIN pending, pending[n] # i
                     PROVE  \E k \in DOMAIN o : o[k] = pending[n]
          BY DEF Pending
        <4>1. PICK k \in DOMAIN o : (IF k < p THEN k ELSE k + 1) = n
          BY <2>1, <2>9
        <4> QED BY <2>4, <4>1
      <3> QED BY <3>1, <3>2
    <2> QED BY <2>2, <2>7, <2>8, <2>10
  <1> QED BY <1>1, <1>2

-----------------------------------------------------------------------------
(* What a step does to the frames under way, and the types of the variables. *)

LEMMA PendingTypes ==
    ASSUME Types
    PROVE  /\ pending \in Seq(Requests) /\ DOMAIN pending = 1..Len(pending) /\ Len(pending) \in Nat
           /\ \A n \in 1..Len(pending) : pending[n] \in Requests
  <1>1. pending \in Seq(Requests)
    BY DEF Types, PageOK
  <1> QED BY <1>1

LEMMA NamesOfSockets ==
    ASSUME NEW s \in 0..MaxSockets, s # 0
    PROVE  s \in Sockets
  BY ConstantsAssumption DEF ConstantsAssumption, Sockets

LEMMA Ranges ==
    /\ 0 \in 0..MaxSockets /\ 0 \in 0..MaxEvents
    /\ \A s \in Sockets : s \in 0..MaxSockets /\ s # 0
    /\ \A v \in 1..MaxEvents : v \in 0..MaxEvents
  BY ConstantsAssumption DEF ConstantsAssumption, Sockets

LEMMA SentEffect ==
    ASSUME Types, NEW f \in FromPage, up' = Sent(<<f>>)
    PROVE  /\ up' \in [Sockets -> Seq(FromPage)]
           /\ \A s \in Sockets : \/ up'[s] = up[s]
                                 \/ s = at /\ link[s] = "open" /\ up'[s] = Append(up[s], f)
  <1>1. \A s \in Sockets : up[s] \o <<f>> = Append(up[s], f) /\ Append(up[s], f) \in Seq(FromPage)
    <2> SUFFICES ASSUME NEW s \in Sockets
                 PROVE  up[s] \o <<f>> = Append(up[s], f) /\ Append(up[s], f) \in Seq(FromPage)
      OBVIOUS
    <2>1. up[s] \in Seq(FromPage)
      BY DEF Types, NetOK
    <2> QED BY <2>1
  <1>2. CASE at # 0 /\ link[at] = "open"
    <2>1. at \in 0..MaxSockets
      BY DEF Types, PageOK
    <2>2. at \in Sockets
      BY <1>2, <2>1, NamesOfSockets
    <2>3. up' = [up EXCEPT ![at] = up[at] \o <<f>>]
      BY <1>2 DEF Sent
    <2> QED BY <1>1, <1>2, <2>2, <2>3 DEF Types, NetOK
  <1>3. CASE ~(at # 0 /\ link[at] = "open")
    BY <1>3 DEF Types, NetOK, Sent
  <1> QED BY <1>2, <1>3

\* What is left of a queue to its reader.
Rests(q) == {<<>>, q} \cup (IF q = <<>> THEN {} ELSE {<<Head(q)>>, Tail(q)})

LEMMA RestEffect ==
    ASSUME NEW q \in Seq(FromPage), NEW rest \in Rests(q)
    PROVE  /\ rest \in Seq(FromPage)
           /\ \A f : Has(rest, f) => Has(q, f)
           /\ Proper(q) => Proper(rest)
           /\ q = <<>> => rest = <<>>
  <1>1. CASE rest = q
    BY <1>1
  <1>2. CASE rest = <<>>
    BY <1>2, HasNothing DEF Proper
  <1>3. CASE q # <<>> /\ rest = <<Head(q)>>
    <2>1. Head(q) \in FromPage /\ Has(q, Head(q))
      BY <1>3, HasHeadTail
    <2>2. DOMAIN rest = {1} /\ rest[1] = Head(q) /\ rest \in Seq(FromPage)
      BY <1>3, <2>1
    <2> QED BY <1>3, <2>1, <2>2 DEF Has, Proper
  <1>4. CASE q # <<>> /\ rest = Tail(q)
    BY <1>4, HasHeadTail, ProperTail
  <1> QED BY <1>1, <1>2, <1>3, <1>4 DEF Rests

LEMMA RestNames ==
    ASSUME NEW s
    PROVE  /\ <<>> \in Rests(up[s]) /\ up[s] \in Rests(up[s]) /\ InHand(s) \in Rests(up[s])
           /\ up[s] # <<>> => Tail(up[s]) \in Rests(up[s])
  BY DEF Rests, InHand

LEMMA ShutEffect ==
    ASSUME Types, NEW s \in Sockets, NEW rest \in Rests(up[s]), Shut(s, rest)
    PROVE  /\ NetOK'
           /\ link'[s] = "shut" /\ up'[s] = rest /\ down'[s] = <<>>
           /\ \A r \in Sockets : r # s => link'[r] = link[r] /\ up'[r] = up[r] /\ down'[r] = down[r]
           /\ \A r \in Sockets : up'[r] \in Rests(up[r])
  <1>1. up[s] \in Seq(FromPage) /\ rest \in Seq(FromPage) /\ <<>> \in Seq(ToPage)
    <2>1. up[s] \in Seq(FromPage)
      BY DEF Types, NetOK
    <2> QED BY <2>1, RestEffect
  <1>2. /\ link' = [link EXCEPT ![s] = "shut"] /\ up' = [up EXCEPT ![s] = rest]
        /\ down' = [down EXCEPT ![s] = <<>>]
    BY DEF Shut
  <1>3. /\ NetOK'
        /\ link'[s] = "shut" /\ up'[s] = rest /\ down'[s] = <<>>
        /\ \A r \in Sockets : r # s => link'[r] = link[r] /\ up'[r] = up[r] /\ down'[r] = down[r]
    BY <1>1, <1>2 DEF Types, NetOK
  <1> QED BY <1>3 DEF Rests

\* A frame to a page is dropped, or costs its socket, or is queued.
LEMMA PushEffect ==
    ASSUME Types, NEW s \in 0..MaxSockets, NEW f \in ToPage, Push(s, f)
    PROVE  /\ NetOK'
           /\ \/ link' = link /\ up' = up /\ down' = down
              \/ s \in Sockets /\ link[s] = "open" /\ Shut(s, up[s])
              \/ /\ s \in Sockets /\ link[s] = "open" /\ link' = link /\ up' = up
                 /\ down' = [down EXCEPT ![s] = Append(down[s], f)]
  <1>1. CASE s = 0 \/ link[s] # "open"
    BY <1>1 DEF Push, net, Types, NetOK
  <1>2. CASE s # 0 /\ link[s] = "open"
    <2>1. s \in Sockets
      BY <1>2 DEF Sockets
    <2>2. CASE Shut(s, up[s])
      BY <1>2, <2>1, <2>2, ShutEffect, RestNames
    <2>3. CASE down' = [down EXCEPT ![s] = Append(down[s], f)] /\ link' = link /\ up' = up
      <3>1. down[s] \in Seq(ToPage)
        BY <2>1 DEF Types, NetOK
      <3>2. Append(down[s], f) \in Seq(ToPage)
        BY <3>1
      <3> QED BY <1>2, <2>1, <2>3, <3>2 DEF Types, NetOK
    <2> QED BY <1>2, <2>2, <2>3 DEF Push
  <1> QED BY <1>1, <1>2

\* A reader takes the first frame of its socket.
LEMMA ReadEffect ==
    ASSUME Types, NEW s \in Sockets, Reads(s), up' = [up EXCEPT ![s] = Tail(@)]
    PROVE  /\ serve[s] = "serving" /\ up[s] # <<>> /\ Frame(s) = Head(up[s])
           /\ Frame(s) \in FromPage /\ Has(up[s], Frame(s))
           /\ up' \in [Sockets -> Seq(FromPage)] /\ up'[s] = Tail(up[s])
           /\ \A r \in Sockets : r # s => up'[r] = up[r]
           /\ \A r \in Sockets : \A f : Has(up'[r], f) => Has(up[r], f)
  <1>1. up[s] \in Seq(FromPage) /\ up[s] # <<>> /\ serve[s] = "serving"
    BY DEF Types, NetOK, Reads
  <1>2. /\ Head(up[s]) \in FromPage /\ Tail(up[s]) \in Seq(FromPage) /\ Has(up[s], Head(up[s]))
        /\ \A f : Has(Tail(up[s]), f) => Has(up[s], f)
    BY <1>1, HasHeadTail
  <1>3. /\ up'[s] = Tail(up[s]) /\ \A r \in Sockets : r # s => up'[r] = up[r]
        /\ up' \in [Sockets -> Seq(FromPage)]
    BY <1>2 DEF Types, NetOK
  <1> QED BY <1>1, <1>2, <1>3 DEF Frame

\* A reconnecting page: what it wants, and all of it again.
LEMMA ConnectEffect ==
    ASSUME Types, NEW s \in Sockets, Connect(s)
    PROVE  /\ up' \in [Sockets -> Seq(FromPage)]
           /\ \A r \in Sockets : r # s => up'[r] = up[r]
           /\ \A f : Has(up'[s], f) <=> f = Resume(Pending) \/ \E i \in Pending : f = Ask(i)
           /\ (\A m, n \in DOMAIN pending : pending[m] = pending[n] => m = n) => Proper(up'[s])
  <1> DEFINE q == <<Resume(Pending)>> \o Repeated
  <1>1. /\ DOMAIN pending = 1..Len(pending) /\ Len(pending) \in Nat
        /\ \A n \in 1..Len(pending) : pending[n] \in Requests
    BY PendingTypes
  <1>2. Pending \in SUBSET Requests
    BY <1>1 DEF Pending
  <1>3. Resume(Pending) \in FromPage /\ \A i \in Requests : Ask(i) \in FromPage
    BY <1>2 DEF FromPage
  <1>4. /\ Repeated \in Seq(FromPage) /\ Len(Repeated) = Len(pending)
        /\ \A n \in 1..Len(pending) : Repeated[n] = Ask(pending[n])
    <2>1. Repeated \in [1..Len(pending) -> FromPage]
      BY <1>1, <1>3 DEF Repeated
    <2> QED BY <1>1, <2>1 DEF Repeated
  <1>5. /\ q \in Seq(FromPage) /\ Len(q) = Len(pending) + 1 /\ DOMAIN q = 1..(Len(pending) + 1)
        /\ q[1] = Resume(Pending)
        /\ \A n \in 1..Len(pending) : q[n + 1] = Ask(pending[n])
    <2>1. <<Resume(Pending)>> \in Seq(FromPage) /\ Len(<<Resume(Pending)>>) = 1
      BY <1>3
    <2>2. /\ q \in Seq(FromPage) /\ Len(q) = 1 + Len(Repeated)
          /\ \A n \in 1..(1 + Len(Repeated)) :
               q[n] = IF n <= 1 THEN <<Resume(Pending)>>[n] ELSE Repeated[n - 1]
      BY <1>4, <2>1, ConcatProperties
    <2> HIDE DEF q
    <2>3. q[1] = Resume(Pending)
      BY <1>1, <1>4, <2>2
    <2>4. \A n \in 1..Len(pending) : q[n + 1] = Ask(pending[n])
      <3> SUFFICES ASSUME NEW n \in 1..Len(pending) PROVE q[n + 1] = Ask(pending[n])
        OBVIOUS
      <3>1. n + 1 \in 1..(1 + Len(Repeated)) /\ ~(n + 1 <= 1) /\ (n + 1) - 1 = n
        BY <1>1, <1>4
      <3> QED BY <1>4, <2>2, <3>1
    <2> QED BY <1>1, <1>4, <2>2, <2>3, <2>4
  <1>6. /\ up' = [up EXCEPT ![s] = q]
    BY DEF Connect
  <1> HIDE DEF q
  <1>7. up'[s] = q /\ (\A r \in Sockets : r # s => up'[r] = up[r]) /\ up' \in [Sockets -> Seq(FromPage)]
    BY <1>5, <1>6 DEF Types, NetOK
  <1>8. \A n \in DOMAIN q : n # 1 => n - 1 \in 1..Len(pending) /\ q[n] = Ask(pending[n - 1])
    <2> SUFFICES ASSUME NEW n \in DOMAIN q, n # 1
                 PROVE  n - 1 \in 1..Len(pending) /\ q[n] = Ask(pending[n - 1])
      OBVIOUS
    <2>1. n - 1 \in 1..Len(pending) /\ (n - 1) + 1 = n
      BY <1>1, <1>5
    <2> QED BY <1>5, <2>1
  <1>9. \A f : Has(q, f) <=> f = Resume(Pending) \/ \E i \in Pending : f = Ask(i)
    <2>1. ASSUME NEW f, Has(q, f) PROVE f = Resume(Pending) \/ \E i \in Pending : f = Ask(i)
      BY <1>1, <1>5, <1>8, <2>1 DEF Has, Pending
    <2>2. Has(q, Resume(Pending))
      BY <1>1, <1>5 DEF Has
    <2>3. ASSUME NEW i \in Pending PROVE Has(q, Ask(i))
      <3>1. PICK n \in 1..Len(pending) : pending[n] = i
        BY <1>1 DEF Pending
      <3>2. n + 1 \in DOMAIN q
        BY <1>1, <1>5
      <3> QED BY <1>5, <3>1, <3>2 DEF Has
    <2> QED BY <2>1, <2>2, <2>3
  <1>10. ASSUME \A m, n \in DOMAIN pending : pending[m] = pending[n] => m = n
         PROVE  Proper(q)
    <2>1. \A n \in DOMAIN q : q[n].is = "resume" => n = 1
      BY <1>8, FramesDiffer
    <2>2. ASSUME NEW m \in DOMAIN q, NEW n \in DOMAIN q, q[m].is = "request", q[m] = q[n]
          PROVE  m = n
      <3>1. m # 1 /\ n # 1
        BY <1>5, <2>2, FramesDiffer
      <3>2. /\ m - 1 \in 1..Len(pending) /\ q[m] = Ask(pending[m - 1])
            /\ n - 1 \in 1..Len(pending) /\ q[n] = Ask(pending[n - 1])
        BY <1>8, <3>1
      <3>3. pending[m - 1] = pending[n - 1]
        <4>1. Ask(pending[m - 1]) = Ask(pending[n - 1])
          BY <2>2, <3>2
        <4> QED BY <4>1 DEF Ask
      <3>4. m - 1 = n - 1
        BY <1>1, <1>10, <3>2, <3>3
      <3> QED BY <1>5, <3>4
    <2> QED BY <2>1, <2>2 DEF Proper
  <1> QED BY <1>7, <1>9, <1>10

\* The page takes the first frame of its socket: an event, or an answer.
LEMMA ReceiveEffect ==
    ASSUME Types, Receive
    PROVE  /\ at \in Sockets /\ link[at] = "open" /\ down[at] # <<>> /\ Has(down[at], Head(down[at]))
           /\ down' \in [Sockets -> Seq(ToPage)] /\ down'[at] = Tail(down[at])
           /\ \A s \in Sockets : s # at => down'[s] = down[s]
           /\ \A s \in Sockets : \A f : Has(down'[s], f) => Has(down[s], f)
           /\ \/ \E v \in 1..MaxEvents :
                   /\ Head(down[at]) = Event(v) /\ applied' = v
                   /\ pending' = pending /\ got' = got /\ up' = up
              \/ \E i \in Requests, r \in Results :
                   /\ Head(down[at]) = Answer(i, r) /\ up' = Sent(<<Ack(i)>>)
                   /\ pending' = Others(i)
                   /\ got' = IF i \in Pending THEN [got EXCEPT ![i] = r] ELSE got
                   /\ applied' = IF r.is = "snapshot" THEN r.version ELSE applied
  <1>1. at \in Sockets /\ link[at] = "open" /\ down[at] # <<>>
    <2>1. at \in 0..MaxSockets
      BY DEF Types, PageOK
    <2> QED BY <2>1, NamesOfSockets DEF Receive
  <1>2. down[at] \in Seq(ToPage)
    BY <1>1 DEF Types, NetOK
  <1>3. /\ Head(down[at]) \in ToPage /\ Tail(down[at]) \in Seq(ToPage) /\ Has(down[at], Head(down[at]))
        /\ \A f : Has(Tail(down[at]), f) => Has(down[at], f)
    BY <1>1, <1>2, HasHeadTail
  <1>4. down' = [down EXCEPT ![at] = Tail(@)]
    BY DEF Receive
  <1>5. /\ down' \in [Sockets -> Seq(ToPage)] /\ down'[at] = Tail(down[at])
        /\ \A s \in Sockets : s # at => down'[s] = down[s]
    BY <1>1, <1>3, <1>4 DEF Types, NetOK
  <1>6. CASE \E v \in 1..MaxEvents : Head(down[at]) = Event(v)
    <2>1. PICK v \in 1..MaxEvents : Head(down[at]) = Event(v)
      BY <1>6
    <2>2. Head(down[at]).is = "event" /\ Head(down[at]).version = v
      BY <2>1, AnswersDiffer
    <2> QED BY <1>1, <1>3, <1>5, <2>1, <2>2 DEF Receive
  <1>7. CASE \E i \in Requests, r \in Results : Head(down[at]) = Answer(i, r)
    <2>1. PICK i \in Requests, r \in Results : Head(down[at]) = Answer(i, r)
      BY <1>7
    <2>2. Head(down[at]).is # "event" /\ Head(down[at]).id = i /\ Head(down[at]).result = r
      BY <2>1, AnswersDiffer
    <2> QED BY <1>1, <1>3, <1>5, <2>1, <2>2 DEF Receive
  <1> QED BY <1>3, <1>6, <1>7, FramesToPage

LEMMA ResultTypes ==
    ASSUME NEW r \in Results
    PROVE  /\ r.is = "snapshot" => r.version \in 0..MaxEvents /\ r = Snapshot(r.version)
           /\ r \in {Done, Full, Spent, None} => r.is # "snapshot"
  <1>1. Done.is = "done" /\ Full.is = "full" /\ Spent.is = "already executed" /\ None.is = "none"
    BY DEF Done, Full, Spent, None
  <1>2. ASSUME NEW v \in 0..MaxEvents, r = Snapshot(v)
        PROVE  r.is = "snapshot" /\ r.version = v
    BY <1>2 DEF Snapshot
  <1>3. r \in {Done, Full, Spent, None} \/ \E v \in 0..MaxEvents : r = Snapshot(v)
    BY DEF Results
  <1> QED BY <1>1, <1>2, <1>3

\* Steps of the page.
LEMMA TypesPage ==
    ASSUME Types, Asking,
           \/ \E i \in Requests : Issue(i) \/ GiveUp(i)
           \/ \E s \in Sockets : Connect(s) \/ Break(s)
           \/ Closed \/ Receive
    PROVE  Types'
  <1>1. PageOK /\ ServerOK /\ NetOK
    BY DEF Types
  <1>2. \A m, n \in DOMAIN pending : pending[m] = pending[n] => m = n
    BY DEF Asking
  <1>3. ASSUME NEW i \in Requests, Issue(i) PROVE Types'
    <2>1. Ask(i) \in FromPage
      BY DEF FromPage
    <2>2. up' \in [Sockets -> Seq(FromPage)]
      BY <1>3, <2>1, SentEffect DEF Issue
    <2>3. NetOK'
      BY <1>1, <1>3, <2>2 DEF Issue, NetOK
    <2>4. pending' \in Seq(Requests)
      <3>1. pending \in Seq(Requests) /\ pending' = Append(pending, i)
        BY <1>1, <1>3 DEF Issue, PageOK
      <3> QED BY <3>1
    <2>5. kind' \in [Requests -> {"none", "mutation", "messages"}]
      BY <1>1, <1>3 DEF Issue, PageOK
    <2>6. PageOK'
      BY <1>1, <1>3, <2>4, <2>5 DEF Issue, PageOK
    <2>7. ServerOK'
      BY <1>1, <1>3 DEF Issue, ServerOK, client, session
    <2> QED BY <2>3, <2>6, <2>7 DEF Types
  <1>4. ASSUME NEW i \in Requests, GiveUp(i) PROVE Types'
    <2>1. pending' \in Seq(Requests)
      BY <1>1, <1>2, <1>4, OthersKept DEF GiveUp, PageOK
    <2>2. PageOK'
      BY <1>1, <1>4, <2>1 DEF GiveUp, PageOK
    <2>3. ServerOK'
      BY <1>1, <1>4 DEF GiveUp, ServerOK, client, session
    <2>4. NetOK'
      BY <1>1, <1>4 DEF GiveUp, NetOK, net
    <2> QED BY <2>2, <2>3, <2>4 DEF Types
  <1>5. ASSUME NEW s \in Sockets, Connect(s) PROVE Types'
    <2>1. up' \in [Sockets -> Seq(FromPage)]
      BY <1>5, ConnectEffect
    <2>2. NetOK'
      BY <1>1, <1>5, <2>1 DEF Connect, NetOK
    <2>3. s \in 0..MaxSockets /\ 0 \in 0..MaxEvents
      BY Ranges
    <2>4. PageOK'
      BY <1>1, <1>5, <2>3 DEF Connect, PageOK
    <2>5. serve' \in [Sockets -> {"none", "accepted", "serving", "gone"}]
      BY <1>1, <1>5 DEF Connect, ServerOK
    <2>6. ServerOK'
      BY <1>1, <1>5, <2>5 DEF Connect, ServerOK, client, session
    <2> QED BY <2>2, <2>4, <2>6 DEF Types
  <1>6. ASSUME NEW s \in Sockets, Break(s) PROVE Types'
    <2>1. <<>> \in Seq(ToPage)
      OBVIOUS
    <2>2. NetOK'
      BY <1>1, <1>6, <2>1 DEF Break, NetOK
    <2>3. PageOK'
      BY <1>1, <1>6 DEF Break, PageOK, page
    <2>4. ServerOK'
      BY <1>1, <1>6 DEF Break, ServerOK, client, session
    <2> QED BY <2>2, <2>3, <2>4 DEF Types
  <1>7. CASE Closed
    <2>1. PageOK'
      BY <1>1, <1>7, Ranges DEF Closed, PageOK
    <2>2. ServerOK'
      BY <1>1, <1>7 DEF Closed, ServerOK, client, session
    <2>3. NetOK'
      BY <1>1, <1>7 DEF Closed, NetOK, net
    <2> QED BY <2>1, <2>2, <2>3 DEF Types
  <1>8. CASE Receive
    <2>1. UNCHANGED <<kind, at, link, serve, client, handler, cache, session, times, lapsed, opened>>
      BY <1>8 DEF Receive
    <2>2. down' \in [Sockets -> Seq(ToPage)]
      BY <1>8, ReceiveEffect
    <2>3. /\ up' \in [Sockets -> Seq(FromPage)] /\ pending' \in Seq(Requests)
          /\ got' \in [Requests -> Results \cup {[is |-> "given up"]}] /\ applied' \in 0..MaxEvents
      <3>1. ASSUME NEW v \in 1..MaxEvents, applied' = v, pending' = pending, got' = got, up' = up
            PROVE  <2>3!:
        BY <1>1, <3>1, Ranges DEF PageOK, NetOK
      <3>2. ASSUME NEW i \in Requests, NEW r \in Results, up' = Sent(<<Ack(i)>>), pending' = Others(i),
                   got' = IF i \in Pending THEN [got EXCEPT ![i] = r] ELSE got,
                   applied' = IF r.is = "snapshot" THEN r.version ELSE applied
            PROVE  <2>3!:
        <4>1. Ack(i) \in FromPage
          BY DEF FromPage
        <4>2. up' \in [Sockets -> Seq(FromPage)]
          BY <3>2, <4>1, SentEffect
        <4>3. pending' \in Seq(Requests)
          BY <1>1, <1>2, <3>2, OthersKept DEF PageOK
        <4>4. got' \in [Requests -> Results \cup {[is |-> "given up"]}]
          BY <1>1, <3>2 DEF PageOK
        <4>5. applied' \in 0..MaxEvents
          BY <1>1, <3>2, ResultTypes DEF PageOK
        <4> QED BY <4>2, <4>3, <4>4, <4>5
      <3> QED BY <1>8, <3>1, <3>2, ReceiveEffect
    <2>4. PageOK'
      BY <1>1, <2>1, <2>3 DEF PageOK
    <2>5. ServerOK'
      BY <1>1, <2>1 DEF ServerOK, client, session
    <2>6. NetOK'
      BY <1>1, <2>1, <2>2, <2>3 DEF NetOK
    <2> QED BY <2>4, <2>5, <2>6 DEF Types
  <1> QED BY <1>3, <1>4, <1>5, <1>6, <1>7, <1>8

LEMMA EntryTypes ==
    ASSUME NEW r \in Results
    PROVE  /\ [state |-> "kept", result |-> r] \in Entries
           /\ [state |-> "spent", result |-> None] \in Entries /\ NoEntry \in Entries
           /\ [step |-> "answer", result |-> r] \in Handlers
           /\ [step |-> "done", result |-> None] \in Handlers
           /\ Done \in Results /\ Full \in Results /\ Spent \in Results /\ None \in Results
           /\ \A v \in 0..MaxEvents : Snapshot(v) \in Results
  <1>1. /\ Done \in Results /\ Full \in Results /\ Spent \in Results /\ None \in Results
        /\ \A v \in 0..MaxEvents : Snapshot(v) \in Results
    BY DEF Results
  <1> HIDE DEF Results
  <1>2. /\ [state |-> "kept", result |-> r] \in Entries
        /\ [state |-> "spent", result |-> None] \in Entries /\ NoEntry \in Entries
    BY <1>1 DEF Entries, NoEntry
  <1>3. /\ [step |-> "answer", result |-> r] \in Handlers
        /\ [step |-> "done", result |-> None] \in Handlers
    BY <1>1 DEF Handlers
  <1> QED BY <1>1, <1>2, <1>3

LEMMA StepTypes ==
    ASSUME Types, NEW s \in Sockets, NEW i, NEW step \in {"begin", "wait", "execute"}
    PROVE  [handler EXCEPT ![s][i].step = step] \in [Sockets -> [Requests -> Handlers]]
  <1>1. handler \in [Sockets -> [Requests -> Handlers]]
    BY DEF Types, ServerOK
  <1>2. ASSUME NEW h \in Handlers PROVE [h EXCEPT !.step = step] \in Handlers
    BY DEF Handlers
  <1> QED BY <1>1, <1>2

\* Steps that change no goroutine and no entry to another kind of value.
LEMMA TypesConnection ==
    ASSUME Types,
           \/ \E s \in Sockets : Replace(s) \/ Remove(s) \/ Acknowledge(s) \/ Retain(s) \/ Handle(s) \/ Reap(s)
           \/ Publish \/ Published \/ Fire \/ Reaped \/ UNCHANGED vars
    PROVE  Types'
  <1>1. PageOK /\ ServerOK /\ NetOK
    BY DEF Types
  <1>2. ASSUME NEW S PROVE \A s \in Sockets : Without(s, S) \in [Caches -> [Requests -> Entries]]
    <2>1. NoEntry \in Entries
      BY EntryTypes DEF Results
    <2> QED BY <1>1, <2>1 DEF Without, ServerOK
  <1>3. ASSUME NEW s \in Sockets, Replace(s) PROVE Types'
    <2>1. NetOK'
      <3>1. CASE installed = 0
        BY <1>1, <1>3, <3>1 DEF Replace, NetOK, net
      <3>2. CASE installed # 0
        BY <1>1, <1>3, <3>2, ShutEffect, RestNames, NamesOfSockets DEF Replace, ServerOK
      <3> QED BY <3>1, <3>2
    <2>2. PageOK'
      BY <1>1, <1>3 DEF Replace, PageOK, page
    <2>3. serve' \in [Sockets -> {"none", "accepted", "serving", "gone"}]
      BY <1>1, <1>3 DEF Replace, ServerOK
    <2>4. ServerOK'
      BY <1>1, <1>3, <2>3, Ranges DEF Replace, ServerOK, session
    <2> QED BY <2>1, <2>2, <2>4 DEF Types
  <1>4. ASSUME NEW s \in Sockets, Remove(s) PROVE Types'
    <2>1. NetOK'
      <3>1. <<>> \in Seq(FromPage)
        OBVIOUS
      <3> QED BY <1>1, <1>4, <3>1 DEF Remove, NetOK
    <2>2. PageOK'
      BY <1>1, <1>4 DEF Remove, PageOK, page
    <2>3. serve' \in [Sockets -> {"none", "accepted", "serving", "gone"}]
      BY <1>1, <1>4 DEF Remove, ServerOK
    <2>4. installed' \in 0..MaxSockets /\ timer' \in 0..MaxSockets
      BY <1>1, <1>4, Ranges DEF Remove, Left, ServerOK
    <2>5. ServerOK'
      BY <1>1, <1>4, <2>3, <2>4 DEF Remove, ServerOK, session
    <2> QED BY <2>1, <2>2, <2>5 DEF Types
  <1>5. ASSUME NEW s \in Sockets, NEW S, Reads(s), up' = [up EXCEPT ![s] = Tail(@)], cache' = Without(s, S),
               UNCHANGED <<page, link, down, serve, client, handler, session, times, opened, applied>>,
               lapsed' \subseteq Requests
        PROVE  Types'
    <2>1. NetOK'
      BY <1>1, <1>5, ReadEffect DEF NetOK
    <2>2. PageOK'
      BY <1>1, <1>5 DEF PageOK, page
    <2>3. ServerOK'
      BY <1>1, <1>2, <1>5 DEF ServerOK, client, session
    <2> QED BY <2>1, <2>2, <2>3 DEF Types
  <1>6. ASSUME NEW s \in Sockets, Acknowledge(s) \/ Retain(s) PROVE Types'
    <2>1. lapsed' \subseteq Requests
      BY <1>1, <1>6 DEF Acknowledge, Retain, ServerOK
    <2> QED BY <1>5, <1>6, <2>1 DEF Acknowledge, Retain
  <1>7. ASSUME NEW s \in Sockets, Handle(s) PROVE Types'
    <2>1. NetOK'
      BY <1>1, <1>7, ShutEffect, RestNames, ReadEffect DEF Handle, NetOK
    <2>2. PageOK'
      BY <1>1, <1>7 DEF Handle, PageOK, page
    <2>3. handler' \in [Sockets -> [Requests -> Handlers]]
      <3>1. [handler EXCEPT ![s][Frame(s).id].step = "begin"] \in [Sockets -> [Requests -> Handlers]]
        BY StepTypes
      <3> QED BY <1>1, <1>7, <3>1 DEF Handle, Step, ServerOK
    <2>4. ServerOK'
      BY <1>1, <1>7, <2>3 DEF Handle, ServerOK, client, session
    <2> QED BY <2>1, <2>2, <2>4 DEF Types
  <1>8. ASSUME NEW t \in Sockets, Reap(t) PROVE Types'
    <2>1. NetOK'
      BY <1>1, <1>8 DEF Reap, NetOK, net
    <2>2. PageOK'
      BY <1>1, <1>8 DEF Reap, PageOK, page
    <2>3. timer' \in 0..MaxSockets /\ reaping' \in 0..MaxSockets /\ fired' \subseteq Sockets
      BY <1>1, <1>8, Ranges DEF Reap, Rearmed, ServerOK
    <2>4. cache' \in [Caches -> [Requests -> Entries]]
      <3>1. NoEntry \in Entries
        BY EntryTypes DEF Results
      <3> QED BY <1>1, <1>8, <3>1 DEF Reap, ServerOK
    <2>5. lapsed' \subseteq Requests
      BY <1>1, <1>8 DEF Reap, ServerOK
    <2>6. ServerOK'
      BY <1>1, <1>8, <2>3, <2>4, <2>5 DEF Reap, ServerOK, session
    <2> QED BY <2>1, <2>2, <2>6 DEF Types
  <1>9. CASE Publish
    <2>1. NetOK'
      BY <1>1, <1>9 DEF Publish, NetOK, net
    <2>2. PageOK'
      BY <1>1, <1>9 DEF Publish, PageOK, page
    <2>3. version' \in 0..MaxEvents /\ version' > 0
      BY <1>1, <1>9, ConstantsAssumption DEF Publish, ServerOK, ConstantsAssumption
    <2>4. ServerOK'
      BY <1>1, <1>9, <2>3 DEF Publish, ServerOK, client
    <2> QED BY <2>1, <2>2, <2>4 DEF Types
  <1>10. CASE Published
    <2>1. Event(version) \in ToPage
      <3>1. version \in 1..MaxEvents
        BY <1>1, <1>10 DEF Published, ServerOK
      <3> QED BY <3>1 DEF ToPage
    <2>2. target \in 0..MaxSockets
      BY <1>1 DEF ServerOK
    <2>3. NetOK'
      BY <1>10, <2>1, <2>2, PushEffect DEF Published
    <2>4. PageOK'
      BY <1>1, <1>10 DEF Published, PageOK, page
    <2>5. ServerOK'
      <3>1. <<>> # <<"event">>
        OBVIOUS
      <3> QED BY <1>1, <1>10, <3>1, Ranges DEF Published, ServerOK, client
    <2> QED BY <2>3, <2>4, <2>5 DEF Types
  <1>11. CASE Fire
    <2>1. timer \in Sockets
      BY <1>1, <1>11, NamesOfSockets DEF Fire, ServerOK
    <2>2. NetOK'
      BY <1>1, <1>11 DEF Fire, NetOK, net
    <2>3. PageOK'
      BY <1>1, <1>11 DEF Fire, PageOK, page
    <2>4. ServerOK'
      BY <1>1, <1>11, <2>1 DEF Fire, ServerOK, session
    <2> QED BY <2>2, <2>3, <2>4 DEF Types
  <1>12. CASE Reaped
    <2>1. NetOK'
      BY <1>1, <1>12 DEF Reaped, NetOK, net
    <2>2. PageOK'
      BY <1>1, <1>12 DEF Reaped, PageOK, page
    <2>3. ServerOK'
      BY <1>1, <1>12, Ranges DEF Reaped, ServerOK, session
    <2> QED BY <2>1, <2>2, <2>3 DEF Types
  <1>13. CASE UNCHANGED vars
    <2>1. NetOK' /\ PageOK'
      BY <1>1, <1>13 DEF vars, page, net, NetOK, PageOK
    <2>2. ServerOK'
      BY <1>1, <1>13 DEF vars, client, session, ServerOK
    <2> QED BY <2>1, <2>2 DEF Types
  <1> QED BY <1>3, <1>4, <1>6, <1>7, <1>8, <1>9, <1>10, <1>11, <1>12, <1>13

\* Steps of the goroutine of a request.
LEMMA TypesGoroutine ==
    ASSUME Types, NEW s \in Sockets, NEW i \in Requests, Goroutine(s, i)
    PROVE  Types'
  <1>1. PageOK /\ ServerOK /\ NetOK
    BY DEF Types
  <1>2. Namespace(s, i) \in Caches
    BY Ranges DEF Namespace, Caches
  <1>3. handler[s][i].result \in Results /\ handler[s][i].step \in {"none", "begin", "wait", "execute", "answer", "done"}
    BY <1>1 DEF ServerOK, Handlers
  <1>4. /\ Done \in Results /\ Full \in Results /\ Spent \in Results /\ None \in Results
        /\ \A v \in 0..MaxEvents : Snapshot(v) \in Results
    BY <1>3, EntryTypes
  <1>5. ASSUME NEW r \in Results
        PROVE  [handler EXCEPT ![s][i] = [step |-> "answer", result |-> r]] \in [Sockets -> [Requests -> Handlers]]
    <2>1. [step |-> "answer", result |-> r] \in Handlers
      BY EntryTypes
    <2> QED BY <1>1, <2>1 DEF ServerOK
  <1>6. CASE Run(s, i)
    <2>1. NetOK' /\ PageOK'
      BY <1>1, <1>6 DEF Run, NetOK, net, PageOK, page
    <2>2. cache[Namespace(s, i)][i].result \in Results
      BY <1>1, <1>2 DEF ServerOK, Entries
    <2>3. \A step \in {"wait", "execute"} :
            [handler EXCEPT ![s][i].step = step] \in [Sockets -> [Requests -> Handlers]]
      BY StepTypes
    <2>4. handler' \in [Sockets -> [Requests -> Handlers]]
      <3>1. \/ \E r \in Results : Reply(s, i, r)
            \/ \E step \in {"wait", "execute"} : Step(s, i, step)
        BY <1>4, <1>6, <2>2 DEF Run
      <3> QED BY <1>5, <2>3, <3>1 DEF Reply, Step
    <2>5. cache' \in [Caches -> [Requests -> Entries]]
      <3>1. [cache EXCEPT ![Namespace(s, i)][i].state = "running"] \in [Caches -> [Requests -> Entries]]
        <4>1. ASSUME NEW e \in Entries PROVE [e EXCEPT !.state = "running"] \in Entries
          BY DEF Entries
        <4> QED BY <1>1, <4>1 DEF ServerOK
      <3> QED BY <1>1, <1>6, <3>1 DEF Run, ServerOK
    <2>6. lapsed' \subseteq Requests
      BY <1>1, <1>6 DEF Run, ServerOK
    <2>7. ServerOK'
      BY <1>1, <1>6, <2>4, <2>5, <2>6 DEF Run, ServerOK, client, session
    <2> QED BY <2>1, <2>7 DEF Types
  <1>7. CASE Execute(s, i)
    <2> DEFINE r == IF kind[i] = "messages" THEN Snapshot(version) ELSE Done
    <2>1. NetOK' /\ PageOK'
      BY <1>1, <1>7 DEF Execute, NetOK, net, PageOK, page
    <2>2. r \in Results
      BY <1>1, <1>4 DEF ServerOK
    <2>3. /\ times' = [times EXCEPT ![i] = @ + 1]
          /\ cache' = [cache EXCEPT ![Namespace(s, i)][i] = Entry(Namespace(s, i), i, r)]
          /\ handler' = [u \in Sockets |-> IF u \in Told(s, i)
                    THEN [handler[u] EXCEPT ![i] = [step |-> "answer", result |-> r]] ELSE handler[u]]
          /\ lock' = IF kind[i] = "messages" THEN <<s, i>> ELSE lock
          /\ UNCHANGED <<client, opened, serve, version, target, lapsed>>
      BY <1>7 DEF Execute
    <2> HIDE DEF r
    <2>4. Entry(Namespace(s, i), i, r) \in Entries /\ [step |-> "answer", result |-> r] \in Handlers
      BY <2>2, EntryTypes DEF Entry
    <2>5. cache' \in [Caches -> [Requests -> Entries]] /\ handler' \in [Sockets -> [Requests -> Handlers]]
      BY <1>1, <2>3, <2>4 DEF ServerOK
    <2>6. times' \in [Requests -> Nat]
      BY <1>1, <2>3 DEF ServerOK
    <2>7. lock' \in {<<>>, <<"event">>} \cup Sockets \X Requests /\ (lock' = <<"event">> => version > 0)
      <3>1. <<s, i>> # <<"event">>
        OBVIOUS
      <3> QED BY <1>1, <2>3, <3>1 DEF ServerOK
    <2>8. ServerOK'
      BY <1>1, <2>3, <2>5, <2>6, <2>7 DEF ServerOK, client
    <2> QED BY <2>1, <2>8 DEF Types
  <1>8. CASE Enqueue(s, i)
    <2>1. Answer(i, handler[s][i].result) \in ToPage
      BY <1>3 DEF ToPage
    <2>2. NetOK'
      BY <1>8, <2>1, Ranges, PushEffect DEF Enqueue
    <2>3. PageOK'
      BY <1>1, <1>8 DEF Enqueue, PageOK, page
    <2>4. handler' \in [Sockets -> [Requests -> Handlers]]
      <3>1. [step |-> "done", result |-> None] \in Handlers
        BY <1>4, EntryTypes
      <3> QED BY <1>1, <1>8, <3>1 DEF Enqueue, ServerOK
    <2>5. lock' \in {<<>>, <<"event">>} \cup Sockets \X Requests /\ (lock' = <<"event">> => version > 0)
      <3>1. <<>> # <<"event">>
        OBVIOUS
      <3> QED BY <1>1, <1>8, <3>1 DEF Enqueue, ServerOK
    <2>6. ServerOK'
      BY <1>1, <1>8, <2>4, <2>5 DEF Enqueue, ServerOK, client
    <2> QED BY <2>2, <2>3, <2>6 DEF Types
  <1> QED BY <1>6, <1>7, <1>8 DEF Goroutine

LEMMA TypesNext == Types /\ Asking /\ [Next]_vars => Types'
  BY TypesPage, TypesConnection, TypesGoroutine DEF Next, Reader

-----------------------------------------------------------------------------
(* What each step leaves alone. *)

LEMMA Causes ==
    ASSUME [Next]_vars
    PROVE  /\ \/ UNCHANGED <<kind, pending, got, at>>
              \/ (\E i \in Requests : Issue(i) \/ GiveUp(i))
              \/ (\E s \in Sockets : Connect(s))
              \/ Closed \/ Receive
           /\ \/ UNCHANGED up
              \/ (\E i \in Requests : Issue(i))
              \/ (\E s \in Sockets : Connect(s) \/ Replace(s) \/ Remove(s) \/ Acknowledge(s) \/ Retain(s) \/ Handle(s))
              \/ (\E s \in Sockets, i \in Requests : Enqueue(s, i))
              \/ Receive \/ Published
           /\ \/ UNCHANGED down
              \/ (\E s \in Sockets : Break(s) \/ Replace(s) \/ Handle(s))
              \/ (\E s \in Sockets, i \in Requests : Enqueue(s, i))
              \/ Receive \/ Published
           /\ \/ UNCHANGED link
              \/ (\E s \in Sockets : Connect(s) \/ Break(s) \/ Replace(s) \/ Handle(s))
              \/ (\E s \in Sockets, i \in Requests : Enqueue(s, i))
              \/ Published
           /\ \/ UNCHANGED serve
              \/ (\E s \in Sockets : Connect(s) \/ Replace(s) \/ Remove(s))
           /\ \/ UNCHANGED handler
              \/ (\E s \in Sockets : Handle(s))
              \/ (\E s \in Sockets, i \in Requests : Run(s, i) \/ Execute(s, i) \/ Enqueue(s, i))
           /\ \/ UNCHANGED cache
              \/ (\E s \in Sockets : Acknowledge(s) \/ Retain(s) \/ Reap(s))
              \/ (\E s \in Sockets, i \in Requests : Run(s, i) \/ Execute(s, i))
           /\ \/ UNCHANGED times
              \/ (\E s \in Sockets, i \in Requests : Execute(s, i))
           /\ \/ UNCHANGED opened
              \/ (\E s \in Sockets : Replace(s))
           /\ \/ UNCHANGED installed
              \/ (\E s \in Sockets : Replace(s) \/ Remove(s))
           /\ \/ UNCHANGED <<timer, fired, reaping>>
              \/ (\E s \in Sockets : Replace(s) \/ Remove(s) \/ Reap(s))
              \/ Fire \/ Reaped
           /\ \/ UNCHANGED version
              \/ Publish
           /\ \/ UNCHANGED <<lock, target>>
              \/ (\E s \in Sockets, i \in Requests : Execute(s, i) \/ Enqueue(s, i))
              \/ Publish \/ Published
           /\ \/ UNCHANGED applied
              \/ (\E s \in Sockets : Connect(s))
              \/ Receive
           /\ \/ UNCHANGED lapsed
              \/ (\E s \in Sockets : Retain(s) \/ Reap(s))
              \/ (\E s \in Sockets, i \in Requests : Run(s, i))
  <1>1. ASSUME NEW i \in Requests, Issue(i)
        PROVE  UNCHANGED <<down, link, serve, handler, cache, times, opened, installed, timer,
                           fired, reaping, version, lock, target, applied, lapsed>>
    BY <1>1 DEF Issue, page, net, client, session
  <1>2. ASSUME NEW i \in Requests, GiveUp(i)
        PROVE  UNCHANGED <<up, down, link, serve, handler, cache, times, opened, installed, timer,
                           fired, reaping, version, lock, target, applied, lapsed>>
    BY <1>2 DEF GiveUp, page, net, client, session
  <1>3. ASSUME NEW s \in Sockets, Connect(s)
        PROVE  UNCHANGED <<down, handler, cache, times, opened, installed, timer, fired, reaping,
                           version, lock, target, lapsed>>
    BY <1>3 DEF Connect, page, net, client, session
  <1>4. ASSUME NEW s \in Sockets, Break(s)
        PROVE  UNCHANGED <<kind, pending, got, at, up, serve, handler, cache, times, opened,
                           installed, timer, fired, reaping, version, lock, target, applied, lapsed>>
    BY <1>4 DEF Break, page, net, client, session
  <1>5. ASSUME Closed
        PROVE  UNCHANGED <<up, down, link, serve, handler, cache, times, opened, installed, timer,
                           fired, reaping, version, lock, target, applied, lapsed>>
    BY <1>5 DEF Closed, page, net, client, session
  <1>6. ASSUME Receive
        PROVE  UNCHANGED <<link, serve, handler, cache, times, opened, installed, timer, fired,
                           reaping, version, lock, target, lapsed>>
    BY <1>6 DEF Receive, page, net, client, session
  <1>7. ASSUME NEW s \in Sockets, Replace(s)
        PROVE  UNCHANGED <<kind, pending, got, at, handler, cache, times, version, lock, target,
                           applied, lapsed>>
    BY <1>7 DEF Replace, page, net, client, session
  <1>8. ASSUME NEW s \in Sockets, Remove(s)
        PROVE  UNCHANGED <<kind, pending, got, at, down, link, handler, cache, times, opened,
                           version, lock, target, applied, lapsed>>
    BY <1>8 DEF Remove, page, net, client, session
  <1>9. ASSUME NEW s \in Sockets, Acknowledge(s)
        PROVE  UNCHANGED <<kind, pending, got, at, down, link, serve, handler, times, opened,
                           installed, timer, fired, reaping, version, lock, target, applied, lapsed>>
    BY <1>9 DEF Acknowledge, page, net, client, session
  <1>10. ASSUME NEW s \in Sockets, Retain(s)
        PROVE  UNCHANGED <<kind, pending, got, at, down, link, serve, handler, times, opened,
                           installed, timer, fired, reaping, version, lock, target, applied>>
    BY <1>10 DEF Retain, page, net, client, session
  <1>11. ASSUME NEW s \in Sockets, Handle(s)
        PROVE  UNCHANGED <<kind, pending, got, at, serve, cache, times, opened, installed, timer,
                           fired, reaping, version, lock, target, applied, lapsed>>
    BY <1>11 DEF Handle, page, net, client, session
  <1>12. ASSUME NEW s \in Sockets, NEW i \in Requests, Run(s, i)
        PROVE  UNCHANGED <<kind, pending, got, at, up, down, link, serve, times, opened, installed,
                           timer, fired, reaping, version, lock, target, applied>>
    BY <1>12 DEF Run, page, net, client, session
  <1>13. ASSUME NEW s \in Sockets, NEW i \in Requests, Execute(s, i)
        PROVE  UNCHANGED <<kind, pending, got, at, up, down, link, serve, opened, installed, timer,
                           fired, reaping, version, applied, lapsed>>
    BY <1>13 DEF Execute, page, net, client, session
  <1>14. ASSUME NEW s \in Sockets, NEW i \in Requests, Enqueue(s, i)
        PROVE  UNCHANGED <<kind, pending, got, at, serve, cache, times, opened, installed, timer,
                           fired, reaping, version, applied, lapsed>>
    BY <1>14 DEF Enqueue, page, net, client, session
  <1>15. ASSUME Publish
        PROVE  UNCHANGED <<kind, pending, got, at, up, down, link, serve, handler, cache, times,
                           opened, installed, timer, fired, reaping, applied, lapsed>>
    BY <1>15 DEF Publish, page, net, client, session
  <1>16. ASSUME Published
        PROVE  UNCHANGED <<kind, pending, got, at, serve, handler, cache, times, opened, installed,
                           timer, fired, reaping, version, applied, lapsed>>
    BY <1>16 DEF Published, page, net, client, session
  <1>17. ASSUME Fire
        PROVE  UNCHANGED <<kind, pending, got, at, up, down, link, serve, handler, cache, times,
                           opened, installed, version, lock, target, applied, lapsed>>
    BY <1>17 DEF Fire, page, net, client, session
  <1>18. ASSUME NEW s \in Sockets, Reap(s)
        PROVE  UNCHANGED <<kind, pending, got, at, up, down, link, serve, handler, times, opened,
                           installed, version, lock, target, applied>>
    BY <1>18 DEF Reap, page, net, client, session
  <1>19. ASSUME Reaped
        PROVE  UNCHANGED <<kind, pending, got, at, up, down, link, serve, handler, cache, times,
                           opened, installed, version, lock, target, applied, lapsed>>
    BY <1>19 DEF Reaped, page, net, client, session
  <1>20. CASE UNCHANGED vars
    BY <1>20 DEF vars, page, net, client, session
  <1>21. CASE Next
    <2>1. \/ UNCHANGED <<kind, pending, got, at>>
          \/ (\E i \in Requests : Issue(i) \/ GiveUp(i))
          \/ (\E s \in Sockets : Connect(s))
          \/ Closed \/ Receive
      BY <1>21, <1>4, <1>7, <1>8, <1>9, <1>10, <1>11, <1>12, <1>13, <1>14, <1>15, <1>16, <1>17,
         <1>18, <1>19 DEF Next, Reader, Goroutine
    <2>2. \/ UNCHANGED up
          \/ (\E i \in Requests : Issue(i))
          \/ (\E s \in Sockets : Connect(s) \/ Replace(s) \/ Remove(s) \/ Acknowledge(s) \/ Retain(s) \/ Handle(s))
          \/ (\E s \in Sockets, i \in Requests : Enqueue(s, i))
          \/ Receive \/ Published
      BY <1>21, <1>2, <1>4, <1>5, <1>12, <1>13, <1>15, <1>17, <1>18, <1>19 DEF Next, Reader,
         Goroutine
    <2>3. \/ UNCHANGED down
          \/ (\E s \in Sockets : Break(s) \/ Replace(s) \/ Handle(s))
          \/ (\E s \in Sockets, i \in Requests : Enqueue(s, i))
          \/ Receive \/ Published
      BY <1>21, <1>1, <1>2, <1>3, <1>5, <1>8, <1>9, <1>10, <1>12, <1>13, <1>15, <1>17, <1>18,
         <1>19 DEF Next, Reader, Goroutine
    <2>4. \/ UNCHANGED link
          \/ (\E s \in Sockets : Connect(s) \/ Break(s) \/ Replace(s) \/ Handle(s))
          \/ (\E s \in Sockets, i \in Requests : Enqueue(s, i))
          \/ Published
      BY <1>21, <1>1, <1>2, <1>5, <1>6, <1>8, <1>9, <1>10, <1>12, <1>13, <1>15, <1>17, <1>18,
         <1>19 DEF Next, Reader, Goroutine
    <2>5. \/ UNCHANGED serve
          \/ (\E s \in Sockets : Connect(s) \/ Replace(s) \/ Remove(s))
      BY <1>21, <1>1, <1>2, <1>4, <1>5, <1>6, <1>9, <1>10, <1>11, <1>12, <1>13, <1>14, <1>15,
         <1>16, <1>17, <1>18, <1>19 DEF Next, Reader, Goroutine
    <2>6. \/ UNCHANGED handler
          \/ (\E s \in Sockets : Handle(s))
          \/ (\E s \in Sockets, i \in Requests : Run(s, i) \/ Execute(s, i) \/ Enqueue(s, i))
      BY <1>21, <1>1, <1>2, <1>3, <1>4, <1>5, <1>6, <1>7, <1>8, <1>9, <1>10, <1>15, <1>16, <1>17,
         <1>18, <1>19 DEF Next, Reader, Goroutine
    <2>7. \/ UNCHANGED cache
          \/ (\E s \in Sockets : Acknowledge(s) \/ Retain(s) \/ Reap(s))
          \/ (\E s \in Sockets, i \in Requests : Run(s, i) \/ Execute(s, i))
      BY <1>21, <1>1, <1>2, <1>3, <1>4, <1>5, <1>6, <1>7, <1>8, <1>11, <1>14, <1>15, <1>16, <1>17,
         <1>19 DEF Next, Reader, Goroutine
    <2>8. \/ UNCHANGED times
          \/ (\E s \in Sockets, i \in Requests : Execute(s, i))
      BY <1>21, <1>1, <1>2, <1>3, <1>4, <1>5, <1>6, <1>7, <1>8, <1>9, <1>10, <1>11, <1>12, <1>14,
         <1>15, <1>16, <1>17, <1>18, <1>19 DEF Next, Reader, Goroutine
    <2>9. \/ UNCHANGED opened
          \/ (\E s \in Sockets : Replace(s))
      BY <1>21, <1>1, <1>2, <1>3, <1>4, <1>5, <1>6, <1>8, <1>9, <1>10, <1>11, <1>12, <1>13, <1>14,
         <1>15, <1>16, <1>17, <1>18, <1>19 DEF Next, Reader, Goroutine
    <2>10. \/ UNCHANGED installed
          \/ (\E s \in Sockets : Replace(s) \/ Remove(s))
      BY <1>21, <1>1, <1>2, <1>3, <1>4, <1>5, <1>6, <1>9, <1>10, <1>11, <1>12, <1>13, <1>14, <1>15,
         <1>16, <1>17, <1>18, <1>19 DEF Next, Reader, Goroutine
    <2>11. \/ UNCHANGED <<timer, fired, reaping>>
          \/ (\E s \in Sockets : Replace(s) \/ Remove(s) \/ Reap(s))
          \/ Fire \/ Reaped
      BY <1>21, <1>1, <1>2, <1>3, <1>4, <1>5, <1>6, <1>9, <1>10, <1>11, <1>12, <1>13, <1>14, <1>15,
         <1>16 DEF Next, Reader, Goroutine
    <2>12. \/ UNCHANGED version
          \/ Publish
      BY <1>21, <1>1, <1>2, <1>3, <1>4, <1>5, <1>6, <1>7, <1>8, <1>9, <1>10, <1>11, <1>12, <1>13,
         <1>14, <1>16, <1>17, <1>18, <1>19 DEF Next, Reader, Goroutine
    <2>13. \/ UNCHANGED <<lock, target>>
          \/ (\E s \in Sockets, i \in Requests : Execute(s, i) \/ Enqueue(s, i))
          \/ Publish \/ Published
      BY <1>21, <1>1, <1>2, <1>3, <1>4, <1>5, <1>6, <1>7, <1>8, <1>9, <1>10, <1>11, <1>12, <1>17,
         <1>18, <1>19 DEF Next, Reader, Goroutine
    <2>14. \/ UNCHANGED applied
          \/ (\E s \in Sockets : Connect(s))
          \/ Receive
      BY <1>21, <1>1, <1>2, <1>4, <1>5, <1>7, <1>8, <1>9, <1>10, <1>11, <1>12, <1>13, <1>14, <1>15,
         <1>16, <1>17, <1>18, <1>19 DEF Next, Reader, Goroutine
    <2>15. \/ UNCHANGED lapsed
           \/ (\E s \in Sockets : Retain(s) \/ Reap(s))
           \/ (\E s \in Sockets, i \in Requests : Run(s, i))
      BY <1>21, <1>1, <1>2, <1>3, <1>4, <1>5, <1>6, <1>7, <1>8, <1>9, <1>11, <1>13, <1>14, <1>15,
         <1>16, <1>17, <1>19 DEF Next, Reader, Goroutine
    <2> QED BY <2>1, <2>2, <2>3, <2>4, <2>5, <2>6, <2>7, <2>8, <2>9, <2>10, <2>11, <2>12, <2>13, <2>14, <2>15
  <1> QED BY <1>20, <1>21

-----------------------------------------------------------------------------
(* What each step may change. *)

\* Where a frame to the server comes from.
LEMMA UpMoves ==
    ASSUME Types, [Next]_vars, NEW s \in Sockets, NEW f, Has(up'[s], f)
    PROVE  \/ Has(up[s], f)
           \/ s = at /\ link[s] = "open" /\ \E i \in Requests : Issue(i) /\ f = Ask(i)
           \/ Connect(s) /\ (f = Resume(Pending) \/ \E i \in Pending : f = Ask(i))
           \/ s = at /\ link[s] = "open" /\ Receive /\ \E i \in Requests, r \in Results :
                Head(down[s]) = Answer(i, r) /\ f = Ack(i)
  <1>1. ASSUME NEW g \in FromPage, up' = Sent(<<g>>), ~Has(up[s], f)
        PROVE  s = at /\ link[s] = "open" /\ f = g
    <2>1. up[s] \in Seq(FromPage)
      BY DEF Types, NetOK
    <2>2. \A h : Has(Append(up[s], g), h) <=> Has(up[s], h) \/ h = g
      BY <2>1, HasAppend
    <2>3. up'[s] = up[s] \/ (s = at /\ link[s] = "open" /\ up'[s] = Append(up[s], g))
      BY <1>1, SentEffect
    <2> QED BY <1>1, <2>2, <2>3
  <1>2. ASSUME NEW i \in Requests, Issue(i), ~Has(up[s], f)
        PROVE  s = at /\ link[s] = "open" /\ f = Ask(i)
    <2>1. Ask(i) \in FromPage /\ up' = Sent(<<Ask(i)>>)
      BY <1>2 DEF FromPage, Issue
    <2> QED BY <1>1, <1>2, <2>1
  <1>3. ASSUME NEW r \in Sockets, Connect(r), ~Has(up[s], f)
        PROVE  Connect(s) /\ (f = Resume(Pending) \/ \E i \in Pending : f = Ask(i))
    BY <1>3, ConnectEffect
  <1>4. ASSUME Receive, ~Has(up[s], f)
        PROVE  s = at /\ link[s] = "open" /\ \E i \in Requests, r \in Results :
                 Head(down[s]) = Answer(i, r) /\ f = Ack(i)
    <2>1. PICK i \in Requests, r \in Results : Head(down[at]) = Answer(i, r) /\ up' = Sent(<<Ack(i)>>)
      <3>1. up' # up
        BY <1>4
      <3> QED BY <1>4, <3>1, ReceiveEffect
    <2>2. Ack(i) \in FromPage
      BY DEF FromPage
    <2>3. s = at /\ link[s] = "open" /\ f = Ack(i)
      BY <1>1, <1>4, <2>1, <2>2
    <2> QED BY <2>1, <2>3
  <1>5. ASSUME NEW r \in Sockets, NEW q \in Rests(up[r]), Shut(r, q) PROVE Has(up[s], f)
    <2>1. up'[s] \in Rests(up[s]) /\ up[s] \in Seq(FromPage)
      BY <1>5, ShutEffect DEF Types, NetOK
    <2> QED BY <2>1, RestEffect
  <1>6. ASSUME NEW r \in Sockets, Replace(r) \/ Acknowledge(r) \/ Retain(r) \/ Handle(r)
        PROVE  Has(up[s], f)
    <2>1. CASE Reads(r) /\ up' = [up EXCEPT ![r] = Tail(@)]
      BY <2>1, ReadEffect
    <2>2. CASE Shut(r, <<>>)
      BY <1>5, <2>2, RestNames
    <2>3. CASE Replace(r)
      BY <1>5, <2>3, RestNames, NamesOfSockets DEF Replace, net, Types, ServerOK
    <2> QED BY <1>6, <2>1, <2>2, <2>3 DEF Acknowledge, Retain, Handle
  <1>7. ASSUME NEW r \in Sockets, NEW i \in Requests, Enqueue(r, i)
        PROVE  Has(up[s], f)
    <2>1. Push(r, Answer(i, handler[r][i].result))
      BY <1>7 DEF Enqueue
    <2> QED BY <1>5, <2>1, RestNames DEF Push, net
  <1>8. CASE Published
    <2>1. Push(target, Event(version)) /\ (target # 0 => target \in Sockets)
      BY <1>8, NamesOfSockets DEF Published, Types, ServerOK
    <2> QED BY <1>5, <2>1, RestNames DEF Push, net
  <1>10. ASSUME NEW r \in Sockets, Remove(r) PROVE Has(up[s], f)
    <2>1. up'[s] = <<>> \/ up'[s] = up[s]
      BY <1>10 DEF Remove, Types, NetOK
    <2> QED BY <2>1, HasNothing
  <1>9. \/ UNCHANGED up
        \/ (\E i \in Requests : Issue(i))
        \/ (\E r \in Sockets : Connect(r) \/ Replace(r) \/ Remove(r) \/ Acknowledge(r) \/ Retain(r) \/ Handle(r))
        \/ (\E r \in Sockets, i \in Requests : Enqueue(r, i))
        \/ Receive \/ Published
    BY Causes
  <1> QED BY <1>2, <1>3, <1>4, <1>6, <1>7, <1>8, <1>9, <1>10

\* Where a frame to the page comes from.
LEMMA DownMoves ==
    ASSUME Types, [Next]_vars, NEW s \in Sockets, NEW f, Has(down'[s], f)
    PROVE  \/ Has(down[s], f)
           \/ link[s] = "open" /\ link' = link /\ \E i \in Requests :
                Enqueue(s, i) /\ f = Answer(i, handler[s][i].result)
           \/ link[s] = "open" /\ link' = link /\ Published /\ f = Event(version)
  <1>1. ASSUME NEW r \in Sockets, NEW q \in Rests(up[r]), Shut(r, q) PROVE Has(down[s], f)
    <2>1. down'[s] = <<>> \/ down'[s] = down[s]
      BY <1>1, ShutEffect
    <2> QED BY <2>1, HasNothing
  <1>2. ASSUME NEW r \in 0..MaxSockets, NEW g \in ToPage, Push(r, g), ~Has(down[s], f)
        PROVE  link[s] = "open" /\ link' = link /\ f = g /\ r = s
    <2>1. \/ link' = link /\ up' = up /\ down' = down
          \/ r \in Sockets /\ link[r] = "open" /\ Shut(r, up[r])
          \/ /\ r \in Sockets /\ link[r] = "open" /\ link' = link /\ up' = up
             /\ down' = [down EXCEPT ![r] = Append(down[r], g)]
      BY <1>2, PushEffect
    <2>2. down \in [Sockets -> Seq(ToPage)]
      BY DEF Types, NetOK
    <2>3. \A h : Has(Append(down[s], g), h) <=> Has(down[s], h) \/ h = g
      BY <2>2, HasAppend
    <2> QED BY <1>1, <1>2, <2>1, <2>2, <2>3, RestNames
  <1>3. ASSUME NEW r \in Sockets, NEW i \in Requests, Enqueue(r, i), ~Has(down[s], f)
        PROVE  link[s] = "open" /\ link' = link /\ Enqueue(s, i) /\ f = Answer(i, handler[s][i].result)
    <2>1. Answer(i, handler[r][i].result) \in ToPage
      BY DEF Types, ServerOK, Handlers, ToPage
    <2>2. Push(r, Answer(i, handler[r][i].result)) /\ r \in 0..MaxSockets
      BY <1>3, Ranges DEF Enqueue
    <2> QED BY <1>2, <1>3, <2>1, <2>2
  <1>4. ASSUME Published, ~Has(down[s], f)
        PROVE  link[s] = "open" /\ link' = link /\ f = Event(version)
    <2>1. Event(version) \in ToPage
      <3>1. version \in 1..MaxEvents
        BY <1>4 DEF Published, Types, ServerOK
      <3> QED BY <3>1 DEF ToPage
    <2>2. Push(target, Event(version)) /\ target \in 0..MaxSockets
      BY <1>4 DEF Published, Types, ServerOK
    <2> QED BY <1>2, <1>4, <2>1, <2>2
  <1>5. ASSUME NEW r \in Sockets, Break(r) PROVE Has(down[s], f)
    <2>1. down'[s] = <<>> \/ down'[s] = down[s]
      BY <1>5 DEF Break, Types, NetOK
    <2> QED BY <2>1, HasNothing
  <1>6. ASSUME NEW r \in Sockets, Replace(r) \/ Handle(r) PROVE Has(down[s], f)
    <2>1. CASE Shut(r, <<>>)
      BY <1>1, <2>1, RestNames
    <2>2. CASE Replace(r)
      BY <1>1, <2>2, RestNames, NamesOfSockets DEF Replace, net, Types, ServerOK
    <2> QED BY <1>6, <2>1, <2>2 DEF Handle
  <1>7. CASE Receive
    BY <1>7, ReceiveEffect
  <1>8. \/ UNCHANGED down
        \/ (\E r \in Sockets : Break(r) \/ Replace(r) \/ Handle(r))
        \/ (\E r \in Sockets, i \in Requests : Enqueue(r, i))
        \/ Receive \/ Published
    BY Causes
  <1> QED BY <1>3, <1>4, <1>5, <1>6, <1>7, <1>8

\* A connection only gets worse.
LEMMA LinkMoves ==
    ASSUME Types, Connections, [Next]_vars, NEW s \in Sockets
    PROVE  \/ link'[s] = link[s]
           \/ Connect(s) /\ link[s] = "none" /\ link'[s] = "open"
           \/ link[s] # "none" /\ link'[s] \in {"broken", "shut"} /\ down'[s] = <<>>
  <1>1. ASSUME NEW r \in Sockets, NEW q \in Rests(up[r]), Shut(r, q), link[r] # "none"
        PROVE  link'[s] = link[s] \/ (link[s] # "none" /\ link'[s] = "shut" /\ down'[s] = <<>>)
    BY <1>1, ShutEffect
  <1>2. link \in [Sockets -> {"none", "open", "broken", "shut"}]
    BY DEF Types, NetOK
  <1>3. ASSUME NEW r \in Sockets, Connect(r)
        PROVE  link'[s] = link[s] \/ (Connect(s) /\ link[s] = "none" /\ link'[s] = "open")
    BY <1>2, <1>3 DEF Connect
  <1>4. ASSUME NEW r \in Sockets, Break(r)
        PROVE  link'[s] = link[s] \/ (link[s] # "none" /\ link'[s] = "broken" /\ down'[s] = <<>>)
    BY <1>2, <1>4 DEF Break, Types, NetOK
  <1>5. ASSUME NEW r \in Sockets, Replace(r) \/ Handle(r)
        PROVE  link'[s] = link[s] \/ (link[s] # "none" /\ link'[s] = "shut" /\ down'[s] = <<>>)
    <2>1. CASE Handle(r)
      <3>1. link[r] # "none"
        BY <2>1 DEF Connections, Handle, Reads
      <3> QED BY <1>1, <2>1, <3>1, RestNames DEF Handle
    <2>2. CASE Replace(r)
      <3>1. installed # 0 => installed \in Sockets /\ link[installed] # "none"
        BY NamesOfSockets DEF Types, ServerOK, Connections
      <3> QED BY <1>1, <2>2, <3>1, RestNames DEF Replace, net
    <2> QED BY <1>5, <2>1, <2>2
  <1>6. ASSUME NEW r \in Sockets, NEW i \in Requests, Enqueue(r, i)
        PROVE  link'[s] = link[s] \/ (link[s] # "none" /\ link'[s] = "shut" /\ down'[s] = <<>>)
    <2>1. (link[r] = "open" /\ Shut(r, up[r])) \/ link' = link
      BY <1>6 DEF Enqueue, Push, net
    <2> QED BY <1>1, <2>1, RestNames
  <1>7. ASSUME Published
        PROVE  link'[s] = link[s] \/ (link[s] # "none" /\ link'[s] = "shut" /\ down'[s] = <<>>)
    <2>1. (target \in Sockets /\ link[target] = "open" /\ Shut(target, up[target])) \/ link' = link
      BY <1>7, NamesOfSockets DEF Published, Push, net, Types, ServerOK
    <2> QED BY <1>1, <2>1, RestNames
  <1>8. \/ UNCHANGED link
        \/ (\E r \in Sockets : Connect(r) \/ Break(r) \/ Replace(r) \/ Handle(r))
        \/ (\E r \in Sockets, i \in Requests : Enqueue(r, i))
        \/ Published
    BY Causes
  <1> QED BY <1>3, <1>4, <1>5, <1>6, <1>7, <1>8

\* The goroutine of a socket only goes on.
LEMMA ServeMoves ==
    ASSUME Types, [Next]_vars, NEW s \in Sockets
    PROVE  \/ serve'[s] = serve[s]
           \/ Connect(s) /\ serve'[s] = "accepted"
           \/ Replace(s) /\ serve[s] = "accepted" /\ serve'[s] = "serving"
           \/ Remove(s) /\ serve[s] = "serving" /\ serve'[s] = "gone"
  <1>1. serve \in [Sockets -> {"none", "accepted", "serving", "gone"}]
    BY DEF Types, ServerOK
  <1>2. ASSUME NEW r \in Sockets, Connect(r)
        PROVE  serve'[s] = serve[s] \/ (Connect(s) /\ serve'[s] = "accepted")
    BY <1>1, <1>2 DEF Connect
  <1>3. ASSUME NEW r \in Sockets, Replace(r)
        PROVE  serve'[s] = serve[s] \/ (Replace(s) /\ serve[s] = "accepted" /\ serve'[s] = "serving")
    BY <1>1, <1>3 DEF Replace
  <1>4. ASSUME NEW r \in Sockets, Remove(r)
        PROVE  serve'[s] = serve[s] \/ (Remove(s) /\ serve[s] = "serving" /\ serve'[s] = "gone")
    BY <1>1, <1>4 DEF Remove
  <1>5. UNCHANGED serve \/ (\E r \in Sockets : Connect(r) \/ Replace(r) \/ Remove(r))
    BY Causes
  <1> QED BY <1>2, <1>3, <1>4, <1>5

\* The goroutine of a request.
LEMMA HandlerMoves ==
    ASSUME Types, [Next]_vars, NEW s \in Sockets, NEW i \in Requests
    PROVE  \/ handler'[s][i] = handler[s][i]
           \/ /\ Handle(s) /\ serve[s] = "serving" /\ up[s] # <<>> /\ Head(up[s]) = Ask(i)
              /\ Has(up[s], Ask(i)) /\ up'[s] = Tail(up[s]) /\ handler'[s][i].step = "begin"
           \/ /\ Run(s, i) /\ handler[s][i].step = "begin"
              /\ handler'[s][i].step \in {"answer", "wait", "execute"}
           \/ /\ \E r \in Sockets : Execute(r, i) /\ s \in Told(r, i)
              /\ handler[s][i].step \in {"execute", "wait"}
              /\ handler'[s][i] = [step |-> "answer", result |->
                    IF kind[i] = "messages" THEN Snapshot(version) ELSE Done]
           \/ /\ Enqueue(s, i) /\ handler[s][i].step = "answer"
              /\ handler'[s][i] = [step |-> "done", result |-> None]
  <1>1. handler \in [Sockets -> [Requests -> Handlers]]
    BY DEF Types, ServerOK
  <1>2. ASSUME NEW r \in Sockets, Handle(r), handler'[s][i] # handler[s][i]
        PROVE  /\ Handle(s) /\ serve[s] = "serving" /\ up[s] # <<>> /\ Head(up[s]) = Ask(i)
               /\ Has(up[s], Ask(i)) /\ up'[s] = Tail(up[s]) /\ handler'[s][i].step = "begin"
    <2>1. Reads(r) /\ Frame(r).is = "request" /\ Step(r, Frame(r).id, "begin") /\ up' = [up EXCEPT ![r] = Tail(@)]
      BY <1>2 DEF Handle
    <2>2. r = s /\ i = Frame(s).id
      BY <1>1, <1>2, <2>1 DEF Step
    <2>3. handler'[s][i].step = "begin"
      <3>1. [handler[s][i] EXCEPT !.step = "begin"].step = "begin"
        BY <1>1 DEF Handlers
      <3> QED BY <1>1, <2>1, <2>2, <3>1 DEF Step
    <2>4. /\ serve[s] = "serving" /\ up[s] # <<>> /\ Frame(s) = Head(up[s]) /\ Frame(s) \in FromPage
          /\ Has(up[s], Frame(s)) /\ up'[s] = Tail(up[s])
      BY <2>1, <2>2, ReadEffect
    <2>5. Frame(s) = Ask(i)
      BY <2>1, <2>2, <2>4, FramesFromPage
    <2> QED BY <1>2, <2>2, <2>3, <2>4, <2>5
  <1>3. ASSUME NEW r \in Sockets, NEW j \in Requests, Run(r, j), handler'[s][i] # handler[s][i]
        PROVE  /\ Run(s, i) /\ handler[s][i].step = "begin"
               /\ handler'[s][i].step \in {"answer", "wait", "execute"}
    <2>1. handler[r][j].step = "begin" /\ \/ \E x : Reply(r, j, x)
                                          \/ \E x \in {"wait", "execute"} : Step(r, j, x)
      BY <1>3 DEF Run
    <2>2. r = s /\ i = j
      BY <1>1, <1>3, <2>1 DEF Step, Reply
    <2>3. ASSUME NEW x, Reply(s, i, x) PROVE handler'[s][i].step = "answer"
      BY <1>1, <2>3 DEF Reply
    <2>4. ASSUME NEW x \in {"wait", "execute"}, Step(s, i, x) PROVE handler'[s][i].step = x
      <3>1. [handler[s][i] EXCEPT !.step = x].step = x
        BY <1>1 DEF Handlers
      <3> QED BY <1>1, <2>4, <3>1 DEF Step
    <2> QED BY <1>3, <2>1, <2>2, <2>3, <2>4
  <1>4. ASSUME NEW r \in Sockets, NEW j \in Requests, Execute(r, j), handler'[s][i] # handler[s][i]
        PROVE  /\ Execute(r, i) /\ s \in Told(r, i)
               /\ handler[s][i].step \in {"execute", "wait"}
               /\ handler'[s][i] = [step |-> "answer", result |->
                    IF kind[i] = "messages" THEN Snapshot(version) ELSE Done]
    <2> DEFINE x == IF kind[j] = "messages" THEN Snapshot(version) ELSE Done
    <2>1. /\ handler[r][j].step = "execute"
          /\ handler' = [u \in Sockets |-> IF u \in Told(r, j)
                THEN [handler[u] EXCEPT ![j] = [step |-> "answer", result |-> x]] ELSE handler[u]]
      BY <1>4 DEF Execute
    <2> HIDE DEF x
    <2>2. s \in Told(r, j) /\ i = j /\ handler'[s][i] = [step |-> "answer", result |-> x]
      BY <1>1, <1>4, <2>1
    <2>3. handler[s][j].step \in {"execute", "wait"}
      BY <2>1, <2>2 DEF Told, Waiters
    <2> QED BY <1>4, <2>2, <2>3 DEF x
  <1>5. ASSUME NEW r \in Sockets, NEW j \in Requests, Enqueue(r, j), handler'[s][i] # handler[s][i]
        PROVE  /\ Enqueue(s, i) /\ handler[s][i].step = "answer"
               /\ handler'[s][i] = [step |-> "done", result |-> None]
    BY <1>1, <1>5 DEF Enqueue
  <1>6. \/ UNCHANGED handler
        \/ (\E r \in Sockets : Handle(r))
        \/ (\E r \in Sockets, j \in Requests : Run(r, j) \/ Execute(r, j) \/ Enqueue(r, j))
    BY Causes
  <1> QED BY <1>2, <1>3, <1>4, <1>5, <1>6

\* The page's requests and answers.
LEMMA PageMoves ==
    ASSUME Types, Asking, [Next]_vars, NEW i \in Requests
    PROVE  /\ kind'[i] = kind[i] \/ (Issue(i) /\ kind[i] = "none" /\ kind'[i] # "none")
           /\ i \in Pending' => i \in Pending \/ Issue(i)
           /\ at' = at \/ at' = 0 \/ (at = 0 /\ \E s \in Sockets : Connect(s) /\ at' = s)
           /\ \/ got'[i] = got[i]
              \/ GiveUp(i) /\ i \in Pending /\ i \notin Pending' /\ got'[i] = [is |-> "given up"]
              \/ /\ Receive /\ i \in Pending /\ i \notin Pending'
                 /\ got'[i] \in Results /\ Head(down[at]) = Answer(i, got'[i])
           /\ \A m, n \in DOMAIN pending' : pending'[m] = pending'[n] => m = n
  <1>1. /\ kind \in [Requests -> {"none", "mutation", "messages"}] /\ pending \in Seq(Requests)
        /\ got \in [Requests -> Results \cup {[is |-> "given up"]}]
    BY DEF Types, PageOK
  <1>2. /\ \A m, n \in DOMAIN pending : pending[m] = pending[n] => m = n
        /\ \A j \in Pending : kind[j] # "none"
    BY DEF Asking
  <1>3. ASSUME NEW j, pending' = Others(j)
        PROVE  /\ Pending' = Pending \ {j}
               /\ \A m, n \in DOMAIN pending' : pending'[m] = pending'[n] => m = n
    <2>1. /\ {Others(j)[n] : n \in DOMAIN Others(j)} = Pending \ {j}
          /\ \A m, n \in DOMAIN Others(j) : Others(j)[m] = Others(j)[n] => m = n
      BY <1>1, <1>2, OthersKept
    <2> HIDE DEF Others
    <2>2. Pending' = {pending'[n] : n \in DOMAIN pending'}
      BY DEF Pending
    <2> QED BY <1>3, <2>1, <2>2
  <1>4. ASSUME NEW j \in Requests, Issue(j)
        PROVE  /\ kind'[i] = kind[i] \/ (Issue(i) /\ kind[i] = "none" /\ kind'[i] # "none")
               /\ i \in Pending' => i \in Pending \/ Issue(i)
               /\ at' = at /\ got' = got
               /\ \A m, n \in DOMAIN pending' : pending'[m] = pending'[n] => m = n
    <2>1. j \notin Pending /\ kind[j] = "none" /\ at' = at /\ got' = got
      BY <1>2, <1>4 DEF Issue
    <2>2. kind'[i] = kind[i] \/ (i = j /\ kind'[i] # "none")
      BY <1>1, <1>4 DEF Issue
    <2>3. /\ DOMAIN pending' = 1..(Len(pending) + 1) /\ Len(pending) \in Nat /\ DOMAIN pending = 1..Len(pending)
          /\ \A n \in 1..Len(pending) : pending'[n] = pending[n]
          /\ pending'[Len(pending) + 1] = j
      <3> DEFINE q == Append(pending, j)
      <3>1. pending' = q
        BY <1>4 DEF Issue
      <3>2. pending \in Seq(Requests)
        BY <1>1
      <3>3. /\ q \in Seq(Requests) /\ Len(q) = Len(pending) + 1
            /\ \A n \in 1..Len(pending) : q[n] = pending[n]
            /\ q[Len(pending) + 1] = j
        BY <3>2, AppendProperties
      <3>4. Len(pending) \in Nat /\ DOMAIN pending = 1..Len(pending)
        BY <3>2
      <3> HIDE DEF q
      <3>5. DOMAIN q = 1..(Len(pending) + 1)
        BY <3>3, <3>4
      <3> QED BY <3>1, <3>3, <3>4, <3>5
    <2>4. \A n \in DOMAIN pending : pending[n] # j
      BY <2>1 DEF Pending
    <2>5. \A m, n \in DOMAIN pending' : pending'[m] = pending'[n] => m = n
      BY <1>2, <2>3, <2>4
    <2>6. i \in Pending' => i \in Pending \/ i = j
      <3>1. Pending' = {pending'[n] : n \in DOMAIN pending'}
        BY DEF Pending
      <3> QED BY <2>3, <3>1 DEF Pending
    <2> QED BY <1>4, <2>1, <2>2, <2>5, <2>6
  <1>5. ASSUME NEW j \in Requests, GiveUp(j)
        PROVE  /\ kind' = kind /\ at' = at /\ Pending' = Pending \ {j} /\ j \in Pending
               /\ got'[i] = got[i] \/ (i = j /\ got'[i] = [is |-> "given up"])
               /\ \A m, n \in DOMAIN pending' : pending'[m] = pending'[n] => m = n
    BY <1>1, <1>3, <1>5 DEF GiveUp
  <1>6. ASSUME NEW s \in Sockets, Connect(s)
        PROVE  kind' = kind /\ pending' = pending /\ got' = got /\ at' = s /\ at = 0
    BY <1>6 DEF Connect
  <1>7. ASSUME Closed
        PROVE  kind' = kind /\ pending' = pending /\ got' = got /\ at' = 0
    BY <1>7 DEF Closed
  <1>8. ASSUME Receive
        PROVE  /\ kind' = kind /\ at' = at /\ (i \in Pending' => i \in Pending)
               /\ \/ got'[i] = got[i]
                  \/ /\ i \in Pending /\ i \notin Pending'
                     /\ got'[i] \in Results /\ Head(down[at]) = Answer(i, got'[i])
               /\ \A m, n \in DOMAIN pending' : pending'[m] = pending'[n] => m = n
    <2>1. kind' = kind /\ at' = at
      BY <1>8 DEF Receive
    <2>2. CASE pending' = pending /\ got' = got
      BY <1>2, <2>1, <2>2 DEF Pending
    <2>3. ASSUME NEW j \in Requests, NEW r \in Results, Head(down[at]) = Answer(j, r), pending' = Others(j),
                 got' = IF j \in Pending THEN [got EXCEPT ![j] = r] ELSE got
          PROVE  /\ i \in Pending' => i \in Pending
                 /\ \/ got'[i] = got[i]
                    \/ /\ i \in Pending /\ i \notin Pending'
                       /\ got'[i] \in Results /\ Head(down[at]) = Answer(i, got'[i])
                 /\ \A m, n \in DOMAIN pending' : pending'[m] = pending'[n] => m = n
      <3>1. /\ Pending' = Pending \ {j}
            /\ \A m, n \in DOMAIN pending' : pending'[m] = pending'[n] => m = n
        BY <1>3, <2>3
      <3>2. got'[i] = got[i] \/ (i = j /\ j \in Pending /\ got'[i] = r)
        BY <1>1, <2>3
      <3> QED BY <2>1, <2>3, <3>1, <3>2
    <2>4. \/ pending' = pending /\ got' = got
          \/ \E j \in Requests, r \in Results :
               /\ Head(down[at]) = Answer(j, r) /\ pending' = Others(j)
               /\ got' = IF j \in Pending THEN [got EXCEPT ![j] = r] ELSE got
      BY <1>8, ReceiveEffect
    <2> QED BY <2>1, <2>2, <2>3, <2>4
  <1>9. CASE UNCHANGED <<kind, pending, got, at>>
    BY <1>2, <1>9 DEF Pending
  <1>10. \/ UNCHANGED <<kind, pending, got, at>>
         \/ (\E j \in Requests : Issue(j) \/ GiveUp(j))
         \/ (\E s \in Sockets : Connect(s))
         \/ Closed \/ Receive
    BY Causes
  <1>11. ASSUME pending' = pending
         PROVE Pending' = Pending /\ \A m, n \in DOMAIN pending' : pending'[m] = pending'[n] => m = n
    BY <1>2, <1>11 DEF Pending
  <1> QED BY <1>4, <1>5, <1>6, <1>7, <1>8, <1>9, <1>10, <1>11

\* The answers that are kept.
LEMMA CacheMoves ==
    ASSUME Types, [Next]_vars, NEW n \in Caches, NEW i \in Requests
    PROVE  \/ cache'[n][i] = cache[n][i]
           \/ /\ Settled(cache[n][i]) /\ cache'[n][i] = NoEntry
              /\ \E s \in Sockets :
                   /\ serve[s] = "serving" /\ n \in {0, s}
                   /\ \/ Has(up[s], Ack(i))
                      \/ /\ times[i] > 0 /\ Stale(s) => i \in lapsed'
                         /\ \E S \in SUBSET Requests : Has(up[s], Resume(S)) /\ i \notin S
           \/ /\ cache[n][i].state = "none" /\ cache'[n][i].state = "running"
              /\ \E s \in Sockets : Run(s, i) /\ n = Namespace(s, i) /\ handler'[s][i].step = "execute"
           \/ \E s \in Sockets : /\ Execute(s, i) /\ n = Namespace(s, i)
                                 /\ cache'[n][i] = Entry(n, i, IF kind[i] = "messages" THEN Snapshot(version) ELSE Done)
           \/ /\ n = 0 /\ cache'[n][i] = NoEntry /\ ~Unsettled
              /\ times[i] > 0 => i \in lapsed'
              /\ \E t \in Sockets : Reap(t) /\ timer = t /\ t \in fired /\ installed = 0
  <1>1. cache \in [Caches -> [Requests -> Entries]] /\ handler \in [Sockets -> [Requests -> Handlers]]
    BY DEF Types, ServerOK
  <1>2. ASSUME NEW s \in Sockets, NEW S, cache' = Without(s, S), cache'[n][i] # cache[n][i]
        PROVE  n \in {0, s} /\ i \in S /\ Settled(cache[n][i]) /\ cache'[n][i] = NoEntry
    BY <1>2 DEF Without
  <1>3. ASSUME NEW s \in Sockets, Acknowledge(s) \/ Retain(s), cache'[n][i] # cache[n][i]
        PROVE  /\ Settled(cache[n][i]) /\ cache'[n][i] = NoEntry
               /\ serve[s] = "serving" /\ n \in {0, s}
               /\ \/ Has(up[s], Ack(i))
                  \/ /\ times[i] > 0 /\ Stale(s) => i \in lapsed'
                     /\ \E S \in SUBSET Requests : Has(up[s], Resume(S)) /\ i \notin S
    <2>1. Reads(s) /\ up' = [up EXCEPT ![s] = Tail(@)]
      BY <1>3 DEF Acknowledge, Retain
    <2>2. serve[s] = "serving" /\ Frame(s) \in FromPage /\ Has(up[s], Frame(s))
      BY <2>1, ReadEffect
    <2>3. CASE Frame(s).is = "ack" /\ cache' = Without(s, Frame(s).ids)
      <3>1. PICK j \in Requests : Frame(s) = Ack(j)
        BY <2>2, <2>3, FramesFromPage
      <3>2. Frame(s).ids = {j}
        BY <3>1, FramesDiffer
      <3> QED BY <1>2, <1>3, <2>2, <2>3, <3>1, <3>2
    <2>4. CASE Retain(s)
      <3>1. Frame(s).ids \in SUBSET Requests /\ Frame(s) = Resume(Frame(s).ids)
        BY <2>2, <2>4, FramesFromPage DEF Retain
      <3>2. /\ n \in {0, s} /\ i \in Requests \ Frame(s).ids /\ Settled(cache[n][i]) /\ cache'[n][i] = NoEntry
        BY <1>2, <1>3, <2>4 DEF Retain
      <3>3. Has(up[s], Resume(Frame(s).ids))
        BY <2>2, <3>1
      <3>4. times[i] > 0 /\ Stale(s) => i \in lapsed'
        BY <2>4, <3>2 DEF Retain
      <3> QED BY <2>2, <3>1, <3>2, <3>3, <3>4
    <2> QED BY <1>3, <2>3, <2>4 DEF Acknowledge
  <1>4. ASSUME NEW t \in Sockets, Reap(t), cache'[n][i] # cache[n][i]
        PROVE  /\ n = 0 /\ cache'[n][i] = NoEntry /\ ~Unsettled
               /\ times[i] > 0 => i \in lapsed'
               /\ timer = t /\ t \in fired /\ installed = 0
    BY <1>1, <1>4 DEF Reap, Mine
  <1>5. ASSUME NEW s \in Sockets, NEW j \in Requests, Run(s, j), cache'[n][i] # cache[n][i]
        PROVE  /\ cache[n][i].state = "none" /\ cache'[n][i].state = "running"
               /\ Run(s, i) /\ n = Namespace(s, i) /\ handler'[s][i].step = "execute"
    <2>1. /\ cache[Namespace(s, j)][j].state = "none"
          /\ cache' = [cache EXCEPT ![Namespace(s, j)][j].state = "running"]
          /\ handler' = [handler EXCEPT ![s][j].step = "execute"]
      BY <1>5 DEF Run, Step
    <2>2. i = j /\ n = Namespace(s, i)
      BY <1>1, <1>5, <2>1
    <2>3. [cache[n][i] EXCEPT !.state = "running"].state = "running"
      BY <1>1 DEF Entries
    <2>4. [handler[s][i] EXCEPT !.step = "execute"].step = "execute"
      BY <1>1 DEF Handlers
    <2> QED BY <1>1, <1>5, <2>1, <2>2, <2>3, <2>4
  <1>6. ASSUME NEW s \in Sockets, NEW j \in Requests, Execute(s, j), cache'[n][i] # cache[n][i]
        PROVE  /\ Execute(s, i) /\ n = Namespace(s, i)
               /\ cache'[n][i] = Entry(n, i, IF kind[i] = "messages" THEN Snapshot(version) ELSE Done)
    <2> DEFINE r == IF kind[j] = "messages" THEN Snapshot(version) ELSE Done
    <2>1. cache' = [cache EXCEPT ![Namespace(s, j)][j] = Entry(Namespace(s, j), j, r)]
      BY <1>6 DEF Execute
    <2> HIDE DEF r
    <2>2. i = j /\ n = Namespace(s, i)
      BY <1>1, <1>6, <2>1
    <2>3. cache'[n][i] = Entry(n, i, r)
      BY <1>1, <2>1, <2>2
    <2> QED BY <1>6, <2>2, <2>3 DEF r
  <1>7. \/ UNCHANGED cache
        \/ (\E s \in Sockets : Acknowledge(s) \/ Retain(s) \/ Reap(s))
        \/ (\E s \in Sockets, j \in Requests : Run(s, j) \/ Execute(s, j))
    BY Causes
  <1> QED BY <1>3, <1>4, <1>5, <1>6, <1>7

LEMMA TimesMoves ==
    ASSUME Types, [Next]_vars, NEW i \in Requests
    PROVE  \/ times'[i] = times[i]
           \/ times'[i] = times[i] + 1 /\ \E s \in Sockets : Execute(s, i) /\ handler[s][i].step = "execute"
  <1>1. times \in [Requests -> Nat]
    BY DEF Types, ServerOK
  <1>2. ASSUME NEW s \in Sockets, NEW j \in Requests, Execute(s, j)
        PROVE  times'[i] = times[i] \/ (times'[i] = times[i] + 1 /\ i = j /\ handler[s][i].step = "execute")
    BY <1>1, <1>2 DEF Execute
  <1>3. UNCHANGED times \/ \E s \in Sockets, j \in Requests : Execute(s, j)
    BY Causes
  <1> QED BY <1>2, <1>3

\* A request lapses because it was executed, or when a stale goroutine runs it.
LEMMA LapsedMoves ==
    ASSUME Types, [Next]_vars, NEW i \in Requests
    PROVE  /\ i \in lapsed => i \in lapsed'
           /\ i \in lapsed' \ lapsed => times[i] > 0 \/ \E s \in Sockets : Run(s, i)
           /\ \A s \in Sockets : Run(s, i) /\ handler'[s][i].step = "execute" /\ Stale(s) => i \in lapsed'
  <1>1. UNCHANGED lapsed
        \/ (\E s \in Sockets : Retain(s) \/ Reap(s))
        \/ (\E s \in Sockets, j \in Requests : Run(s, j))
    BY Causes
  <1>2. /\ i \in lapsed => i \in lapsed'
        /\ i \in lapsed' \ lapsed => times[i] > 0 \/ \E s \in Sockets : Run(s, i)
    <2>1. ASSUME NEW s \in Sockets, Retain(s) PROVE <1>2!:
      BY <2>1 DEF Retain
    <2>2. ASSUME NEW s \in Sockets, Reap(s) PROVE <1>2!:
      BY <2>2 DEF Reap
    <2>3. ASSUME NEW s \in Sockets, NEW j \in Requests, Run(s, j) PROVE <1>2!:
      <3>1. lapsed' = lapsed \/ lapsed' = lapsed \cup {j}
        BY <2>3 DEF Run
      <3> QED BY <2>3, <3>1
    <2> QED BY <1>1, <2>1, <2>2, <2>3
  <1>3. ASSUME NEW s \in Sockets, Run(s, i), handler'[s][i].step = "execute", Stale(s)
        PROVE  i \in lapsed'
    <2>1. handler \in [Sockets -> [Requests -> Handlers]]
      BY DEF Types, ServerOK
    <2>2. ASSUME NEW r, Reply(s, i, r) PROVE handler'[s][i].step = "answer"
      BY <2>1, <2>2 DEF Reply
    <2>3. ASSUME Step(s, i, "wait") PROVE handler'[s][i].step = "wait"
      <3>1. [handler[s][i] EXCEPT !.step = "wait"].step = "wait"
        BY <2>1 DEF Handlers
      <3> QED BY <2>1, <2>3, <3>1 DEF Step
    <2>4. (\E r : Reply(s, i, r)) \/ Step(s, i, "wait") \/ lapsed' = IF Stale(s) THEN lapsed \cup {i} ELSE lapsed
      BY <1>3 DEF Run
    <2> QED BY <1>3, <2>2, <2>3, <2>4
  <1> QED BY <1>2, <1>3

LEMMA StaleStays ==
    ASSUME Types, Connections, [Next]_vars
    PROVE  /\ \A s : Stale(s) => Stale(s)'
           /\ \A s \in Sockets : serve[s] \in {"serving", "gone"} => serve'[s] \in {"serving", "gone"}
  <1>1. ASSUME NEW s \in Sockets, serve[s] \in {"serving", "gone"}
        PROVE  serve'[s] \in {"serving", "gone"}
    <2>1. ~Connect(s)
      BY <1>1 DEF Connect, Connections
    <2> QED BY <1>1, <2>1, ServeMoves
  <1> QED BY <1>1 DEF Stale

\* What is not under way comes under way only when a page connects or asks anew.
LEMMA Onward ==
    ASSUME Types, Connections, Asking, [Next]_vars, NEW i \in Requests
    PROVE  /\ kind[i] # "none" => kind'[i] = kind[i]
           /\ i \in Pending' => i \in Pending \/ kind[i] = "none"
           /\ \A s \in Sockets :
                /\ Asked(s, i)' =>
                     Asked(s, i) \/ kind[i] = "none" \/ (i \in Pending /\ at = 0 /\ Connect(s))
                /\ Begins(s, i)' =>
                     Begins(s, i) \/ kind[i] = "none" \/ (i \in Pending /\ at = 0 /\ Connect(s))
                /\ handler'[s][i].step = "begin" => Begins(s, i)
                /\ handler'[s][i].step = "execute" =>
                     \/ handler[s][i].step = "execute"
                     \/ handler[s][i].step = "begin" /\ (Stale(s) => i \in lapsed')
                /\ handler[s][i].step # "none" => handler'[s][i].step # "none"
           /\ times[i] \in Nat /\ times'[i] \in Nat /\ times'[i] >= times[i]
           /\ times'[i] # times[i] => \E s \in Sockets : handler[s][i].step = "execute"
           /\ i \in lapsed => i \in lapsed'
  <1>1. Issue(i) => kind[i] = "none"
    BY DEF Issue
  <1>2. (kind[i] # "none" => kind'[i] = kind[i]) /\ (i \in Pending' => i \in Pending \/ kind[i] = "none")
    BY <1>1, PageMoves
  <1>3. ASSUME NEW s \in Sockets, Has(up'[s], Ask(i))
        PROVE  Asked(s, i) \/ kind[i] = "none" \/ (i \in Pending /\ at = 0 /\ Connect(s))
    <2>1. CASE Connect(s)
      <3>1. at = 0
        BY <2>1 DEF Connect
      <3>2. Ask(i) # Resume(Pending) /\ \A j : Ask(i) = Ask(j) => i = j
        BY FramesDiffer
      <3>3. \E j \in Pending : Ask(i) = Ask(j)
        BY <1>3, <2>1, <3>2, ConnectEffect
      <3> QED BY <2>1, <3>1, <3>2, <3>3
    <2>2. CASE ~Connect(s)
      <3>1. /\ \A j : Ask(i) = Ask(j) => i = j
            /\ \A j : Ask(i) # Ack(j)
        BY FramesDiffer
      <3>2. Has(up[s], Ask(i)) \/ Issue(i)
        BY <1>3, <2>2, <3>1, UpMoves
      <3> QED BY <1>1, <3>2 DEF Asked
    <2> QED BY <2>1, <2>2
  <1>4. ASSUME NEW s \in Sockets
        PROVE  /\ handler'[s][i].step = "begin" => Begins(s, i)
               /\ handler'[s][i].step = "execute" =>
                     \/ handler[s][i].step = "execute"
                     \/ handler[s][i].step = "begin" /\ (Stale(s) => i \in lapsed')
               /\ handler[s][i].step # "none" => handler'[s][i].step # "none"
    <2>1. [step |-> "done", result |-> None].step = "done" /\ \A r : [step |-> "answer", result |-> r].step = "answer"
      OBVIOUS
    <2> QED BY <2>1, HandlerMoves, LapsedMoves DEF Asked, Begins
  <1>5. /\ times[i] \in Nat /\ times'[i] \in Nat /\ times'[i] >= times[i]
        /\ times'[i] # times[i] => \E s \in Sockets : handler[s][i].step = "execute"
    <2>1. times[i] \in Nat
      BY DEF Types, ServerOK
    <2> QED BY <2>1, TimesMoves
  <1>6. ASSUME NEW s \in Sockets, Begins(s, i)'
        PROVE  Begins(s, i) \/ kind[i] = "none" \/ (i \in Pending /\ at = 0 /\ Connect(s))
    BY <1>3, <1>4, <1>6 DEF Begins, Asked
  <1>7. i \in lapsed => i \in lapsed'
    BY LapsedMoves
  <1> QED BY <1>2, <1>3, <1>4, <1>5, <1>6, <1>7 DEF Asked

LEMMA SeenStays ==
    ASSUME Types, Connections, Asking, [Next]_vars, NEW i \in Requests, Seen(i)
    PROVE  Seen(i)'
  BY Onward DEF Seen

\* What only stale sockets begin stays so, until the page connects.
LEMMA EndedStays ==
    ASSUME Types, Connections, Asking, [Next]_vars,
           NEW i \in Requests, Ended(i), kind[i] # "none", i \notin Pending \/ at # 0
    PROVE  Ended(i)'
  BY Onward, StaleStays DEF Ended

\* What is over stays over.
LEMMA OverStays ==
    ASSUME Types, Connections, Asking, [Next]_vars, NEW i \in Requests, Over(i)
    PROVE  Over(i)'
  <1>1. kind'[i] # "none" /\ i \notin Pending'
    BY Onward DEF Over
  <1>2. Ended(i)'
    BY EndedStays DEF Over
  <1> QED BY <1>1, <1>2 DEF Over

\* So does what was refused, unless the page is about to ask for it again or a stale
\* goroutine runs it.
LEMMA DeadStays ==
    ASSUME Types, Connections, Asking, [Next]_vars,
           NEW i \in Requests, Dead(i), kind[i] # "none", i \notin Pending \/ at # 0, i \notin lapsed'
    PROVE  Dead(i)'
  <1>1. times'[i] = 0 /\ Ended(i)'
    BY Onward, EndedStays DEF Dead
  <1>2. \A s \in Sockets : handler'[s][i].step # "execute"
    BY Onward DEF Dead, Ended, Begins
  <1> QED BY <1>1, <1>2 DEF Dead

-----------------------------------------------------------------------------
(* The invariant is inductive, part by part. *)

LEMMA ConnectionsNext ==
    ASSUME Types, Connections, Asking, [Next]_vars
    PROVE  Connections'
  <1>1. /\ at \in 0..MaxSockets /\ installed \in 0..MaxSockets
        /\ serve \in [Sockets -> {"none", "accepted", "serving", "gone"}]
    BY DEF Types, PageOK, ServerOK
  <1>2. at' = at \/ (at' = 0 /\ (at = 0 \/ link[at] # "open")) \/ (at = 0 /\ \E s \in Sockets : Connect(s) /\ at' = s)
    <2>1. Closed => at' = 0 /\ link[at] # "open"
      BY DEF Closed
    <2>2. \A i \in Requests : Issue(i) \/ GiveUp(i) => at' = at
      BY DEF Issue, GiveUp
    <2>3. \A s \in Sockets : Connect(s) => at = 0 /\ at' = s
      BY DEF Connect
    <2>4. Receive => at' = at
      BY DEF Receive
    <2>5. \/ UNCHANGED <<kind, pending, got, at>>
          \/ (\E i \in Requests : Issue(i) \/ GiveUp(i))
          \/ (\E s \in Sockets : Connect(s))
          \/ Closed \/ Receive
      BY Causes
    <2> QED BY <2>1, <2>2, <2>3, <2>4, <2>5
  <1>3. \A s \in Sockets : Connect(s) => /\ at = 0 /\ at' = s /\ link[s] = "none" /\ link'[s] = "open"
                                         /\ \A r \in 1..(s - 1) : link[r] # "none"
    BY DEF Connect, Types, NetOK
  <1>4. at' # 0 => link'[at'] # "none"
    <2>1. CASE at' = at /\ at # 0
      <3>1. at \in Sockets /\ link[at] # "none"
        BY <1>1, <2>1, NamesOfSockets DEF Connections
      <3> QED BY <2>1, <3>1, LinkMoves
    <2> QED BY <1>2, <1>3, <2>1
  <1>5. \A r \in Sockets : Replace(r) => installed' = r /\ opened' = r /\ serve'[r] = "serving"
    BY <1>1 DEF Replace
  <1>6. \A r \in Sockets : Remove(r) => /\ installed' = (IF installed = r THEN 0 ELSE installed)
                                        /\ opened' = opened /\ serve'[r] = "gone" /\ link[r] # "open"
                                        /\ up'[r] = <<>>
    BY <1>1 DEF Remove, Left, Types, NetOK
  <1>7. /\ installed' = installed \/ \E r \in Sockets : Replace(r) \/ Remove(r)
        /\ opened' = opened \/ \E r \in Sockets : Replace(r)
    BY Causes
  <1>8. installed' # 0 => installed' = opened' /\ serve'[installed'] = "serving"
    <2>1. CASE \E r \in Sockets : Replace(r)
      BY <1>5, <2>1
    <2>2. CASE ~(\E r \in Sockets : Replace(r))
      <3> SUFFICES ASSUME installed' # 0 PROVE installed' = opened' /\ serve'[installed'] = "serving"
        OBVIOUS
      <3>1. installed' = installed /\ opened' = opened /\ ~Remove(installed)
        BY <1>6, <1>7, <2>2, NamesOfSockets, <1>1
      <3>2. installed \in Sockets /\ installed = opened /\ serve[installed] = "serving"
        BY <1>1, <3>1, NamesOfSockets DEF Connections
      <3>3. ~Connect(installed)
        BY <3>2 DEF Connect, Connections
      <3> QED BY <3>1, <3>2, <3>3, ServeMoves
    <2> QED BY <2>1, <2>2
  <1>9. ASSUME NEW s \in Sockets
        PROVE  /\ s > at' /\ at' # 0 => link'[s] = "none"
               /\ link'[s] = "none" => \A r \in Sockets : r > s => link'[r] = "none"
               /\ link'[s] = "open" => s = at' /\ Live(s)'
               /\ serve'[s] = "none" <=> link'[s] = "none"
               /\ up'[s] # <<>> => Live(s)'
               /\ serve'[s] \in {"none", "accepted"} => \A i \in Requests : handler'[s][i].step = "none"
               /\ down'[s] # <<>> => link'[s] = "open"
    <2>1. /\ s > at /\ at # 0 => link[s] = "none"
          /\ link[s] = "none" => \A r \in Sockets : r > s => link[r] = "none"
          /\ link[s] = "open" => s = at /\ Live(s)
          /\ serve[s] = "none" <=> link[s] = "none"
          /\ up[s] # <<>> => Live(s)
          /\ serve[s] \in {"none", "accepted"} => \A i \in Requests : handler[s][i].step = "none"
          /\ down[s] # <<>> => link[s] = "open"
      BY DEF Connections
    <2>2. \/ link'[s] = link[s]
          \/ Connect(s) /\ link[s] = "none" /\ link'[s] = "open"
          \/ link[s] # "none" /\ link'[s] \in {"broken", "shut"} /\ down'[s] = <<>>
      BY LinkMoves
    <2>3. \/ serve'[s] = serve[s]
          \/ Connect(s) /\ serve'[s] = "accepted"
          \/ Replace(s) /\ serve[s] = "accepted" /\ serve'[s] = "serving"
          \/ Remove(s) /\ serve[s] = "serving" /\ serve'[s] = "gone"
      BY ServeMoves
    <2>4. Connect(s) => serve'[s] = "accepted"
      BY <1>1 DEF Connect
    <2>5. link'[s] = "open" => s = at' /\ Live(s)'
      BY <1>2, <1>3, <1>6, <2>1, <2>2, <2>3, <2>4, NamesOfSockets, Ranges DEF Live
    <2>6. serve'[s] = "none" <=> link'[s] = "none"
      BY <1>3, <2>1, <2>2, <2>3, <2>4
    <2>7. up' \in [Sockets -> Seq(FromPage)] /\ down' \in [Sockets -> Seq(ToPage)]
      BY TypesNext DEF Types, NetOK
    <2>8. /\ up'[s] # <<>> => Has(up'[s], Head(up'[s]))
          /\ down'[s] # <<>> => Has(down'[s], Head(down'[s]))
      <3>1. up'[s] \in Seq(FromPage) /\ down'[s] \in Seq(ToPage)
        BY <2>7
      <3> QED BY <3>1, HasHeadTail
    <2>9. up'[s] # <<>> => up[s] # <<>> \/ Connect(s) \/ (s = at /\ link[s] = "open")
      BY <2>8, UpMoves, HasNothing
    <2>10. up'[s] # <<>> => Live(s)'
      BY <1>6, <2>1, <2>3, <2>4, <2>9 DEF Live
    <2>11. s > at' /\ at' # 0 => link'[s] = "none"
      <3> SUFFICES ASSUME s > at', at' # 0 PROVE link'[s] = "none"
        OBVIOUS
      <3>1. CASE at' = at
        <4>1. link[s] = "none" /\ at # 0
          BY <2>1, <3>1
        <4>2. ~Connect(s)
          BY <1>3, <4>1
        <4> QED BY <2>2, <4>1, <4>2
      <3>2. CASE at' # at
        <4>1. PICK r \in Sockets : Connect(r) /\ at' = r
          BY <1>2, <3>2
        <4>2. link[r] = "none" /\ s > r
          BY <1>3, <4>1
        <4>3. link[s] = "none"
          BY <4>2 DEF Connections
        <4>4. ~Connect(s)
          <5>1. r \in 1..(s - 1)
            BY <4>2, ConstantsAssumption DEF Sockets, ConstantsAssumption
          <5> QED BY <1>3, <4>2, <5>1
        <4> QED BY <2>2, <4>3, <4>4
      <3> QED BY <3>1, <3>2
    <2>12. ASSUME link'[s] = "none", NEW r \in Sockets, r > s PROVE link'[r] = "none"
      <3>1. link[s] = "none" /\ ~Connect(s)
        BY <1>3, <2>2, <2>12
      <3>2. link[r] = "none"
        BY <2>1, <2>12, <3>1
      <3>3. ~Connect(r)
        <4>1. s \in 1..(r - 1)
          BY <2>12, ConstantsAssumption DEF Sockets, ConstantsAssumption
        <4> QED BY <1>3, <3>1, <4>1
      <3> QED BY <3>2, <3>3, LinkMoves
    <2>13. serve'[s] \in {"none", "accepted"} => \A i \in Requests : handler'[s][i].step = "none"
      <3> SUFFICES ASSUME serve'[s] \in {"none", "accepted"}, NEW i \in Requests
                   PROVE  handler'[s][i].step = "none"
        OBVIOUS
      <3>1. serve[s] \in {"none", "accepted"} /\ handler[s][i].step = "none"
        BY <1>3, <2>1, <2>3
      <3> QED BY <3>1, HandlerMoves
    <2>14. down'[s] # <<>> => link'[s] = "open"
      <3>1. down'[s] # <<>> => down[s] # <<>> \/ (link[s] = "open" /\ link' = link)
        BY <2>8, DownMoves, HasNothing
      <3> QED BY <2>1, <2>2, <3>1
    <2> QED BY <2>5, <2>6, <2>10, <2>11, <2>12, <2>13, <2>14
  <1> QED BY <1>4, <1>8, <1>9 DEF Connections

\* What a page has sent over a socket stays in order.
LEMMA ProperNext ==
    ASSUME Types, Asking, Asks, [Next]_vars, NEW s \in Sockets
    PROVE  Proper(up'[s])
  <1>1. up[s] \in Seq(FromPage) /\ Proper(up[s])
    BY DEF Types, NetOK, Asking
  <1>2. Proper(<<>>)
    BY DEF Proper
  <1>3. ASSUME NEW r \in Sockets, NEW q \in Rests(up[r]), Shut(r, q) PROVE Proper(up'[s])
    <2>1. up'[s] \in Rests(up[s])
      BY <1>3, ShutEffect
    <2> QED BY <1>1, <2>1, RestEffect
  <1>4. ASSUME NEW f \in FromPage, up' = Sent(<<f>>), f.is # "resume",
               f.is = "request" => ~Has(up[s], f)
        PROVE  Proper(up'[s])
    <2>1. Proper(Append(up[s], f))
      BY <1>1, <1>4, ProperAppend
    <2> QED BY <1>1, <1>4, <2>1, SentEffect
  <1>5. ASSUME NEW i \in Requests, Issue(i) PROVE Proper(up'[s])
    <2>1. Ask(i) \in FromPage /\ Ask(i).is = "request" /\ up' = Sent(<<Ask(i)>>) /\ kind[i] = "none"
      BY <1>5, FramesDiffer DEF FromPage, Issue
    <2>2. ~Has(up[s], Ask(i))
      BY <2>1 DEF Asks, Asked
    <2> QED BY <1>4, <2>1, <2>2
  <1>6. ASSUME NEW r \in Sockets, Connect(r) PROVE Proper(up'[s])
    <2>1. \A m, n \in DOMAIN pending : pending[m] = pending[n] => m = n
      BY DEF Asking
    <2> QED BY <1>1, <1>6, <2>1, ConnectEffect
  <1>7. CASE Receive
    <2>1. up' = up \/ \E i \in Requests : up' = Sent(<<Ack(i)>>)
      BY <1>7, ReceiveEffect
    <2>2. \A i \in Requests : Ack(i) \in FromPage /\ Ack(i).is = "ack"
      BY FramesDiffer DEF FromPage
    <2> QED BY <1>1, <1>4, <2>1, <2>2
  <1>8. ASSUME NEW r \in Sockets, Reads(r), up' = [up EXCEPT ![r] = Tail(@)] PROVE Proper(up'[s])
    <2>1. up'[s] = up[s] \/ (up'[s] = Tail(up[s]) /\ up[s] # <<>>)
      BY <1>8, ReadEffect
    <2> QED BY <1>1, <2>1, ProperTail
  <1>9. ASSUME NEW r \in Sockets, Replace(r) \/ Acknowledge(r) \/ Retain(r) \/ Handle(r) PROVE Proper(up'[s])
    <2>1. CASE Reads(r) /\ up' = [up EXCEPT ![r] = Tail(@)]
      BY <1>8, <2>1
    <2>2. CASE Shut(r, <<>>)
      BY <1>3, <2>2, RestNames
    <2>3. CASE Replace(r)
      BY <1>1, <1>3, <2>3, RestNames, NamesOfSockets DEF Replace, net, Types, ServerOK
    <2> QED BY <1>9, <2>1, <2>2, <2>3 DEF Acknowledge, Retain, Handle
  <1>10. ASSUME NEW r \in Sockets, NEW i \in Requests, Enqueue(r, i) PROVE Proper(up'[s])
    <2>1. Shut(r, up[r]) \/ up' = up
      BY <1>10 DEF Enqueue, Push, net
    <2> QED BY <1>1, <1>3, <2>1, RestNames
  <1>11. CASE Published
    <2>1. (target \in Sockets /\ Shut(target, up[target])) \/ up' = up
      BY <1>11, NamesOfSockets DEF Published, Push, net, Types, ServerOK
    <2> QED BY <1>1, <1>3, <2>1, RestNames
  <1>13. ASSUME NEW r \in Sockets, Remove(r) PROVE Proper(up'[s])
    <2>1. up'[s] = <<>> \/ up'[s] = up[s]
      BY <1>13 DEF Remove, Types, NetOK
    <2> QED BY <1>1, <1>2, <2>1
  <1>12. \/ UNCHANGED up
         \/ (\E i \in Requests : Issue(i))
         \/ (\E r \in Sockets : Connect(r) \/ Replace(r) \/ Remove(r) \/ Acknowledge(r) \/ Retain(r) \/ Handle(r))
         \/ (\E r \in Sockets, i \in Requests : Enqueue(r, i))
         \/ Receive \/ Published
    BY Causes
  <1> QED BY <1>1, <1>5, <1>6, <1>7, <1>9, <1>10, <1>11, <1>12, <1>13

LEMMA AskingNext ==
    ASSUME Types, Connections, Asking, Asks, [Next]_vars
    PROVE  Asking'
  <1>1. \A m, n \in DOMAIN pending' : pending'[m] = pending'[n] => m = n
    <2>1. CASE pending' = pending
      BY <2>1 DEF Asking
    <2>2. CASE pending' # pending
      <3>1. \E i \in Requests : Issue(i) \/ GiveUp(i) \/ Receive
        <4>1. \A s \in Sockets : Connect(s) => pending' = pending
          BY DEF Connect
        <4>2. Closed => pending' = pending
          BY DEF Closed
        <4>3. \/ UNCHANGED <<kind, pending, got, at>>
              \/ (\E i \in Requests : Issue(i) \/ GiveUp(i))
              \/ (\E s \in Sockets : Connect(s))
              \/ Closed \/ Receive
          BY Causes
        <4>4. Receive => \E i \in Requests : TRUE
          BY <2>2, ReceiveEffect
        <4> QED BY <2>2, <4>1, <4>2, <4>3, <4>4
      <3> QED BY <3>1, PageMoves
    <2> QED BY <2>1, <2>2
  <1>2. ASSUME NEW i \in Pending' PROVE kind'[i] # "none" /\ got'[i] = None
    <2>1. i \in Requests
      <3>1. pending' \in Seq(Requests)
        BY TypesNext DEF Types, PageOK
      <3>2. \A n \in DOMAIN pending' : pending'[n] \in Requests
        BY <3>1
      <3>3. Pending' = {pending'[n] : n \in DOMAIN pending'}
        BY DEF Pending
      <3> QED BY <3>2, <3>3
    <2>2. CASE Issue(i)
      <3>1. kind' # kind /\ kind[i] = "none" /\ got' = got
        BY <2>2, <2>1 DEF Issue, Types, PageOK
      <3>2. kind'[i] # "none"
        BY <2>1, <2>2 DEF Issue, Types, PageOK
      <3> QED BY <2>1, <3>1, <3>2 DEF Asks
    <2>3. CASE ~Issue(i)
      <3>1. i \in Pending /\ kind[i] # "none" /\ got[i] = None
        BY <1>2, <2>1, <2>3, PageMoves DEF Asking
      <3> QED BY <1>2, <2>1, <2>3, <3>1, PageMoves
    <2> QED BY <2>2, <2>3
  <1>3. ASSUME NEW s \in Sockets, NEW i \in Requests, Asked(s, i)' PROVE handler'[s][i].step = "none"
    <2>1. Has(up'[s], Ask(i))
      BY <1>3 DEF Asked
    <2>2. \A j, S : Ask(i) # Resume(S) /\ Ask(i) # Ack(j) /\ (Ask(i) = Ask(j) => i = j)
      BY FramesDiffer
    <2>3. Has(up[s], Ask(i)) \/ Issue(i) \/ Connect(s)
      BY <2>1, <2>2, UpMoves
    <2>4. handler[s][i].step = "none"
      <3>1. Issue(i) => kind[i] = "none"
        BY DEF Issue
      <3>2. Connect(s) => serve[s] = "none"
        BY DEF Connect, Connections
      <3> QED BY <2>3, <3>1, <3>2 DEF Asks, Asking, Asked, Connections
    <2>5. ~(up[s] # <<>> /\ Head(up[s]) = Ask(i) /\ up'[s] = Tail(up[s]))
      <3>1. up[s] \in Seq(FromPage) /\ Proper(up[s])
        BY DEF Types, NetOK, Asking
      <3>2. Ask(i).is = "request"
        BY FramesDiffer
      <3> QED BY <2>1, <3>1, <3>2, ProperTail
    <2> QED BY <2>4, <2>5, HandlerMoves
  <1>4. ASSUME NEW s \in Sockets, NEW S \in SUBSET Requests, Has(up'[s], Resume(S)), NEW i \in Requests
        PROVE  handler'[s][i].step = "none"
    <2>1. \A j : Resume(S) # Ask(j) /\ Resume(S) # Ack(j)
      BY FramesDiffer
    <2>2. Has(up[s], Resume(S)) \/ Connect(s)
      BY <1>4, <2>1, UpMoves
    <2>3. handler[s][i].step = "none"
      <3>1. Connect(s) => serve[s] = "none"
        BY DEF Connect, Connections
      <3> QED BY <2>2, <3>1 DEF Asking, Connections
    <2>4. ~(Handle(s) /\ serve[s] = "serving" /\ up[s] # <<>> /\ Head(up[s]) = Ask(i))
      <3>1. Connect(s) => serve[s] = "none"
        BY DEF Connect, Connections
      <3>2. up[s] \in Seq(FromPage) /\ Proper(up[s])
        BY DEF Types, NetOK, Asking
      <3>3. Resume(S).is = "resume"
        BY FramesDiffer
      <3> QED BY <2>1, <2>2, <3>1, <3>2, <3>3, ProperTail
    <2> QED BY <2>3, <2>4, HandlerMoves
  <1> QED BY <1>1, <1>2, <1>3, <1>4, ProperNext DEF Asking

LEMMA AsksNext ==
    ASSUME Types, Connections, Asking, Asks, [Next]_vars
    PROVE  Asks'
  <1> SUFFICES ASSUME NEW i \in Requests
               PROVE  /\ times'[i] > 0 => Seen(i)'
                      /\ kind'[i] = "none" =>
                           /\ times'[i] = 0 /\ got'[i] = None
                           /\ \A s \in Sockets : ~Asked(s, i)' /\ handler'[s][i].step = "none"
                           /\ \A n \in Caches : cache'[n][i] = NoEntry
    BY DEF Asks
  <1>1. times[i] > 0 => Seen(i)
    BY DEF Asks
  <1>2. times'[i] > 0 => Seen(i)'
    <2>1. times'[i] = times[i] \/ Seen(i)
      BY Onward DEF Seen
    <2> QED BY <1>1, <2>1, SeenStays
  <1>3. ASSUME kind'[i] = "none"
        PROVE  /\ times'[i] = 0 /\ got'[i] = None
               /\ \A s \in Sockets : ~Asked(s, i)' /\ handler'[s][i].step = "none"
               /\ \A n \in Caches : cache'[n][i] = NoEntry
    <2>1. kind[i] = "none"
      BY <1>3, Onward
    <2>2. /\ times[i] = 0 /\ got[i] = None /\ i \notin Pending
          /\ \A s \in Sockets : ~Asked(s, i) /\ handler[s][i].step = "none"
          /\ \A n \in Caches : cache[n][i] = NoEntry
      BY <2>1 DEF Asks, Asking
    <2>3. ~Issue(i)
      BY <1>3 DEF Issue, Types, PageOK
    <2>4. times'[i] = 0
      BY <2>2, TimesMoves
    <2>5. got'[i] = None
      BY <2>2, PageMoves
    <2>6. ASSUME NEW s \in Sockets PROVE handler'[s][i].step = "none" /\ ~Has(up'[s], Ask(i))
      <3>1. handler'[s][i].step = "none"
        BY <2>2, HandlerMoves DEF Asked
      <3>2. \A j, S : Ask(i) # Resume(S) /\ Ask(i) # Ack(j) /\ (Ask(i) = Ask(j) => i = j)
        BY FramesDiffer
      <3>3. ~Has(up'[s], Ask(i))
        BY <2>2, <2>3, <3>2, UpMoves DEF Asked
      <3> QED BY <3>1, <3>3
    <2>7. ASSUME NEW n \in Caches PROVE cache'[n][i] = NoEntry
      <3>1. cache[n][i] = NoEntry
        BY <2>2
      <3>2. \A s \in Sockets : ~Run(s, i) /\ ~Execute(s, i)
        BY <2>2 DEF Run, Execute
      <3> QED BY <3>1, <3>2, CacheMoves
    <2> QED BY <2>4, <2>5, <2>6, <2>7 DEF Asked
  <1> QED BY <1>2, <1>3

\* A request that is asked for the first time has left no trace yet.
LEMMA NewRequest ==
    ASSUME Types, Connections, Asking, Asks, [Next]_vars, NEW i \in Requests, kind[i] = "none"
    PROVE  /\ times'[i] = 0 /\ ~Seen(i)'
           /\ \A s \in Sockets : handler'[s][i].step = "none"
           /\ \A n \in Caches : cache'[n][i] = NoEntry
  <1>1. /\ times[i] = 0
        /\ \A s \in Sockets : ~Asked(s, i) /\ handler[s][i].step = "none"
        /\ \A n \in Caches : cache[n][i] = NoEntry
    BY DEF Asks
  <1>2. \A s \in Sockets : handler'[s][i].step = "none"
    BY <1>1, HandlerMoves DEF Asked
  <1>3. times'[i] = 0
    BY <1>1, TimesMoves
  <1>4. \A s \in Sockets : ~Run(s, i) /\ ~Execute(s, i)
    BY <1>1 DEF Run, Execute
  <1>5. \A n \in Caches : cache'[n][i] = NoEntry
    BY <1>1, <1>4, CacheMoves
  <1> QED BY <1>2, <1>3, <1>5 DEF Seen

\* What the goroutine of a request replies at once.
LEMMA RunEffect ==
    ASSUME Types, NEW s \in Sockets, NEW i \in Requests, Run(s, i)
    PROVE  /\ handler[s][i].step = "begin"
           /\ \A r \in Sockets : r # s => handler'[r] = handler[r]
           /\ UNCHANGED <<up, down, link, serve, at, pending, kind>>
           /\ handler'[s][i].step = "answer" =>
                \/ cache[Namespace(s, i)][i].state = "spent" /\ handler'[s][i].result = Spent
                \/ /\ cache[Namespace(s, i)][i].state = "kept"
                   /\ handler'[s][i].result = cache[Namespace(s, i)][i].result
                \/ cache[Namespace(s, i)][i].state = "none" /\ handler'[s][i].result = Full
           /\ handler'[s][i].step = "execute" =>
                /\ cache[Namespace(s, i)][i].state = "none"
                /\ cache' = [cache EXCEPT ![Namespace(s, i)][i].state = "running"]
  <1>1. handler \in [Sockets -> [Requests -> Handlers]]
    BY DEF Types, ServerOK
  <1>2. handler[s][i].step = "begin" /\ UNCHANGED <<up, down, link, serve, at, pending, kind>>
    BY DEF Run, net, page
  <1>3. ASSUME NEW x, Reply(s, i, x)
        PROVE  /\ handler'[s][i].step = "answer" /\ handler'[s][i].result = x
               /\ \A r \in Sockets : r # s => handler'[r] = handler[r]
    BY <1>1, <1>3 DEF Reply
  <1>4. ASSUME NEW x \in {"wait", "execute"}, Step(s, i, x)
        PROVE  /\ handler'[s][i].step = x /\ \A r \in Sockets : r # s => handler'[r] = handler[r]
    <2>1. [handler[s][i] EXCEPT !.step = x].step = x
      BY <1>1 DEF Handlers
    <2> QED BY <1>1, <1>4, <2>1 DEF Step
  <1>5. \/ cache[Namespace(s, i)][i].state = "spent" /\ Reply(s, i, Spent)
        \/ cache[Namespace(s, i)][i].state = "kept" /\ Reply(s, i, cache[Namespace(s, i)][i].result)
        \/ Step(s, i, "wait")
        \/ cache[Namespace(s, i)][i].state = "none" /\ Reply(s, i, Full)
        \/ /\ cache[Namespace(s, i)][i].state = "none" /\ Step(s, i, "execute")
           /\ cache' = [cache EXCEPT ![Namespace(s, i)][i].state = "running"]
    BY DEF Run, Refused
  <1>6. CASE Step(s, i, "wait")
    BY <1>2, <1>4, <1>6
  <1>7. CASE /\ cache[Namespace(s, i)][i].state = "none" /\ Step(s, i, "execute")
             /\ cache' = [cache EXCEPT ![Namespace(s, i)][i].state = "running"]
    BY <1>2, <1>4, <1>7
  <1> QED BY <1>2, <1>3, <1>5, <1>6, <1>7

LEMMA ResultsDiffer ==
    /\ Done # Full /\ Done # Spent /\ Done # None /\ Full # Spent /\ Full # None /\ Spent # None
    /\ \A v : Snapshot(v) # None /\ Snapshot(v) # Full
    /\ \A r : r \in {None, Done, Full, Spent} => r # [is |-> "given up"]
  <1>1. /\ Done.is = "done" /\ Full.is = "full" /\ Spent.is = "already executed" /\ None.is = "none"
        /\ \A v : Snapshot(v).is = "snapshot"
        /\ [is |-> "given up"].is = "given up"
    BY DEF Done, Full, Spent, None, Snapshot
  <1> QED BY <1>1

LEMMA GoodStays ==
    ASSUME Types, Connections, Asking, [Next]_vars,
           NEW i \in Requests, NEW r, kind[i] # "none", Good(i, r)
    PROVE  Fit(kind'[i], times'[i], r)
  <1>1. kind'[i] = kind[i] /\ (times[i] > 0 => times'[i] > 0)
    BY Onward
  <1> QED BY <1>1 DEF Good, Fit

\* The result of an execution.
LEMMA ExecuteEffect ==
    ASSUME Types, NEW s \in Sockets, NEW i \in Requests, Execute(s, i), kind[i] # "none"
    PROVE  LET r == IF kind[i] = "messages" THEN Snapshot(version) ELSE Done IN
           /\ Fit(kind'[i], times'[i], r) /\ r # Full
           /\ Entry(Namespace(s, i), i, r) \in {[state |-> "kept", result |-> r], [state |-> "spent", result |-> None]}
           /\ times'[i] > 0 /\ handler[s][i].step = "execute"
           /\ \A u \in Told(s, i) \cap Sockets : handler'[u][i] = [step |-> "answer", result |-> r]
           /\ s \in Told(s, i)
  <1> DEFINE r == IF kind[i] = "messages" THEN Snapshot(version) ELSE Done
  <1>1. /\ times' = [times EXCEPT ![i] = @ + 1] /\ kind' = kind /\ handler[s][i].step = "execute"
        /\ handler' = [u \in Sockets |-> IF u \in Told(s, i)
                THEN [handler[u] EXCEPT ![i] = [step |-> "answer", result |-> r]] ELSE handler[u]]
    BY DEF Execute, page
  <1>2. times'[i] > 0
    BY <1>1 DEF Types, ServerOK
  <1>3. r # Full /\ r # None
    BY ResultsDiffer
  <1>4. kind[i] = "mutation" => r = Done
    OBVIOUS
  <1> HIDE DEF r
  <1>5. Fit(kind'[i], times'[i], r)
    BY <1>1, <1>2, <1>3, <1>4 DEF Fit
  <1>6. Entry(Namespace(s, i), i, r) \in {[state |-> "kept", result |-> r], [state |-> "spent", result |-> None]}
    BY DEF Entry
  <1>7. \A u \in Told(s, i) \cap Sockets : handler'[u][i] = [step |-> "answer", result |-> r]
    BY <1>1 DEF Types, ServerOK
  <1> QED BY <1>1, <1>2, <1>3, <1>5, <1>6, <1>7 DEF r, Told

LEMMA AnswersNext ==
    ASSUME Types, Connections, Asking, Asks, Answers, [Next]_vars
    PROVE  Answers'
  <1>1. \A i \in Requests : kind[i] = "none" =>
          /\ got[i] = None /\ \A s \in Sockets : handler[s][i].step = "none"
          /\ \A n \in Caches : cache[n][i].state = "none"
    BY DEF Asks, NoEntry
  <1>2. ASSUME NEW i \in Requests, got'[i] \notin {None, [is |-> "given up"]}
        PROVE  Fit(kind'[i], times'[i], got'[i])
    <2>1. CASE got'[i] = got[i]
      <3>1. Good(i, got[i]) /\ kind[i] # "none"
        BY <1>1, <1>2, <2>1 DEF Answers
      <3> QED BY <2>1, <3>1, GoodStays
    <2>2. CASE Receive /\ got'[i] \in Results /\ Head(down[at]) = Answer(i, got'[i])
      <3>1. at \in Sockets /\ Has(down[at], Answer(i, got'[i]))
        BY <2>2, ReceiveEffect
      <3>2. PICK r \in Results : r = got'[i]
        BY <2>2
      <3>3. Good(i, r) /\ handler[at][i].step = "done"
        BY <3>1, <3>2 DEF Answers
      <3>4. kind[i] # "none"
        BY <1>1, <3>1, <3>3
      <3> QED BY <3>2, <3>3, <3>4, GoodStays
    <2> QED BY <1>2, <2>1, <2>2, PageMoves
  <1>3. ASSUME NEW s \in Sockets, NEW i \in Requests, handler'[s][i].step = "answer"
        PROVE  Fit(kind'[i], times'[i], handler'[s][i].result)
    <2>1. CASE handler'[s][i] = handler[s][i]
      <3>1. Good(i, handler[s][i].result) /\ kind[i] # "none"
        BY <1>1, <1>3, <2>1 DEF Answers
      <3> QED BY <2>1, <3>1, GoodStays
    <2>2. CASE Run(s, i)
      <3>0. handler[s][i].step = "begin" /\ kind' = kind /\ times' = times
        BY <2>2 DEF Run, page
      <3>1. kind[i] # "none" /\ Namespace(s, i) \in Caches /\ kind'[i] = kind[i] /\ times'[i] = times[i]
        BY <1>1, <3>0, Ranges DEF Namespace, Caches
      <3>2. \/ cache[Namespace(s, i)][i].state = "spent" /\ handler'[s][i].result = Spent
            \/ /\ cache[Namespace(s, i)][i].state = "kept"
               /\ handler'[s][i].result = cache[Namespace(s, i)][i].result
            \/ cache[Namespace(s, i)][i].state = "none" /\ handler'[s][i].result = Full
        BY <1>3, <2>2, RunEffect
      <3>3. cache[Namespace(s, i)][i].state = "spent" => times[i] > 0
        BY <3>1 DEF Answers
      <3>4. cache[Namespace(s, i)][i].state = "kept" => Good(i, cache[Namespace(s, i)][i].result)
        BY <3>1 DEF Answers
      <3>5. CASE cache[Namespace(s, i)][i].state = "spent" /\ handler'[s][i].result = Spent
        BY <3>1, <3>3, <3>5, ResultsDiffer DEF Fit
      <3>6. CASE handler'[s][i].result = Full
        BY <3>6, ResultsDiffer DEF Fit
      <3> QED BY <3>1, <3>2, <3>4, <3>5, <3>6 DEF Good
    <2>3. ASSUME NEW r \in Sockets, Execute(r, i), s \in Told(r, i)
          PROVE  Fit(kind'[i], times'[i], handler'[s][i].result)
      <3> DEFINE x == IF kind[i] = "messages" THEN Snapshot(version) ELSE Done
      <3>1. kind[i] # "none"
        BY <1>1, <2>3 DEF Execute
      <3>2. Fit(kind'[i], times'[i], x) /\ handler'[s][i] = [step |-> "answer", result |-> x]
        BY <2>3, <3>1, ExecuteEffect
      <3> HIDE DEF x
      <3>3. handler'[s][i].result = x
        BY <3>2
      <3> QED BY <3>2, <3>3
    <2>4. CASE handler'[s][i] = [step |-> "done", result |-> None]
      <3>1. handler'[s][i].step = "done"
        BY <2>4
      <3> QED BY <1>3, <3>1
    <2>5. CASE handler'[s][i].step = "begin"
      BY <1>3, <2>5
    <2> QED BY <2>1, <2>2, <2>3, <2>4, <2>5, HandlerMoves
  <1>4. ASSUME NEW s \in Sockets, NEW i \in Requests, NEW r \in Results, Has(down'[s], Answer(i, r))
        PROVE  Fit(kind'[i], times'[i], r) /\ handler'[s][i].step = "done"
    <2>1. CASE Has(down[s], Answer(i, r))
      <3>1. Good(i, r) /\ handler[s][i].step = "done"
        BY <2>1 DEF Answers
      <3>2. kind[i] # "none"
        BY <1>1, <3>1
      <3>3. handler'[s][i].step = "done"
        <4>1. ~Asked(s, i)
          BY <3>1 DEF Asking
        <4> QED BY <3>1, <4>1, HandlerMoves DEF Asked
      <3> QED BY <3>1, <3>2, <3>3, GoodStays
    <2>2. ASSUME NEW j \in Requests, Enqueue(s, j), Answer(i, r) = Answer(j, handler[s][j].result)
          PROVE  Fit(kind'[i], times'[i], r) /\ handler'[s][i].step = "done"
      <3>1. i = j /\ r = handler[s][i].result
        BY <2>2, AnswersDiffer
      <3>2. handler[s][i].step = "answer"
        BY <2>2, <3>1 DEF Enqueue
      <3>3. Good(i, r) /\ kind[i] # "none"
        BY <1>1, <3>1, <3>2 DEF Answers
      <3>4. handler'[s][i] = [step |-> "done", result |-> None]
        BY <2>2, <3>1 DEF Enqueue, Types, ServerOK
      <3>5. handler'[s][i].step = "done"
        BY <3>4
      <3> QED BY <3>3, <3>5, GoodStays
    <2> QED BY <1>4, <2>1, <2>2, DownMoves, AnswersDiffer
  <1>5. ASSUME NEW n \in Caches, NEW i \in Requests
        PROVE  /\ cache'[n][i].state = "kept" => Fit(kind'[i], times'[i], cache'[n][i].result) /\ cache'[n][i].result # Full
               /\ cache'[n][i].state = "spent" => times'[i] > 0
    <2>1. CASE cache'[n][i] = cache[n][i]
      <3>1. cache[n][i].state = "kept" => Good(i, cache[n][i].result) /\ cache[n][i].result # Full
        BY DEF Answers
      <3>2. cache[n][i].state = "spent" => times[i] > 0
        BY DEF Answers
      <3>3. cache[n][i].state \in {"kept", "spent"} => kind[i] # "none"
        BY <1>1
      <3> QED BY <2>1, <3>1, <3>2, <3>3, GoodStays, Onward
    <2>2. CASE cache'[n][i] = NoEntry \/ cache'[n][i].state = "running"
      BY <2>2 DEF NoEntry
    <2>3. ASSUME NEW s \in Sockets, Execute(s, i), n = Namespace(s, i),
                 cache'[n][i] = Entry(n, i, IF kind[i] = "messages" THEN Snapshot(version) ELSE Done)
          PROVE  /\ cache'[n][i].state = "kept" => Fit(kind'[i], times'[i], cache'[n][i].result) /\ cache'[n][i].result # Full
                 /\ cache'[n][i].state = "spent" => times'[i] > 0
      <3> DEFINE x == IF kind[i] = "messages" THEN Snapshot(version) ELSE Done
      <3>1. kind[i] # "none"
        BY <1>1, <2>3 DEF Execute
      <3>2. /\ Fit(kind'[i], times'[i], x) /\ x # Full /\ times'[i] > 0
            /\ Entry(Namespace(s, i), i, x) \in {[state |-> "kept", result |-> x], [state |-> "spent", result |-> None]}
        BY <2>3, <3>1, ExecuteEffect
      <3> HIDE DEF x
      <3>3. cache'[n][i] \in {[state |-> "kept", result |-> x], [state |-> "spent", result |-> None]}
        BY <2>3, <3>2 DEF x
      <3> QED BY <3>2, <3>3
    <2> QED BY <2>1, <2>2, <2>3, CacheMoves
  <1> QED BY <1>2, <1>3, <1>4, <1>5 DEF Answers, Good

\* A goroutine that finds no room, at a socket that is open, refuses a request that
\* nothing executes but what is stale.
LEMMA RefusedIsDead ==
    ASSUME Types, Connections, Asking, Answers, Executions, [Next]_vars,
           NEW s \in Sockets, NEW i \in Requests \ lapsed, kind[i] = "mutation", Run(s, i),
           handler'[s][i].step = "answer", handler'[s][i].result = Full, link[s] = "open"
    PROVE  Dead(i)'
  <1>1. /\ handler[s][i].step = "begin" /\ UNCHANGED <<up, down, link, serve, at, pending, kind>>
        /\ \A r \in Sockets : r # s => handler'[r] = handler[r]
        /\ \/ cache[Namespace(s, i)][i].state = "spent" /\ handler'[s][i].result = Spent
           \/ /\ cache[Namespace(s, i)][i].state = "kept"
              /\ handler'[s][i].result = cache[Namespace(s, i)][i].result
           \/ cache[Namespace(s, i)][i].state = "none" /\ handler'[s][i].result = Full
    BY RunEffect
  <1>2. Namespace(s, i) = 0 /\ 0 \in Caches
    BY Ranges DEF Namespace, Caches
  <1>3. cache[0][i].state = "none"
    <2>1. cache[0][i].state = "kept" => cache[0][i].result # Full
      BY <1>2 DEF Answers
    <2> QED BY <1>1, <1>2, <2>1, ResultsDiffer
  <1>4. s = at /\ serve[s] = "serving"
    <2>1. s = at /\ Live(s) /\ serve[s] \notin {"none", "accepted"}
      BY <1>1 DEF Connections
    <2> QED BY <2>1 DEF Live
  <1>5. ASSUME NEW r \in Sockets, r > s
        PROVE  serve[r] = "none" /\ ~Asked(r, i) /\ handler[r][i].step = "none"
    <2>1. link[r] = "none"
      BY <1>4, <1>5, Ranges DEF Connections
    <2>2. serve[r] = "none"
      BY <2>1 DEF Connections
    <2>3. up[r] = <<>> /\ handler[r][i].step = "none"
      BY <2>2 DEF Connections, Live
    <2> QED BY <2>2, <2>3, HasNothing DEF Asked
  <1>6. ~Stale(s)
    BY <1>5 DEF Stale
  <1>7. times[i] = 0 /\ times'[i] = times[i]
    <2>1. times[i] > 0 => Over(i)
      BY <1>3 DEF Executions
    <2>2. ~Over(i)
      BY <1>1, <1>6 DEF Over, Ended, Begins
    <2>3. times[i] \in Nat /\ times' = times
      BY DEF Types, ServerOK, Run
    <2> QED BY <2>1, <2>2, <2>3
  <1>8. ASSUME NEW r \in Sockets, Begins(r, i)' PROVE Stale(r)'
    <2>1. r # s
      <3>1. ~Asked(s, i)
        BY <1>1 DEF Asking
      <3>2. ~Begins(s, i)'
        BY <1>1, <3>1 DEF Begins, Asked
      <3> QED BY <1>8, <3>2
    <2>2. Begins(r, i)
      BY <1>1, <1>8, <2>1 DEF Begins, Asked
    <2>3. ~(r > s)
      BY <1>5, <2>2 DEF Begins
    <2>4. s > r
      BY <2>1, <2>3, Ranges
    <2> QED BY <1>1, <1>4, <2>4 DEF Stale
  <1>9. ASSUME NEW r \in Sockets PROVE handler'[r][i].step # "execute"
    <2>1. CASE r = s
      BY <2>1
    <2>2. CASE r # s
      <3>1. handler[r][i].step # "execute"
        BY <1>3 DEF Executions
      <3> QED BY <1>1, <2>2, <3>1
    <2> QED BY <2>1, <2>2
  <1> QED BY <1>7, <1>8, <1>9 DEF Dead, Ended

LEMMA RefusalsNext ==
    ASSUME Types, Connections, Asking, Asks, Answers, Refusals, Executions, [Next]_vars
    PROVE  Refusals'
  <1> SUFFICES ASSUME NEW i \in Requests \ lapsed', kind'[i] = "mutation"
               PROVE  /\ got'[i] = Full => Dead(i)'
                      /\ \A s \in Sockets :
                           /\ Has(down'[s], Answer(i, Full)) => Dead(i)'
                           /\ handler'[s][i].step = "answer" /\ handler'[s][i].result = Full /\ link'[s] = "open" => Dead(i)'
    BY DEF Refusals
  <1>0. i \notin lapsed
    BY LapsedMoves
  <1>1. kind[i] = "none" => got[i] = None /\ \A s \in Sockets : handler[s][i].step = "none"
    BY DEF Asks
  <1>2. kind[i] # "none" => kind[i] = "mutation"
    BY Onward
  <1>3. Full \in Results
    BY DEF Results
  <1>4. ASSUME got'[i] = Full PROVE Dead(i)'
    <2>1. CASE got'[i] = got[i]
      <3>1. kind[i] # "none" /\ i \notin Pending
        BY <1>1, <1>4, <2>1, ResultsDiffer DEF Asking
      <3>2. Dead(i)
        BY <1>0, <1>2, <1>4, <2>1, <3>1 DEF Refusals
      <3> QED BY <3>1, <3>2, DeadStays
    <2>2. CASE Receive /\ Head(down[at]) = Answer(i, got'[i])
      <3>1. at \in Sockets /\ Has(down[at], Answer(i, Full))
        BY <1>4, <2>2, ReceiveEffect
      <3>2. kind[i] # "none"
        BY <1>1, <1>3, <3>1 DEF Answers
      <3>3. Dead(i)
        BY <1>0, <1>2, <3>1, <3>2 DEF Refusals
      <3> QED BY <3>1, <3>2, <3>3, DeadStays, Ranges
    <2> QED BY <1>4, <2>1, <2>2, PageMoves, ResultsDiffer
  <1>5. ASSUME NEW s \in Sockets, Has(down'[s], Answer(i, Full)) PROVE Dead(i)'
    <2>1. CASE Has(down[s], Answer(i, Full))
      <3>1. s = at
        BY <2>1, HasNothing DEF Connections
      <3>2. kind[i] # "none"
        BY <1>1, <1>3, <2>1 DEF Answers
      <3>3. Dead(i)
        BY <1>0, <1>2, <2>1, <3>2 DEF Refusals
      <3> QED BY <3>1, <3>2, <3>3, DeadStays, Ranges
    <2>2. ASSUME NEW j \in Requests, link[s] = "open", Enqueue(s, j), Answer(i, Full) = Answer(j, handler[s][j].result)
          PROVE  Dead(i)'
      <3>1. i = j /\ Full = handler[s][i].result
        BY <2>2, AnswersDiffer
      <3>2. handler[s][i].step = "answer"
        BY <2>2, <3>1 DEF Enqueue
      <3>3. kind[i] # "none" /\ s = at
        BY <1>1, <2>2, <3>2 DEF Connections
      <3>4. Dead(i)
        BY <1>0, <1>2, <2>2, <3>1, <3>2, <3>3 DEF Refusals
      <3> QED BY <3>3, <3>4, DeadStays, Ranges
    <2> QED BY <1>5, <2>1, <2>2, DownMoves, AnswersDiffer
  <1>6. ASSUME NEW s \in Sockets, handler'[s][i].step = "answer", handler'[s][i].result = Full, link'[s] = "open"
        PROVE  Dead(i)'
    <2>1. CASE handler'[s][i] = handler[s][i]
      <3>1. handler[s][i].step = "answer" /\ handler[s][i].result = Full /\ kind[i] # "none"
        BY <1>1, <1>6, <2>1
      <3>2. link[s] = "open" /\ s = at
        <4>1. link[s] # "none"
          BY <3>1 DEF Connections
        <4> QED BY <1>6, <4>1, LinkMoves DEF Connections
      <3>3. Dead(i)
        BY <1>0, <1>2, <3>1, <3>2 DEF Refusals
      <3> QED BY <3>1, <3>2, <3>3, DeadStays, Ranges
    <2>2. CASE Run(s, i)
      <3>1. link'[s] = link[s] /\ kind' = kind
        BY <2>2, RunEffect
      <3> QED BY <1>0, <1>6, <2>2, <3>1, RefusedIsDead
    <2>3. CASE handler'[s][i] = [step |-> "answer", result |-> IF kind[i] = "messages" THEN Snapshot(version) ELSE Done]
      <3>1. handler'[s][i].result = IF kind[i] = "messages" THEN Snapshot(version) ELSE Done
        BY <2>3
      <3> QED BY <1>6, <3>1, ResultsDiffer
    <2>4. CASE handler'[s][i] = [step |-> "done", result |-> None]
      <3>1. handler'[s][i].step = "done"
        BY <2>4
      <3> QED BY <1>6, <3>1
    <2>5. CASE handler'[s][i].step = "begin"
      BY <1>6, <2>5
    <2> QED BY <2>1, <2>2, <2>3, <2>4, <2>5, HandlerMoves
  <1> QED BY <1>4, <1>5, <1>6

\* A mutation executes at most once, for its entry is forgotten only when it is over,
\* or lapses.
LEMMA ForgottenIsOver ==
    ASSUME Types, Connections, Asking, Asks, Executions, Unwanted, [Next]_vars,
           NEW i \in Requests \ lapsed', kind[i] = "mutation", times'[i] > 0, cache'[0][i].state = "none"
    PROVE  Over(i)'
  <1>1. 0 \in Caches
    BY Ranges DEF Caches
  <1>2. ASSUME NEW s \in Sockets, Execute(s, i) PROVE FALSE
    <2>1. Namespace(s, i) = 0 /\ kind[i] # "none"
      BY DEF Namespace
    <2> DEFINE x == IF kind[i] = "messages" THEN Snapshot(version) ELSE Done
               e == Entry(Namespace(s, i), i, x)
    <2>2. e \in {[state |-> "kept", result |-> x], [state |-> "spent", result |-> None]}
      BY <1>2, <2>1, ExecuteEffect
    <2>3. cache' = [cache EXCEPT ![Namespace(s, i)][i] = e]
      BY <1>2 DEF Execute
    <2> HIDE DEF e, x
    <2>4. cache'[0][i] = e
      BY <1>1, <2>1, <2>3 DEF Types, ServerOK
    <2>5. e.state # "none"
      BY <2>2
    <2> QED BY <2>4, <2>5
  <1>3. times[i] > 0 /\ Seen(i)
    <2>1. times'[i] = times[i]
      BY <1>2, TimesMoves
    <2> QED BY <2>1 DEF Asks
  <1>4. CASE cache[0][i].state = "none"
    <2>1. i \notin lapsed
      BY LapsedMoves
    <2>2. Over(i)
      BY <1>3, <1>4, <2>1 DEF Executions
    <2> QED BY <2>2, OverStays
  <1>5. ASSUME NEW s \in Sockets, serve[s] = "serving", Has(up[s], Ack(i)) PROVE Over(i)'
    <2>1. Over(i)
      BY <1>5 DEF Unwanted
    <2> QED BY <2>1, OverStays
  <1>6. ASSUME NEW s \in Sockets, serve[s] = "serving", ~Stale(s),
               NEW S \in SUBSET Requests, Has(up[s], Resume(S)), i \notin S
        PROVE  Over(i)'
    <2>1. Before(s, i) \/ Since(s, i)
      BY <1>6 DEF Unwanted
    <2>2. ASSUME Since(s, i) PROVE FALSE
      <3>1. PICK r \in Sockets : handler[r][i].step # "none"
        BY <1>3 DEF Seen
      <3>2. r > s
        BY <2>2, <3>1, Ranges DEF Since
      <3>3. serve[r] \in {"serving", "gone"}
        BY <3>1 DEF Connections, Types, ServerOK
      <3> QED BY <1>6, <3>2, <3>3 DEF Stale
    <2>3. ASSUME NEW r \in Sockets, Begins(r, i), Before(s, i) PROVE Stale(r)
      <3>1. s > r
        BY <2>3, Ranges DEF Before
      <3> QED BY <1>6, <3>1 DEF Stale
    <2>4. Over(i)
      BY <2>1, <2>2, <2>3 DEF Over, Ended, Before
    <2> QED BY <2>4, OverStays
  <1> QED BY <1>1, <1>2, <1>3, <1>4, <1>5, <1>6, CacheMoves

LEMMA ExecutionsNext ==
    ASSUME Types, Connections, Asking, Asks, Executions, Unwanted, [Next]_vars
    PROVE  Executions'
  <1>1. 0 \in Caches /\ \A s \in Sockets : s \in Caches /\ s # 0
    BY Ranges DEF Caches
  <1>2. ASSUME NEW i \in Requests, kind[i] = "none"
        PROVE  /\ times'[i] = 0
               /\ \A s \in Sockets : handler'[s][i].step = "none"
               /\ \A n \in Caches : cache'[n][i] = NoEntry /\ cache'[n][i].state = "none"
    BY <1>2, NewRequest DEF NoEntry
  <1>3. ASSUME NEW i \in Requests, kind[i] = "mutation"
        PROVE  /\ \A s \in Sockets : handler'[s][i].step = "execute" =>
                    /\ cache'[0][i].state = "running"
                    /\ \A r \in Sockets : handler'[r][i].step = "execute" => r = s
               /\ i \notin lapsed' =>
                    /\ cache'[0][i].state = "running" => times'[i] = 0
                    /\ times'[i] <= 1
    <2>1. /\ \A s \in Sockets : handler[s][i].step = "execute" =>
               /\ cache[0][i].state = "running"
               /\ \A r \in Sockets : handler[r][i].step = "execute" => r = s
          /\ i \notin lapsed' =>
               /\ i \notin lapsed
               /\ cache[0][i].state = "running" => times[i] = 0
               /\ times[i] > 0 /\ cache[0][i].state = "none" => Over(i)
               /\ times[i] <= 1
          /\ times[i] \in Nat
      BY <1>3, LapsedMoves DEF Executions, Types, ServerOK
    <2>2. \A s \in Sockets : Namespace(s, i) = 0
      BY <1>3 DEF Namespace
    <2>3. ASSUME NEW s \in Sockets, Execute(s, i)
          PROVE  /\ handler[s][i].step = "execute" /\ cache'[0][i].state \in {"kept", "spent"}
                 /\ handler'[s][i].step = "answer" /\ times'[i] = times[i] + 1
      <3> DEFINE x == IF kind[i] = "messages" THEN Snapshot(version) ELSE Done
                 e == Entry(Namespace(s, i), i, x)
      <3>1. kind[i] # "none"
        BY <1>3
      <3>2. /\ e \in {[state |-> "kept", result |-> x], [state |-> "spent", result |-> None]}
            /\ handler[s][i].step = "execute" /\ handler'[s][i] = [step |-> "answer", result |-> x]
        BY <2>3, <3>1, ExecuteEffect
      <3>3. cache' = [cache EXCEPT ![Namespace(s, i)][i] = e] /\ times' = [times EXCEPT ![i] = @ + 1]
        BY <2>3 DEF Execute
      <3> HIDE DEF e, x
      <3>4. cache'[0][i] = e /\ times'[i] = times[i] + 1
        BY <1>1, <2>2, <3>3 DEF Types, ServerOK
      <3>5. e.state \in {"kept", "spent"} /\ handler'[s][i].step = "answer"
        BY <3>2
      <3> QED BY <3>2, <3>4, <3>5
    <2>4. ASSUME NEW s \in Sockets, Run(s, i), handler'[s][i].step = "execute"
          PROVE  /\ cache[0][i].state = "none" /\ cache'[0][i].state = "running"
                 /\ i \notin lapsed' => times'[i] = 0
                 /\ \A r \in Sockets : handler'[r][i].step = "execute" => r = s
      <3>1. /\ cache[0][i].state = "none" /\ handler[s][i].step = "begin"
            /\ cache' = [cache EXCEPT ![0][i].state = "running"]
            /\ \A r \in Sockets : r # s => handler'[r] = handler[r]
        BY <2>2, <2>4, RunEffect
      <3>2. cache'[0][i].state = "running"
        <4>1. cache[0] \in [Requests -> Entries]
          BY <1>1 DEF Types, ServerOK
        <4>2. cache'[0][i] = [cache[0][i] EXCEPT !.state = "running"]
          BY <1>1, <3>1, <4>1 DEF Types, ServerOK
        <4>3. [cache[0][i] EXCEPT !.state = "running"].state = "running"
          BY <4>1 DEF Entries
        <4> QED BY <4>2, <4>3
      <3>3. times'[i] = times[i]
        BY <2>4 DEF Run
      <3>4. ASSUME i \notin lapsed' PROVE ~Over(i)
        <4>1. ~Stale(s)
          BY <2>4, <3>4, LapsedMoves
        <4> QED BY <3>1, <4>1 DEF Over, Ended, Begins
      <3> QED BY <2>1, <3>1, <3>2, <3>3, <3>4
    <2>5. \/ cache'[0][i] = cache[0][i]
          \/ cache'[0][i] = NoEntry /\ cache[0][i].state # "running"
          \/ \E s \in Sockets : Run(s, i) /\ handler'[s][i].step = "execute"
          \/ \E s \in Sockets : Execute(s, i)
      BY <1>1, CacheMoves DEF Settled, Unsettled
    <2>6. ASSUME NEW s \in Sockets, handler'[s][i].step = "execute"
          PROVE  \/ handler[s][i].step = "execute" /\ \A r \in Sockets : ~Execute(r, i)
                 \/ Run(s, i)
      <3>1. ASSUME NEW r \in Sockets, Execute(r, i), handler[s][i].step = "execute" PROVE FALSE
        BY <2>1, <2>3, <2>6, <3>1
      <3>2. \/ handler'[s][i] = handler[s][i] \/ handler'[s][i].step = "begin"
            \/ Run(s, i)
            \/ handler'[s][i] = [step |-> "answer", result |-> IF kind[i] = "messages" THEN Snapshot(version) ELSE Done]
            \/ handler'[s][i] = [step |-> "done", result |-> None]
        BY HandlerMoves
      <3> QED BY <2>6, <3>1, <3>2
    <2>7. ASSUME NEW s \in Sockets, handler'[s][i].step = "execute"
          PROVE  /\ cache'[0][i].state = "running"
                 /\ \A r \in Sockets : handler'[r][i].step = "execute" => r = s
      BY <2>1, <2>4, <2>5, <2>6, <2>7
    <2>8. times'[i] = times[i] \/ \E s \in Sockets : Execute(s, i)
      BY TimesMoves
    <2>9. ASSUME cache'[0][i].state = "running", i \notin lapsed' PROVE times'[i] = 0
      BY <2>1, <2>3, <2>4, <2>5, <2>8, <2>9 DEF NoEntry
    <2>10. i \notin lapsed' => times'[i] <= 1
      BY <2>1, <2>3, <2>8
    <2> QED BY <2>7, <2>9, <2>10
  <1>4. ASSUME NEW i \in Requests, kind[i] = "messages", NEW s \in Sockets,
               handler'[s][i].step \in {"none", "begin"}
        PROVE  cache'[s][i] = NoEntry
    <2>1. handler[s][i].step \in {"none", "begin"}
      <3>1. Asked(s, i) => handler[s][i].step = "none"
        BY DEF Asking
      <3> QED BY <1>4, <3>1, Onward DEF Begins
    <2>2. cache[s][i] = NoEntry
      BY <1>4, <2>1 DEF Executions
    <2>3. \A r \in Sockets : Namespace(r, i) = s => r = s
      BY <1>4 DEF Namespace
    <2>4. ~Execute(s, i)
      BY <2>1 DEF Execute
    <2> QED BY <1>1, <1>4, <2>2, <2>3, <2>4, CacheMoves DEF Settled, NoEntry
  <1>5. ASSUME NEW i \in Requests, kind'[i] = "mutation"
        PROVE  /\ \A s \in Sockets : handler'[s][i].step = "execute" =>
                    /\ cache'[0][i].state = "running"
                    /\ \A r \in Sockets : handler'[r][i].step = "execute" => r = s
               /\ i \notin lapsed' =>
                    /\ cache'[0][i].state = "running" => times'[i] = 0
                    /\ times'[i] > 0 /\ cache'[0][i].state = "none" => Over(i)'
                    /\ times'[i] <= 1
    BY <1>1, <1>2, <1>3, <1>5, Onward, ForgottenIsOver
  <1>6. ASSUME NEW i \in Requests, kind'[i] = "messages", NEW s \in Sockets,
               handler'[s][i].step \in {"none", "begin"}
        PROVE  cache'[s][i] = NoEntry
    BY <1>1, <1>2, <1>4, <1>6, Onward
  <1> QED BY <1>5, <1>6 DEF Executions

\* An answer arrives, and it is acknowledged: its request is over.
LEMMA ReceivedIsOver ==
    ASSUME Types, Connections, Asking, Asks, Answers, [Next]_vars, Receive,
           NEW i \in Requests, NEW r \in Results, Head(down[at]) = Answer(i, r)
    PROVE  Over(i)'
  <1>1. /\ at \in Sockets /\ link[at] = "open" /\ Has(down[at], Answer(i, r))
    BY ReceiveEffect
  <1>2. /\ UNCHANGED <<kind, handler, serve>>
    BY DEF Receive
  <1>3. handler[at][i].step = "done" /\ kind[i] # "none"
    <2>1. handler[at][i].step = "done"
      BY <1>1 DEF Answers
    <2> QED BY <1>1, <2>1 DEF Asks
  <1>4. serve[at] \in {"serving", "gone"}
    <2>1. serve[at] \notin {"none", "accepted"}
      BY <1>1, <1>3 DEF Connections
    <2> QED BY <1>1, <2>1 DEF Types, ServerOK
  <1>5. i \notin Pending'
    <2>1. pending' = Others(i)
      <3>1. \A v : Answer(i, r) # Event(v)
        BY AnswersDiffer
      <3>2. \A j, t : Answer(i, r) = Answer(j, t) => i = j
        BY AnswersDiffer
      <3> QED BY <3>1, <3>2, ReceiveEffect
    <2>2. /\ pending \in Seq(Requests) /\ \A m, n \in DOMAIN pending : pending[m] = pending[n] => m = n
      BY PendingTypes DEF Asking
    <2>3. {Others(i)[n] : n \in DOMAIN Others(i)} = Pending \ {i}
      BY <2>2, OthersKept
    <2> QED BY <2>1, <2>3 DEF Pending
  <1>6. ASSUME NEW s \in Sockets, Begins(s, i)' PROVE Stale(s)'
    <2>1. ~Connect(s)
      BY <1>1, Ranges DEF Connect
    <2>2. Begins(s, i)
      BY <1>3, <1>6, <2>1, Onward
    <2>3. s # at
      BY <1>3, <2>2 DEF Asking, Begins
    <2>4. ~(s > at)
      <3> SUFFICES ASSUME s > at PROVE FALSE
        OBVIOUS
      <3>1. link[s] = "none"
        BY <1>1, Ranges DEF Connections
      <3>2. up[s] = <<>> /\ handler[s][i].step = "none"
        BY <3>1 DEF Connections, Live
      <3> QED BY <2>2, <3>2, HasNothing DEF Begins, Asked
    <2>5. at > s
      BY <1>1, <2>3, <2>4, Ranges
    <2> QED BY <1>1, <1>2, <1>4, <2>5 DEF Stale
  <1>7. kind'[i] # "none"
    BY <1>2, <1>3
  <1> QED BY <1>5, <1>6, <1>7 DEF Over, Ended

LEMMA UnwantedNext ==
    ASSUME Types, Connections, Asking, Asks, Answers, Unwanted, [Next]_vars
    PROVE  Unwanted'
  <1> SUFFICES ASSUME NEW s \in Sockets
               PROVE  /\ \A i \in Requests : Has(up'[s], Ack(i)) => Over(i)'
                      /\ \A S \in SUBSET Requests : Has(up'[s], Resume(S)) =>
                           \A i \in Requests \ S : Before(s, i)' \/ Since(s, i)'
    BY DEF Unwanted
  <1>1. ASSUME NEW i \in Requests, Has(up'[s], Ack(i)) PROVE Over(i)'
    <2>1. CASE Has(up[s], Ack(i))
      <3>1. Over(i)
        BY <2>1 DEF Unwanted
      <3> QED BY <3>1, OverStays
    <2>2. ASSUME s = at, Receive, NEW j \in Requests, NEW r \in Results,
                 Head(down[s]) = Answer(j, r), Ack(i) = Ack(j)
          PROVE  Over(i)'
      <3>1. i = j
        BY <2>2, FramesDiffer
      <3> QED BY <2>2, <3>1, ReceivedIsOver
    <2>3. \A j : Ack(i) # Ask(j) /\ Ack(i) # Resume(Pending)
      BY FramesDiffer
    <2> QED BY <1>1, <2>1, <2>2, <2>3, UpMoves
  <1>2. ASSUME NEW S \in SUBSET Requests, Has(up'[s], Resume(S)), NEW i \in Requests \ S
        PROVE  Before(s, i)' \/ Since(s, i)'
    <2>1. CASE Has(up[s], Resume(S))
      <3>1. up[s] # <<>> /\ up[s] \in Seq(FromPage) /\ Proper(up[s])
        BY <2>1, HasNothing DEF Types, NetOK, Asking
      <3>2. Head(up[s]) = Resume(S)
        BY <2>1, <3>1, ProperTail, FramesDiffer
      <3>3. link[s] # "none" /\ ~Connect(s)
        BY <3>1 DEF Connections, Live, Connect
      <3>4. ASSUME Before(s, i), kind[i] # "none" PROVE Before(s, i)'
        <4>1. i \notin Pending'
          BY <3>4, Onward DEF Before
        <4>2. \A r \in Sockets : r >= s => ~Begins(r, i)'
          BY <3>4, Onward DEF Before
        <4> QED BY <4>1, <4>2 DEF Before
      <3>5. ASSUME Since(s, i) PROVE Since(s, i)'
        <4>1. ASSUME NEW r \in Sockets, r < s PROVE ~Asked(r, i)'
          <5>1. ~Asked(r, i)
            BY <3>5, <4>1 DEF Since
          <5>2. r # at
            BY <3>3, <4>1, Ranges DEF Connections
          <5>3. ~Connect(r)
            BY <3>3, <4>1 DEF Connections, Connect
          <5>4. \A j : Ask(i) # Ack(j)
            BY FramesDiffer
          <5> QED BY <5>1, <5>2, <5>3, <5>4, UpMoves DEF Asked
        <4>2. ASSUME NEW r \in Sockets, r <= s PROVE handler'[r][i].step = "none"
          <5>1. handler[r][i].step = "none"
            BY <3>5, <4>2 DEF Since
          <5>2. ~(up[r] # <<>> /\ Has(up[r], Ask(i)) /\ Head(up[r]) = Ask(i))
            <6>1. CASE r = s
              BY <3>2, <6>1, FramesDiffer
            <6>2. CASE r # s
              <7>1. r < s
                BY <4>2, <6>2, Ranges
              <7> QED BY <3>5, <7>1 DEF Since, Asked
            <6> QED BY <6>1, <6>2
          <5> QED BY <5>1, <5>2, HandlerMoves
        <4> QED BY <4>1, <4>2 DEF Since
      <3>6. kind[i] = "none" => Since(s, i)
        BY DEF Asks, Since
      <3>7. Before(s, i) \/ Since(s, i)
        BY <2>1 DEF Unwanted
      <3> QED BY <3>4, <3>5, <3>6, <3>7
    <2>2. CASE Connect(s) /\ Resume(S) = Resume(Pending)
      <3>1. pending' = pending /\ handler' = handler /\ link[s] = "none"
        BY <2>2 DEF Connect
      <3>2. i \notin Pending /\ i \notin Pending'
        BY <2>2, <3>1, FramesDiffer DEF Pending
      <3>3. ~Asked(s, i)'
        <4>1. \A f : Has(up'[s], f) <=> f = Resume(Pending) \/ \E j \in Pending : f = Ask(j)
          BY <2>2, ConnectEffect
        <4>2. Ask(i) # Resume(Pending) /\ \A j \in Pending : Ask(i) = Ask(j) => i = j
          BY FramesDiffer
        <4> QED BY <3>2, <4>1, <4>2 DEF Asked
      <3>4. ASSUME NEW r \in Sockets, r >= s PROVE ~Begins(r, i)'
        <4>1. link[r] = "none"
          BY <3>1, <3>4, Ranges DEF Connections
        <4>2. up[r] = <<>> /\ handler'[r][i].step = "none"
          BY <3>1, <4>1 DEF Connections, Live
        <4>3. ~Asked(r, i)'
          <5>1. CASE r = s
            BY <3>3, <5>1
          <5>2. CASE r # s
            BY <2>2, <4>2, <5>2, ConnectEffect, HasNothing DEF Asked
          <5> QED BY <5>1, <5>2
        <4> QED BY <4>2, <4>3 DEF Begins
      <3> QED BY <3>2, <3>4 DEF Before
    <2>3. \A j : Resume(S) # Ask(j) /\ Resume(S) # Ack(j)
      BY FramesDiffer
    <2> QED BY <1>2, <2>1, <2>2, <2>3, UpMoves
  <1> QED BY <1>1, <1>2

\* Timers name the socket that left last; what is reaped has not come back.
LEMMA ReapingNext ==
    ASSUME Types, Connections, Reaping, [Next]_vars
    PROVE  Reaping'
  <1>1. CASE UNCHANGED <<installed, timer, reaping, opened>>
    BY <1>1 DEF Reaping
  <1>2. ASSUME NEW s \in Sockets, Replace(s) PROVE Reaping'
    BY <1>2 DEF Replace, LifecycleFree, Reaping
  <1>3. ASSUME NEW s \in Sockets, Remove(s) PROVE Reaping'
    <2>1. /\ reaping' = reaping /\ opened' = opened
          /\ installed' = (IF installed = s THEN 0 ELSE installed)
          /\ timer' = (IF installed = s THEN s ELSE timer)
      BY <1>3 DEF Remove, Left
    <2>2. installed = s => s = opened /\ reaping = 0
      BY Ranges DEF Connections, Reaping
    <2> QED BY <2>1, <2>2 DEF Reaping
  <1>4. ASSUME NEW t \in Sockets, Reap(t) PROVE Reaping'
    <2>1. /\ reaping = 0 /\ installed' = installed /\ opened' = opened
          /\ \/ timer' = timer /\ reaping' = reaping
             \/ timer = t /\ timer' \in {0, t} /\ reaping' = reaping
             \/ timer = t /\ installed = 0 /\ timer' = 0 /\ reaping' = t
      BY <1>4 DEF Reap, LifecycleFree, Mine, Rearmed
    <2> QED BY <2>1 DEF Reaping
  <1>5. Fire \/ Reaped => Reaping'
    BY DEF Fire, Reaped, Reaping
  <1> QED BY <1>1, <1>2, <1>3, <1>4, <1>5, Causes

-----------------------------------------------------------------------------
(* The invariant, and what it gives. *)

LEMMA InitInv == Init => Inv
  <1> SUFFICES ASSUME Init PROVE Inv
    OBVIOUS
  <1>1. /\ kind = [i \in Requests |-> "none"] /\ pending = <<>>
        /\ got = [i \in Requests |-> None]
        /\ at = 0 /\ installed = 0 /\ timer = 0 /\ fired = {} /\ reaping = 0
        /\ link = [s \in Sockets |-> "none"] /\ serve = [s \in Sockets |-> "none"]
        /\ up = [s \in Sockets |-> <<>>] /\ down = [s \in Sockets |-> <<>>]
        /\ handler = [s \in Sockets |-> [i \in Requests |-> NoHandler]]
        /\ cache = [n \in Caches |-> [i \in Requests |-> NoEntry]]
        /\ version = 0 /\ lock = <<>> /\ target = 0
        /\ times = [i \in Requests |-> 0] /\ lapsed = {} /\ opened = 0 /\ applied = 0
    BY DEF Init
  <1>2. /\ None \in Results /\ NoHandler \in Handlers /\ NoEntry \in Entries
        /\ NoHandler.step = "none" /\ NoEntry.state = "none"
    BY DEF Results, Handlers, Entries, NoHandler, NoEntry
  <1>3. Types
    <2>1. PageOK
      <3>1. pending \in Seq(Requests) /\ got \in [Requests -> Results]
        BY <1>1, <1>2
      <3>2. got \in [Requests -> Results \cup {[is |-> "given up"]}]
        BY <3>1
      <3>3. kind \in [Requests -> {"none", "mutation", "messages"}]
        BY <1>1
      <3> QED BY <1>1, <3>1, <3>2, <3>3, Ranges DEF PageOK
    <2>2. ServerOK
      <3>1. lock # <<"event">>
        BY <1>1
      <3> QED BY <1>1, <1>2, <3>1, Ranges DEF ServerOK
    <2>3. NetOK
      <3>1. <<>> \in Seq(FromPage) /\ <<>> \in Seq(ToPage)
        OBVIOUS
      <3> QED BY <1>1, <3>1 DEF NetOK
    <2> QED BY <2>1, <2>2, <2>3 DEF Types
  <1>4. /\ \A s \in Sockets : /\ up[s] = <<>> /\ down[s] = <<>> /\ serve[s] = "none" /\ link[s] = "none"
                              /\ \A i \in Requests : handler[s][i].step = "none"
        /\ \A i \in Requests : kind[i] = "none" /\ times[i] = 0 /\ got[i] = None
        /\ \A n \in Caches, i \in Requests : cache[n][i] = NoEntry /\ cache[n][i].state = "none"
        /\ 0 \in Caches /\ (\A s \in Sockets : s \in Caches)
    BY <1>1, <1>2, Ranges DEF Caches
  <1>5. \A s \in Sockets : \A f : ~Has(up[s], f) /\ ~Has(down[s], f)
    BY <1>4, HasNothing
  <1>6. Connections
    BY <1>1, <1>4 DEF Connections
  <1>7. Pending = {} /\ \A m, n \in DOMAIN pending : pending[m] = pending[n] => m = n
    BY <1>1 DEF Pending
  <1>8. Asking
    <2>1. \A s \in Sockets : Proper(up[s])
      BY <1>4 DEF Proper
    <2> QED BY <1>5, <1>7, <2>1 DEF Asking, Asked
  <1>9. Asks
    BY <1>4, <1>5 DEF Asks, Asked
  <1>10. Answers
    BY <1>4, <1>5 DEF Answers
  <1>11. Refusals /\ Executions
    BY <1>4 DEF Refusals, Executions
  <1>12. Unwanted
    BY <1>5 DEF Unwanted
  <1>13. Reaping
    BY <1>1 DEF Reaping
  <1> QED BY <1>3, <1>6, <1>8, <1>9, <1>10, <1>11, <1>12, <1>13 DEF Inv

LEMMA InvNext == Inv /\ [Next]_vars => Inv'
  BY TypesNext, ConnectionsNext, AskingNext, AsksNext, AnswersNext, RefusalsNext,
     ExecutionsNext, UnwantedNext, ReapingNext DEF Inv

LEMMA Invariant == Spec => []Inv
  <1>1. Inv /\ [Next]_vars => Inv'
    BY InvNext
  <1> QED BY <1>1, InitInv, PTL DEF Spec

\* A client is reaped only while it is away and for the time since it left, and
\* the page is told the truth: what it has an answer to was executed, and what was
\* refused for want of room was not, unless the server had forgotten it.
THEOREM ClientsSafe == Spec => []ClientsAreSafe
  <1>1. ASSUME Inv PROVE TypeOK
    <2>1. PageOK /\ ServerOK /\ NetOK /\ Connections
      BY <1>1 DEF Inv, Types
    <2>2. installed # 0 => serve[installed] = "serving"
      BY <2>1 DEF Connections
    <2>3. {at, installed, timer, reaping, opened} \subseteq 0..MaxSockets
      BY <2>1 DEF PageOK, ServerOK
    <2> QED BY <2>1, <2>2, <2>3 DEF PageOK, ServerOK, NetOK, TypeOK
  <1>2. Inv => ReapsTheAbsent
    BY DEF Inv, Reaping, ReapsTheAbsent
  <1>3. Inv => AnswersAreTrue
    <2> SUFFICES ASSUME Inv, NEW i \in Requests, kind[i] = "mutation"
                 PROVE  /\ got[i] \in {Done, Spent} => times[i] > 0
                        /\ got[i] = Full => times[i] = 0 \/ i \in lapsed
      BY DEF AnswersAreTrue
    <2>1. got[i] \in {Done, Spent} => Good(i, got[i])
      BY ResultsDiffer DEF Inv, Answers
    <2>2. got[i] = Full /\ i \notin lapsed => Dead(i)
      BY DEF Inv, Refusals
    <2> QED BY <2>1, <2>2, ResultsDiffer DEF Good, Fit, Dead
  <1>4. Inv => ClientsAreSafe
    BY <1>1, <1>2, <1>3 DEF ClientsAreSafe
  <1> QED BY <1>4, Invariant, PTL

\* A mutation is executed at most once, however many sockets the page repeats it on
\* and whatever the caches have no room for, until its client is reaped after it or a
\* stale goroutine runs it.
THEOREM ExecutedOnce == Spec => []AtMostOnce
  <1>1. Inv => AtMostOnce
    BY DEF Inv, Executions, AtMostOnce
  <1> QED BY <1>1, Invariant, PTL

-----------------------------------------------------------------------------
(* Requests, sockets and caches implement RemoteCalls. *)

LEMMA CalledIs ==
    ASSUME Inv, NEW i \in Requests
    PROVE  /\ kind[i] = "none" <=> Called(i) = "new"
           /\ i \in Pending => Called(i) = "asked"
           /\ kind[i] = "none" => Ran(i) = 0
           /\ Ran(i) \in Nat /\ (times[i] > 0 <=> Ran(i) > 0)
  <1>1. None.is # "given up"
    BY DEF None
  <1>2. i \in Pending => Called(i) = "asked"
    BY <1>1, ResultsDiffer DEF Inv, Asking, Called
  <1>3. kind[i] = "none" <=> Called(i) = "new"
    BY SMT DEF Called
  <1>4. /\ times[i] \in Nat /\ kind[i] \in {"none", "mutation", "messages"}
        /\ kind[i] = "none" => times[i] = 0
    BY DEF Inv, Types, PageOK, ServerOK, Asks
  <1>5. /\ Ran(i) \in Nat /\ (times[i] > 0 <=> Ran(i) > 0)
        /\ kind[i] = "none" => Ran(i) = 0
    BY <1>4 DEF Ran
  <1> QED BY <1>2, <1>3, <1>4, <1>5

\* A request that changes from one state to another, and nothing else.
LEMMA BecomeStep ==
    ASSUME NEW i \in Requests, NEW to, Called(i)' = to,
           \A j \in Requests : j # i => Called(j)' = Called(j),
           \A j \in Requests : Ran(j)' = Ran(j), lapsed' = lapsed
    PROVE  Calls!Become(i, Called(i), to)
  <1>1. \A j \in Requests : Called(j)' = IF j = i THEN to ELSE Called(j)
    OBVIOUS
  <1>2. [j \in Requests |-> Called(j)]' = [[j \in Requests |-> Called(j)] EXCEPT ![i] = to]
    BY <1>1
  <1>3. UNCHANGED [j \in Requests |-> Ran(j)]
    OBVIOUS
  <1> QED BY <1>2, <1>3 DEF Calls!Become

LEMMA CallsNext == Inv /\ Inv' /\ [Next]_vars =>
    [Calls!Next]_<<[i \in Requests |-> Called(i)], [i \in Requests |-> Ran(i)], lapsed>>
  <1> SUFFICES ASSUME Inv, Inv', [Next]_vars
               PROVE  [Calls!Next]_<<[i \in Requests |-> Called(i)], [i \in Requests |-> Ran(i)], lapsed>>
    OBVIOUS
  <1>1. /\ Types /\ Connections /\ Asking /\ Asks /\ Answers
        /\ kind \in [Requests -> {"none", "mutation", "messages"}]
        /\ got \in [Requests -> Results \cup {[is |-> "given up"]}] /\ times \in [Requests -> Nat]
    BY DEF Inv, Types, PageOK, ServerOK
  <1>2. ASSUME UNCHANGED <<kind, got, times>> PROVE Calls!Next
    <2>1. \A i \in Requests : Called(i)' = Called(i) /\ Ran(i)' = Ran(i)
      BY <1>2 DEF Called, Ran
    <2>2. [i \in Requests |-> Called(i)]' = [i \in Requests |-> Called(i)]
          /\ [i \in Requests |-> Ran(i)]' = [i \in Requests |-> Ran(i)]
      BY <2>1
    <2>3. lapsed \subseteq Requests /\ lapsed' \subseteq Requests
      BY DEF Inv, Types, ServerOK
    <2>4. ASSUME NEW i \in lapsed' \ lapsed PROVE Called(i) # "new"
      <3>1. i \in Requests
        BY <2>3
      <3>2. times[i] > 0 \/ \E s \in Sockets : handler[s][i].step = "begin"
        BY <1>1, <3>1, LapsedMoves DEF Run
      <3>3. kind[i] = "none" => times[i] = 0 /\ \A s \in Sockets : handler[s][i].step = "none"
        BY <1>1, <3>1 DEF Asks
      <3>4. kind[i] # "none"
        BY <3>2, <3>3
      <3> QED BY <3>1, <3>4, CalledIs
    <2>5. lapsed' \ lapsed \in SUBSET {i \in Requests : [j \in Requests |-> Called(j)][i] # "new"}
      BY <2>3, <2>4
    <2>6. lapsed' = lapsed \cup (lapsed' \ lapsed)
      <3>1. \A i \in lapsed : i \in lapsed'
        BY <1>1, <2>3, LapsedMoves
      <3> QED BY <3>1
    <2> QED BY <2>2, <2>5, <2>6 DEF Calls!Next, Calls!Lapse
  <1>3. ASSUME NEW i \in Requests, Issue(i) PROVE Calls!Next
    <2>1. /\ got' = got /\ times' = times /\ lapsed' = lapsed /\ kind[i] = "none" /\ kind'[i] # "none"
          /\ \A j \in Requests : j # i => kind'[j] = kind[j]
          /\ got[i] = None /\ times[i] = 0
      BY <1>1, <1>3 DEF Issue, Asks
    <2>2. Called(i) = "new" /\ Called(i)' = "asked"
      <3>1. None.is # "given up"
        BY DEF None
      <3> QED BY <2>1, <3>1, ResultsDiffer DEF Called
    <2>3. \A j \in Requests : j # i => Called(j)' = Called(j)
      BY <2>1 DEF Called
    <2>4. \A j \in Requests : Ran(j)' = Ran(j)
      BY <2>1 DEF Ran
    <2>5. Calls!Become(i, "new", "asked")
      BY <2>1, <2>2, <2>3, <2>4, BecomeStep
    <2> QED BY <2>5 DEF Calls!Next, Calls!Ask
  <1>4. ASSUME NEW i \in Requests, GiveUp(i) PROVE Calls!Next
    <2>1. /\ kind' = kind /\ times' = times /\ lapsed' = lapsed /\ i \in Pending
          /\ got'[i] = [is |-> "given up"] /\ \A j \in Requests : j # i => got'[j] = got[j]
      BY <1>1, <1>4 DEF GiveUp
    <2>2. Called(i) = "asked" /\ kind[i] # "none"
      BY <1>1, <2>1, CalledIs DEF Asking
    <2>3. Called(i)' = "abandoned"
      <3>1. got'[i].is = "given up"
        <4>1. got'[i] = [is |-> "given up"]
          BY <2>1
        <4>2. [is |-> "given up"].is = "given up"
          OBVIOUS
        <4> QED BY Zenon, <4>1, <4>2
      <3>2. got'[i] # None /\ kind'[i] # "none"
        BY <2>1, <2>2, ResultsDiffer
      <3> QED BY <3>1, <3>2 DEF Called
    <2>4. /\ \A j \in Requests : j # i => Called(j)' = Called(j)
          /\ \A j \in Requests : Ran(j)' = Ran(j)
      BY <2>1 DEF Called, Ran
    <2>5. Calls!Become(i, "asked", "abandoned")
      BY <2>1, <2>2, <2>3, <2>4, BecomeStep
    <2> QED BY <2>5 DEF Calls!Next, Calls!Abandon
  <1>5. ASSUME Receive PROVE Calls!Next
    <2>1. kind' = kind /\ times' = times /\ lapsed' = lapsed
      BY <1>5 DEF Receive
    <2>2. CASE got' = got
      BY <1>2, <2>1, <2>2
    <2>3. ASSUME NEW i \in Requests, NEW r \in Results, i \in Pending, Head(down[at]) = Answer(i, r),
                 got' = [got EXCEPT ![i] = r]
          PROVE  Calls!Next
      <3>1. at \in Sockets /\ Has(down[at], Answer(i, r))
        BY <1>1, <1>5, <2>3, ReceiveEffect
      <3>2. Good(i, r) /\ kind[i] # "none" /\ r # [is |-> "given up"] /\ r.is # "given up"
        <4>1. Good(i, r)
          BY <1>1, <3>1 DEF Answers
        <4>2. kind[i] # "none"
          BY <1>1, <2>3 DEF Asking
        <4>3. r.is # "given up"
          <5>1. /\ Done.is = "done" /\ Full.is = "full" /\ Spent.is = "already executed" /\ None.is = "none"
                /\ \A v : Snapshot(v).is = "snapshot"
            BY DEF Done, Full, Spent, None, Snapshot
          <5> QED BY <5>1 DEF Results
        <4>4. [is |-> "given up"].is = "given up"
          OBVIOUS
        <4> QED BY <4>1, <4>2, <4>3, <4>4
      <3>3. got'[i] = r /\ \A j \in Requests : j # i => got'[j] = got[j]
        BY <1>1, <2>3
      <3>4. /\ \A j \in Requests : j # i => Called(j)' = Called(j)
            /\ \A j \in Requests : Ran(j)' = Ran(j)
        BY <2>1, <3>3 DEF Called, Ran
      <3>5. Called(i) = "asked"
        BY <2>3, CalledIs
      <3>6. CASE r \in {Full, Spent}
        <4>1. Called(i)' = "refused"
          <5>1. /\ kind'[i] # "none" /\ got'[i].is # "given up" /\ got'[i] \in {Full, Spent}
                /\ got'[i] # None
            BY <2>1, <3>2, <3>3, <3>6, ResultsDiffer
          <5> QED BY <5>1 DEF Called
        <4>2. Calls!Become(i, "asked", "refused")
          BY <2>1, <3>4, <3>5, <4>1, BecomeStep
        <4> QED BY <4>2 DEF Calls!Next, Calls!Refuse
      <3>7. CASE r \notin {Full, Spent}
        <4>1. r # None /\ times[i] > 0
          BY <3>2, <3>7 DEF Good, Fit
        <4>2. Called(i)' = "answered"
          BY <2>1, <3>2, <3>3, <3>7, <4>1 DEF Called
        <4>3. [j \in Requests |-> Ran(j)][i] > 0
          BY <4>1, CalledIs
        <4>4. Calls!Become(i, "asked", "answered")
          BY <2>1, <3>4, <3>5, <4>2, BecomeStep
        <4> QED BY <4>3, <4>4 DEF Calls!Next, Calls!Answer
      <3> QED BY <3>6, <3>7
    <2> QED BY <1>1, <1>5, <2>2, <2>3, ReceiveEffect
  <1>6. ASSUME NEW s \in Sockets, NEW i \in Requests, Execute(s, i)
        PROVE  [Calls!Next]_<<[j \in Requests |-> Called(j)], [j \in Requests |-> Ran(j)], lapsed>>
    <2>1. /\ kind' = kind /\ got' = got /\ times' = [times EXCEPT ![i] = @ + 1] /\ lapsed' = lapsed
          /\ handler[s][i].step = "execute"
      BY <1>6 DEF Execute, page
    <2>2. kind[i] # "none" /\ times'[i] = times[i] + 1 /\ times[i] \in Nat
          /\ \A j \in Requests : j # i => times'[j] = times[j]
      BY <1>1, <2>1 DEF Asks
    <2>3. UNCHANGED [j \in Requests |-> Called(j)]
      <3>1. \A j \in Requests : Called(j)' = Called(j)
        BY <2>1 DEF Called
      <3> QED BY <3>1
    <2>4. \A j \in Requests : j # i => Ran(j)' = Ran(j)
      BY <2>1, <2>2 DEF Ran
    <2>5. Called(i) # "new"
      BY <2>2, CalledIs
    <2>6. CASE kind[i] = "messages" /\ times[i] > 0
      <3>1. Ran(i) = 1 /\ Ran(i)' = 1
        BY <2>1, <2>2, <2>6 DEF Ran
      <3>2. UNCHANGED [j \in Requests |-> Ran(j)]
        <4>1. \A j \in Requests : Ran(j)' = Ran(j)
          BY <2>4, <3>1
        <4> QED BY <4>1
      <3> QED BY <2>1, <2>3, <3>2
    <2>7. CASE ~(kind[i] = "messages" /\ times[i] > 0)
      <3>1. Ran(i) = times[i] /\ Ran(i)' = Ran(i) + 1
        BY <2>1, <2>2, <2>7 DEF Ran
      <3>2. Ran(i) = 0 \/ i \in lapsed
        <4> SUFFICES ASSUME i \notin lapsed, times[i] > 0 PROVE FALSE
          BY <2>2, <3>1
        <4>1. kind'[i] = "mutation"
          BY <1>1, <2>1, <2>2, <2>7
        <4>2. times'[i] <= 1
          BY <2>1, <4>1 DEF Inv, Executions
        <4> QED BY <2>2, <4>2
      <3>3. [j \in Requests |-> Ran(j)]' = [[j \in Requests |-> Ran(j)] EXCEPT ![i] = @ + 1]
        <4>1. \A j \in Requests : Ran(j)' = IF j = i THEN Ran(i) + 1 ELSE Ran(j)
          BY <2>4, <3>1
        <4> QED BY <4>1
      <3>4. Calls!Execute(i)
        BY <2>1, <2>3, <2>5, <3>2, <3>3 DEF Calls!Execute
      <3> QED BY <3>4 DEF Calls!Next
    <2> QED BY <2>6, <2>7
  <1>7. \/ UNCHANGED <<kind, got, times>>
        \/ (\E i \in Requests : Issue(i) \/ GiveUp(i)) \/ Receive
        \/ \E s \in Sockets, i \in Requests : Execute(s, i)
    <2>1. /\ \A s \in Sockets : Connect(s) => UNCHANGED <<kind, got, times>>
          /\ Closed => UNCHANGED <<kind, got, times>>
      BY DEF Connect, Closed
    <2> QED BY <2>1, Causes
  <1> QED BY <1>2, <1>3, <1>4, <1>5, <1>6, <1>7

\* A page may rely on it, over however many sockets: its request is executed at
\* most once until it lapses, an answer is that of an execution, and nothing runs
\* unasked.
THEOREM PromiseKept == Spec => KeepsItsPromise
  <1>1. Init => Calls!Init
    <2> SUFFICES ASSUME Init PROVE Calls!Init
      OBVIOUS
    <2>1. lapsed = {} /\ \A i \in Requests : Called(i) = "new" /\ Ran(i) = 0
      BY DEF Init, Called, Ran
    <2> QED BY <2>1 DEF Calls!Init
  <1>2. Inv /\ Inv' /\ [Next]_vars =>
          [Calls!Next]_<<[i \in Requests |-> Called(i)], [i \in Requests |-> Ran(i)], lapsed>>
    BY CallsNext
  <1> QED BY <1>1, <1>2, Invariant, PTL DEF Spec, KeepsItsPromise, Calls!Spec

-----------------------------------------------------------------------------
(* Versions of the session on their way. *)

LEMMA NumbersOfVersions == \A v \in 0..MaxEvents : v \in Nat
  BY ConstantsAssumption DEF ConstantsAssumption

LEMMA DatesOfFrames ==
    ASSUME NEW f \in ToPage
    PROVE  /\ Dated(f) => Date(f) \in Nat
           /\ \A v : f = Event(v) => Dated(f) /\ Date(f) = v
           /\ \A i, r : f = Answer(i, r) => (Dated(f) <=> r.is = "snapshot") /\ Date(f) = r.version
  <1>1. ASSUME NEW i, NEW r PROVE (Dated(Answer(i, r)) <=> r.is = "snapshot") /\ Date(Answer(i, r)) = r.version
    <2>1. Answer(i, r).is = "answer" /\ Answer(i, r).result = r
      BY DEF Answer
    <2> QED BY <2>1 DEF Dated, Date
  <1>2. ASSUME NEW v PROVE Dated(Event(v)) /\ Date(Event(v)) = v
    <2>1. Event(v).is = "event" /\ Event(v).version = v
      BY DEF Event
    <2> QED BY <2>1 DEF Dated, Date
  <1>3. CASE \E i \in Requests, r \in Results : f = Answer(i, r)
    <2>1. PICK i \in Requests, r \in Results : f = Answer(i, r)
      BY <1>3
    <2>2. r.is = "snapshot" => r.version \in Nat
      BY ResultTypes, ConstantsAssumption DEF ConstantsAssumption
    <2> QED BY <1>1, <1>2, <2>1, <2>2
  <1>4. CASE \E v \in 1..MaxEvents : f = Event(v)
    BY <1>1, <1>2, <1>4
  <1> QED BY <1>3, <1>4, FramesToPage

LEMMA ForwardLater ==
    ASSUME NEW q \in Seq(ToPage), NEW a \in Nat, NEW v \in Nat, NEW w \in Nat, Forward(q, a, v), v <= w
    PROVE  Forward(q, a, w)
  <1>1. \A n \in DOMAIN q : q[n] \in ToPage
    OBVIOUS
  <1>2. \A n \in DOMAIN q : Dated(q[n]) => Date(q[n]) \in Nat
    BY <1>1, DatesOfFrames
  <1> QED BY <1>2 DEF Forward

LEMMA ForwardAppend ==
    ASSUME NEW q \in Seq(ToPage), NEW f \in ToPage, NEW a \in Nat, NEW v \in Nat, a <= v,
           Forward(q, a, v), Dated(f) => Date(f) = v
    PROVE  Forward(Append(q, f), a, v)
  <1> DEFINE p == Append(q, f)
  <1>1. /\ DOMAIN p = 1..(Len(q) + 1) /\ DOMAIN q = 1..Len(q) /\ Len(q) \in Nat
        /\ \A n \in 1..Len(q) : p[n] = q[n]
        /\ p[Len(q) + 1] = f
    BY AppendProperties
  <1> HIDE DEF p
  <1>2. SUFFICES ASSUME NEW n \in DOMAIN p, Dated(p[n])
                 PROVE  /\ a <= Date(p[n]) /\ Date(p[n]) <= v
                        /\ \A m \in 1..n : Dated(p[m]) => Date(p[m]) <= Date(p[n])
    BY DEF Forward, p
  <1>3. CASE n \in DOMAIN q
    <2>1. \A m \in 1..n : m \in DOMAIN q /\ p[m] = q[m]
      BY <1>1, <1>3
    <2>2. p[n] = q[n]
      BY <1>1, <1>3
    <2> QED BY <1>2, <1>3, <2>1, <2>2 DEF Forward
  <1>4. CASE n = Len(q) + 1
    <2>1. p[n] = f /\ Date(f) = v
      BY <1>1, <1>2, <1>4
    <2>2. ASSUME NEW m \in 1..n, Dated(p[m]) PROVE Date(p[m]) <= v
      <3>1. CASE m \in DOMAIN q
        BY <1>1, <2>2, <3>1 DEF Forward
      <3>2. CASE m = n
        BY <2>1, <3>2
      <3> QED BY <1>1, <1>4, <3>1, <3>2
    <2> QED BY <2>1, <2>2
  <1> QED BY <1>1, <1>3, <1>4

LEMMA ForwardTail ==
    ASSUME NEW q \in Seq(ToPage), q # <<>>, NEW a \in Nat, NEW v \in Nat, Forward(q, a, v)
    PROVE  /\ Forward(Tail(q), a, v)
           /\ Dated(Head(q)) => /\ a <= Date(Head(q)) /\ Date(Head(q)) <= v
                                /\ Forward(Tail(q), Date(Head(q)), v)
  <1>1. /\ Len(q) \in Nat /\ Len(q) >= 1 /\ DOMAIN q = 1..Len(q)
        /\ Head(q) = q[1] /\ Tail(q) \in Seq(ToPage) /\ DOMAIN Tail(q) = 1..(Len(q) - 1)
        /\ \A n \in 1..(Len(q) - 1) : Tail(q)[n] = q[n + 1]
    BY HeadTailProperties
  <1> DEFINE t == Tail(q)
  <1>2. \A n \in DOMAIN t : /\ n + 1 \in DOMAIN q /\ t[n] = q[n + 1] /\ 1 \in 1..(n + 1)
                            /\ \A m \in 1..n : t[m] = q[m + 1] /\ m + 1 \in 1..(n + 1)
    BY <1>1
  <1>3. Dated(Head(q)) => /\ a <= Date(Head(q)) /\ Date(Head(q)) <= v
                          /\ \A n \in DOMAIN t : Dated(t[n]) => Date(Head(q)) <= Date(t[n])
    <2>1. 1 \in DOMAIN q
      BY <1>1
    <2> QED BY <1>1, <1>2, <2>1 DEF Forward
  <1>4. \A n \in DOMAIN t : Dated(t[n]) =>
          /\ a <= Date(t[n]) /\ Date(t[n]) <= v
          /\ \A m \in 1..n : Dated(t[m]) => Date(t[m]) <= Date(t[n])
    <2> SUFFICES ASSUME NEW n \in DOMAIN t, Dated(t[n])
                 PROVE  /\ a <= Date(t[n]) /\ Date(t[n]) <= v
                        /\ \A m \in 1..n : Dated(t[m]) => Date(t[m]) <= Date(t[n])
      OBVIOUS
    <2> HIDE DEF t
    <2>1. /\ a <= Date(q[n + 1]) /\ Date(q[n + 1]) <= v
          /\ \A m \in 1..(n + 1) : Dated(q[m]) => Date(q[m]) <= Date(q[n + 1])
      BY <1>2 DEF Forward
    <2> QED BY <1>2, <2>1
  <1> QED BY <1>3, <1>4 DEF Forward

\* A queue to the page loses its first frame, or all, or has one more at its end.
LEMMA DownSteps ==
    ASSUME Types, [Next]_vars, NEW s \in Sockets
    PROVE  \/ down'[s] = down[s] \/ down'[s] = <<>>
           \/ Receive /\ s = at
           \/ \E i \in Requests : /\ Enqueue(s, i) /\ Answer(i, handler[s][i].result) \in ToPage
                                  /\ down'[s] = Append(down[s], Answer(i, handler[s][i].result))
           \/ /\ Published /\ Event(version) \in ToPage
              /\ down'[s] = Append(down[s], Event(version))
  <1>1. ASSUME NEW r \in Sockets, NEW q \in Rests(up[r]), Shut(r, q)
        PROVE  down'[s] = down[s] \/ down'[s] = <<>>
    BY <1>1, ShutEffect
  <1>2. ASSUME NEW r \in 0..MaxSockets, NEW g \in ToPage, Push(r, g)
        PROVE  \/ down'[s] = down[s] \/ down'[s] = <<>>
               \/ r = s /\ down'[s] = Append(down[s], g)
    <2>1. \/ link' = link /\ up' = up /\ down' = down
          \/ r \in Sockets /\ link[r] = "open" /\ Shut(r, up[r])
          \/ /\ r \in Sockets /\ link[r] = "open" /\ link' = link /\ up' = up
             /\ down' = [down EXCEPT ![r] = Append(down[r], g)]
      BY <1>2, PushEffect
    <2>2. down \in [Sockets -> Seq(ToPage)]
      BY DEF Types, NetOK
    <2> QED BY <1>1, <2>1, <2>2, RestNames
  <1>3. ASSUME NEW r \in Sockets, NEW i \in Requests, Enqueue(r, i)
        PROVE  \/ down'[s] = down[s] \/ down'[s] = <<>>
               \/ /\ r = s /\ Answer(i, handler[s][i].result) \in ToPage
                  /\ down'[s] = Append(down[s], Answer(i, handler[s][i].result))
    <2>1. Answer(i, handler[r][i].result) \in ToPage
      BY DEF Types, ServerOK, Handlers, ToPage
    <2>2. Push(r, Answer(i, handler[r][i].result)) /\ r \in 0..MaxSockets
      BY <1>3, Ranges DEF Enqueue
    <2> QED BY <1>2, <2>1, <2>2
  <1>4. ASSUME Published
        PROVE  \/ down'[s] = down[s] \/ down'[s] = <<>>
               \/ Event(version) \in ToPage /\ down'[s] = Append(down[s], Event(version))
    <2>1. Event(version) \in ToPage
      <3>1. version \in 1..MaxEvents
        BY <1>4 DEF Published, Types, ServerOK
      <3> QED BY <3>1 DEF ToPage
    <2>2. Push(target, Event(version)) /\ target \in 0..MaxSockets
      BY <1>4 DEF Published, Types, ServerOK
    <2> QED BY <1>2, <2>1, <2>2
  <1>5. ASSUME NEW r \in Sockets, Break(r) PROVE down'[s] = <<>> \/ down'[s] = down[s]
    BY <1>5 DEF Break, Types, NetOK
  <1>6. ASSUME NEW r \in Sockets, Replace(r) \/ Handle(r) PROVE down'[s] = <<>> \/ down'[s] = down[s]
    <2>1. installed = 0 \/ installed \in Sockets
      BY Ranges DEF Types, ServerOK, Sockets
    <2>2. \/ installed \in Sockets /\ Shut(installed, InHand(installed))
          \/ Shut(r, <<>>) \/ down' = down
      BY <1>6, <2>1 DEF Replace, Handle, net
    <2> QED BY <1>1, <2>2, RestNames
  <1>7. CASE Receive /\ s # at
    BY <1>7, ReceiveEffect
  <1>8. \/ UNCHANGED down
        \/ (\E r \in Sockets : Break(r) \/ Replace(r) \/ Handle(r))
        \/ (\E r \in Sockets, i \in Requests : Enqueue(r, i))
        \/ Receive \/ Published
    BY Causes
  <1> QED BY <1>3, <1>4, <1>5, <1>6, <1>7, <1>8

\* Who holds a snapshot holds the session: it is the newest until it is queued.
LEMMA SnapshotsHeld ==
    ASSUME Inv, Versions, [Next]_vars, NEW s \in Sockets, NEW i \in Requests,
           handler'[s][i].step = "answer", handler'[s][i].result.is = "snapshot"
    PROVE  handler'[s][i].result.version = version' /\ lock' = <<s, i>>
  <1>1. /\ Types /\ Connections /\ Asking /\ Asks /\ Answers /\ Executions
        /\ handler \in [Sockets -> [Requests -> Handlers]]
    BY DEF Inv, Types, ServerOK
  <1>2. CASE handler'[s][i] = handler[s][i]
    <2>1. handler[s][i].result.version = version /\ lock = <<s, i>>
      BY <1>2 DEF Versions
    <2>2. lock # <<>> /\ lock # <<"event">>
      BY <2>1
    <2>3. version' = version
      <3>1. ~Publish
        BY <2>2 DEF Publish
      <3> QED BY <3>1, Causes
    <2>4. lock' = lock
      <3>1. ASSUME NEW r \in Sockets, NEW j \in Requests, Execute(r, j) PROVE lock' = lock
        BY <2>2, <3>1 DEF Execute
      <3>2. ASSUME NEW r \in Sockets, NEW j \in Requests, Enqueue(r, j) PROVE lock' = lock
        <4>1. lock' = IF lock = <<r, j>> THEN <<>> ELSE lock
          BY <3>2 DEF Enqueue
        <4>2. CASE r = s /\ j = i
          <5>1. handler'[s][i] = [step |-> "done", result |-> None]
            BY <1>1, <3>2, <4>2 DEF Enqueue
          <5>2. handler'[s][i].step = "done"
            BY <5>1
          <5> QED BY <5>2
        <4>3. CASE ~(r = s /\ j = i)
          BY <2>1, <4>1, <4>3
        <4> QED BY <4>2, <4>3
      <3>3. ~Publish /\ ~Published
        BY <2>2 DEF Publish, Published
      <3> QED BY <3>1, <3>2, <3>3, Causes
    <2> QED BY <1>2, <2>1, <2>3, <2>4
  <1>3. CASE Run(s, i)
    <2>1. /\ handler[s][i].step = "begin"
          /\ \/ handler'[s][i].result \in {Spent, Full}
             \/ /\ cache[Namespace(s, i)][i].state = "kept"
                /\ handler'[s][i].result = cache[Namespace(s, i)][i].result
      BY <1>1, <1>3, RunEffect
    <2>2. Spent.is # "snapshot" /\ Full.is # "snapshot" /\ Done.is # "snapshot"
      BY DEF Spent, Full, Done
    <2>3. /\ cache[Namespace(s, i)][i].state = "kept"
          /\ handler'[s][i].result = cache[Namespace(s, i)][i].result
      BY <2>1, <2>2
    <2>4. Namespace(s, i) \in Caches
      BY Ranges DEF Namespace, Caches
    <2>5. kind[i] # "messages"
      <3>1. kind[i] = "messages" => Namespace(s, i) = s /\ cache[s][i] = NoEntry
        BY <1>1, <2>1 DEF Executions, Namespace
      <3> QED BY <2>3, <3>1 DEF NoEntry
    <2>6. kind[i] = "mutation"
      <3>1. kind[i] # "none"
        BY <1>1, <2>1 DEF Asks
      <3> QED BY <1>1, <2>5, <3>1 DEF Types, PageOK
    <2>7. Good(i, cache[Namespace(s, i)][i].result)
      BY <1>1, <2>3, <2>4 DEF Answers
    <2> QED BY <2>2, <2>3, <2>6, <2>7 DEF Good, Fit
  <1>4. ASSUME NEW r \in Sockets, Execute(r, i), s \in Told(r, i),
               handler'[s][i] = [step |-> "answer", result |->
                     IF kind[i] = "messages" THEN Snapshot(version) ELSE Done]
        PROVE  handler'[s][i].result.version = version' /\ lock' = <<s, i>>
    <2>1. handler'[s][i].result = IF kind[i] = "messages" THEN Snapshot(version) ELSE Done
      BY <1>4
    <2>2. kind[i] = "messages"
      <3>1. Done.is # "snapshot"
        BY DEF Done
      <3> QED BY <2>1, <3>1
    <2>3. s = r
      BY <1>4, <2>2 DEF Told, Waiters, Namespace
    <2>4. version' = version /\ lock' = <<s, i>>
      BY <1>4, <2>2, <2>3 DEF Execute
    <2> QED BY <2>1, <2>2, <2>4 DEF Snapshot
  <1>5. CASE handler'[s][i] = [step |-> "done", result |-> None]
    <2>1. handler'[s][i].step = "done"
      BY <1>5
    <2> QED BY <2>1
  <1>6. CASE handler'[s][i].step = "begin"
    BY <1>6
  <1> QED BY <1>1, <1>2, <1>3, <1>4, <1>5, <1>6, HandlerMoves

\* What the page takes from its socket is not older than what it has.
LEMMA TakenForward ==
    ASSUME Inv, Versions, Receive
    PROVE  /\ applied <= applied' /\ applied' <= version
           /\ Forward(down'[at], applied', version)
           /\ \A s \in Sockets : s # at => down'[s] = <<>>
  <1>1. /\ Types /\ Connections /\ at \in Sockets /\ down[at] # <<>> /\ down'[at] = Tail(down[at])
        /\ \A s \in Sockets : s # at => down'[s] = down[s]
        /\ \/ \E v \in 1..MaxEvents : Head(down[at]) = Event(v) /\ applied' = v
           \/ \E i \in Requests, r \in Results :
                Head(down[at]) = Answer(i, r) /\ applied' = IF r.is = "snapshot" THEN r.version ELSE applied
    BY ReceiveEffect DEF Inv
  <1>2. down[at] \in Seq(ToPage) /\ applied \in Nat /\ version \in Nat
    <2>1. down[at] \in Seq(ToPage)
      BY <1>1 DEF Types, NetOK
    <2>2. applied \in 0..MaxEvents /\ version \in 0..MaxEvents
      BY <1>1 DEF Types, PageOK, ServerOK
    <2> QED BY <2>1, <2>2, NumbersOfVersions
  <1>3. Head(down[at]) \in ToPage
    BY <1>1, <1>2, HasHeadTail
  <1>4. /\ Forward(Tail(down[at]), applied, version)
        /\ Dated(Head(down[at])) => /\ applied <= Date(Head(down[at])) /\ Date(Head(down[at])) <= version
                                    /\ Forward(Tail(down[at]), Date(Head(down[at])), version)
    BY <1>1, <1>2, ForwardTail DEF Versions
  <1>5. IF Dated(Head(down[at])) THEN applied' = Date(Head(down[at])) ELSE applied' = applied
    BY <1>1, <1>3, DatesOfFrames
  <1>6. \A s \in Sockets : s # at => down'[s] = <<>>
    BY <1>1 DEF Connections
  <1>7. applied <= version
    BY DEF Versions
  <1>8. CASE Dated(Head(down[at]))
    BY <1>1, <1>4, <1>5, <1>6, <1>8
  <1>9. CASE ~Dated(Head(down[at]))
    BY <1>1, <1>2, <1>4, <1>5, <1>6, <1>7, <1>9
  <1> QED BY <1>8, <1>9

LEMMA VersionsNext ==
    ASSUME Inv, Inv', Versions, [Next]_vars
    PROVE  Versions'
  <1>0. /\ Types /\ Connections /\ Types'
    BY DEF Inv
  <1>1. /\ Types /\ Connections /\ Types'
        /\ version \in Nat /\ version' \in Nat /\ applied \in Nat /\ applied' \in Nat
    <2>1. applied \in 0..MaxEvents /\ applied' \in 0..MaxEvents
      BY <1>0 DEF Types, PageOK
    <2>2. version \in 0..MaxEvents /\ version' \in 0..MaxEvents
      BY <1>0 DEF Types, ServerOK
    <2> QED BY <1>0, <2>1, <2>2, NumbersOfVersions
  <1>2. version <= version'
    BY <1>1, Causes DEF Publish
  <1>3. CASE Receive
    <2>1. version' = version /\ applied' <= version
      BY <1>3, TakenForward DEF Receive, session
    <2>2. \A s \in Sockets : Forward(down'[s], applied', version')
      <3>1. \A a, b : Forward(<<>>, a, b)
        BY DEF Forward
      <3> QED BY <1>3, <2>1, <3>1, TakenForward
    <2> QED BY <2>1, <2>2, SnapshotsHeld DEF Versions
  <1>4. ASSUME NEW s \in Sockets, Connect(s) PROVE Versions'
    <2>1. applied' = 0 /\ version' = version /\ down' = down /\ at = 0
      BY <1>4 DEF Connect, session
    <2>2. \A r \in Sockets : down[r] = <<>>
      BY <1>1, <2>1, Ranges DEF Connections
    <2>3. \A r \in Sockets : Forward(down'[r], applied', version')
      BY <2>1, <2>2 DEF Forward
    <2> QED BY <1>1, <2>1, <2>3, SnapshotsHeld DEF Versions
  <1>5. CASE ~Receive /\ \A s \in Sockets : ~Connect(s)
    <2>1. applied' = applied
      BY <1>5, Causes
    <2>2. applied <= version
      BY DEF Versions
    <2>3. ASSUME NEW s \in Sockets PROVE Forward(down'[s], applied, version')
      <3>1. down[s] \in Seq(ToPage) /\ Forward(down[s], applied, version)
        BY <1>1 DEF Types, NetOK, Versions
      <3>2. CASE down'[s] = down[s]
        BY <1>1, <1>2, <3>1, <3>2, ForwardLater
      <3>3. CASE down'[s] = <<>>
        BY <3>3 DEF Forward
      <3>4. ASSUME NEW i \in Requests, Enqueue(s, i), Answer(i, handler[s][i].result) \in ToPage,
                   down'[s] = Append(down[s], Answer(i, handler[s][i].result))
            PROVE  Forward(down'[s], applied, version')
        <4>1. version' = version /\ handler[s][i].step = "answer"
          BY <3>4 DEF Enqueue
        <4> DEFINE f == Answer(i, handler[s][i].result)
        <4>2. Dated(f) => Date(f) = version
          <5>1. (Dated(f) <=> handler[s][i].result.is = "snapshot") /\ Date(f) = handler[s][i].result.version
            BY <3>4, DatesOfFrames
          <5> QED BY <4>1, <5>1 DEF Versions
        <4> HIDE DEF f
        <4>3. Forward(Append(down[s], f), applied, version)
          BY <1>1, <2>2, <3>1, <3>4, <4>2, ForwardAppend DEF f
        <4> QED BY <3>4, <4>1, <4>3 DEF f
      <3>5. CASE Published /\ Event(version) \in ToPage /\ down'[s] = Append(down[s], Event(version))
        <4>1. version' = version
          BY <3>5 DEF Published
        <4>2. Date(Event(version)) = version
          BY <3>5, DatesOfFrames
        <4>3. Forward(Append(down[s], Event(version)), applied, version)
          BY <1>1, <2>2, <3>1, <3>5, <4>2, ForwardAppend
        <4> QED BY <3>5, <4>1, <4>3
      <3> QED BY <1>1, <1>5, <3>2, <3>3, <3>4, <3>5, DownSteps
    <2>4. applied' <= version'
      BY <1>1, <1>2, <2>1, <2>2
    <2> QED BY <2>1, <2>3, <2>4, SnapshotsHeld DEF Versions
  <1> QED BY <1>3, <1>4, <1>5

\* What travels on one socket takes the session of the page forward: neither an
\* event nor the answer to a repeated request brings an older state.
THEOREM NeverGoesBack == Spec => NeverBack
  <1>1. Init => Versions
    <2> SUFFICES ASSUME Init PROVE Versions
      OBVIOUS
    <2>1. \A s \in Sockets : down[s] = <<>> /\ \A i \in Requests : handler[s][i].step = "none"
      BY DEF Init, NoHandler
    <2>2. applied = 0 /\ version = 0
      BY DEF Init
    <2> QED BY <2>1, <2>2 DEF Versions, Forward
  <1>2. Inv /\ Inv' /\ Versions /\ [Next]_vars => Versions'
    BY VersionsNext
  <1>3. Inv /\ Versions /\ [Next]_vars => [at' = at => applied' >= applied]_<<at, applied>>
    <2> SUFFICES ASSUME Inv, Versions, [Next]_vars, at' = at PROVE applied' >= applied
      OBVIOUS
    <2>1. /\ applied \in Nat
      <3>1. applied \in 0..MaxEvents
        BY DEF Inv, Types, PageOK
      <3> QED BY <3>1, NumbersOfVersions
    <2>2. CASE applied' = applied
      BY <2>1, <2>2
    <2>3. ASSUME NEW s \in Sockets, Connect(s) PROVE FALSE
      BY <2>3, Ranges DEF Connect
    <2>4. CASE Receive
      BY <2>4, TakenForward
    <2> QED BY <2>2, <2>3, <2>4, Causes
  <1>4. Spec => [](Inv /\ Versions)
    BY <1>1, <1>2, Invariant, PTL DEF Spec
  <1> QED BY <1>3, <1>4, PTL DEF Spec, NeverBack
================================================================================
