----------------------------- MODULE BrowserClients -----------------------------
(******************************************************************************)
(* A page and the controller's WebSocket server: connection/transport.ts in   *)
(* pixie/webui/src; websocket.go, socket_output.go and replay.go in           *)
(* pixie/internal/controller.                                                 *)
(*                                                                            *)
(* A page keeps its requests until they are answered, and repeats them on     *)
(* every socket it opens.  The server keeps the answers until the page has    *)
(* acknowledged them, so that a repeated request is not executed again.  An   *)
(* answer that is a snapshot of a session is different: it is made anew for   *)
(* each socket, since events of the session travel on it too.                 *)
(*                                                                            *)
(* Abstractions.  One page, hence one client of the server.  A socket's       *)
(* output queue and the network behind it are one sequence, whose limit       *)
(* stands for both of the queue's.  Every answer weighs one.  Payloads do not *)
(* differ under one identity.  execute and the keeping of its result are one  *)
(* step: until it is kept an entry is unsettled.  Closing the server,         *)
(* stopping a page, and channels other than a session's events are left out.  *)
(*                                                                            *)
(* Nothing bounds how long a goroutine, a request or an absence lasts: the    *)
(* next connection of a page may overtake the goroutines of the one before,   *)
(* and a page may come back for an answer after its client was reaped.  Then  *)
(* the server has forgotten what it executed; `lapsed' records for which      *)
(* requests.                                                                  *)
(******************************************************************************)
EXTENDS Integers, Sequences, FiniteSets

CONSTANTS
    MaxRequests,   \* bound on the page's requests
    MaxSockets,    \* bound on the sockets it opens
    MaxEvents,     \* bound on the events of the session
    Abortable,     \* bound on giving up: the requests that may be
    CacheLimit,    \* ReplayCache.maxRequests
    WeightLimit,   \* ReplayCache.maxWeight
    InflightLimit, \* maxConcurrentWSRequests
    OutputLimit    \* capacity of socketOutput.queue

ASSUME ConstantsAssumption ==
    /\ {MaxRequests, MaxSockets, MaxEvents} \subseteq Nat
    /\ {CacheLimit, WeightLimit, InflightLimit, OutputLimit} \subseteq Nat

VARIABLES
    \* WsTransport
    kind,        \* what each request asks for; "none" when it was not issued
    pending,     \* requests without an answer, in the order they were made
    got,         \* what the page was answered
    at,          \* its socket, or 0
    \* the sockets
    link,        \* the connection as a whole
    up, down,    \* frames under way, to the server and to the page
    \* WebSocketServer
    serve,       \* the goroutine of ServeHTTP, by socket
    installed,   \* sockets[client], or 0
    timer,       \* reapTimers[client], named by the socket that left, or 0
    fired,       \* timers whose callback waits for clientLifecycle
    reaping,     \* the timer whose callback holds it, or 0
    handler,     \* the goroutine of a request, by socket
    cache,       \* ReplayCache: 0 is the server's, the others a socket's own
    \* the session
    version,     \* how many events it had
    lock,        \* who holds entry.state
    target,      \* where the event under way goes
    \* history
    times,       \* how often each request was executed
    lapsed,      \* requests that the server forgot, or ran too late
    opened,      \* the last socket that was installed
    applied      \* version of the session the page has over its socket

page    == <<kind, pending, got, at>>
net     == <<link, up, down>>
client  == <<installed, timer, fired, reaping>>
session == <<version, lock, target>>
vars    == <<page, net, serve, client, handler, cache, session, times, lapsed, opened, applied>>

Pending  == {pending[n] : n \in DOMAIN pending}
Requests == 1..MaxRequests
Sockets  == 1..MaxSockets
Caches   == 0..MaxSockets

None == [is |-> "none"]
Ask(i) == [is |-> "request", id |-> i]
Ack(i) == [is |-> "ack", ids |-> {i}]
Resume(ids) == [is |-> "resume", ids |-> ids]

\* An answer: of a mutation, a snapshot of some version, or a refusal.
Done == [is |-> "done"]
Snapshot(v) == [is |-> "snapshot", version |-> v]
Full == [is |-> "full"]
Spent == [is |-> "already executed"]
Results == {Done, Full, Spent, None} \cup {Snapshot(v) : v \in 0..MaxEvents}

Answer(i, r) == [is |-> "answer", id |-> i, result |-> r]
Event(v) == [is |-> "event", version |-> v]

FromPage == {Ask(i) : i \in Requests} \cup {Ack(i) : i \in Requests} \cup {Resume(S) : S \in SUBSET Requests}
ToPage == {Answer(i, r) : i \in Requests, r \in Results} \cup {Event(v) : v \in 1..MaxEvents}

Handlers == [step : {"none", "begin", "wait", "execute", "answer", "done"}, result : Results]
Entries == [state : {"none", "running", "kept", "spent"}, result : Results]
NoHandler == [step |-> "none", result |-> None]
NoEntry == [state |-> "none", result |-> None]

TypeOK ==
    /\ kind \in [Requests -> {"none", "mutation", "messages"}]
    /\ pending \in Seq(Requests)
    /\ got \in [Requests -> Results \cup {[is |-> "given up"]}]
    /\ {at, installed, timer, reaping, opened} \subseteq 0..MaxSockets /\ fired \subseteq Sockets
    /\ installed # 0 => serve[installed] = "serving"
    /\ link \in [Sockets -> {"none", "open", "broken", "shut"}]
    /\ up \in [Sockets -> Seq(FromPage)] /\ down \in [Sockets -> Seq(ToPage)]
    /\ serve \in [Sockets -> {"none", "accepted", "serving", "gone"}]
    /\ handler \in [Sockets -> [Requests -> Handlers]]
    /\ cache \in [Caches -> [Requests -> Entries]]
    /\ version \in 0..MaxEvents /\ target \in 0..MaxSockets
    /\ lock \in {<<>>, <<"event">>} \cup Sockets \X Requests
    /\ times \in [Requests -> Nat] /\ lapsed \subseteq Requests /\ applied \in 0..MaxEvents

-----------------------------------------------------------------------------
(* The page.                                                             *)

\* sendFrame: a frame that finds no open socket is not sent.
Sent(frames) == IF at # 0 /\ link[at] = "open" THEN [up EXCEPT ![at] = @ \o frames] ELSE up

\* Bound: only the last request may be one for messages.
Issue(i) ==
    /\ kind[i] = "none" /\ (\A j \in 1..(i - 1) : kind[j] # "none")
    /\ \E k \in {"mutation"} \cup (IF i = MaxRequests THEN {"messages"} ELSE {}) :
            kind' = [kind EXCEPT ![i] = k]
    /\ pending' = Append(pending, i)
    /\ up' = Sent(<<Ask(i)>>)
    /\ UNCHANGED <<got, at, link, down, serve, client, handler, cache, session, times, lapsed, opened, applied>>

\* takePending
Others(i) ==
    LET n == CHOOSE n \in DOMAIN pending : pending[n] = i IN
    IF i \notin Pending THEN pending
    ELSE [k \in 1..(Len(pending) - 1) |-> pending[IF k < n THEN k ELSE k + 1]]

\* The request times out, or its caller aborts it.
GiveUp(i) ==
    /\ i \in Pending \cap Abortable
    /\ pending' = Others(i)
    /\ got' = [got EXCEPT ![i] = [is |-> "given up"]]
    /\ UNCHANGED <<kind, at, net, serve, client, handler, cache, session, times, lapsed, opened, applied>>

Repeated == [n \in DOMAIN pending |-> Ask(pending[n])]

\* connect and onopen: what is pending is told, and sent again, before anything
\* else.  An attempt that fails changes nothing.
Connect(s) ==
    /\ at = 0 /\ link[s] = "none" /\ (\A r \in 1..(s - 1) : link[r] # "none")
    /\ at' = s
    /\ link' = [link EXCEPT ![s] = "open"]
    /\ up' = [up EXCEPT ![s] = <<Resume(Pending)>> \o Repeated]
    /\ serve' = [serve EXCEPT ![s] = "accepted"]
    /\ applied' = 0
    /\ UNCHANGED <<kind, pending, got, down, client, handler, cache, session, times, lapsed, opened>>

\* Bound: the last socket is closed only by the server.
Break(s) ==
    /\ link[s] = "open" /\ s # MaxSockets
    /\ link' = [link EXCEPT ![s] = "broken"] /\ down' = [down EXCEPT ![s] = <<>>]
    /\ UNCHANGED <<page, up, serve, client, handler, cache, session, times, lapsed, opened, applied>>

Closed ==
    /\ at # 0 /\ link[at] # "open"
    /\ at' = 0
    /\ UNCHANGED <<kind, pending, got, net, serve, client, handler, cache, session, times, lapsed, opened, applied>>

\* handleMessage.  An answer is acknowledged even if nobody waits for it.
Receive ==
    /\ at # 0 /\ link[at] = "open" /\ down[at] # <<>>
    /\ LET frame == Head(down[at]) IN
        /\ down' = [down EXCEPT ![at] = Tail(@)]
        /\ IF frame.is = "event"
           THEN /\ applied' = frame.version
                /\ UNCHANGED <<pending, got, up>>
           ELSE /\ up' = Sent(<<Ack(frame.id)>>)
                /\ pending' = Others(frame.id)
                /\ got' = IF frame.id \in Pending THEN [got EXCEPT ![frame.id] = frame.result] ELSE got
                /\ applied' = IF frame.result.is = "snapshot"
                              THEN frame.result.version ELSE applied
    /\ UNCHANGED <<kind, at, link, serve, client, handler, cache, session, times, lapsed, opened>>

-----------------------------------------------------------------------------
(* Frames to the page.  A queue that is full closes its socket.          *)

IsFull(s) == Len(down[s]) >= OutputLimit

\* What its reader may still read of a socket that is closed under it.
InHand(s) == IF up[s] = <<>> THEN <<>> ELSE <<Head(up[s])>>

\* Whoever closes a socket says what its reader still has.
Shut(s, rest) ==
    /\ link' = [link EXCEPT ![s] = "shut"]
    /\ up' = [up EXCEPT ![s] = rest]
    /\ down' = [down EXCEPT ![s] = <<>>]

\* The closing handshake leaves the frames to the reader.
Push(s, frame) ==
    IF s = 0 \/ link[s] # "open" THEN UNCHANGED net
    ELSE IF IsFull(s) THEN Shut(s, up[s])
    ELSE down' = [down EXCEPT ![s] = Append(@, frame)] /\ UNCHANGED <<link, up>>

-----------------------------------------------------------------------------
(* A connection, from ServeHTTP's replace to its remove.                 *)

\* Mutant: a connection does not wait for a client that is being reaped.
Always == TRUE
LifecycleFree == reaping = 0

\* A socket that is behind a later one of its page: its goroutine and those of
\* its requests go on all the same.
Stale(s) == \E r \in Sockets : r > s /\ serve[r] \in {"serving", "gone"}

\* CloseNow leaves the reader the frame that it has read.
Replace(s) ==
    /\ serve[s] = "accepted" /\ LifecycleFree
    /\ serve' = [serve EXCEPT ![s] = "serving"]
    /\ installed' = s /\ timer' = 0 /\ opened' = s
    /\ IF installed = 0 THEN UNCHANGED net ELSE Shut(installed, InHand(installed))
    /\ UNCHANGED <<page, fired, reaping, handler, cache, session, times, lapsed, applied>>

\* Mutant: the server forgets to forget.
Still(s) == installed
Left(s) == IF installed = s THEN 0 ELSE installed

Remove(s) ==
    /\ serve[s] = "serving" /\ link[s] # "open"
    /\ up' = [up EXCEPT ![s] = <<>>]
    /\ serve' = [serve EXCEPT ![s] = "gone"]
    /\ installed' = Left(s)
    /\ timer' = IF installed = s THEN s ELSE timer
    /\ UNCHANGED <<page, link, down, fired, reaping, handler, cache, session, times, lapsed, opened, applied>>

-----------------------------------------------------------------------------
(* handle.  What was sent before a connection broke may still be read.   *)

Reads(s) == serve[s] = "serving" /\ up[s] # <<>>
Frame(s) == Head(up[s])

\* Mutant: snapshots are kept in the server's cache, as other answers are.
OneNamespace(s, i) == 0
Namespace(s, i) == IF kind[i] = "messages" THEN s ELSE 0

Settled(entry) == entry.state \in {"kept", "spent"}

\* Both caches that a socket's requests may be in lose their entries for ids.
Without(s, ids) ==
    [n \in Caches |-> [i \in Requests |->
        IF n \in {0, s} /\ i \in ids /\ Settled(cache[n][i]) THEN NoEntry ELSE cache[n][i]]]

Acknowledge(s) ==
    /\ Reads(s) /\ Frame(s).is = "ack"
    /\ cache' = Without(s, Frame(s).ids)
    /\ up' = [up EXCEPT ![s] = Tail(@)]
    /\ UNCHANGED <<page, link, down, serve, client, handler, session, times, lapsed, opened, applied>>

\* A socket that was overtaken does not know what the page has asked since.
Retain(s) ==
    /\ Reads(s) /\ Frame(s).is = "resume"
    /\ cache' = Without(s, Requests \ Frame(s).ids)
    /\ up' = [up EXCEPT ![s] = Tail(@)]
    /\ lapsed' = IF Stale(s) THEN lapsed \cup {i \in Requests \ Frame(s).ids : times[i] > 0} ELSE lapsed
    /\ UNCHANGED <<page, link, down, serve, client, handler, session, times, opened, applied>>

Step(s, i, step) == handler' = [handler EXCEPT ![s][i].step = step]

Inflight == {p \in Sockets \X Requests : handler[p[1]][p[2]].step \notin {"none", "done"}}

\* The closing handshake is the reader's own: it discards what comes.
Handle(s) ==
    /\ Reads(s) /\ Frame(s).is = "request"
    /\ IF Cardinality(Inflight) >= InflightLimit
       THEN Shut(s, <<>>) /\ UNCHANGED handler
       ELSE /\ Step(s, Frame(s).id, "begin")
            /\ up' = [up EXCEPT ![s] = Tail(@)] /\ UNCHANGED <<link, down>>
    /\ UNCHANGED <<page, serve, client, cache, session, times, lapsed, opened, applied>>

\* ReplayCache.Run, up to the call of execute or to an answer that is there.
Reply(s, i, r) == handler' = [handler EXCEPT ![s][i] = [step |-> "answer", result |-> r]]

\* Mutant: the limit is looked at before the entry.
FullFirst(entry, full) == full
Refused(entry, full) == full /\ entry.state = "none"

Run(s, i) ==
    LET n == Namespace(s, i)
        entry == cache[n][i]
        full == Cardinality({j \in Requests : cache[n][j] # NoEntry}) >= CacheLimit
    IN
    /\ handler[s][i].step = "begin"
    /\ \/ entry.state = "spent" /\ Reply(s, i, Spent) /\ UNCHANGED <<cache, lapsed>>
       \/ entry.state = "kept" /\ Reply(s, i, entry.result) /\ UNCHANGED <<cache, lapsed>>
       \/ entry.state = "running" /\ Step(s, i, "wait") /\ UNCHANGED <<cache, lapsed>>
       \/ Refused(entry, full) /\ Reply(s, i, Full) /\ UNCHANGED <<cache, lapsed>>
       \/ /\ entry.state = "none" /\ ~full
          /\ cache' = [cache EXCEPT ![n][i].state = "running"]
          /\ Step(s, i, "execute")
          /\ lapsed' = IF Stale(s) THEN lapsed \cup {i} ELSE lapsed
    /\ UNCHANGED <<page, net, serve, client, session, times, opened, applied>>

\* Mutant: a result that does not fit is forgotten.
Forget(n, i, r) == NoEntry
Entry(n, i, r) ==
    IF Cardinality({j \in Requests : cache[n][j].state = "kept"}) < WeightLimit
    THEN [state |-> "kept", result |-> r] ELSE [state |-> "spent", result |-> None]

\* Those that wait for the result have it, whether it is kept or not.
Waiters(n, i) == {s \in Sockets : handler[s][i].step = "wait" /\ Namespace(s, i) = n}

\* Mutant: only the goroutine that executed goes on.
Alone(s, i) == {s}
Told(s, i) == {s} \cup Waiters(Namespace(s, i), i)

\* execute, and what Run does with its result.  A snapshot is taken under the
\* session's lock, which is kept until it is queued.
Execute(s, i) ==
    LET n == Namespace(s, i)
        r == IF kind[i] = "messages" THEN Snapshot(version) ELSE Done
    IN
    /\ handler[s][i].step = "execute"
    /\ kind[i] = "messages" => lock = <<>>
    /\ times' = [times EXCEPT ![i] = @ + 1]
    /\ cache' = [cache EXCEPT ![n][i] = Entry(n, i, r)]
    /\ handler' = [u \in Sockets |-> IF u \in Told(s, i)
                    THEN [handler[u] EXCEPT ![i] = [step |-> "answer", result |-> r]] ELSE handler[u]]
    /\ lock' = IF kind[i] = "messages" THEN <<s, i>> ELSE lock
    /\ UNCHANGED <<page, net, serve, client, version, target, lapsed, opened, applied>>

\* The answer is queued at the socket that asked, and then the session unlocked.
Enqueue(s, i) ==
    /\ handler[s][i].step = "answer"
    /\ Push(s, Answer(i, handler[s][i].result))
    /\ handler' = [handler EXCEPT ![s][i] = [step |-> "done", result |-> None]]
    /\ lock' = IF lock = <<s, i>> THEN <<>> ELSE lock
    /\ UNCHANGED <<page, serve, client, cache, version, target, times, lapsed, opened, applied>>

-----------------------------------------------------------------------------
(* An event of the session, published under the session's lock: its socket *)
(* is looked up, and given the event afterwards.                           *)

\* Bound: there are events only when the page asks for messages.
Publish ==
    /\ version < MaxEvents /\ lock = <<>> /\ kind[MaxRequests] = "messages"
    /\ version' = version + 1 /\ lock' = <<"event">> /\ target' = installed
    /\ UNCHANGED <<page, net, serve, client, handler, cache, times, lapsed, opened, applied>>

Published ==
    /\ lock = <<"event">>
    /\ Push(target, Event(version))
    /\ lock' = <<>> /\ target' = 0
    /\ UNCHANGED <<page, serve, client, handler, cache, version, times, lapsed, opened, applied>>

-----------------------------------------------------------------------------
(* reapClient                                                            *)

Fire ==
    /\ timer \notin fired \cup {0}
    /\ fired' = fired \cup {timer}
    /\ UNCHANGED <<page, net, serve, installed, timer, reaping, handler, cache, session, times, lapsed, opened, applied>>

\* Mutant: a callback acts for whatever timer is armed.
Armed(t) == timer # 0
Mine(t) == timer = t

\* ClearClient forgets what was executed, whether the page has the answer or not.
Unsettled == \E i \in Requests : cache[0][i].state = "running"

\* Mutant: the client is not looked at again.
Never(t) == 0
Rearmed(t) == t

Reap(t) ==
    /\ t \in fired /\ LifecycleFree
    /\ fired' = fired \ {t}
    /\ \/ (~Mine(t)) /\ UNCHANGED <<timer, cache, reaping, lapsed>>
       \/ /\ Mine(t) /\ installed # 0
          /\ timer' = 0 /\ UNCHANGED <<cache, reaping, lapsed>>
       \/ /\ Mine(t) /\ installed = 0 /\ Unsettled
          /\ timer' = Rearmed(t) /\ UNCHANGED <<cache, reaping, lapsed>>
       \/ /\ Mine(t) /\ installed = 0 /\ ~Unsettled
          /\ timer' = 0 /\ reaping' = t
          /\ cache' = [cache EXCEPT ![0] = [i \in Requests |-> NoEntry]]
          /\ lapsed' = lapsed \cup {i \in Requests : times[i] > 0}
    /\ UNCHANGED <<page, net, serve, installed, handler, session, times, opened, applied>>

\* ClientReaped returns.
Reaped ==
    /\ reaping # 0 /\ reaping' = 0
    /\ UNCHANGED <<page, net, serve, installed, timer, fired, handler, cache, session, times, lapsed, opened, applied>>

-----------------------------------------------------------------------------
Init ==
    /\ kind = [i \in Requests |-> "none"] /\ pending = <<>>
    /\ got = [i \in Requests |-> None]
    /\ at = 0 /\ installed = 0 /\ timer = 0 /\ fired = {} /\ reaping = 0
    /\ link = [s \in Sockets |-> "none"] /\ serve = [s \in Sockets |-> "none"]
    /\ up = [s \in Sockets |-> <<>>] /\ down = [s \in Sockets |-> <<>>]
    /\ handler = [s \in Sockets |-> [i \in Requests |-> NoHandler]]
    /\ cache = [n \in Caches |-> [i \in Requests |-> NoEntry]]
    /\ version = 0 /\ lock = <<>> /\ target = 0
    /\ times = [i \in Requests |-> 0] /\ lapsed = {} /\ opened = 0 /\ applied = 0

Goroutine(s, i) == Run(s, i) \/ Execute(s, i) \/ Enqueue(s, i)
Reader(s) == Replace(s) \/ Acknowledge(s) \/ Retain(s) \/ Handle(s) \/ Remove(s)

Next ==
    \/ \E i \in Requests : Issue(i) \/ GiveUp(i)
    \/ \E s \in Sockets : Connect(s) \/ Break(s) \/ Reader(s) \/ Reap(s)
    \/ \E s \in Sockets, i \in Requests : Goroutine(s, i)
    \/ Closed \/ Receive \/ Publish \/ Published \/ Fire \/ Reaped

Spec == Init /\ [][Next]_vars

\* The page reconnects and reads, and some goroutine, reader or timer of the
\* server that can go on does.
FairSpec ==
    /\ Spec
    /\ WF_vars(Closed \/ Receive \/ \E s \in Sockets : Connect(s))
    /\ WF_vars(Published \/ \E s \in Sockets, i \in Requests : Goroutine(s, i))
    /\ WF_vars(\E s \in Sockets : Reader(s))
    /\ WF_vars(Fire) /\ WF_vars(Reaped \/ \E s \in Sockets : Reap(s))

-----------------------------------------------------------------------------
(* Properties.                                                           *)

\* A client is reaped only while it is away, and for the time that it has been
\* away since its last connection (websocket.go:330-353).
ReapsTheAbsent == reaping # 0 => installed = 0 /\ reaping = opened

\* What a page is told of a mutation is true: an answer means that it was
\* executed, and a refusal for want of room that it was not, unless the server
\* had forgotten it (replay.go:47-68).
AnswersAreTrue ==
    \A i \in Requests : kind[i] = "mutation" =>
        /\ got[i] \in {Done, Spent} => times[i] > 0
        /\ got[i] = Full => times[i] = 0 \/ i \in lapsed

\* A mutation is executed once, however often it is repeated and over however
\* many sockets, unless its client was reaped after it was executed or one of
\* its goroutines was overtaken by a later connection (replay.go:83-84).
AtMostOnce == \A i \in Requests \ lapsed : kind[i] = "mutation" => times[i] <= 1

\* As a comment has it, "responses remain recoverable through the replay cache"
\* (socket_output.go:12-13): what was executed is there for a page that waits.
Recoverable ==
    \A i \in Pending : kind[i] = "mutation" /\ times[i] > 0 => cache[0][i] # NoEntry

\* What travels on one socket takes the page's session forward: neither an
\* event nor a repeated request brings an older state (websocket.go:235-240).
NeverBack == [][at' = at => applied' >= applied]_<<at, applied>>

\* Requests, sockets and caches together give what RemoteCalls promises.
Called(i) ==
    IF kind[i] = "none" THEN "new"
    ELSE IF got[i] = None THEN "asked"
    ELSE IF got[i].is = "given up" THEN "abandoned"
    ELSE IF got[i] \in {Full, Spent} THEN "refused" ELSE "answered"
Ran(i) == IF kind[i] = "messages" /\ times[i] > 0 THEN 1 ELSE times[i]

Calls == INSTANCE RemoteCalls WITH
    call <- [i \in Requests |-> Called(i)], ran <- [i \in Requests |-> Ran(i)], void <- lapsed
KeepsItsPromise == Calls!Spec

\* The page has used all the sockets of the model.
Gone == at = 0 /\ \A s \in Sockets : link[s] # "none"

\* A request is answered, if the page keeps waiting and its sockets last.
Answered == \A i \in Requests : i \in Pending ~> i \notin Pending \/ Gone

\* What the server has kept for a page that left is cleared, or the page comes
\* back (websocket.go:345-349).
Reclaimed == timer # 0 ~> installed # 0 \/ \A i \in Requests : cache[0][i] = NoEntry

\* What the server promises of its clients, and what it does for them in the end.
ClientsAreSafe   == TypeOK /\ ReapsTheAbsent /\ AnswersAreTrue
ClientsAreServed == Answered /\ Reclaimed
================================================================================
