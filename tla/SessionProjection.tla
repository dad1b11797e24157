--------------------------- MODULE SessionProjection ---------------------------
(*****************************************************************************)
(* What the controller knows of one session of Pi: its transcript, the tools *)
(* that run and the questions that wait.  session_events.go,                 *)
(* session_questions.go, and the attaching, prompting and answering of       *)
(* session_manager.go, session_actions.go and session_history.go, of         *)
(* pixie/internal/controller.                                                *)
(*                                                                           *)
(* Pi tells what happens in a session as notifications on the connection     *)
(* that the session was loaded on, one after the other.  Loading replays the *)
(* whole transcript into a projection of its own, which replaces the current *)
(* one when it is complete; what was on its way on that connection goes into *)
(* it first.  A question is a tool call that Pi makes twice: as a            *)
(* notification, and as a request whose answer comes from a page.            *)
(*                                                                           *)
(* Abstractions.  A message is a sequence of chunks, and the transcript the  *)
(* sequence of all of them; the user's message is one chunk.  Usage, titles, *)
(* configuration, commands, plans and attachments are left out, and so are   *)
(* the outputs of tools that still run.  All questions have the same         *)
(* arguments.  One operation at a time has the gate; the operations that     *)
(* attach are one.  Pi runs one tool at a time.  The session stays leased.   *)
(* A transcript is sent in parts, and its answer after them.                 *)
(*****************************************************************************)
EXTENDS Integers, Sequences, FiniteSets

CONSTANTS
    Texts,          \* of prompts
    Calls,          \* tool call identifiers
    Asks,           \* goroutines that wait for an answer
    MaxLog,         \* bound on the transcript
    MaxPrompts,     \* bound on prompts
    MaxGeneration,  \* bound on connections
    MaxLoads        \* bound on loads

ASSUME ProjectionAssumption ==
    /\ \A S \in {Texts, Calls, Asks} : IsFiniteSet(S) /\ "none" \notin S
    /\ {MaxLog, MaxPrompts, MaxLoads} \subseteq Nat /\ MaxGeneration \in Nat \ {0}

None == "none"

VARIABLES
    \* Pi
    log,        \* the transcript
    run,        \* the run that is active: the connection of its prompt, and its open call
    bound,      \* the connection the session was loaded on
    \* the connection
    generation, up,
    wire,       \* notifications and answers on their way
    \* sessionEntry
    entry, replay,
    active,     \* promptActive
    gate,       \* who has op
    load,       \* the session.load under way
    loads,      \* how many were sent, the last one that Pi has served, and the last of earlier connections
    turn,       \* promptGeneration
    prompt,     \* the goroutine of the latest prompt
    \* questions
    asks, questions,
    \* a page
    page,
    \* history
    taken       \* how often each call of the transcript was taken for a question

piSession         == <<log, run, bound>>
connection == <<generation, up, wire>>
session    == <<entry, replay, active, gate, load, loads, turn, prompt>>
dialogue   == <<asks, questions>>
projectionVars       == <<piSession, connection, session, dialogue, page, taken>>

\* n is the place in Pi's transcript, or 0 for a prompt that Pi has not told of.
\* Untold stands where a message stands that a page was not told of.
Item(n, kind, id) == [n |-> n, kind |-> kind, id |-> id]
Items ==
    [n : 0..MaxLog, kind : {"user"}, id : Texts] \cup [n : 0..MaxLog, kind : {"text"}, id : {None}]
        \cup [n : 0..MaxLog, kind : {"call", "result"}, id : Calls]

Untold == Item(0, "untold", None)

\* ahead: how many of its messages were on their way before the load that it was
\* made for.
Fresh(g, projection) ==
    [attached |-> g, messages |-> <<>>, tools |-> {}, consumed |-> {}, streaming |-> FALSE,
     echo |-> None, projection |-> projection, ahead |-> 0]

NoReplay == Fresh(0, 0)
NoRun == [on |-> 0, call |-> None]
NoAsk == [step |-> "idle", call |-> None, result |-> None]
NoPrompt == [step |-> "none", text |-> None]

Projections ==
    [attached : 0..MaxGeneration, messages : Seq(Items), tools : SUBSET Calls, consumed : SUBSET Calls,
     streaming : BOOLEAN, echo : Texts \cup {None}, projection : Nat, ahead : Nat]
\* load: the last one that was served.
Frames ==
    [gen : 1..MaxGeneration, what : {"item", "end", "loaded", "done", "refused"}, item : Items, load : 0..MaxLoads]

ProjectionTypeOK ==
    /\ log \in Seq(Items) /\ Len(log) <= MaxLog
    /\ run \in [on : 0..MaxGeneration, call : Calls \cup {None}]
    /\ bound \in 0..generation /\ generation \in 1..MaxGeneration /\ up \in BOOLEAN
    /\ wire \in Seq(Frames) /\ \A i \in DOMAIN wire : wire[i].gen <= generation
    /\ {entry, replay} \subseteq Projections /\ {entry.attached, replay.attached} \subseteq 0..generation
    /\ active \in BOOLEAN /\ gate \in {"free", "attach"}
    /\ load \in {"none", "sent", "loaded", "failed"} /\ (load # "none") = (gate = "attach")
    /\ (replay # NoReplay) = (gate = "attach") /\ (prompt.step # "none" => active)
    /\ loads \in [sent : 0..MaxLoads, served : 0..MaxLoads, gone : 0..MaxLoads]
    /\ loads.gone <= loads.served /\ loads.served <= loads.sent
    /\ turn \in 0..MaxPrompts
    /\ prompt \in [step : {"none", "sent", "waiting", "returned"}, text : Texts \cup {None}]
    /\ asks \in [Asks -> [step : {"idle", "looking", "found", "registered", "leaving"}, call : Calls \cup {None},
                          result : {None, "answer", "cancelled"}]]
    /\ questions \in [Calls -> Asks \cup {None}]
    /\ page \in [asks : BOOLEAN, shown : Seq(Items \cup {Untold}), of : Nat]
    /\ taken \in [1..MaxLog -> Nat]

-----------------------------------------------------------------------------
(* Pi.                                                                   *)

Notice(what, item) == [gen |-> generation, what |-> what, item |-> item, load |-> loads.served]
Tell(what, item) == Append(wire, Notice(what, item))
NoItem == Item(0, "text", None)

\* An event is told to the connection that the session was loaded on.  While the
\* session is loaded again it may be kept, and is then in the transcript.
Waiting == loads.served < loads.sent
Told(what, item) ==
    IF up /\ bound = generation
    THEN {Tell(what, item)} \cup (IF Waiting THEN {wire} ELSE {})
    ELSE {wire}

\* Something happens in the session.
Happens(item) ==
    /\ log' = Append(log, item)
    /\ wire' \in Told("item", item)

Next1 == Len(log) + 1
Room == Len(log) < MaxLog

\* session.prompt: of a prompt that is still wanted.
PiPrompt ==
    /\ prompt.step = "sent" /\ up
    /\ IF run = NoRun /\ Room
       THEN /\ Happens(Item(Next1, "user", prompt.text))
            /\ run' = [NoRun EXCEPT !.on = generation]
       ELSE /\ wire' = Tell("refused", NoItem)
            /\ UNCHANGED <<log, run>>
    /\ prompt' = [prompt EXCEPT !.step = "waiting"]
    /\ UNCHANGED <<bound, generation, up, entry, replay, active, gate, load, loads, turn, dialogue, page, taken>>

PiText ==
    /\ run # NoRun /\ run.call = None /\ Room
    /\ Happens(Item(Next1, "text", None))
    /\ UNCHANGED <<run, bound, generation, up, session, dialogue, page, taken>>

\* ask_user_question: the request comes by another way than the notification.
PiAsk ==
    /\ run # NoRun /\ run.call = None /\ Room
    /\ \E c \in Calls, q \in Asks :
        /\ asks[q] = NoAsk
        /\ Happens(Item(Next1, "call", c))
        /\ run' = [run EXCEPT !.call = c]
        /\ asks' = [asks EXCEPT ![q] = [NoAsk EXCEPT !.step = "looking"]]
    /\ UNCHANGED <<bound, generation, up, session, questions, page, taken>>

\* The request has failed, and Pi's MCP client makes it again.
PiAskAgain ==
    /\ run.call # None
    /\ \E q \in Asks :
        /\ asks[q] = NoAsk
        /\ asks' = [asks EXCEPT ![q] = [NoAsk EXCEPT !.step = "looking"]]
    /\ UNCHANGED <<piSession, connection, session, questions, page, taken>>

\* With an answer, or because the run is aborted.
PiResult ==
    /\ run.call # None /\ Room
    /\ Happens(Item(Next1, "result", run.call))
    /\ run' = [run EXCEPT !.call = None]
    /\ UNCHANGED <<bound, generation, up, session, dialogue, page, taken>>

\* run_end, and the answer if the connection of the prompt is still there.
PiEnd ==
    /\ run # NoRun /\ run.call = None
    /\ run' = NoRun
    /\ \E ended \in Told("end", NoItem) :
         wire' = IF up /\ run.on = generation THEN Append(ended, Notice("done", NoItem)) ELSE ended
    /\ UNCHANGED <<log, bound, generation, up, session, dialogue, page, taken>>

\* session.load: the transcript, then the answer.  Pi serves one at a time, and may
\* refuse others; it does not know of one that was given up.
PiLoad ==
    /\ up
    /\ \E n \in (loads.served + 1)..loads.sent :
        /\ loads' = [loads EXCEPT !.served = n]
        /\ wire' = wire \o [i \in DOMAIN log |-> [gen |-> generation, what |-> "item", item |-> log[i], load |-> n]]
                        \o <<[gen |-> generation, what |-> "loaded", item |-> NoItem, load |-> n]>>
    /\ bound' = generation
    /\ UNCHANGED <<log, run, generation, up, entry, replay, active, gate, load, turn, prompt, dialogue, page, taken>>

-----------------------------------------------------------------------------
(* The connection.                                                       *)

Returned(steps) == IF prompt.step \in steps THEN [prompt EXCEPT !.step = "returned"] ELSE prompt

\* Everyone who waits is told.  The notification that was read is still handled.
Lose ==
    /\ up /\ up' = FALSE
    /\ \E kept \in {0, 1} :
        /\ kept <= Len(wire) /\ (kept = 1 => wire[1].what \in {"item", "end"})
        /\ wire' = SubSeq(wire, 1, kept)
    /\ load' = IF load = "sent" THEN "failed" ELSE load
    /\ loads' = [loads EXCEPT !.served = loads.sent, !.gone = loads.sent]
    /\ prompt' = Returned({"sent", "waiting"})
    /\ UNCHANGED <<piSession, generation, entry, replay, active, gate, turn, dialogue, page, taken>>

Reconnect ==
    /\ ~up /\ generation < MaxGeneration
    /\ up' = TRUE /\ generation' = generation + 1
    /\ UNCHANGED <<piSession, wire, session, dialogue, page, taken>>

-----------------------------------------------------------------------------
(* applyUpdate.                                                          *)

\* The user's message, unless it is the one that the prompt has added already.
\* Mutant: it always counts as another one.
EchoesNone(p, item) == FALSE
Echoes(p, item) == p.echo = item.id

User(p, item) ==
    IF Echoes(p, item) THEN [p EXCEPT !.echo = None]
    ELSE [p EXCEPT !.echo = None, !.messages = Append(@, item), !.streaming = TRUE]

\* A call.  Mutant: that a replayed one asks nobody is forgotten.
AsksAgain(replaying, id, consumed) == consumed \ {id}
Consumed(replaying, id, consumed) == IF replaying THEN consumed \cup {id} ELSE consumed \ {id}

Applied(p, item, replaying) ==
    CASE item.kind = "user"   -> User(p, item)
      [] item.kind = "text"   -> [p EXCEPT !.messages = Append(@, item), !.streaming = TRUE]
      [] item.kind = "call"   -> [p EXCEPT !.messages = Append(@, item), !.tools = @ \cup {item.id},
                                           !.consumed = Consumed(replaying, item.id, @)]
      [] item.kind = "result" -> [p EXCEPT !.messages = Append(@, item), !.tools = @ \ {item.id}]

\* What of it the pages are told.
Shown(before, after) ==
    IF Len(after.messages) > Len(before.messages)
    THEN [page EXCEPT !.shown = Append(@, after.messages[Len(after.messages)])]
    ELSE page

\* Mutant: the connection of a notification is not looked at.
FromAnyone(m, p) == TRUE
Current(m, p) == m.gen = p.attached

\* Mutant: replayed messages are told as if they were new.
Always(replaying) == FALSE
Quiet(replaying) == replaying

\* What was sent before the load was served goes ahead of what it replays.
Handled(p, m, replaying) ==
    IF ~Current(m, p) THEN p
    ELSE IF m.what = "end" THEN IF ~replaying /\ active THEN p ELSE [p EXCEPT !.streaming = FALSE]   \* status_message
    ELSE IF replaying /\ m.load < loads.sent THEN [Applied(p, m.item, replaying) EXCEPT !.ahead = @ + 1]
    ELSE Applied(p, m.item, replaying)

Deliver ==
    /\ wire # <<>> /\ wire[1].what \in {"item", "end"}
    /\ LET replaying == replay # NoReplay
           target == IF replaying THEN replay ELSE entry
           after == Handled(target, Head(wire), replaying)
       IN
       /\ entry' = IF replaying THEN entry ELSE after
       /\ replay' = IF replaying THEN after ELSE replay
       /\ page' = IF Quiet(replaying) THEN page ELSE Shown(target, after)
    /\ wire' = Tail(wire)
    /\ UNCHANGED <<piSession, generation, up, active, gate, load, loads, turn, prompt, dialogue, taken>>

\* An answer is told to whoever waits for it.  Mutant: the answer to a load that was
\* given up counts for the next one.
AnyAnswer(m) == load = "sent"
Awaits(m) == load = "sent" /\ m.load = loads.sent

DeliverAnswer ==
    /\ wire # <<>> /\ wire[1].what \in {"loaded", "done", "refused"}
    /\ load' = IF wire[1].what = "loaded" /\ Awaits(wire[1]) THEN "loaded" ELSE load
    /\ prompt' = IF wire[1].what = "loaded" THEN prompt ELSE Returned({"waiting"})
    /\ wire' = Tail(wire)
    /\ UNCHANGED <<piSession, generation, up, entry, replay, active, gate, loads, turn, dialogue, page, taken>>

-----------------------------------------------------------------------------
(* attachLocked.                                                         *)

\* cancelQuestions.
Cancelled ==
    /\ asks' = [q \in Asks |-> IF \E c \in Calls : questions[c] = q
                               THEN [asks[q] EXCEPT !.result = "cancelled"] ELSE asks[q]]
    /\ questions' = [c \in Calls |-> None]

Attach ==
    /\ gate = "free" /\ up /\ entry.attached # generation /\ loads.sent < MaxLoads
    /\ gate' = "attach" /\ load' = "sent" /\ loads' = [loads EXCEPT !.sent = @ + 1]
    /\ replay' = Fresh(generation, entry.projection + 1)
    /\ Cancelled
    /\ UNCHANGED <<piSession, connection, entry, active, turn, prompt, page, taken>>

\* It is refused, its context ends, or its answer cannot be read.
LoadFails ==
    /\ load = "sent" /\ load' = "failed"
    /\ UNCHANGED <<piSession, connection, entry, replay, active, gate, loads, turn, prompt, dialogue, page, taken>>

\* The connection may have been replaced since the load, and the queue that the
\* transcript settles may not be saved.
AttachEnds ==
    /\ load \in {"loaded", "failed"}
    /\ \/ load = "loaded" /\ up /\ replay.attached = generation /\ entry' = [replay EXCEPT !.streaming = FALSE]
       \/ UNCHANGED entry
    /\ replay' = NoReplay /\ gate' = "free" /\ load' = "none"
    /\ UNCHANGED <<piSession, connection, active, loads, turn, prompt, dialogue, page, taken>>

\* A queued message is retried, or a change of model could not be undone: the
\* session is to be loaded again, on the same connection or another.
Invalidate ==
    /\ gate = "free" /\ ~active /\ entry.attached # 0
    /\ entry' = [entry EXCEPT !.attached = 0]
    /\ UNCHANGED <<piSession, connection, replay, active, gate, load, loads, turn, prompt, dialogue, page, taken>>

-----------------------------------------------------------------------------
(* Prompts.                                                              *)

\* Prompt and startPromptLocked.  The pages are told of a queued message; of another
\* one only the page knows that has sent it.
Prompt ==
    /\ gate = "free" /\ up /\ entry.attached = generation
    /\ ~entry.streaming /\ ~active /\ turn < MaxPrompts
    /\ \E t \in Texts, queued \in BOOLEAN :
        LET item == Item(0, "user", t) IN
        /\ entry' = [entry EXCEPT !.tools = {}, !.messages = Append(@, item), !.echo = t, !.streaming = TRUE]
        /\ page' = [page EXCEPT !.shown = Append(@, IF queued THEN item ELSE Untold)]
        /\ prompt' = [step |-> "sent", text |-> t]
    /\ active' = TRUE /\ turn' = turn + 1
    /\ UNCHANGED <<piSession, connection, replay, gate, load, loads, dialogue, taken>>

\* The goroutine has its answer; another operation may have the gate for too long.
Settle ==
    /\ prompt.step = "returned"
    /\ IF gate = "free"
       THEN active' = FALSE /\ entry' = [entry EXCEPT !.streaming = FALSE]
       ELSE UNCHANGED <<active, entry>>
    /\ prompt' = NoPrompt
    /\ UNCHANGED <<piSession, connection, replay, gate, load, loads, turn, dialogue, page, taken>>

\* Abort, whose notification may end what Pi does or come too late.
Abort ==
    /\ gate = "free" /\ entry.attached = generation
    /\ \E c \in Calls : questions[c] # None
    /\ Cancelled
    /\ UNCHANGED <<piSession, connection, session, page, taken>>

-----------------------------------------------------------------------------
(* Questions.                                                            *)

\* latestQuestionToolCall: since the last message of the user.
Candidates ==
    {i \in DOMAIN entry.messages :
        /\ entry.messages[i].kind = "call"
        /\ entry.messages[i].id \in entry.tools \ entry.consumed
        /\ \A j \in i..Len(entry.messages) : entry.messages[j].kind # "user"}

\* Mutant: what was found is not marked.
Unmarked(c) == entry.consumed
Marked(c) == entry.consumed \cup {c}

Find(q) ==
    /\ asks[q].step = "looking"
    /\ \E i \in Candidates :
        LET item == entry.messages[i] IN
        /\ \A j \in Candidates : j <= i
        /\ entry' = [entry EXCEPT !.consumed = Marked(item.id)]
        /\ asks' = [asks EXCEPT ![q].step = "found", ![q].call = item.id]
        /\ taken' = [taken EXCEPT ![item.n] = @ + 1]
    /\ UNCHANGED <<piSession, connection, replay, active, gate, load, loads, turn, prompt, questions, page>>

\* A second has passed, or Pi has given up.
NotFound(q) ==
    /\ asks[q].step = "looking"
    /\ asks' = [asks EXCEPT ![q] = NoAsk]
    /\ UNCHANGED <<piSession, connection, session, questions, page, taken>>

Register(q) ==
    /\ asks[q].step = "found"
    /\ asks' = [asks EXCEPT ![q].step = "registered"]
    /\ questions' = [questions EXCEPT ![asks[q].call] = q]
    /\ UNCHANGED <<piSession, connection, session, page, taken>>

ResolveQuestion(c) ==
    LET q == questions[c] IN
    /\ q # None /\ asks[q].result = None
    /\ asks' = [asks EXCEPT ![q].result = "answer"]
    /\ questions' = [questions EXCEPT ![c] = None]
    /\ UNCHANGED <<piSession, connection, session, page, taken>>

\* The wait ends: with the result, or because the prompt has ended, Pi has given up
\* or half an hour has passed.  Until the question is taken from the table, a page
\* may still answer it, and the answer is lost.
Wake(q) ==
    /\ asks[q].step = "registered"
    /\ asks' = [asks EXCEPT ![q].step = "leaving"]
    /\ UNCHANGED <<piSession, connection, session, questions, page, taken>>

\* Mutants: what another one has registered since goes too; and nothing goes.
LeftBehind(q) == questions
Theirs(q) == [questions EXCEPT ![asks[q].call] = None]
Mine(q) == IF questions[asks[q].call] = q THEN [questions EXCEPT ![asks[q].call] = None] ELSE questions

AskEnds(q) ==
    /\ asks[q].step = "leaving"
    /\ asks' = [asks EXCEPT ![q] = NoAsk]
    /\ questions' = Mine(q)
    /\ UNCHANGED <<piSession, connection, session, page, taken>>

-----------------------------------------------------------------------------
(* session.getMessages: attached first, then read when nothing is being written. *)

Ask ==
    /\ page.asks = FALSE /\ gate = "free" /\ up /\ entry.attached = generation
    /\ page' = [page EXCEPT !.asks = TRUE]
    /\ UNCHANGED <<piSession, connection, session, dialogue, taken>>

messageSnapshot ==
    /\ page.asks
    /\ page' = [asks |-> FALSE, shown |-> entry.messages, of |-> entry.projection]
    /\ UNCHANGED <<piSession, connection, session, dialogue, taken>>

-----------------------------------------------------------------------------
ProjectionInit ==
    /\ log = <<>> /\ run = NoRun /\ bound = 0
    /\ generation = 1 /\ up = TRUE /\ wire = <<>>
    /\ entry = Fresh(0, 1) /\ replay = NoReplay
    /\ active = FALSE /\ gate = "free" /\ load = "none" /\ turn = 0 /\ prompt = NoPrompt
    /\ loads = [sent |-> 0, served |-> 0, gone |-> 0]
    /\ asks = [q \in Asks |-> NoAsk] /\ questions = [c \in Calls |-> None]
    /\ page = [asks |-> FALSE, shown |-> <<>>, of |-> 1]
    /\ taken = [i \in 1..MaxLog |-> 0]

ProjectionNext ==
    \/ PiPrompt \/ PiText \/ PiAsk \/ PiAskAgain \/ PiResult \/ PiEnd \/ PiLoad
    \/ Lose \/ Reconnect \/ Deliver \/ DeliverAnswer
    \/ Attach \/ LoadFails \/ AttachEnds \/ Invalidate \/ Prompt \/ Settle \/ Abort
    \/ \E q \in Asks : Find(q) \/ NotFound(q) \/ Register(q) \/ Wake(q) \/ AskEnds(q)
    \/ \E c \in Calls : ResolveQuestion(c)
    \/ Ask \/ messageSnapshot

ProjectionSpec == ProjectionInit /\ [][ProjectionNext]_projectionVars

-----------------------------------------------------------------------------
(* Properties.                                                           *)

\* What Pi has told since it served the last load, on the connection that is up, and
\* nobody has handled.
Coming == {i \in DOMAIN wire : wire[i].what = "item" /\ wire[i].gen = generation /\ wire[i].load = loads.sent}

\* The messages of a projection from where its load begins.
Own(p) == SubSeq(p.messages, p.ahead + 1, Len(p.messages))

\* What s has, and then what is coming, is what the transcript has of some kinds,
\* once and in order.
Completed(s, kinds) ==
    LET have == {i \in DOMAIN s : s[i].kind \in kinds}
        rest == {i \in Coming : wire[i].item.kind \in kinds}
    IN
    /\ \A i, j \in have : i < j => s[i].n < s[j].n
    /\ \A i, j \in rest : i < j => wire[i].item.n < wire[j].item.n
    /\ \A i \in have, j \in rest : s[i].n < wire[j].item.n
    /\ {s[i] : i \in have} \cup {wire[i].item : i \in rest} = {log[n] : n \in {m \in DOMAIN log : log[m].kind \in kinds}}

\* Apart from the user's messages, which are there before Pi tells of them, the
\* projection has each chunk of the transcript once and in order, and the rest is
\* on its way, however connections and loads came, failed and went.  What was on its
\* way when the session was loaded again comes before that (session_events.go:94-103).
Chunks == {"text", "call", "result"}
Settled == up /\ bound = generation /\ entry.attached = generation /\ gate = "free"
Faithful == Settled => Completed(Own(entry), Chunks)

\* A load that is served collects the transcript from its beginning.
ReplayFaithful ==
    up /\ loads.served = loads.sent /\ load \in {"sent", "loaded"} => Completed(Own(replay), Chunks \cup {"user"})

\* What comes ahead is of the transcript too, and comes only if the session was loaded,
\* or was to be loaded, over this connection before.
AheadIsReal ==
    \A p \in {entry, replay} :
        /\ p.ahead <= Len(p.messages) /\ \A i \in 1..p.ahead : p.messages[i] \in {log[n] : n \in DOMAIN log}
        /\ up /\ p.attached = generation /\ p.ahead > 0 => loads.sent > loads.gone + 1

\* Every message of the user that Pi has is in the projection, and none more often
\* than it was sent: Pi's echo of a prompt is told from a message of another client
\* (session_events.go:165, 198, 816).
Count(s, t) == Cardinality({i \in DOMAIN s : s[i].kind = "user" /\ s[i].id = t})
UserOnce == Settled => \A t \in Texts : Count(Own(entry), t) \in Count(log, t)..turn

\* A page that shows the current projection shows all of it, once and in order, but
\* for the prompts that it was not told of: an event falls wholly before or after the
\* snapshot (session_history.go:55-57; session_actions.go:526-531).
PageIsCurrent ==
    page.of = entry.projection =>
        /\ Len(page.shown) = Len(entry.messages)
        /\ \A i \in DOMAIN page.shown :
            page.shown[i] = entry.messages[i] \/ (page.shown[i] = Untold /\ entry.messages[i].kind = "user")

\* A question is taken from the transcript once: not by the request that Pi makes
\* again, and not after it was replayed (session_questions.go:36, session_events.go:107).
TakenOnce == \A i \in 1..MaxLog : taken[i] <= 1

\* A question that a page can answer has its request still under way, which waits for
\* the answer or is about to withdraw it; none is left that nobody withdraws
\* (session_questions.go:67-80).
Awaited ==
    \A c \in Calls : questions[c] # None =>
        asks[questions[c]].step \in {"registered", "leaving"} /\ asks[questions[c]].call = c

\* It can be answered until it has its result or nobody waits for it: a request that
\* ends late does not withdraw the question of another one with the same call
\* (session_questions.go:79).
Withdrawn ==
    [][\A c \in Calls : questions[c] # None /\ questions'[c] = None =>
        asks'[questions[c]].result # None \/ asks'[questions[c]] = NoAsk]_projectionVars

\* What is shown of a session is what Pi has, and its questions are asked once and
\* withdrawn.
TranscriptIsTrue ==
    ProjectionTypeOK /\ Faithful /\ ReplayFaithful /\ AheadIsReal /\ UserOnce /\ PageIsCurrent
QuestionsAreKept == TakenOnce /\ Awaited
================================================================================
