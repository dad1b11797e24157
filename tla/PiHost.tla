--------------------------------- MODULE PiHost ---------------------------------
(*******************************************************************************)
(* The Pi host and one session of it, as the controller uses it over its       *)
(* connection: server.ts and sessions.ts in pi/host, and the reader and the    *)
(* calls of a connection, piRPC in pixie/internal/controller/pi_client.go.     *)
(*                                                                             *)
(* The host keeps a session in memory as an "entry", built from its file when  *)
(* a request needs it, and released when it is idle.  Events of a session are  *)
(* numbered.  A connection that loads the session is given a snapshot and the  *)
(* number it was taken at; events that come meanwhile are kept, and those      *)
(* after the snapshot follow it.  JavaScript runs one piece of code at a       *)
(* time: a step here is what runs between two suspensions that let others in.  *)
(*                                                                             *)
(* Abstractions.  The controller has one connection at a time, and a new one   *)
(* when it is lost; the host may still work for an old one.  Requests of the   *)
(* kind "other" (rename, configure, steer, cancel, archive, lists of tools)    *)
(* differ in what they do to Pi and in nothing that this module keeps.  Events *)
(* are numbers.  The parts that a large history is sent in are read with the   *)
(* answer that follows them.  A creation's answer stands for its projection: a *)
(* new session has no transcript yet.                                          *)
(*                                                                             *)
(* No name of PiClient is used for something else here: the two ends of the    *)
(* connection can be extended together.                                        *)
(*******************************************************************************)
EXTENDS Selections, FiniteSets

CONSTANTS
    MaxRequests,     \* bound on requests
    MaxConnections,  \* bound on connections
    MaxEntries,      \* bound on the entries that are built
    MaxEvents        \* bound on events

ASSUME HostAssumption == {MaxRequests, MaxConnections, MaxEntries, MaxEvents} \subseteq Nat \ {0}

VARIABLES
    \* the host
    phase,      \* "serving", "stopping" (close was called), "closed"
    catalog,    \* whether the session is on disk
    entry,      \* Sessions.entries: the session's entry, or 0
    opening,    \* Sessions.opening: the entry that is built for whoever asks, or 0
    evicting,   \* Sessions.evicting: the entry that is being released, or 0
    entries,    \* what became of each entry
    running,    \* entries with a run
    sequence,   \* Sessions.sequences
    request,    \* the requests, in the order in which the controller made them
    \* the host's end of the connection
    attached,   \* the connections with the session in their peer.data.sessions
    loading,    \* peer.data.loading: the load that events are kept for, or 0
    kept,       \* and those events
    \* the connection and the controller's end
    current,    \* the one that the controller has
    inbox,      \* frames that the controller has not read
    view,       \* the last event that is in its projection, or -1
    ahead       \* what was projected before the snapshot, in the projection or its replay

life    == <<catalog, entry, opening, evicting, entries, running>>
peer    == <<attached, loading, kept>>
wire    == <<current, inbox, view, ahead>>
hostVars    == <<phase, life, sequence, request, peer, wire>>

Requests == 1..MaxRequests
Entries == 1..MaxEntries
Kinds == {"create", "load", "prompt", "delete", "other"}

\* pending: the controller waits for the answer.  at: a load's snapshot.
Request == [kind : Kinds, connection : 1..MaxConnections,
            step : {"none", "sent", "get", "opened", "work", "running", "closing", "forgetting", "reply", "end"},
            entry : 0..MaxEntries, ok : BOOLEAN, at : -1..MaxEvents, pending : BOOLEAN]
Unused == [kind |-> "other", connection |-> 1, step |-> "none", entry |-> 0, ok |-> TRUE, at |-> -1, pending |-> FALSE]

Event == [event : 1..MaxEvents]
Answer == [of : Requests, at : -1..MaxEvents]

\* What went ahead is typed with what is said of it (NoGap).
HostTypeOK ==
    /\ phase \in {"serving", "stopping", "closed"} /\ catalog \in BOOLEAN
    /\ {entry, opening, evicting} \subseteq 0..MaxEntries
    /\ entries \in [Entries -> {"none", "building", "open", "closing", "closed"}]
    /\ running \subseteq Entries /\ sequence \in 0..MaxEvents
    /\ request \in [Requests -> Request]
    /\ attached \subseteq 1..MaxConnections /\ loading \in 0..MaxRequests /\ kept \in Seq(1..MaxEvents)
    /\ current \in 1..MaxConnections /\ view \in -1..MaxEvents
    /\ inbox \in Seq(Event \cup Answer)

-----------------------------------------------------------------------------
(* Calls from the controller, and its reader                             *)

At(i, step) == request[i].step = step
Go(i, step) == request' = [request EXCEPT ![i].step = step]
Live(i) == phase = "serving" /\ request[i].connection = current

\* A bound only: a run publishes its start and its end.
Reserved == 2 * Cardinality({i \in Requests : request[i].kind = "prompt" /\ request[i].step \in {"sent", "get", "opened", "work"}})
            + Cardinality(running)

\* The controller makes no request of a session whose deletion it has asked for
\* and not seen refused (module SessionDeletion), and none before it was created.
\* It loads a session to project it anew (attachLocked in session_manager.go).  Its
\* operation gate lets one of these calls wait at a time.
MaySend(i, kind) ==
    /\ \A j \in Requests : request[j].kind = "delete" => request[j].step = "end" /\ ~request[j].ok
    /\ kind = "prompt" => sequence + Reserved + 2 <= MaxEvents
    /\ kind # "other" => \A j \in Requests : request[j].pending => request[j].kind = "other"
    /\ IF kind = "create" THEN \A j \in Requests : At(j, "none")
       ELSE \E j \in Requests : request[j].kind = "create" /\ At(j, "end") /\ ~request[j].pending

Send(i) ==
    /\ phase = "serving" /\ At(i, "none") /\ \A j \in 1..(i - 1) : ~At(j, "none")
    /\ \E kind \in Kinds :
         /\ MaySend(i, kind)
         /\ request' = [request EXCEPT ![i] = [Unused EXCEPT !.kind = kind, !.step = "sent",
                                                            !.connection = current, !.pending = TRUE]]
         /\ view' = IF kind = "load" THEN -1 ELSE view
         /\ ahead' = IF kind = "load" THEN {} ELSE ahead
    /\ UNCHANGED <<phase, life, sequence, peer, current, inbox>>

\* Its context ends: the host is not told.  It matters where an answer is projected.
Abandon(i) ==
    /\ request[i].pending /\ request[i].kind \in {"create", "load"} /\ request' = [request EXCEPT ![i].pending = FALSE]
    /\ UNCHANGED <<phase, life, sequence, peer, wire>>

\* What an answer carries is projected if its call still waits (piRPC.read).
Projects(f) == IF request[f.of].pending /\ f.at >= 0 THEN f.at ELSE view

\* A load under way has a replay that every frame of the connection goes to.
Replaying == \E i \in Requests : request[i].kind = "load" /\ request[i].pending

\* An event goes to the projection, or to the replay, without a look at its number.
\* The answer to a load that was given up is dropped, but not the parts of a large
\* history before it, those that are read when another load is under way.
Read ==
    /\ inbox # << >> /\ inbox' = Tail(inbox)
    /\ LET f == Head(inbox)
       IN IF "event" \in DOMAIN f
          THEN /\ view' = (IF view = -1 THEN -1 ELSE f.event) /\ UNCHANGED request
               /\ ahead' = IF Replaying THEN ahead \cup {f.event} ELSE ahead
          ELSE /\ view' = Projects(f) /\ request' = [request EXCEPT ![f.of].pending = FALSE]
               /\ IF Replaying /\ ~request[f.of].pending
                  THEN \E n \in 0..MaxEvents : ahead' = ahead \cup (n + 1)..f.at
                  ELSE UNCHANGED ahead
    /\ UNCHANGED <<phase, life, sequence, peer, current>>

\* The connection is lost and the controller makes another.  What was on its way
\* is lost; requests that the host has taken go on.
LoseConnection ==
    /\ current < MaxConnections /\ phase = "serving"
    /\ current' = current + 1
    /\ request' = [i \in Requests |-> [request[i] EXCEPT !.pending = FALSE, !.step = IF @ = "sent" THEN "end" ELSE @,
                                                         !.ok = @ /\ request[i].step # "sent"]]
    /\ loading' = 0 /\ kept' = << >> /\ inbox' = << >> /\ view' = -1 /\ ahead' = {}
    /\ UNCHANGED <<phase, life, sequence, attached>>

-----------------------------------------------------------------------------
(* The event loop.  Code that no suspension interrupts goes first: a request *)
(* looks for its entry when it arrives, unless the entry is being released;  *)
(* it holds an entry as soon as there is one, except that a load awaits      *)
(* realpath in between; and a creation is answered with its snapshot.        *)

\* Mutant: a request does not wait for the release of an entry.
WaitsNever(i) == FALSE

Waits(i) == evicting # 0 /\ request[i].kind # "create"

Ready(i) ==
    \/ At(i, "get") /\ ~Waits(i)
    \/ At(i, "opened") /\ request[i].kind # "load" /\ opening # request[i].entry
    \/ At(i, "reply") /\ request[i].kind = "create"

Quiet == \A i \in Requests : ~Ready(i)

-----------------------------------------------------------------------------
(* Events                                                                *)

\* The output of Sessions: n more events go to the connection, or wait for its load.
\* Mutant: they are numbered from zero.
NumbersFromZero(n) == [k \in 1..n |-> sequence + k - 1]
Numbers(n) == [k \in 1..n |-> sequence + k]
Frames(numbers) == [k \in DOMAIN numbers |-> [event |-> numbers[k]]]

\* Mutant: events go to every connection.
ListensAlways == phase = "serving"

Listens == phase = "serving" /\ current \in attached

\* Mutant: the events of a connection that is attached are not kept.
PublishAtOnce(n) ==
    /\ sequence + n <= MaxEvents /\ sequence' = sequence + n
    /\ inbox' = IF Listens THEN inbox \o Frames(Numbers(n)) ELSE inbox
    /\ kept' = IF loading # 0 /\ ~Listens THEN kept \o Numbers(n) ELSE kept

Publish(n) ==
    /\ sequence + n <= MaxEvents /\ sequence' = sequence + n
    /\ kept' = IF loading # 0 THEN kept \o Numbers(n) ELSE kept
    /\ inbox' = IF loading = 0 /\ Listens THEN inbox \o Frames(Numbers(n)) ELSE inbox

\* Room is left for the runs.
PiEvent ==
    /\ Quiet
    /\ \E e \in Entries : entries[e] = "open"
    /\ sequence + Reserved + 1 <= MaxEvents
    /\ Publish(1)
    /\ UNCHANGED <<phase, life, request, attached, loading, current, view, ahead>>

-----------------------------------------------------------------------------
(* Entries                                                               *)

Uses(e) == {i \in Requests : request[i].entry = e /\ request[i].step \in {"work", "running", "closing", "forgetting"}}
\* Mutant: a run does not keep its entry.
UnheldButRun(e) == entries[e] = "open" /\ Uses(e) \subseteq {i \in Requests : At(i, "running")}

Unheld(e) == entries[e] = "open" /\ Uses(e) = {} /\ e \notin running

\* A new entry's name, of a bounded number.
Build == {e \in Entries : entries[e] = "none" /\ \A f \in 1..(e - 1) : entries[f] # "none"}

Release ==
    /\ Quiet /\ entry # 0 /\ Unheld(entry) /\ Build # {}
    /\ entry' = 0 /\ evicting' = entry
    /\ entries' = [entries EXCEPT ![entry] = "closing"]
    /\ UNCHANGED <<phase, catalog, opening, running, sequence, request, peer, wire>>

Released ==
    /\ Quiet /\ evicting # 0 /\ evicting' = 0
    /\ entries' = [entries EXCEPT ![evicting] = "closed"]
    /\ UNCHANGED <<phase, catalog, entry, opening, running, sequence, request, peer, wire>>

\* Mutant: a failed request is not answered.
FailSilently(i) == request' = [request EXCEPT ![i].step = "end", ![i].ok = FALSE]

Fail(i) == request' = [request EXCEPT ![i].step = "reply", ![i].ok = FALSE]

\* get and create: an entry that is there, one that is being built, or a new one.
Get(i) ==
    /\ At(i, "get") /\ ~Waits(i)
    /\ \/ phase # "serving" /\ Fail(i) /\ UNCHANGED <<opening, entries>>
       \/ /\ phase = "serving" /\ {opening, entry} # {0}
          /\ request' = [request EXCEPT ![i].step = "opened", ![i].entry = IF opening # 0 THEN opening ELSE entry]
          /\ UNCHANGED <<opening, entries>>
       \/ /\ phase = "serving" /\ opening = 0 /\ entry = 0
          /\ \/ ~catalog /\ request[i].kind # "create" /\ Fail(i) /\ UNCHANGED <<opening, entries>>
             \/ \E e \in Build :
                  /\ catalog \/ request[i].kind = "create"
                  /\ opening' = e /\ entries' = [entries EXCEPT ![e] = "building"]
                  /\ request' = [request EXCEPT ![i].step = "opened", ![i].entry = e]
    /\ UNCHANGED <<phase, catalog, entry, evicting, running, sequence, peer, wire>>

\* The host may have been closed while it built the entry.
Stopped == phase # "serving"

Opened ==
    /\ Quiet /\ opening # 0
    /\ \E built \in BOOLEAN :
         LET good == built /\ ~Stopped
         IN /\ entries' = [entries EXCEPT ![opening] = IF good THEN "open" ELSE "none"]
            /\ entry' = IF good THEN opening ELSE entry
            /\ request' = IF good THEN request
                          ELSE [i \in Requests |-> IF At(i, "opened") /\ request[i].entry = opening
                                                   THEN [request[i] EXCEPT !.step = "reply", !.entry = 0, !.ok = FALSE]
                                                   ELSE request[i]]
            /\ catalog' = (catalog \/ (good /\ \E i \in Requests : request[i].kind = "create" /\ request[i].entry = opening))
    /\ opening' = 0
    /\ UNCHANGED <<phase, evicting, running, sequence, peer, wire>>

\* use: the entry is held from here on.
Enter(i) ==
    /\ At(i, "opened") /\ opening # request[i].entry
    /\ Go(i, "work")
    /\ UNCHANGED <<phase, life, sequence, peer, wire>>

-----------------------------------------------------------------------------
(* Requests                                                              *)

Receive(i) ==
    /\ Quiet /\ At(i, "sent") /\ phase = "serving"
    /\ \A j \in 1..(i - 1) : ~At(j, "sent")
    /\ IF request[i].kind = "load" /\ loading # 0
       THEN Fail(i) /\ UNCHANGED loading
       ELSE Go(i, "get") /\ loading' = IF request[i].kind = "load" THEN i ELSE loading
    /\ UNCHANGED <<phase, life, sequence, attached, kept, wire>>

Settle(i, ok, at) == request' = [request EXCEPT ![i].step = "reply", ![i].ok = ok, ![i].at = at]

\* session.load and session.create: what the client is attached to.
Attach(i) ==
    /\ Quiet /\ At(i, "work") /\ request[i].kind \in {"create", "load"}
    /\ \/ Settle(i, FALSE, -1) /\ UNCHANGED attached
       \/ Settle(i, TRUE, sequence) /\ attached' = attached \cup {request[i].connection}
    /\ UNCHANGED <<phase, life, sequence, loading, kept, wire>>

Other(i) ==
    /\ At(i, "work") /\ request[i].kind = "other"
    /\ Settle(i, request[i].connection \in attached, -1)
    /\ UNCHANGED <<phase, life, sequence, peer, wire>>

\* A connection uses what it has attached; a session has one run.
MayRun(i) == request[i].connection \in attached /\ request[i].entry \notin running

Prompt(i) ==
    /\ At(i, "work") /\ request[i].kind = "prompt"
    /\ IF MayRun(i)
       THEN /\ Publish(1)
            /\ running' = running \cup {request[i].entry} /\ Go(i, "running")
       ELSE Settle(i, FALSE, -1) /\ UNCHANGED <<running, sequence, inbox, kept>>
    /\ UNCHANGED <<phase, catalog, entry, opening, evicting, entries, attached, loading, current, view, ahead>>

RunEnds(i) ==
    /\ Quiet /\ At(i, "running")
    /\ Publish(1) /\ running' = running \ {request[i].entry}
    /\ \E ok \in BOOLEAN : Settle(i, ok, -1)
    /\ UNCHANGED <<phase, catalog, entry, opening, evicting, entries, attached, loading, current, view, ahead>>

\* session.delete closes the entry, removes the file, and then the catalog's row.
Delete(i) ==
    /\ At(i, "work") /\ request[i].kind = "delete"
    /\ IF request[i].entry \in running
       THEN Settle(i, FALSE, -1) /\ UNCHANGED entries
       ELSE Go(i, "closing") /\ entries' = [entries EXCEPT ![request[i].entry] = IF @ = "open" THEN "closing" ELSE @]
    /\ UNCHANGED <<phase, catalog, entry, opening, evicting, running, sequence, peer, wire>>

\* Mutant: a closed entry stays in the table.
DeletingKeeps(i) ==
    /\ Quiet /\ At(i, "closing") /\ Go(i, "forgetting")
    /\ entries' = [entries EXCEPT ![request[i].entry] = "closed"]
    /\ UNCHANGED <<phase, catalog, entry, opening, evicting, running, sequence, peer, wire>>

Deleting(i) ==
    /\ Quiet /\ At(i, "closing") /\ Go(i, "forgetting")
    /\ entries' = [entries EXCEPT ![request[i].entry] = "closed"] /\ entry' = 0
    /\ UNCHANGED <<phase, catalog, opening, evicting, running, sequence, peer, wire>>

Deleted(i) ==
    /\ Quiet /\ At(i, "forgetting") /\ Settle(i, TRUE, -1)
    /\ catalog' = FALSE
    /\ UNCHANGED <<phase, entry, opening, evicting, entries, running, sequence, peer, wire>>

\* Mutant: all that was kept is sent.
AfterAll(at) == kept

\* The events that a load kept and its snapshot does not have.
After(at) == Only(kept, (at + 1)..MaxEvents)

\* The answer of a load is followed by what was kept for it.
Reply(i) ==
    /\ At(i, "reply")
    /\ request' = [request EXCEPT ![i].step = "end", ![i].entry = 0, ![i].at = -1]
    /\ LET mine == loading = i
       IN /\ inbox' = IF ~Live(i) THEN inbox
                      ELSE Append(inbox, [of |-> i, at |-> IF request[i].ok THEN request[i].at ELSE -1])
                           \o Frames(IF mine THEN After(request[i].at) ELSE << >>)
          /\ loading' = IF mine THEN 0 ELSE loading
          /\ kept' = IF mine THEN << >> ELSE kept
    /\ UNCHANGED <<phase, life, sequence, attached, current, view, ahead>>

-----------------------------------------------------------------------------
(* The end of the host                                                   *)

\* Requests on the socket are refused, connections are closed.
Stop ==
    /\ Quiet /\ phase = "serving" /\ phase' = "stopping"
    /\ request' = [i \in Requests |-> [request[i] EXCEPT !.pending = FALSE]]
    /\ loading' = 0 /\ kept' = << >> /\ inbox' = << >>
    /\ UNCHANGED <<life, sequence, attached, current, view, ahead>>

\* Mutant: the entries are dropped as they are.
ShutNoEntry == entries

ShutEntry == IF entry = 0 THEN entries ELSE [entries EXCEPT ![entry] = "closed"]

Close ==
    /\ Quiet /\ phase = "stopping" /\ opening = 0 /\ evicting = 0
    /\ phase' = "closed" /\ entry' = 0
    /\ entries' = ShutEntry
    /\ UNCHANGED <<catalog, opening, evicting, running, sequence, request, peer, wire>>

HostInit ==
    /\ phase = "serving" /\ catalog = FALSE /\ entry = 0 /\ opening = 0 /\ evicting = 0
    /\ entries = [e \in Entries |-> "none"] /\ running = {} /\ sequence = 0
    /\ request = [i \in Requests |-> Unused]
    /\ attached = {} /\ loading = 0 /\ kept = << >>
    /\ current = 1 /\ inbox = << >> /\ view = -1 /\ ahead = {}

\* What the host does by itself, a run's end included only when it is asked for.
Handle(i) == Get(i) \/ Enter(i) \/ Attach(i) \/ Other(i) \/ Prompt(i) \/ Delete(i) \/ Deleting(i) \/ Deleted(i) \/ Reply(i)

HostNext ==
    \/ \E i \in Requests : Send(i) \/ Abandon(i) \/ Receive(i) \/ Handle(i) \/ RunEnds(i)
    \/ Read \/ LoseConnection \/ PiEvent \/ Release \/ Released \/ Opened \/ Stop \/ Close

HostSpec == HostInit /\ [][HostNext]_hostVars

\* The event loop goes on; a run ends when Pi ends it, or is aborted.
FairHostSpec ==
    /\ HostSpec /\ WF_hostVars(Read) /\ WF_hostVars(Released) /\ WF_hostVars(Opened) /\ WF_hostVars(Close)
    /\ \A i \in Requests : WF_hostVars(Receive(i)) /\ WF_hostVars(Handle(i)) /\ WF_hostVars(RunEnds(i))

-----------------------------------------------------------------------------
(* Properties                                                            *)

\* One entry of the session at a time: no two of them write its transcript
\* (get, release, sessions.ts:158-183, 401-411).
OneEntry ==
    \A e, f \in Entries : entries[e] \in {"building", "open", "closing"} /\ entries[f] \in {"building", "open", "closing"} => e = f

\* A projection misses no event of its session: what is read next follows what it
\* has, no snapshot is older than it, and what went to the replay before the
\* snapshot is of the events that the snapshot has (server.ts:87-98, 287-335;
\* pi_client.go:514-596, session_events.go:92-105).
NoGap ==
    /\ inbox # << >> =>
         LET f == Head(inbox)
         IN IF "event" \in DOMAIN f THEN view \in {-1, f.event - 1}
            ELSE f.at = -1 \/ f.at >= view
    /\ ahead \subseteq 1..sequence /\ (view # -1 => ahead \subseteq 1..view)

\* It has them once, unless the session is loaded again over a connection that has
\* it already, or may have: then events that were on their way are there twice
\* (server.ts:96; session_actions.go:366-369, session_manager.go:683-690).
Attaches(i) == request[i].kind \in {"create", "load"} /\ request[i].connection = current /\ ~At(i, "none")
OnceWhenNew == ahead # {} => \E i, j \in Requests : i # j /\ Attaches(i) /\ Attaches(j)

\* A session has one run, and its entry stays open until the run has ended, unless
\* the host is closed; or unless the session is deleted over another connection
\* than the one that the prompt came over, before it began (sessions.ts:403, 638).
RunsKeepTheirEntry ==
    phase = "serving" =>
        \A i \in Requests : At(i, "running") =>
            /\ \/ request[i].entry = entry /\ entries[entry] = "open"
               \/ \E j \in Requests : request[j].kind = "delete" /\ request[j].connection # request[i].connection
            /\ \A j \in Requests \ {i} : ~At(j, "running")

\* Once a deletion was answered, nothing of the session is there: no catalog row
\* and no entry that a late request reopened (sessions.ts:785-795).
DeletedIsGone ==
    (\E i \in Requests : request[i].kind = "delete" /\ request[i].step \in {"reply", "end"} /\ request[i].ok)
        => ~catalog /\ entry = 0 /\ opening = 0

\* A closed host has closed every entry, also those it was building (close,
\* sessions.ts:819-831).
NothingLeftOpen == phase = "closed" => \A e \in Entries : entries[e] \in {"none", "closed"}

\* A call of the controller ends: it is answered, or its connection is gone.
CallsEnd == \A i \in Requests : request[i].pending ~> ~request[i].pending

\* "Active calls and runs keep their Pi session loaded" (docs/pi.md:24).
CallsKeepTheirEntry ==
    \A i \in Requests : At(i, "work") /\ phase = "serving" => entries[request[i].entry] = "open"

\* What the host promises of the session that it keeps open.
EntriesAreSafe == HostTypeOK /\ OneEntry /\ RunsKeepTheirEntry /\ DeletedIsGone /\ NothingLeftOpen

\* What it promises of the session's events.
EventsArrive == NoGap /\ OnceWhenNew
=============================================================================
