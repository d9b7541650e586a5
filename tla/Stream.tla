------------------------------- MODULE Stream -------------------------------
(***************************************************************************)
(* The live stream (server/stream.go), between the publisher of main.go    *)
(* and the browser's EventSource (web/src/hooks.ts, useLive).              *)
(*                                                                         *)
(* The publisher gives every event to the hub, then to the storage writer, *)
(* which stores it some time later.  A stream handler subscribes to the    *)
(* hub, replays from the storage what its client missed, then forwards     *)
(* what the hub put on its channel.  The client reconnects when the        *)
(* connection breaks, with the id of the last frame, and when it is told   *)
(* to, with the latest time it has seen.                                   *)
(*                                                                         *)
(* Events are numbered in the order in which they are published.  A frame  *)
(* that is written is received at once: one lost with its connection is    *)
(* one that was not written before the connection broke.  The hub's mutex  *)
(* makes each of its methods one step.                                     *)
(***************************************************************************)
EXTENDS Rows, Sequences

CONSTANTS
    Clients,      \* browsers with a live view
    Stores,       \* the storages that may be behind the stream
    Capacity,     \* clientBuffer
    ReplayLimit,  \* replayLimit
    Wanted,       \* the events that match the filter of the stream
    Times,        \* the times events may have, one millisecond at least
    MaxEvents,    \* bound: events published
    MaxBreaks,    \* bound: connections that break
    MaxErrors     \* bound: storage calls that fail

ASSUME StoresAssumption == Stores \subseteq Backends
ASSUME CapacityAssumption == Capacity \in Nat \ {0}
\* The storage gives a replay as many rows as it asks for: 1000 is both limits.
ASSUME ReplayAssumption == ReplayLimit \in 1..MaxLimit
ASSUME TimesAssumption == Times \subseteq {t \in Nat : t >= Milli}
ASSUME MaxEventsAssumption == MaxEvents \in Nat

Number == 1..MaxEvents

ASSUME WantedAssumption == Wanted \subseteq Number

VARIABLES
    backend,   \* the storage behind the stream
    time,      \* time[i]: the time of event i
    count,     \* events given to the hub
    settled,   \* events the writer is done with
    store,     \* the events that are stored
    closed,    \* hub.closed
    hub,       \* hub.clients
    pc,        \* pc[c]: where the handler of c's connection is
    ch,        \* its channel
    chClosed,  \* the channel is closed
    overflow,  \* client.overflow
    cur,       \* the event taken from the channel
    missed,    \* what is still to be replayed
    gap,       \* as many events as the replay may hold were found
    lastID,    \* the last event id of c's EventSource, 0 for none
    url,       \* the since parameter of its URL, 0 for none
    last,      \* the latest time it has seen, in milliseconds
    got,       \* got[c]: the events c has received
    breaks, errors,
    (* history *)
    lost,      \* lost[c]: the first event dropped on this connection, 0 for none
    wrote,     \* wrote[c]: the last event forwarded on this connection
    subAt,     \* subAt[c]: events published when c last subscribed
    joined,    \* joined[c]: and when it first did, -1 before
    blind,     \* blind[c]: and when it last did without an id, after the first
    resumed,   \* resumed[c]: the latest id it resumed from
    late,      \* late[c]: the events not stored when they were replayed
    told       \* told[c]: events published when c was last told of a loss

pubVars == <<count, time, settled, store>>
ctlVars == <<backend, breaks, errors>>
handlerVars == <<pc, cur, missed, gap, wrote>>
hubVars == <<closed, hub, ch, chClosed, overflow, lost>>
clientVars == <<lastID, url, last, got>>
noteVars == <<subAt, joined, blind, resumed, late, told>>
vars == <<pubVars, ctlVars, handlerVars, hubVars, clientVars, noteVars>>

Init ==
    /\ backend \in Stores
    /\ time = [i \in Number |-> 0]
    /\ count = 0 /\ settled = 0 /\ store = {}
    /\ closed = FALSE /\ hub = {}
    /\ pc = [c \in Clients |-> "off"]
    /\ ch = [c \in Clients |-> <<>>]
    /\ chClosed = [c \in Clients |-> FALSE]
    /\ overflow = [c \in Clients |-> FALSE]
    /\ cur = [c \in Clients |-> 0]
    /\ missed = [c \in Clients |-> {}]
    /\ gap = [c \in Clients |-> FALSE]
    /\ lastID = [c \in Clients |-> 0]
    /\ url = [c \in Clients |-> 0]
    /\ last = [c \in Clients |-> 0]
    /\ got = [c \in Clients |-> {}]
    /\ breaks = 0 /\ errors = 0
    /\ lost = [c \in Clients |-> 0]
    /\ wrote = [c \in Clients |-> 0]
    /\ subAt = [c \in Clients |-> 0]
    /\ joined = [c \in Clients |-> -1]
    /\ blind = [c \in Clients |-> 0]
    /\ resumed = [c \in Clients |-> 0]
    /\ late = [c \in Clients |-> {}]
    /\ told = [c \in Clients |-> 0]

-----------------------------------------------------------------------------
(* The publisher of main.go, the storage writer, the shutdown.             *)

Reached(i) == IF ~closed /\ i \in Wanted THEN hub ELSE {}

\* The send on c's channel does not block.
Room(c) == Len(ch[c]) < Capacity

\* The publisher gives an event to the hub, which never waits for a client, then
\* to the writer.  One that is cancelled in between is an event never stored.
Publish ==
    /\ count < MaxEvents
    /\ \E t \in Times : time' = [time EXCEPT ![count + 1] = t]
    /\ count' = count + 1
    /\ LET room == {c \in Reached(count + 1) : Room(c)}
           full == Reached(count + 1) \ room
       IN  /\ ch' = [c \in Clients |->
                       IF c \in room THEN Append(ch[c], count + 1) ELSE ch[c]]
           /\ overflow' = [c \in Clients |-> overflow[c] \/ c \in full]
           /\ lost' = [c \in Clients |->
                         IF c \in full /\ lost[c] = 0 THEN count + 1 ELSE lost[c]]
    /\ UNCHANGED <<settled, store, ctlVars, handlerVars, closed, hub, chClosed, clientVars,
                   noteVars>>

\* The writer stores its next event, or drops it after its retries.
Stored ==
    /\ settled < count
    /\ settled' = settled + 1
    /\ store' = store \cup {settled + 1}
    /\ UNCHANGED <<count, time, ctlVars, handlerVars, hubVars, clientVars, noteVars>>

Dropped ==
    /\ settled < count /\ errors < MaxErrors
    /\ settled' = settled + 1
    /\ errors' = errors + 1
    /\ UNCHANGED <<count, time, store, backend, breaks, handlerVars, hubVars,
                   clientVars, noteVars>>

\* When the context of main ends, Server.Run closes the hub before it waits for the connections.
CloseHub ==
    /\ ~closed
    /\ closed' = TRUE
    /\ chClosed' = [c \in Clients |-> chClosed[c] \/ c \in hub]
    /\ hub' = {}
    /\ UNCHANGED <<pubVars, ctlVars, handlerVars, ch, overflow, lost, clientVars, noteVars>>

-----------------------------------------------------------------------------
(* The connection of client c.                                             *)

\* What the request asks to resume from: Last-Event-ID, else since.
From(c) == IF lastID[c] # 0 THEN lastID[c] ELSE url[c]

\* The handler returns: it unsubscribes, and what it held is gone.
Leave(c) ==
    /\ pc' = [pc EXCEPT ![c] = "off"]
    /\ hub' = hub \ {c}
    /\ ch' = [ch EXCEPT ![c] = <<>>]
    /\ chClosed' = [chClosed EXCEPT ![c] = FALSE]
    /\ overflow' = [overflow EXCEPT ![c] = FALSE]
    /\ lost' = [lost EXCEPT ![c] = 0]
    /\ missed' = [missed EXCEPT ![c] = {}]
    /\ gap' = [gap EXCEPT ![c] = FALSE]
    /\ wrote' = [wrote EXCEPT ![c] = 0]
    /\ subAt' = [subAt EXCEPT ![c] = 0]

\* Mutant: the browser gives up after an error.
OpenOnce(c) ==
    /\ pc[c] = "off" /\ ~closed /\ joined[c] = -1
    /\ pc' = [pc EXCEPT ![c] = "subscribe"]
    /\ UNCHANGED <<pubVars, ctlVars, cur, missed, gap, wrote, hubVars, clientVars, noteVars>>

\* The browser connects, or reconnects, while the server listens.
Open(c) ==
    /\ pc[c] = "off" /\ ~closed
    /\ pc' = [pc EXCEPT ![c] = "subscribe"]
    /\ UNCHANGED <<pubVars, ctlVars, cur, missed, gap, wrote, hubVars, clientVars, noteVars>>

\* Mutant: a stream that starts after the hub closed waits on an open channel.
BornOpen == FALSE

\* The channel of a stream that starts after the hub closed is closed.
BornClosed == closed

Subscribe(c) ==
    /\ pc[c] = "subscribe"
    /\ hub' = IF closed THEN hub ELSE hub \cup {c}
    /\ chClosed' = [chClosed EXCEPT ![c] = BornClosed]
    /\ pc' = [pc EXCEPT ![c] = IF From(c) # 0 THEN "since" ELSE "wait"]
    /\ subAt' = [subAt EXCEPT ![c] = count]
    /\ joined' = [joined EXCEPT ![c] = IF @ = -1 THEN count ELSE @]
    /\ blind' = [blind EXCEPT ![c] = IF From(c) = 0 THEN count ELSE @]
    /\ UNCHANGED <<pubVars, ctlVars, cur, missed, gap, wrote, closed, ch, overflow, lost, clientVars,
                   resumed, late, told>>

StoredRows == {[id |-> i, time |-> StoredTime(backend, time[i])] : i \in store}

Replay(c) == Since(backend, StoredRows, From(c), ReplayLimit)

\* Mutant: more rows than the limit, which the storage never gives.
FullOver(S) == Cardinality(S) > ReplayLimit

\* There may be more rows than those the storage gave.
Full(S) == Cardinality(S) >= ReplayLimit

\* Since; the limit is compared before the filter is applied.
ReadSince(c) ==
    /\ pc[c] = "since"
    /\ missed' = [missed EXCEPT ![c] = Replay(c)]
    /\ gap' = [gap EXCEPT ![c] = Full(Replay(c))]
    /\ pc' = [pc EXCEPT ![c] = "replay"]
    /\ resumed' = [resumed EXCEPT ![c] = IF From(c) > @ THEN From(c) ELSE @]
    /\ late' = [late EXCEPT ![c] = @ \cup ((1..subAt[c]) \ store)]
    /\ subAt' = [subAt EXCEPT ![c] = 0]
    /\ UNCHANGED <<pubVars, ctlVars, cur, wrote, hubVars, clientVars, joined, blind, told>>

\* Since of a database fails, with the rows read so far, and the client gets a
\* warning.  These rows are replayed, and their number is compared as well.
SinceFails(c) ==
    /\ pc[c] = "since" /\ backend \in Databases /\ errors < MaxErrors
    /\ errors' = errors + 1
    /\ \E n \in 0..ReplayLimit :
          /\ missed' = [missed EXCEPT ![c] = Oldest(Replay(c), n)]
          /\ gap' = [gap EXCEPT ![c] = Full(Oldest(Replay(c), n))]
    /\ pc' = [pc EXCEPT ![c] = "replay"]
    /\ told' = [told EXCEPT ![c] = count]
    /\ subAt' = [subAt EXCEPT ![c] = 0]
    /\ UNCHANGED <<pubVars, backend, breaks, cur, wrote, hubVars, clientVars, joined,
                   blind, resumed, late>>

\* The client receives a frame with the id ms that holds event i.
Receive(c, i, ms) ==
    /\ got' = [got EXCEPT ![c] = @ \cup {i}]
    /\ lastID' = [lastID EXCEPT ![c] = ms]
    /\ last' = [last EXCEPT ![c] = IF ms > @ THEN ms ELSE @]

\* The next missed event, if it matches.
ReplayNext(c) ==
    /\ pc[c] = "replay"
    /\ \E r \in Oldest(missed[c], 1) :
          /\ missed' = [missed EXCEPT ![c] = @ \ {r}]
          /\ IF r.id \in Wanted THEN Receive(c, r.id, Ms(r.time)) /\ UNCHANGED url
             ELSE UNCHANGED clientVars
    /\ UNCHANGED <<pubVars, ctlVars, pc, cur, gap, wrote, hubVars, noteVars>>

ReplayDone(c) ==
    /\ pc[c] = "replay" /\ missed[c] = {}
    /\ pc' = [pc EXCEPT ![c] = "wait"]
    /\ gap' = [gap EXCEPT ![c] = FALSE]
    /\ told' = [told EXCEPT ![c] = IF gap[c] THEN count ELSE @]
    /\ UNCHANGED <<pubVars, ctlVars, cur, missed, wrote, hubVars, clientVars, subAt, joined, blind,
                   resumed, late>>

Take(c) ==
    /\ pc[c] = "wait" /\ ch[c] # <<>>
    /\ cur' = [cur EXCEPT ![c] = Head(ch[c])]
    /\ ch' = [ch EXCEPT ![c] = Tail(@)]
    /\ pc' = [pc EXCEPT ![c] = "write"]
    /\ UNCHANGED <<pubVars, ctlVars, missed, gap, wrote, closed, hub, chClosed, overflow, lost,
                   clientVars, noteVars>>

\* Mutant: a client that lost an event is first given what is on its channel.
MustResetLate(c) == overflow[c] /\ ch[c] = <<>>

\* A client that lost an event is told to reconnect.
MustReset(c) == overflow[c]

\* The event is written, and a client that lost one is sent away: the handler
\* returns, and the browser opens a new EventSource with since.
Write(c) ==
    /\ pc[c] = "write"
    /\ got' = [got EXCEPT ![c] = @ \cup {cur[c]}]
    /\ last' = [last EXCEPT ![c] = IF Ms(time[cur[c]]) > @ THEN Ms(time[cur[c]]) ELSE @]
    /\ cur' = [cur EXCEPT ![c] = 0]
    /\ \/ /\ MustReset(c)
          /\ Leave(c)
          /\ lastID' = [lastID EXCEPT ![c] = 0]
          /\ url' = [url EXCEPT ![c] = last'[c]]
       \/ /\ ~MustReset(c)
          /\ pc' = [pc EXCEPT ![c] = "wait"]
          /\ wrote' = [wrote EXCEPT ![c] = cur[c]]
          /\ lastID' = [lastID EXCEPT ![c] = Ms(time[cur[c]])]
          /\ UNCHANGED <<url, hub, ch, chClosed, overflow, lost, missed, gap, subAt>>
    /\ UNCHANGED <<pubVars, ctlVars, closed, joined, blind, resumed, late, told>>

\* Mutant: the handler reads on from the closed channel.
ChannelEndsNot(c) ==
    /\ pc[c] = "wait" /\ ch[c] = <<>> /\ chClosed[c]
    /\ UNCHANGED vars

\* The handler returns when its channel is closed and empty.
ChannelEnds(c) ==
    /\ pc[c] = "wait" /\ ch[c] = <<>> /\ chClosed[c]
    /\ Leave(c)
    /\ UNCHANGED <<pubVars, ctlVars, cur, closed, clientVars, joined, blind, resumed, late, told>>

\* The connection breaks; the request's context ends the handler.
Break(c) ==
    /\ pc[c] \notin {"off", "subscribe"} /\ breaks < MaxBreaks
    /\ breaks' = breaks + 1
    /\ Leave(c)
    /\ cur' = [cur EXCEPT ![c] = 0]
    /\ UNCHANGED <<pubVars, backend, errors, closed, clientVars, joined, blind, resumed,
                   late, told>>

Handler(c) ==
    \/ Subscribe(c) \/ ReadSince(c) \/ SinceFails(c) \/ ReplayNext(c) \/ ReplayDone(c)
    \/ Take(c) \/ Write(c) \/ ChannelEnds(c)

Next ==
    \/ Publish \/ Stored \/ Dropped \/ CloseHub
    \/ \E c \in Clients : Open(c) \/ Handler(c) \/ Break(c)

Spec == Init /\ [][Next]_vars

\* A browser keeps trying to connect, and the goroutine of a connection runs.
\* Nothing is asked of the publisher, the writer or the shutdown.
FairSpec == Spec /\ \A c \in Clients : WF_vars(Open(c) \/ Handler(c))

-----------------------------------------------------------------------------
(* Properties.                                                             *)

TypeOK ==
    /\ backend \in Stores
    /\ time \in [Number -> Nat] /\ count \in 0..MaxEvents
    /\ settled \in 0..count /\ store \subseteq 1..settled
    /\ closed \in BOOLEAN /\ hub \subseteq Clients
    /\ pc \in [Clients -> {"off", "subscribe", "since", "replay", "wait", "write"}]
    /\ ch \in [Clients -> Seq(Number)]
    /\ \A c \in Clients : Len(ch[c]) <= Capacity
    /\ chClosed \in [Clients -> BOOLEAN] /\ overflow \in [Clients -> BOOLEAN]
    /\ cur \in [Clients -> Number \cup {0}]
    /\ missed \in [Clients -> SUBSET [id : Number, time : Nat]]
    /\ got \in [Clients -> SUBSET Number]
    /\ lost \in [Clients -> Number \cup {0}]
    /\ wrote \in [Clients -> Number \cup {0}]

Connected(c) == pc[c] \notin {"off", "subscribe"}

\* However streams start and end while the hub closes, the registered clients are
\* exactly those whose handler runs, until the hub closes: Publish never sends on
\* a closed channel, which would panic, and fills no channel that nobody reads.
\* A handler that runs after that has a closed channel, so it will return.
HubConsistent ==
    \A c \in Clients :
        /\ c \in hub <=> Connected(c) /\ ~closed
        /\ chClosed[c] <=> Connected(c) /\ closed

\* "A client that cannot keep up is disconnected": once an event was dropped on
\* a connection, no later one is forwarded on it, so the client never takes an
\* event for the next one when there is a hole between them.
NoHoles ==
    \A c \in Clients : lost[c] # 0 => cur[c] < lost[c] /\ wrote[c] < lost[c]

\* Why a client may not have an event that was published after it joined: the
\* event was published and not stored when the client resumed; as stored, it is
\* not later than the millisecond the client resumed from; the client resumed
\* without an id, having received nothing; or it was told of a loss.
Explained(c, i) ==
    \/ i \in late[c]
    \/ Ms(StoredTime(backend, time[i])) <= resumed[c]
    \/ i <= blind[c]
    \/ i <= told[c]

\* "gets the events it missed first, from storage, then the live feed": a client
\* that waits for the next event has all that were published, or there is one of
\* four reasons that it has not.
LossExplained ==
    \A c \in Clients :
        pc[c] = "wait" /\ ch[c] = <<>> /\ ~closed =>
            \A i \in Wanted : joined[c] < i /\ i <= count => i \in got[c] \/ Explained(c, i)

\* No client is stuck: until the shutdown it comes back, again and again, to where
\* LossExplained says what it has, after every break, reset and failed replay.
CaughtUp ==
    \A c \in Clients : []<>((pc[c] = "wait" /\ ch[c] = <<>>) \/ closed)

\* "Close ends every stream": every handler returns, so the shutdown of the
\* server does not wait for streams.
StreamsEnd == \A c \in Clients : closed ~> pc[c] = "off"
=============================================================================
