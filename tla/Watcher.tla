------------------------------- MODULE Watcher -------------------------------
(***************************************************************************)
(* The watcher of a Consul datacenter: watch/watch.go, with the diffs of   *)
(* watch/compare.go taken from module Compare.                             *)
(*                                                                         *)
(* Two goroutines follow the list of services and the list of nodes; each  *)
(* starts one watch goroutine per name and closes its stop channel when    *)
(* the name leaves the list.  A watch fetches the state of its name with   *)
(* blocking queries, compares it with the state before and sends events    *)
(* and instance records on two bounded channels.  A query is split into    *)
(* the moment Consul takes the answer and the moment the goroutine uses    *)
(* it, so an answer may be old when it is handled.                         *)
(***************************************************************************)
EXTENDS Compare

CONSTANTS
    Services,     \* names of services
    Nodes,        \* names of nodes
    Possible,     \* Possible[n]: the states Consul may have for name n
    Capacity,     \* bufferSize, of both channels
    MaxWatches,   \* bound: watch goroutines ever started
    MaxChanges,   \* bound: changes of the catalog
    MaxErrors,    \* bound: failed queries
    MaxResets,    \* bound: times an index of Consul falls back
    MayCancel     \* whether the context of Run is ever cancelled

ASSUME NamesAssumption == Services \cap Nodes = {} /\ IsFiniteSet(Services \cup Nodes)
ASSUME BoundsAssumption ==
    /\ Capacity \in Nat \ {0}
    /\ MaxWatches \in Nat
    /\ MaxChanges \in Nat /\ MaxErrors \in Nat /\ MaxResets \in Nat
    /\ MayCancel \in BOOLEAN

Names == Services \cup Nodes

\* An answer holds finitely many instances, each with finitely many checks, or
\* finitely many checks of a node.
ASSUME AnswersAssumption ==
    \A n \in Names : \A s \in Possible[n] :
        /\ IsFiniteSet(DOMAIN s.body)
        /\ n \in Services => \A k \in DOMAIN s.body : IsFiniteSet(DOMAIN s.body[k].checks)

Lists == {"services", "nodes"}
ListOf(n) == IF n \in Services THEN "services" ELSE "nodes"
Channels == {"events", "instances"}
WatchIDs == 1..MaxWatches

\* The state of nothing: an empty list of instances or of checks.
Nothing == [x \in {} |-> 0]
Absent == [here |-> FALSE, body |-> Nothing]

VARIABLES
    catalog,     \* catalog[n]: whether n is in its list, and its state
    index,       \* index[l]: the index Consul gives with answers about list l
    changes, errors, resets, ctxDone,
    lpc,         \* lpc[l]: where the goroutine of list l is
    lidx,        \* its idx
    lfirst,      \* its first
    lresp,       \* the answer it handles: names and index
    todo,        \* names it still has to start a watch for
    added,       \* the watches its sync has started
    mu,          \* who holds Watcher.mu: a list, or "free"
    watched,     \* the maps services and nodes: the watch of a name, or 0
    ready,       \* the readiness counter
    spawned,     \* watches started so far
    name,        \* name[g]: what watch g watches
    wpc,         \* wpc[g]: where watch g is
    stop,        \* stop[g]: its stop channel is closed
    first,       \* its first
    countReady,  \* its countReady
    loc,         \* its other locals: idx, last, marks, the answer, the messages
    chan,        \* chan[c]: messages buffered in channel c
    timeline     \* timeline[n]: what the events sent so far say of n (ghost)

catalogVars == <<catalog, index, changes, resets>>
listVars == <<lpc, lidx, lfirst, lresp, todo, added, mu, watched>>
watchVars == <<spawned, name, wpc, stop, first, countReady, loc>>
outVars == <<chan, timeline>>
vars == <<catalogVars, errors, ctxDone, listVars, ready, watchVars, outVars>>

NoAnswer == [body |-> Nothing, index |-> 0]
NoLocals == [idx |-> 0, last |-> Nothing, marks |-> Nothing,
             answer |-> NoAnswer, outbox |-> <<>>]

Init ==
    /\ catalog \in {c \in [Names -> UNION {Possible[n] : n \in Names}] :
                        \A n \in Names : c[n] \in Possible[n]}
    /\ index = [l \in Lists |-> MaxResets + 1]
    /\ changes = 0 /\ errors = 0 /\ resets = 0
    /\ ctxDone = FALSE
    /\ lpc = [l \in Lists |-> "top"]
    /\ lidx = [l \in Lists |-> 0]
    /\ lfirst = [l \in Lists |-> TRUE]
    /\ lresp = [l \in Lists |-> [names |-> {}, index |-> 0]]
    /\ todo = [l \in Lists |-> {}]
    /\ added = [l \in Lists |-> 0]
    /\ mu = "free"
    /\ watched = [n \in Names |-> 0]
    /\ ready = [lists |-> 0, pending |-> 0, closed |-> FALSE]
    /\ spawned = 0
    /\ name = [g \in WatchIDs |-> "none"]
    /\ wpc = [g \in WatchIDs |-> "none"]
    /\ stop = [g \in WatchIDs |-> FALSE]
    /\ first = [g \in WatchIDs |-> TRUE]
    /\ countReady = [g \in WatchIDs |-> FALSE]
    /\ loc = [g \in WatchIDs |-> NoLocals]
    /\ chan = [c \in Channels |-> 0]
    /\ timeline = [n \in Names |-> {}]

-----------------------------------------------------------------------------
(* Consul, the reader of the channels and the context.                     *)

\* Someone holds an index of list l that Consul has not reached (again).
Ahead(l) ==
    \/ lidx[l] > index[l] \/ lresp[l].index > index[l]
    \/ \E g \in 1..spawned :
         /\ ListOf(name[g]) = l
         /\ loc[g].idx > index[l] \/ loc[g].answer.index > index[l]

\* The state of a name changes.  After an index fell back nothing changes
\* before everyone has noticed: a change that brings the index back to the
\* value a goroutine holds cannot be told from no change at all.
Change(n, s) ==
    /\ changes < MaxChanges
    /\ s # catalog[n]
    /\ ~Ahead(ListOf(n))
    /\ changes' = changes + 1
    /\ catalog' = [catalog EXCEPT ![n] = s]
    /\ index' = [index EXCEPT ![ListOf(n)] = @ + 1]
    /\ UNCHANGED <<resets, errors, ctxDone, listVars, ready, watchVars, outVars>>

\* The servers are restored and count from a lower index, one nobody holds.
Reset(l) ==
    /\ resets < MaxResets
    /\ resets' = resets + 1
    /\ index' = [index EXCEPT ![l] = MaxResets - resets]
    /\ UNCHANGED <<catalog, changes, errors, ctxDone, listVars, ready, watchVars,
                   outVars>>

Cancel ==
    /\ MayCancel /\ ~ctxDone
    /\ ctxDone' = TRUE
    /\ UNCHANGED <<catalogVars, errors, listVars, ready, watchVars, outVars>>

\* A send on channel c does not block.
Fits(c) == chan[c] < Capacity

\* The reader of a channel takes a message.
Consume(c) ==
    /\ chan[c] > 0
    /\ chan' = [chan EXCEPT ![c] = @ - 1]
    /\ UNCHANGED <<catalogVars, errors, ctxDone, listVars, ready, watchVars,
                   timeline>>

-----------------------------------------------------------------------------
NextIndex(prev, got) == IF got < prev THEN 0 ELSE got

\* Mutant: one list is enough.
CheckedAnyList(lists, pending) ==
    [lists |-> lists, pending |-> pending,
     closed |-> ready.closed \/ (lists > 0 /\ pending <= 0)]

\* readiness.check, on the counts after the call.
Checked(lists, pending) ==
    [lists |-> lists, pending |-> pending,
     closed |-> ready.closed \/ (lists = 2 /\ pending <= 0)]

ListArrived(children) ==
    ready' = Checked(ready.lists + 1, ready.pending + children)

\* Mutant: the counts are not checked after the last fetch.
ChildReadyUnchecked == ready' = [ready EXCEPT !.pending = @ - 1]

ChildReady == ready' = Checked(ready.lists, ready.pending - 1)

-----------------------------------------------------------------------------
(* watchServices and watchNodes                                            *)

ListTop(l) ==
    /\ lpc[l] = "top"
    /\ lpc' = [lpc EXCEPT ![l] = IF ctxDone THEN "done" ELSE "query"]
    /\ UNCHANGED <<catalogVars, errors, ctxDone, lidx, lfirst, lresp, todo, added,
                   mu, watched, ready, watchVars, outVars>>

\* The blocking query is answered: something changed, or the wait timed out.
ListReply(l) ==
    /\ lpc[l] = "query"
    /\ lresp' = [lresp EXCEPT ![l] =
          [names |-> {n \in Names : ListOf(n) = l /\ catalog[n].here},
           index |-> index[l]]]
    /\ lpc' = [lpc EXCEPT ![l] = "handle"]
    /\ UNCHANGED <<catalogVars, errors, ctxDone, lidx, lfirst, todo, added, mu,
                   watched, ready, watchVars, outVars>>

ListError(l) ==
    /\ lpc[l] = "query"
    /\ errors < MaxErrors
    /\ errors' = errors + 1
    /\ lpc' = [lpc EXCEPT ![l] = "sleep"]
    /\ UNCHANGED <<catalogVars, ctxDone, lidx, lfirst, lresp, todo, added, mu,
                   watched, ready, watchVars, outVars>>

\* sleep returns, true after the wait and false after the cancellation.
ListWake(l) ==
    /\ lpc[l] = "sleep"
    /\ \/ lpc' = [lpc EXCEPT ![l] = "top"]
       \/ ctxDone /\ lpc' = [lpc EXCEPT ![l] = "done"]
    /\ UNCHANGED <<catalogVars, errors, ctxDone, lidx, lfirst, lresp, todo, added,
                   mu, watched, ready, watchVars, outVars>>

\* The end of an iteration of the loop.
ListNext(l) ==
    /\ lpc' = [lpc EXCEPT ![l] = "top"]
    /\ lfirst' = [lfirst EXCEPT ![l] = FALSE]
    /\ lidx' = [lidx EXCEPT ![l] = NextIndex(@, lresp[l].index)]
    /\ lresp' = [lresp EXCEPT ![l] = [names |-> {}, index |-> 0]]

ListSame(l) ==
    /\ lpc[l] = "handle"
    /\ ~lfirst[l] /\ lresp[l].index = lidx[l]
    /\ ListNext(l)
    /\ UNCHANGED <<catalogVars, errors, ctxDone, todo, added, mu, watched,
                   ready, watchVars, outVars>>

\* syncServices and syncNodes take the mutex...
SyncBegin(l) ==
    /\ lpc[l] = "handle"
    /\ lfirst[l] \/ lresp[l].index # lidx[l]
    /\ mu = "free"
    /\ mu' = l
    /\ lpc' = [lpc EXCEPT ![l] = "sync"]
    /\ todo' = [todo EXCEPT ![l] = {n \in lresp[l].names : watched[n] = 0}]
    /\ added' = [added EXCEPT ![l] = 0]
    /\ UNCHANGED <<catalogVars, errors, ctxDone, lidx, lfirst, lresp, watched,
                   ready, watchVars, outVars>>

\* go watchService / go watchNode
Spawn(n, initial) ==
    LET g == spawned + 1
    IN  /\ spawned < MaxWatches
        /\ spawned' = g
        /\ watched' = [watched EXCEPT ![n] = g]
        /\ name' = [name EXCEPT ![g] = n]
        /\ wpc' = [wpc EXCEPT ![g] = "top"]
        /\ countReady' = [countReady EXCEPT ![g] = initial]
        /\ UNCHANGED <<stop, first, loc>>

\* The event that reports a node that appeared after the start, sent while
\* the mutex is held: this blocks when the channel is full.
NodeRegistered(n) ==
    /\ Fits("events")
    /\ chan' = [chan EXCEPT !["events"] = @ + 1]
    /\ timeline' = [timeline EXCEPT ![n] =
                      Learn(@, NodeEvent(n, "missing", "unknown"), {})]

\* ... start the watches of the names that are new...
SyncAdd(l, n) ==
    /\ lpc[l] = "sync"
    /\ n \in todo[l]
    /\ todo' = [todo EXCEPT ![l] = @ \ {n}]
    /\ added' = [added EXCEPT ![l] = @ + 1]
    /\ Spawn(n, lfirst[l])
    /\ IF l = "nodes" /\ ~lfirst[l]
       THEN NodeRegistered(n)
       ELSE UNCHANGED outVars
    /\ UNCHANGED <<catalogVars, errors, ctxDone, lpc, lidx, lfirst, lresp, mu,
                   ready>>

\* The watched names of list l that the answer does not have.
Gone(l) == {n \in Names : ListOf(n) = l /\ watched[n] # 0 /\ n \notin lresp[l].names}

\* Mutant: their stop channels are not closed.
StopGoneNever(l) == UNCHANGED stop

StopGone(l) ==
    stop' = [g \in WatchIDs |-> stop[g] \/ \E n \in Gone(l) : watched[n] = g]

\* Mutant: they stay in the map.
ForgetGoneNever(l) == UNCHANGED watched

ForgetGone(l) ==
    watched' = [n \in Names |-> IF n \in Gone(l) THEN 0 ELSE watched[n]]

\* Mutant: every answer of a list counts as its arrival.
ArriveAlways(l) == ListArrived(added[l])

Arrive(l) ==
    IF lfirst[l] THEN ListArrived(added[l]) ELSE UNCHANGED ready

\* Mutant: syncServices returns with the mutex locked.
UnlockNodesOnly(l) == mu' = IF l = "nodes" THEN "free" ELSE mu

Unlock(l) == mu' = "free"

\* ... and stop the watches of the names that are gone.
SyncEnd(l) ==
    /\ lpc[l] = "sync"
    /\ todo[l] = {}
    /\ StopGone(l)
    /\ ForgetGone(l)
    /\ Arrive(l)
    /\ added' = [added EXCEPT ![l] = 0]
    /\ Unlock(l)
    /\ ListNext(l)
    /\ UNCHANGED <<catalogVars, errors, ctxDone, todo, spawned, name, wpc, first,
                   countReady, loc, outVars>>

-----------------------------------------------------------------------------
(* watchService and watchNode                                              *)

\* Watch g has messages to send; after the last it goes on, or returns and
\* its locals are gone.
Deliver(g, l, msgs, final) ==
    /\ loc' = [loc EXCEPT ![g] =
                  IF final /\ msgs = <<>> THEN NoLocals
                  ELSE [l EXCEPT !.outbox = msgs, !.answer = NoAnswer]]
    /\ wpc' = [wpc EXCEPT ![g] =
                  IF final THEN (IF msgs = <<>> THEN "done" ELSE "lastSend")
                           ELSE (IF msgs = <<>> THEN "top" ELSE "send")]

\* The select at the top of the loop: stop closed, the context over, neither.
WatchStop(g) ==
    LET l == loc[g]
        msgs == IF name[g] \in Services
                THEN CompareService(l.last, Nothing, {})
                ELSE NodeGone(name[g], l.last)
    IN  /\ wpc[g] = "top"
        /\ stop[g]
        /\ \E m \in msgs : Deliver(g, l, m, TRUE)
        /\ UNCHANGED <<catalogVars, errors, ctxDone, listVars, ready, spawned, name,
                       stop, first, countReady, outVars>>

WatchCancelled(g) ==
    /\ wpc[g] = "top"
    /\ ctxDone
    /\ Deliver(g, loc[g], <<>>, TRUE)
    /\ UNCHANGED <<catalogVars, errors, ctxDone, listVars, ready, spawned, name,
                   stop, first, countReady, outVars>>

WatchQuery(g) ==
    /\ wpc[g] = "top"
    /\ ~stop[g] /\ ~ctxDone
    /\ wpc' = [wpc EXCEPT ![g] = "query"]
    /\ UNCHANGED <<catalogVars, errors, ctxDone, listVars, ready, spawned, name,
                   stop, first, countReady, loc, outVars>>

WatchReply(g) ==
    /\ wpc[g] = "query"
    /\ wpc' = [wpc EXCEPT ![g] = "handle"]
    /\ loc' = [loc EXCEPT ![g].answer =
                 [body |-> catalog[name[g]].body, index |-> index[ListOf(name[g])]]]
    /\ UNCHANGED <<catalogVars, errors, ctxDone, listVars, ready, spawned, name,
                   stop, first, countReady, outVars>>

WatchError(g) ==
    /\ wpc[g] = "query"
    /\ errors < MaxErrors
    /\ errors' = errors + 1
    /\ wpc' = [wpc EXCEPT ![g] = "sleep"]
    /\ UNCHANGED <<catalogVars, ctxDone, listVars, ready, spawned, name, stop, first,
                   countReady, loc, outVars>>

\* sleep returns true after the wait; false when stop or ctx end first.
WatchWake(g) ==
    /\ wpc[g] = "sleep"
    /\ wpc' = [wpc EXCEPT ![g] = "top"]
    /\ UNCHANGED <<catalogVars, errors, ctxDone, listVars, ready, spawned, name,
                   stop, first, countReady, loc, outVars>>

WatchAbort(g) ==
    /\ wpc[g] = "sleep"
    /\ stop[g] \/ ctxDone
    /\ Deliver(g, loc[g], <<>>, TRUE)
    /\ UNCHANGED <<catalogVars, errors, ctxDone, listVars, ready, spawned, name,
                   stop, first, countReady, outVars>>

\* What the watch of n keeps of an answer: watchNode leaves service checks out.
Kept(n, body) == IF n \in Services THEN body ELSE NodeChecks(body)

\* What name n has to say when its state is body.
FactsOf(n, body) == IF n \in Services THEN ServiceFacts(body) ELSE NodeFacts(n, body)

\* The first answer is the baseline: the instances are announced, nothing is
\* reported, and a watch of the start is counted.
WatchFirst(g) ==
    LET n == name[g]
        l == loc[g]
        new == Kept(n, l.answer.body)
        kept == [l EXCEPT !.last = new, !.idx = NextIndex(@, l.answer.index)]
    IN  /\ wpc[g] = "handle"
        /\ first[g]
        /\ first' = [first EXCEPT ![g] = FALSE]
        /\ IF countReady[g] THEN ChildReady ELSE UNCHANGED ready
        /\ IF n \in Services
           THEN \E m \in AnnounceService(new, DOMAIN new) :
                   Deliver(g, [kept EXCEPT !.marks = Marked(new, @, DOMAIN new, 0)], m, FALSE)
           ELSE Deliver(g, kept, <<>>, FALSE)
        /\ timeline' = [timeline EXCEPT ![n] =
                          IF countReady[g] THEN FactsOf(n, new) ELSE @]
        /\ UNCHANGED <<catalogVars, errors, ctxDone, listVars, spawned, name, stop,
                       countReady, chan>>

\* Mutant: only a larger index counts as a change.
UnchangedOrReset(g) == loc[g].answer.index <= loc[g].idx

\* The answer of watch g has the index of the one before: the wait timed out.
Unchanged(g) == loc[g].answer.index = loc[g].idx

\* A later answer: compared when its index is another one, else only stale
\* announcements are renewed.  Which marks are stale depends on the time.
WatchNext(g) ==
    LET n == name[g]
        l == loc[g]
        new == Kept(n, l.answer.body)
        kept == [l EXCEPT !.last = new, !.idx = NextIndex(@, l.answer.index)]
        same == Unchanged(g)
    IN  /\ wpc[g] = "handle"
        /\ ~first[g]
        /\ IF n \in Services
           THEN \E stale \in SUBSET DOMAIN l.marks :
                  LET forced == IF same THEN {} ELSE DOMAIN new \ DOMAIN l.last
                      due == Due(new, l.marks, stale, forced)
                      marks == IF same THEN Marked(new, l.marks, due, 0)
                               ELSE CompareMarks(l.last, new, l.marks, due, 0)
                      msgs == IF same THEN AnnounceService(new, due)
                              ELSE CompareService(l.last, new, due)
                  IN  \E m \in msgs : Deliver(g, [kept EXCEPT !.marks = marks], m, FALSE)
           ELSE \E m \in (IF same THEN {<<>>} ELSE CompareNode(n, l.last, new)) :
                  Deliver(g, kept, m, FALSE)
        /\ UNCHANGED <<catalogVars, errors, ctxDone, listVars, ready, spawned, name,
                       stop, first, countReady, outVars>>

\* The next message goes to its channel, once there is room.
WatchSend(g) ==
    LET l == loc[g]
        m == Head(l.outbox)
        rest == Tail(l.outbox)
        n == name[g]
    IN  /\ wpc[g] \in {"send", "lastSend"}
        /\ Fits(m.to)
        /\ chan' = [chan EXCEPT ![m.to] = @ + 1]
        /\ timeline' = [timeline EXCEPT ![n] =
              IF m.to = "events" THEN Learn(@, m.what, FactsOf(n, l.last)) ELSE @]
        /\ Deliver(g, l, rest, wpc[g] = "lastSend")
        /\ UNCHANGED <<catalogVars, errors, ctxDone, listVars, ready, spawned, name,
                       stop, first, countReady>>

-----------------------------------------------------------------------------
ListStep(l) ==
    \/ ListTop(l) \/ ListReply(l) \/ ListWake(l) \/ ListSame(l)
    \/ SyncBegin(l) \/ SyncEnd(l)
    \/ \E n \in Names : SyncAdd(l, n)

WatchStep(g) ==
    \/ WatchStop(g) \/ WatchCancelled(g) \/ WatchQuery(g) \/ WatchReply(g)
    \/ WatchWake(g) \/ WatchAbort(g)
    \/ WatchFirst(g) \/ WatchNext(g) \/ WatchSend(g)

Next ==
    \/ \E n \in Names : \E s \in Possible[n] : Change(n, s)
    \/ \E l \in Lists : Reset(l) \/ ListError(l) \/ ListStep(l)
    \/ \E g \in 1..spawned : WatchError(g) \/ WatchStep(g)
    \/ \E c \in Channels : Consume(c)
    \/ Cancel

Spec == Init /\ [][Next]_vars

\* Goroutines are scheduled, queries are answered (a change, the end of the
\* wait or an error), timers fire, and the reader of the channels goes on.
FairSpec ==
    /\ Spec
    /\ \A l \in Lists : WF_vars(ListStep(l))
    /\ \A g \in WatchIDs : WF_vars(g <= spawned /\ WatchStep(g))
    /\ \A c \in Channels : WF_vars(Consume(c))

-----------------------------------------------------------------------------
(* Properties                                                              *)

Running == {g \in 1..spawned : wpc[g] # "done"}

\* The watches of the start that have not had an answer.
Outstanding == {g \in 1..spawned : countReady[g] /\ first[g]}

TypeOK ==
    /\ ctxDone \in BOOLEAN
    /\ lpc \in [Lists -> {"top", "query", "sleep", "handle", "sync", "done"}]
    /\ lfirst \in [Lists -> BOOLEAN]
    /\ added \in [Lists -> Nat]
    /\ todo \in [Lists -> SUBSET Names]
    /\ mu \in Lists \cup {"free"}
    /\ watched \in [Names -> 0..spawned]
    /\ ready \in [lists : 0..2, pending : Int, closed : BOOLEAN]
    /\ spawned \in 0..MaxWatches
    /\ \A g \in 1..spawned : name[g] \in Names
    /\ DOMAIN name = WatchIDs
    /\ wpc \in [WatchIDs -> {"none", "top", "query", "sleep", "handle",
                             "send", "lastSend", "done"}]
    /\ stop \in [WatchIDs -> BOOLEAN]
    /\ first \in [WatchIDs -> BOOLEAN]
    /\ countReady \in [WatchIDs -> BOOLEAN]
    /\ chan \in [Channels -> 0..Capacity]

\* "Ready is closed once every service and node present at startup has been
\* fetched once": never before, although a watch may count itself before the
\* list that started it is counted.
ReadyNotEarly ==
    ready.closed => Outstanding = {} /\ \A l \in Lists : ~lfirst[l]

\* The maps services and nodes hold exactly the watches that were not told to
\* stop, one per name: no watch is lost by a name that leaves and comes back
\* while the previous watch of that name is still at work, and no stop channel
\* is closed twice.
OneLiveWatch ==
    \A g \in 1..spawned : ~stop[g] <=> watched[name[g]] = g

\* Watch g has handled an answer, sent all it had to send, and never shared its
\* name with another watch.
Sole(g) ==
    /\ ~first[g] /\ wpc[g] \in {"top", "query", "sleep", "handle"}
    /\ \A h \in 1..spawned : name[h] = name[g] => h = g

\* For a service or a node present at startup, the events sent so far add up
\* to the state the watch last saw: errors, index resets, answers that are old
\* when they are handled and a full channel lose no change and make none up.
\* An event may repeat what was told: the departure of a node is sent twice when
\* its watch sees the empty answer and is then told to stop.
TimelineTruthful ==
    \A g \in 1..spawned :
        countReady[g] /\ Sole(g) => timeline[name[g]] = FactsOf(name[g], loc[g].last)

\* Every name of the catalog has a watch that knows its state, and there is no
\* other watch.
Settled ==
    /\ \A n \in Names : catalog[n].here <=> watched[n] # 0
    /\ Running = {watched[n] : n \in {m \in Names : catalog[m].here}}
    /\ \A g \in Running :
          ~first[g] /\ loc[g].outbox = <<>>
          /\ loc[g].last = Kept(name[g], catalog[name[g]].body)

\* When the catalog stops changing the watcher catches up with it, whatever
\* query failed and whichever name came and went before.
Converges == <>[]Settled

\* The mutex that syncServices, syncNodes, ServiceNames and NodeNames share is
\* released again, although syncNodes sends on a bounded channel under it.
MuReleased == \A l \in Lists : mu = l ~> mu = "free"

\* The watcher becomes ready unless a watch of the start is told to stop before
\* its first answer.
ReadyUnlessStopped ==
    <>(ready.closed \/ \E g \in Outstanding : stop[g])

(* What comments say, and the code does not do.                            *)

\* "readiness counts the initial fetches still outstanding": once both lists
\* are in, pending is the number of watches that will still count themselves.
ReadinessCounts ==
    ready.lists = 2 => ready.pending = Cardinality(Outstanding \cap Running)

\* "the service left the catalog: whatever we still knew is gone": a watch of
\* the start that was told to stop leaves nothing of its name in the timeline.
GoneIsRecorded ==
    \A g \in 1..spawned :
        /\ countReady[g] /\ ~first[g] /\ stop[g] /\ wpc[g] = "done" /\ ~ctxDone
        /\ \A h \in 1..spawned : name[h] = name[g] => h = g
        => timeline[name[g]] = {}
=============================================================================
