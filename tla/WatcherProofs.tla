---------------------------- MODULE WatcherProofs ----------------------------
(***************************************************************************)
(* Proofs about the watcher, for every set of services and nodes, every    *)
(* state Consul may report and every bound: it is never announced ready    *)
(* early, its maps hold exactly the watches that were not stopped, and     *)
(* what it sends adds up to the states it has seen.                        *)
(***************************************************************************)
EXTENDS Watcher, CompareProofs

USE NamesAssumption, BoundsAssumption

-----------------------------------------------------------------------------
(* The inductive invariant                                                 *)

Mutex == \A l \in Lists : lpc[l] = "sync" <=> mu = l

\* The answer a list handles, and the names it still has to start, are its own;
\* these are not watched yet.
Answers ==
    /\ DOMAIN lresp = Lists
    /\ \A l \in Lists : \A n \in lresp[l].names : n \in Names /\ ListOf(n) = l
    /\ \A l \in Lists : \A n \in todo[l] : ListOf(n) = l /\ watched[n] = 0

\* Nobody has touched a watch that was not started.
Fresh == \A g \in WatchIDs : g > spawned => ~stop[g] /\ first[g]

\* The maps and the stop channels agree.
Live ==
    /\ OneLiveWatch
    /\ \A n \in Names : watched[n] # 0 => name[watched[n]] = n

\* The watches a list has started and not yet reported with listArrived.
Unreported(l) == IF lfirst[l] THEN added[l] ELSE 0

Arrived(l) == IF lfirst[l] THEN 0 ELSE 1

\* The counter: pending may be behind by what the lists have not reported.
Counts ==
    /\ ready.lists = Arrived("services") + Arrived("nodes")
    /\ \A l \in Lists : lfirst[l] /\ lpc[l] # "sync" => added[l] = 0
    /\ ready.pending + Unreported("services") + Unreported("nodes")
          = Cardinality(Outstanding)

IInv == TypeOK /\ Mutex /\ Answers /\ Fresh /\ Live /\ Counts /\ ReadyNotEarly

-----------------------------------------------------------------------------
(* Lemmas                                                                  *)

\* The watches outstanding are finitely many.
LEMMA OutstandingFinite ==
    ASSUME TypeOK
    PROVE  IsFiniteSet(Outstanding) /\ Cardinality(Outstanding) \in Nat
<1>1. IsFiniteSet(1..spawned)
  BY FS_Interval DEF TypeOK
<1>2. IsFiniteSet(Outstanding)
  BY <1>1, FS_Subset DEF Outstanding
<1> QED
  BY <1>2, FS_CardinalityType

\* Taking messages to send, and returning, keeps the program counters in range.
LEMMA DeliverType ==
    ASSUME TypeOK, NEW g \in WatchIDs, NEW l, NEW m, NEW f, Deliver(g, l, m, f)
    PROVE  wpc' \in [WatchIDs -> {"none", "top", "query", "sleep", "handle",
                                  "send", "lastSend", "done"}]
<1> DEFINE pcs == {"none", "top", "query", "sleep", "handle", "send", "lastSend", "done"}
           x == IF f THEN (IF m = <<>> THEN "done" ELSE "lastSend")
                     ELSE (IF m = <<>> THEN "top" ELSE "send")
<1>1. wpc' = [wpc EXCEPT ![g] = x]
  BY DEF Deliver
<1>2. x \in pcs
  OBVIOUS
<1>3. wpc \in [WatchIDs -> pcs]
  BY DEF TypeOK
<1> HIDE DEF x, pcs
<1>4. wpc' \in [WatchIDs -> pcs]
  BY <1>1, <1>2, <1>3
<1> QED
  BY <1>4 DEF pcs

\* A message more keeps a channel that had room within its capacity.
LEMMA OneMore ==
    ASSUME NEW c \in [Channels -> 0..Capacity], NEW to, c[to] < Capacity
    PROVE  [c EXCEPT ![to] = @ + 1] \in [Channels -> 0..Capacity]
<1>1. CASE to \in Channels
  BY <1>1
<1>2. CASE to \notin Channels
  <2>1. [c EXCEPT ![to] = @ + 1] = c
    BY <1>2
  <2> QED
    BY <2>1
<1> QED
  BY <1>1, <1>2

\* Both lists in and nothing pending: no first answer is outstanding.
LEMMA ClosedWhenZero ==
    ASSUME TypeOK', Counts', ready'.lists = 2, ready'.pending <= 0
    PROVE  ReadyNotEarly'
<1>1. ~lfirst'["services"] /\ ~lfirst'["nodes"]
  BY DEF Counts, Arrived
<1>2. Unreported("services")' = 0 /\ Unreported("nodes")' = 0
  BY <1>1 DEF Unreported
<1>3. IsFiniteSet(1..spawned')
  BY FS_Interval DEF TypeOK
<1>4. IsFiniteSet(Outstanding')
  BY <1>3, FS_Subset DEF Outstanding
<1>5. Cardinality(Outstanding') \in Nat
  BY <1>4, FS_CardinalityType
<1>6. ready'.pending \in Int
  BY DEF TypeOK
<1>7. Cardinality(Outstanding') = 0
  BY <1>2, <1>5, <1>6 DEF Counts
<1>8. Outstanding' = {}
  BY <1>4, <1>7, FS_EmptySet
<1> QED
  BY <1>1, <1>8 DEF ReadyNotEarly, Lists

\* A step that leaves the maps, the counter and the lists alone keeps the
\* invariant.
LEMMA Frame ==
    ASSUME IInv, TypeOK',
           UNCHANGED <<lpc, lfirst, lresp, todo, added, mu, watched, ready, spawned,
                       name, stop, first, countReady>>
    PROVE  IInv'
<1>1. Mutex' /\ Answers' /\ Fresh'
  BY DEF IInv, Mutex, Answers, Fresh
<1>2. Live'
  BY DEF IInv, Live, OneLiveWatch
<1>3. Outstanding' = Outstanding
  BY DEF Outstanding
<1>4. Counts'
  BY <1>3 DEF IInv, Counts, Arrived, Unreported
<1>5. ReadyNotEarly'
  BY <1>3 DEF IInv, ReadyNotEarly
<1> QED
  BY <1>1, <1>2, <1>4, <1>5 DEF IInv

\* A step that starts and stops no watch and leaves the counts alone keeps the
\* invariant when it keeps the mutex and the answers.
LEMMA ListFrame ==
    ASSUME IInv, TypeOK', Mutex', Answers', NEW l \in Lists,
           UNCHANGED <<lfirst, watched, ready, spawned, name, stop, first, countReady>>,
           lpc[l] # "sync",
           \A k \in Lists \ {l} : lpc'[k] = lpc[k],
           \A k \in Lists : lfirst[k] => added'[k] = added[k]
    PROVE  IInv'
<1>1. Fresh' /\ Live'
  BY DEF IInv, Fresh, Live, OneLiveWatch
<1>2. Outstanding' = Outstanding
  BY DEF Outstanding
<1>3. \A k \in Lists : lfirst'[k] /\ lpc'[k] # "sync" => added'[k] = 0
  BY DEF IInv, Counts
<1>4. /\ Unreported("services")' = Unreported("services")
      /\ Unreported("nodes")' = Unreported("nodes")
  BY DEF Unreported, Lists
<1>5. Counts'
  BY <1>2, <1>3, <1>4 DEF IInv, Counts, Arrived
<1>6. ReadyNotEarly'
  BY <1>2 DEF IInv, ReadyNotEarly
<1> QED
  BY <1>1, <1>5, <1>6 DEF IInv

-----------------------------------------------------------------------------
(* The steps                                                               *)

\* The invariant holds at the start.
LEMMA InitIInv == Init => IInv
<1> SUFFICES ASSUME Init PROVE IInv
  OBVIOUS
<1>1. TypeOK
  <2>1. /\ spawned \in 0..MaxWatches
        /\ watched \in [Names -> 0..spawned]
        /\ \A g \in 1..spawned : name[g] \in Names
        /\ DOMAIN name = WatchIDs
    BY DEF Init
  <2>2. /\ added \in [Lists -> Nat]
        /\ todo \in [Lists -> SUBSET Names]
        /\ mu \in Lists \cup {"free"}
        /\ chan \in [Channels -> 0..Capacity]
    BY DEF Init
  <2>3. ready \in [lists : 0..2, pending : Int, closed : BOOLEAN]
    BY DEF Init
  <2>4. /\ ctxDone \in BOOLEAN
        /\ lfirst \in [Lists -> BOOLEAN]
        /\ stop \in [WatchIDs -> BOOLEAN]
        /\ first \in [WatchIDs -> BOOLEAN]
        /\ countReady \in [WatchIDs -> BOOLEAN]
    BY DEF Init
  <2>5. /\ lpc \in [Lists -> {"top", "query", "sleep", "handle", "sync", "done"}]
        /\ wpc \in [WatchIDs -> {"none", "top", "query", "sleep", "handle",
                                 "send", "lastSend", "done"}]
    BY DEF Init
  <2> QED
    BY <2>1, <2>2, <2>3, <2>4, <2>5 DEF TypeOK
<1>2. Mutex /\ Answers /\ Fresh
  BY DEF Init, Mutex, Answers, Fresh, Lists
<1>3. Live
  BY DEF Init, Live, OneLiveWatch
<1>4. Outstanding = {}
  BY DEF Init, Outstanding
<1>5. Cardinality(Outstanding) = 0
  BY <1>4, FS_EmptySet
<1>6. Counts
  BY <1>5 DEF Init, Counts, Arrived, Unreported, Lists
<1>7. ReadyNotEarly
  BY DEF Init, ReadyNotEarly
<1> QED
  BY <1>1, <1>2, <1>3, <1>6, <1>7 DEF IInv

\* Consul, the context and the readers of the channels keep the invariant.
LEMMA EnvironmentIInv ==
    ASSUME IInv,
           \/ \E n \in Names : \E s \in Possible[n] : Change(n, s)
           \/ \E l \in Lists : Reset(l)
           \/ \E c \in Channels : Consume(c)
           \/ Cancel
    PROVE  IInv'
<1>1. UNCHANGED <<lpc, lfirst, lresp, todo, added, mu, watched, ready, spawned,
                  name, stop, first, countReady, wpc>>
  BY DEF Change, Reset, Consume, Cancel, listVars, watchVars
<1>2. ctxDone' \in BOOLEAN
  BY DEF IInv, TypeOK, Change, Reset, Consume, Cancel
<1>3. chan' \in [Channels -> 0..Capacity]
  BY DEF IInv, TypeOK, Change, Reset, Consume, Cancel, outVars
<1>4. TypeOK'
  BY <1>1, <1>2, <1>3 DEF IInv, TypeOK
<1> QED
  BY <1>1, <1>4, Frame

\* So do the steps of a watch that handle no first answer.
LEMMA WatchIInv ==
    ASSUME IInv, NEW g \in 1..spawned,
           \/ WatchError(g) \/ WatchStop(g) \/ WatchCancelled(g) \/ WatchQuery(g)
           \/ WatchReply(g) \/ WatchWake(g) \/ WatchAbort(g) \/ WatchNext(g)
           \/ WatchSend(g)
    PROVE  IInv'
<1> DEFINE pcs == {"none", "top", "query", "sleep", "handle", "send", "lastSend", "done"}
<1>0. TypeOK /\ g \in WatchIDs /\ wpc \in [WatchIDs -> pcs]
  BY DEF IInv, TypeOK, WatchIDs
<1>1. UNCHANGED <<lpc, lfirst, lresp, todo, added, mu, watched, ready, spawned,
                  name, stop, first, countReady, ctxDone>>
  BY DEF WatchError, WatchStop, WatchCancelled, WatchQuery, WatchReply, WatchWake,
         WatchAbort, WatchNext, WatchSend, listVars, watchVars
<1>2. wpc' \in [WatchIDs -> pcs]
  <2>1. CASE WatchError(g) \/ WatchQuery(g) \/ WatchReply(g) \/ WatchWake(g)
    BY <1>0, <2>1 DEF WatchError, WatchQuery, WatchReply, WatchWake
  <2>2. CASE WatchStop(g) \/ WatchCancelled(g) \/ WatchAbort(g) \/ WatchSend(g)
             \/ WatchNext(g)
    <3>1. \E l, m, f : Deliver(g, l, m, f)
      <4>1. CASE WatchStop(g)
        BY <4>1 DEF WatchStop
      <4>2. CASE WatchCancelled(g)
        BY <4>2 DEF WatchCancelled
      <4>3. CASE WatchAbort(g)
        BY <4>3 DEF WatchAbort
      <4>4. CASE WatchSend(g)
        BY <4>4 DEF WatchSend
      <4>5. CASE WatchNext(g)
        BY <4>5 DEF WatchNext
      <4> QED
        BY <2>2, <4>1, <4>2, <4>3, <4>4, <4>5
    <3> QED
      BY <1>0, <3>1, DeliverType
  <2> QED
    BY <2>1, <2>2
<1>3. chan' \in [Channels -> 0..Capacity]
  <2>1. CASE WatchSend(g)
    <3> DEFINE to == Head(loc[g].outbox).to
    <3>1. chan[to] < Capacity /\ chan' = [chan EXCEPT ![to] = @ + 1]
      BY <2>1 DEF WatchSend, Fits
    <3> HIDE DEF to
    <3> QED
      BY <1>0, <3>1, OneMore DEF TypeOK
  <2>2. CASE ~WatchSend(g)
    BY <1>0, <2>2 DEF TypeOK, WatchError, WatchStop, WatchCancelled, WatchQuery,
       WatchReply, WatchWake, WatchAbort, WatchNext, outVars
  <2> QED
    BY <2>1, <2>2
<1>4. TypeOK'
  BY <1>0, <1>1, <1>2, <1>3 DEF TypeOK
<1> QED
  BY <1>1, <1>4, Frame

\* The first answer of a watch: a watch of the start is no longer outstanding,
\* and the counter goes down by one.
LEMMA WatchFirstIInv ==
    ASSUME IInv, NEW g \in 1..spawned, WatchFirst(g)
    PROVE  IInv'
<1>0. TypeOK /\ g \in WatchIDs /\ first[g]
  BY DEF IInv, TypeOK, WatchIDs, WatchFirst
<1>1. /\ UNCHANGED <<lpc, lfirst, lresp, todo, added, mu, watched, spawned, name,
                     stop, countReady, ctxDone, chan>>
      /\ first' = [first EXCEPT ![g] = FALSE]
  BY DEF WatchFirst, listVars
<1>2. \E l, m, f : Deliver(g, l, m, f)
  BY DEF WatchFirst
<1>3. /\ countReady[g] => ready' = Checked(ready.lists, ready.pending - 1)
      /\ ~countReady[g] => ready' = ready
  BY DEF WatchFirst, ChildReady
<1>4. TypeOK'
  <2>1. ready' \in [lists : 0..2, pending : Int, closed : BOOLEAN]
    BY <1>0, <1>3 DEF TypeOK, Checked
  <2>2. first' \in [WatchIDs -> BOOLEAN]
    BY <1>0, <1>1 DEF TypeOK
  <2>3. wpc' \in [WatchIDs -> {"none", "top", "query", "sleep", "handle",
                               "send", "lastSend", "done"}]
    BY <1>0, <1>2, DeliverType
  <2> QED
    BY <1>0, <1>1, <2>1, <2>2, <2>3 DEF TypeOK
<1>5. Mutex' /\ Answers' /\ Live'
  BY <1>1 DEF IInv, Mutex, Answers, Live, OneLiveWatch
<1>6. Fresh'
  BY <1>0, <1>1 DEF IInv, Fresh, TypeOK, WatchIDs
<1>7. Outstanding' = IF countReady[g] THEN Outstanding \ {g} ELSE Outstanding
  BY <1>0, <1>1 DEF Outstanding, TypeOK, WatchIDs
<1>8. countReady[g] => g \in Outstanding
  BY <1>0 DEF Outstanding
<1>9. Cardinality(Outstanding') = Cardinality(Outstanding)
                                   - (IF countReady[g] THEN 1 ELSE 0)
  <2>1. IsFiniteSet(Outstanding) /\ Cardinality(Outstanding) \in Nat
    BY <1>0, OutstandingFinite
  <2>2. CASE countReady[g]
    <3>1. Outstanding' = Outstanding \ {g} /\ g \in Outstanding
      BY <1>7, <1>8, <2>2
    <3>2. Cardinality(Outstanding \ {g}) = Cardinality(Outstanding) - 1
      BY <2>1, <3>1, FS_RemoveElement
    <3> QED
      BY <2>2, <3>1, <3>2
  <2>3. CASE ~countReady[g]
    BY <1>7, <2>1, <2>3
  <2> QED
    BY <2>2, <2>3
<1>10. Counts'
  <2>1. ready'.lists = ready.lists
        /\ ready'.pending = ready.pending - (IF countReady[g] THEN 1 ELSE 0)
    BY <1>0, <1>3 DEF Checked, TypeOK
  <2>2. Arrived("services")' = Arrived("services") /\ Arrived("nodes")' = Arrived("nodes")
    BY <1>1 DEF Arrived
  <2>3. /\ Unreported("services")' = Unreported("services")
        /\ Unreported("nodes")' = Unreported("nodes")
        /\ Unreported("services") \in Nat /\ Unreported("nodes") \in Nat
    BY <1>0, <1>1 DEF Unreported, TypeOK, Lists
  <2>4. \A l \in Lists : lfirst'[l] /\ lpc'[l] # "sync" => added'[l] = 0
    BY <1>1 DEF IInv, Counts
  <2>5. /\ ready'.lists = Arrived("services")' + Arrived("nodes")'
        /\ ready'.pending + Unreported("services")' + Unreported("nodes")'
              = Cardinality(Outstanding')
    <3> HIDE DEF Counts
    <3>1. ready.pending \in Int /\ Cardinality(Outstanding) \in Nat
      BY <1>0, OutstandingFinite DEF TypeOK
    <3>2. /\ ready.lists = Arrived("services") + Arrived("nodes")
          /\ ready.pending + Unreported("services") + Unreported("nodes")
              = Cardinality(Outstanding)
      BY DEF IInv, Counts
    <3> QED
      BY <1>9, <2>1, <2>2, <2>3, <3>1, <3>2
  <2> QED
    BY <2>4, <2>5 DEF Counts
<1>11. ReadyNotEarly'
  <2>1. CASE ready.closed
    BY <1>1, <1>7, <2>1 DEF IInv, ReadyNotEarly
  <2>2. CASE ~ready.closed /\ ready'.closed
    <3>1. ready'.lists = 2 /\ ready'.pending <= 0
      BY <1>0, <1>3, <2>2 DEF Checked, TypeOK
    <3> QED
      BY <1>4, <1>10, <3>1, ClosedWhenZero
  <2>3. CASE ~ready'.closed
    BY <2>3 DEF ReadyNotEarly
  <2> QED
    BY <2>1, <2>2, <2>3
<1> QED
  BY <1>4, <1>5, <1>6, <1>10, <1>11 DEF IInv

\* The steps of a list outside of a sync, and the beginning of a sync.
LEMMA ListIInv ==
    ASSUME IInv, NEW l \in Lists,
           \/ ListTop(l) \/ ListReply(l) \/ ListError(l) \/ ListWake(l)
           \/ ListSame(l) \/ SyncBegin(l)
    PROVE  IInv'
<1> DEFINE pcs == {"top", "query", "sleep", "handle", "sync", "done"}
<1>1. UNCHANGED <<ready, watched, spawned, name, wpc, stop, first, countReady, chan,
                  ctxDone>>
  BY DEF ListTop, ListReply, ListError, ListWake, ListSame, SyncBegin, watchVars,
         outVars
<1>2. lpc' \in [Lists -> pcs] /\ lfirst' = lfirst /\ mu' \in Lists \cup {"free"}
  <2>1. lpc' \in [Lists -> pcs]
    BY DEF IInv, TypeOK, ListTop, ListReply, ListError, ListWake, ListSame, SyncBegin,
           ListNext
  <2>2. lfirst' = lfirst
    <3>1. CASE ListSame(l)
      BY <3>1 DEF IInv, TypeOK, ListSame, ListNext
    <3>2. CASE ~ListSame(l)
      BY <3>2 DEF ListTop, ListReply, ListError, ListWake, SyncBegin
    <3> QED
      BY <3>1, <3>2
  <2>3. mu' \in Lists \cup {"free"}
    BY DEF IInv, TypeOK, ListTop, ListReply, ListError, ListWake, ListSame, SyncBegin
  <2> QED
    BY <2>1, <2>2, <2>3
<1>3. lpc[l] # "sync" /\ \A k \in Lists \ {l} : lpc'[k] = lpc[k]
  BY DEF IInv, TypeOK, ListTop, ListReply, ListError, ListWake, ListSame, SyncBegin,
         ListNext
<1>4. /\ added' \in [Lists -> Nat]
      /\ \A k \in Lists : lfirst[k] => added'[k] = added[k]
  BY DEF IInv, TypeOK, Counts, ListTop, ListReply, ListError, ListWake, ListSame,
         SyncBegin
<1>5. CASE ~SyncBegin(l)
  <2>1. mu' = mu /\ todo' = todo /\ lpc'[l] # "sync"
    BY <1>5 DEF IInv, TypeOK, ListTop, ListReply, ListError, ListWake, ListSame,
         ListNext
  <2>2. TypeOK'
    BY <1>1, <1>2, <1>4, <2>1 DEF IInv, TypeOK
  <2>3. Mutex'
    BY <1>3, <2>1 DEF IInv, Mutex
  <2>4. Answers'
    <3>1. CASE ListReply(l)
      BY <1>1, <2>1, <3>1 DEF IInv, Answers, ListReply
    <3>2. CASE ListSame(l)
      BY <1>1, <2>1, <3>2 DEF IInv, Answers, ListSame, ListNext
    <3>3. CASE ListTop(l) \/ ListError(l) \/ ListWake(l)
      BY <1>1, <2>1, <3>3 DEF IInv, Answers, ListTop, ListError, ListWake
    <3> QED
      BY <1>5, <3>1, <3>2, <3>3
  <2> QED
    BY <1>1, <1>2, <1>3, <1>4, <2>2, <2>3, <2>4, ListFrame
<1>6. CASE SyncBegin(l)
  <2>1. /\ mu = "free" /\ mu' = l /\ lresp' = lresp
        /\ lpc' = [lpc EXCEPT ![l] = "sync"]
        /\ todo' = [todo EXCEPT ![l] = {n \in lresp[l].names : watched[n] = 0}]
    BY <1>6 DEF SyncBegin
  <2>2. todo' \in [Lists -> SUBSET Names]
    BY <2>1 DEF IInv, TypeOK, Answers
  <2>3. TypeOK'
    BY <1>1, <1>2, <1>4, <2>2 DEF IInv, TypeOK
  <2>4. Mutex'
    BY <2>1 DEF IInv, Mutex, TypeOK, Lists
  <2>5. Answers'
    BY <1>1, <2>1 DEF IInv, Answers, TypeOK
  <2> QED
    BY <1>1, <1>2, <1>3, <1>4, <2>3, <2>4, <2>5, ListFrame
<1> QED
  BY <1>5, <1>6

\* A watch is started: it is in the map, nobody stopped it, and the list has one
\* more to report when it is the first time.
LEMMA SyncAddIInv ==
    ASSUME IInv, NEW l \in Lists, NEW n \in Names, SyncAdd(l, n)
    PROVE  IInv'
<1> DEFINE g == spawned + 1
<1>0. TypeOK /\ Mutex /\ Answers /\ Fresh /\ Live /\ Counts /\ ReadyNotEarly
  BY DEF IInv
<1>1. /\ lpc[l] = "sync" /\ n \in todo[l]
      /\ todo' = [todo EXCEPT ![l] = @ \ {n}]
      /\ added' = [added EXCEPT ![l] = @ + 1]
      /\ UNCHANGED <<lpc, lfirst, lresp, mu, ready, ctxDone, stop, first>>
  BY DEF SyncAdd, Spawn
<1>2. /\ spawned < MaxWatches /\ spawned' = g
      /\ watched' = [watched EXCEPT ![n] = g]
      /\ name' = [name EXCEPT ![g] = n]
      /\ wpc' = [wpc EXCEPT ![g] = "top"]
      /\ countReady' = [countReady EXCEPT ![g] = lfirst[l]]
  BY DEF SyncAdd, Spawn
<1>3. spawned \in Nat /\ g \in WatchIDs /\ g \in Nat
  BY <1>0, <1>2 DEF TypeOK, WatchIDs
<1>4. ListOf(n) = l /\ watched[n] = 0
  BY <1>0, <1>1 DEF Answers
<1>5. chan' \in [Channels -> 0..Capacity]
  <2>1. CASE l = "nodes" /\ ~lfirst[l]
    <3>1. chan["events"] < Capacity /\ chan' = [chan EXCEPT !["events"] = @ + 1]
      BY <2>1 DEF SyncAdd, NodeRegistered, Fits
    <3> QED
      BY <1>0, <3>1, OneMore DEF TypeOK
  <2>2. CASE ~(l = "nodes" /\ ~lfirst[l])
    BY <1>0, <2>2 DEF SyncAdd, outVars, TypeOK
  <2> QED
    BY <2>1, <2>2
<1> HIDE DEF g
<1>6. TypeOK'
  <2>1. g \in 0..MaxWatches
    BY <1>2, <1>3 DEF g
  <2>2. watched' \in [Names -> 0..g]
    BY <1>0, <1>2, <1>3 DEF TypeOK, g
  <2>3. DOMAIN name' = WatchIDs /\ \A h \in 1..g : name'[h] \in Names
    BY <1>0, <1>2, <1>3 DEF TypeOK, g
  <2>4. wpc' \in [WatchIDs -> {"none", "top", "query", "sleep", "handle",
                               "send", "lastSend", "done"}]
    BY <1>0, <1>2 DEF TypeOK
  <2>5. countReady' \in [WatchIDs -> BOOLEAN]
    BY <1>0, <1>2 DEF TypeOK
  <2>6. added' \in [Lists -> Nat] /\ todo' \in [Lists -> SUBSET Names]
    BY <1>0, <1>1 DEF TypeOK
  <2> QED
    BY <1>0, <1>1, <1>2, <1>5, <2>1, <2>2, <2>3, <2>4, <2>5, <2>6 DEF TypeOK
<1>7. Mutex'
  BY <1>0, <1>1 DEF Mutex
<1>8. Answers'
  BY <1>0, <1>1, <1>2, <1>4 DEF Answers, TypeOK
<1>9. Fresh'
  BY <1>0, <1>1, <1>2, <1>3 DEF Fresh, WatchIDs, g
<1>10. Live'
  <2>1. \A h \in 1..spawned : h \in WatchIDs /\ h # g
    BY <1>3 DEF WatchIDs, g
  <2>2. ~stop'[g] /\ name'[g] = n /\ watched'[n] = g
    BY <1>0, <1>1, <1>2, <1>3 DEF Fresh, TypeOK, g
  <2>3. ASSUME NEW h \in 1..spawned
        PROVE  ~stop'[h] <=> watched'[name'[h]] = h
    <3>1. name'[h] = name[h] /\ name[h] \in Names /\ stop'[h] = stop[h] /\ h # g /\ h # 0
      BY <1>0, <1>1, <1>2, <2>1 DEF TypeOK
    <3>2. ~stop[h] <=> watched[name[h]] = h
      BY <1>0 DEF Live, OneLiveWatch
    <3>3. watched'[name[h]] = IF name[h] = n THEN g ELSE watched[name[h]]
      BY <1>0, <1>2, <3>1 DEF TypeOK
    <3> QED
      BY <1>4, <3>1, <3>2, <3>3
  <2>4. OneLiveWatch'
    <3>1. \A h \in 1..g : h = g \/ h \in 1..spawned
      BY <1>3 DEF g
    <3> QED
      BY <1>2, <2>2, <2>3, <3>1 DEF OneLiveWatch
  <2>5. ASSUME NEW m \in Names, watched'[m] # 0
        PROVE  name'[watched'[m]] = m
    <3>1. CASE m = n
      BY <2>2, <3>1
    <3>2. CASE m # n
      <4>1. watched'[m] = watched[m] /\ watched[m] \in 1..spawned
        BY <1>0, <1>2, <1>3, <2>5, <3>2 DEF TypeOK
      <4>2. name[watched[m]] = m
        BY <1>0, <2>5, <4>1 DEF Live
      <4> QED
        BY <1>0, <1>2, <2>1, <4>1, <4>2 DEF TypeOK
    <3> QED
      BY <3>1, <3>2
  <2> QED
    BY <2>4, <2>5 DEF Live
<1>11. g \notin Outstanding
       /\ Outstanding' = IF lfirst[l] THEN Outstanding \cup {g} ELSE Outstanding
  <2>1. \A h \in 1..g : h = g \/ h \in 1..spawned
    BY <1>3 DEF g
  <2>2. g \in 1..g /\ g \notin 1..spawned /\ \A h \in 1..spawned : h \in 1..g
    BY <1>3 DEF g
  <2>3. first[g] /\ countReady'[g] = lfirst[l]
    BY <1>0, <1>2, <1>3 DEF Fresh, TypeOK, g
  <2>4. \A h \in 1..spawned : countReady'[h] = countReady[h]
    BY <1>0, <1>2, <2>2 DEF TypeOK
  <2> QED
    BY <1>1, <1>2, <2>1, <2>2, <2>3, <2>4 DEF Outstanding
<1>12. Counts'
  <2>1. IsFiniteSet(Outstanding) /\ Cardinality(Outstanding) \in Nat
    BY <1>0, OutstandingFinite
  <2>2. Cardinality(Outstanding') =
            Cardinality(Outstanding) + (IF lfirst[l] THEN 1 ELSE 0)
    <3>1. CASE lfirst[l]
      BY <1>11, <2>1, <3>1, FS_AddElement
    <3>2. CASE ~lfirst[l]
      BY <1>11, <2>1, <3>2
    <3> QED
      BY <3>1, <3>2
  <2>3. \A k \in Lists : lfirst'[k] /\ lpc'[k] # "sync" => added'[k] = 0
    BY <1>0, <1>1 DEF Counts, TypeOK
  <2>4. /\ ready' = ready /\ ready.pending \in Int
        /\ Arrived("services")' = Arrived("services")
        /\ Arrived("nodes")' = Arrived("nodes")
    BY <1>0, <1>1 DEF Arrived, TypeOK
  <2>5. /\ Unreported("services") \in Nat /\ Unreported("nodes") \in Nat
        /\ Unreported("services")' + Unreported("nodes")' =
              Unreported("services") + Unreported("nodes")
                + (IF lfirst[l] THEN 1 ELSE 0)
    <3>1. CASE l = "services"
      BY <1>0, <1>1, <3>1 DEF Unreported, TypeOK, Lists
    <3>2. CASE l = "nodes"
      BY <1>0, <1>1, <3>2 DEF Unreported, TypeOK, Lists
    <3> QED
      BY <3>1, <3>2 DEF Lists
  <2>6. Unreported("services")' \in Nat /\ Unreported("nodes")' \in Nat
    BY <1>6 DEF Unreported, TypeOK, Lists
  <2>7. /\ ready.lists = Arrived("services") + Arrived("nodes")
        /\ ready.pending + Unreported("services") + Unreported("nodes")
              = Cardinality(Outstanding)
    BY <1>0 DEF Counts
  <2>8. ready'.pending + Unreported("services")' + Unreported("nodes")'
              = Cardinality(Outstanding')
    BY <2>1, <2>2, <2>4, <2>5, <2>6, <2>7
  <2> QED
    BY <2>3, <2>4, <2>7, <2>8 DEF Counts
<1>13. ReadyNotEarly'
  BY <1>0, <1>1, <1>11 DEF ReadyNotEarly
<1> QED
  BY <1>6, <1>7, <1>8, <1>9, <1>10, <1>12, <1>13 DEF IInv

\* The end of a sync: the watches of the names that are gone are stopped and
\* taken from the map, and the first time the list reports what it has started.
LEMMA SyncEndIInv ==
    ASSUME IInv, NEW l \in Lists, SyncEnd(l)
    PROVE  IInv'
<1>0. TypeOK /\ Mutex /\ Answers /\ Fresh /\ Live /\ Counts /\ ReadyNotEarly
  BY DEF IInv
<1>1. /\ lpc[l] = "sync" /\ mu' = "free"
      /\ lpc' = [lpc EXCEPT ![l] = "top"]
      /\ lfirst' = [lfirst EXCEPT ![l] = FALSE]
      /\ added' = [added EXCEPT ![l] = 0]
      /\ lresp' = [lresp EXCEPT ![l] = [names |-> {}, index |-> 0]]
      /\ UNCHANGED <<todo, ctxDone, spawned, name, wpc, first, countReady, chan>>
  BY DEF SyncEnd, ListNext, Unlock, outVars
<1>2. /\ stop' = [g \in WatchIDs |-> stop[g] \/ \E n \in Gone(l) : watched[n] = g]
      /\ watched' = [n \in Names |-> IF n \in Gone(l) THEN 0 ELSE watched[n]]
  BY DEF SyncEnd, StopGone, ForgetGone
<1>3. /\ lfirst[l] => ready' = Checked(ready.lists + 1, ready.pending + added[l])
      /\ ~lfirst[l] => ready' = ready
  BY DEF SyncEnd, Arrive, ListArrived
<1>4. Gone(l) \subseteq Names /\ \A n \in Gone(l) : watched[n] # 0
  BY DEF Gone
<1> HIDE DEF Gone
<1>5. lfirst[l] => ready.lists \in 0..1
  BY <1>0 DEF Counts, Arrived, TypeOK, Lists
<1>6. TypeOK'
  <2>1. ready' \in [lists : 0..2, pending : Int, closed : BOOLEAN]
    <3>1. CASE lfirst[l]
      <4>1. ready.lists + 1 \in 0..2 /\ ready.pending + added[l] \in Int
        BY <1>0, <1>5, <3>1 DEF TypeOK
      <4> QED
        BY <1>0, <1>3, <3>1, <4>1 DEF Checked, TypeOK
    <3>2. CASE ~lfirst[l]
      BY <1>0, <1>3, <3>2 DEF TypeOK
    <3> QED
      BY <3>1, <3>2
  <2>2. watched' \in [Names -> 0..spawned]
    BY <1>0, <1>2 DEF TypeOK
  <2>3. stop' \in [WatchIDs -> BOOLEAN]
    BY <1>2
  <2>4. lpc' \in [Lists -> {"top", "query", "sleep", "handle", "sync", "done"}]
        /\ lfirst' \in [Lists -> BOOLEAN] /\ added' \in [Lists -> Nat]
        /\ mu' \in Lists \cup {"free"}
    BY <1>0, <1>1 DEF TypeOK
  <2> QED
    BY <1>0, <1>1, <2>1, <2>2, <2>3, <2>4 DEF TypeOK
<1>7. Mutex'
  BY <1>0, <1>1 DEF Mutex, TypeOK, Lists
<1>8. Answers'
  <2>1. DOMAIN lresp' = Lists
        /\ \A k \in Lists : \A n \in lresp'[k].names : n \in Names /\ ListOf(n) = k
    BY <1>0, <1>1 DEF Answers
  <2>2. \A k \in Lists : \A n \in todo'[k] : ListOf(n) = k /\ watched'[n] = 0
    BY <1>0, <1>1, <1>2 DEF Answers, TypeOK
  <2> QED
    BY <2>1, <2>2 DEF Answers
<1>9. Fresh'
  BY <1>0, <1>1, <1>2, <1>4 DEF Fresh, TypeOK, WatchIDs
<1>10. Live'
  <2>1. ASSUME NEW h \in 1..spawned
        PROVE  ~stop'[h] <=> watched'[name[h]] = h
    <3>1. name[h] \in Names /\ h \in WatchIDs /\ h # 0
      BY <1>0 DEF TypeOK, WatchIDs
    <3>2. ~stop[h] <=> watched[name[h]] = h
      BY <1>0 DEF Live, OneLiveWatch
    <3>3. \A n \in Gone(l) : watched[n] = h => n = name[h]
      BY <1>0, <1>4 DEF Live
    <3>4. stop'[h] <=> stop[h] \/ \E n \in Gone(l) : watched[n] = h
      BY <1>2, <3>1
    <3>5. watched'[name[h]] = IF name[h] \in Gone(l) THEN 0 ELSE watched[name[h]]
      BY <1>2, <3>1
    <3> QED
      BY <3>1, <3>2, <3>3, <3>4, <3>5
  <2>2. OneLiveWatch'
    BY <1>1, <2>1 DEF OneLiveWatch
  <2>3. \A n \in Names : watched'[n] # 0 => name'[watched'[n]] = n
    BY <1>0, <1>1, <1>2 DEF Live
  <2> QED
    BY <2>2, <2>3 DEF Live
<1>11. Outstanding' = Outstanding
  BY <1>1 DEF Outstanding
<1>12. Counts'
  <2>1. \A k \in Lists : lfirst'[k] /\ lpc'[k] # "sync" => added'[k] = 0
    BY <1>0, <1>1 DEF Counts, TypeOK
  <2>2. /\ ready.lists = Arrived("services") + Arrived("nodes")
        /\ ready.pending + Unreported("services") + Unreported("nodes")
              = Cardinality(Outstanding)
        /\ ready.lists \in Int /\ ready.pending \in Int
    BY <1>0 DEF Counts, TypeOK
  <2>3. /\ Unreported("services") \in Nat /\ Unreported("nodes") \in Nat
        /\ Unreported(l) = IF lfirst[l] THEN added[l] ELSE 0
        /\ Arrived(l) = IF lfirst[l] THEN 0 ELSE 1
        /\ Arrived("services") \in Nat /\ Arrived("nodes") \in Nat
    BY <1>0 DEF Unreported, Arrived, TypeOK, Lists
  <2>4. Unreported(l)' = 0 /\ Arrived(l)' = 1
    BY <1>0, <1>1 DEF Unreported, Arrived, TypeOK
  <2>5. \A k \in Lists \ {l} :
            Unreported(k)' = Unreported(k) /\ Arrived(k)' = Arrived(k)
    BY <1>0, <1>1 DEF Unreported, Arrived, TypeOK
  <2>6. /\ ready'.lists = ready.lists + (IF lfirst[l] THEN 1 ELSE 0)
        /\ ready'.pending = ready.pending + Unreported(l)
    <3>1. CASE lfirst[l]
      BY <1>3, <2>3, <3>1 DEF Checked
    <3>2. CASE ~lfirst[l]
      BY <1>3, <2>2, <2>3, <3>2
    <3> QED
      BY <3>1, <3>2
  <2>7. CASE l = "services"
    <3>1. /\ Unreported("nodes")' = Unreported("nodes")
          /\ Arrived("nodes")' = Arrived("nodes")
      BY <2>5, <2>7 DEF Lists
    <3>2. /\ ready'.lists = Arrived("services")' + Arrived("nodes")'
          /\ ready'.pending + Unreported("services")' + Unreported("nodes")'
                = Cardinality(Outstanding)
      BY <2>2, <2>3, <2>4, <2>6, <2>7, <3>1
    <3> QED
      BY <1>11, <2>1, <3>2 DEF Counts
  <2>8. CASE l = "nodes"
    <3>1. /\ Unreported("services")' = Unreported("services")
          /\ Arrived("services")' = Arrived("services")
      BY <2>5, <2>8 DEF Lists
    <3>2. /\ ready'.lists = Arrived("services")' + Arrived("nodes")'
          /\ ready'.pending + Unreported("services")' + Unreported("nodes")'
                = Cardinality(Outstanding)
      BY <2>2, <2>3, <2>4, <2>6, <2>8, <3>1
    <3> QED
      BY <1>11, <2>1, <3>2 DEF Counts
  <2> QED
    BY <2>7, <2>8 DEF Lists
<1>13. ReadyNotEarly'
  <2>1. CASE ready.closed
    BY <1>0, <1>1, <1>11, <2>1 DEF ReadyNotEarly, TypeOK
  <2>2. CASE ~ready.closed /\ ready'.closed
    <3>1. ready' = Checked(ready.lists + 1, ready.pending + added[l])
      BY <1>3, <2>2
    <3>2. ready'.lists = 2 /\ ready'.pending <= 0
      BY <2>2, <3>1 DEF Checked
    <3> QED
      BY <1>6, <1>12, <3>2, ClosedWhenZero
  <2>3. CASE ~ready'.closed
    BY <2>3 DEF ReadyNotEarly
  <2> QED
    BY <2>1, <2>2, <2>3
<1> QED
  BY <1>6, <1>7, <1>8, <1>9, <1>10, <1>12, <1>13 DEF IInv

\* Every step keeps the invariant.
LEMMA NextIInv == IInv /\ [Next]_vars => IInv'
<1> SUFFICES ASSUME IInv, [Next]_vars PROVE IInv'
  OBVIOUS
<1>1. CASE \/ \E n \in Names : \E s \in Possible[n] : Change(n, s)
           \/ \E l \in Lists : Reset(l)
           \/ \E c \in Channels : Consume(c)
           \/ Cancel
  BY <1>1, EnvironmentIInv
<1>2. CASE \E l \in Lists : ListError(l) \/ ListStep(l)
  <2>1. PICK l \in Lists : ListError(l) \/ ListStep(l)
    BY <1>2
  <2>2. \/ ListTop(l) \/ ListReply(l) \/ ListError(l) \/ ListWake(l) \/ ListSame(l)
        \/ SyncBegin(l)
        \/ SyncEnd(l)
        \/ \E n \in Names : SyncAdd(l, n)
    BY <2>1 DEF ListStep
  <2> QED
    BY <2>2, ListIInv, SyncAddIInv, SyncEndIInv
<1>3. CASE \E g \in 1..spawned : WatchError(g) \/ WatchStep(g)
  <2>1. PICK g \in 1..spawned : WatchError(g) \/ WatchStep(g)
    BY <1>3
  <2>2. CASE WatchFirst(g)
    BY <2>2, WatchFirstIInv
  <2>3. CASE ~WatchFirst(g)
    BY <2>1, <2>3, WatchIInv DEF WatchStep
  <2> QED
    BY <2>2, <2>3
<1>4. CASE UNCHANGED vars
  <2>1. UNCHANGED <<lpc, lfirst, lresp, todo, added, mu, watched, ready, spawned,
                    name, stop, first, countReady, wpc, chan, ctxDone>>
    BY <1>4 DEF vars, listVars, watchVars, outVars
  <2>2. TypeOK'
    BY <2>1 DEF IInv, TypeOK
  <2> QED
    BY <2>1, <2>2, Frame
<1> QED
  BY <1>1, <1>2, <1>3, <1>4 DEF Next

-----------------------------------------------------------------------------
(* Theorems                                                                *)

\* The invariant holds in every behaviour of the watcher.
THEOREM Invariance == Spec => []IInv
<1> QED
  BY InitIInv, NextIInv, PTL DEF Spec

\* The variables keep their types; in particular listArrived is called at most
\* once per list, and no channel holds more than its capacity.
THEOREM TypeCorrect == Spec => []TypeOK
<1>1. IInv => TypeOK
  BY DEF IInv
<1> QED
  BY <1>1, Invariance, PTL

\* The watcher is never announced ready before both lists are in and every watch
\* of the start has had its first answer, although childReady may run before the
\* listArrived that accounts for it.
THEOREM ReadyOnTime == Spec => []ReadyNotEarly
<1>1. IInv => ReadyNotEarly
  BY DEF IInv
<1> QED
  BY <1>1, Invariance, PTL

\* Every watch is in its map until it is told to stop and not after: stop
\* channels are closed once, and a name never has two watches that run on.
THEOREM WatchesMatchMaps == Spec => []OneLiveWatch
<1>1. IInv => OneLiveWatch
  BY DEF IInv, Live
<1> QED
  BY <1>1, Invariance, PTL

-----------------------------------------------------------------------------
(* The timeline.  A second invariant, on top of IInv.                      *)

Fields == {"idx", "last", "marks", "answer", "outbox"}

\* States of n that the comparison can work on, and that a watch keeps.
Sound(n, body) ==
    /\ IsFiniteSet(DOMAIN body)
    /\ n \in Services => \A k \in DOMAIN body : IsFiniteSet(DOMAIN body[k].checks)

Keeps(n, body) == Sound(n, body) /\ (n \notin Services => DOMAIN body \subseteq NodeCheckIDs)

\* The indices of Consul, none of which a restored server comes back to.
Catalog ==
    /\ resets \in 0..MaxResets
    /\ DOMAIN index = Lists
    /\ \A l \in Lists : index[l] \in Nat /\ index[l] > MaxResets - resets
    /\ DOMAIN catalog = Names
    /\ \A n \in Names : Sound(n, catalog[n].body)

Held(i) == i \in Nat /\ (i = 0 \/ i > MaxResets - resets)

Locals(g) ==
    /\ DOMAIN loc[g] = Fields
    /\ Held(loc[g].idx) /\ Held(loc[g].answer.index)
    /\ Keeps(name[g], loc[g].last)
    /\ wpc[g] = "handle" => Sound(name[g], loc[g].answer.body)

\* The index of Consul when it answers g.
At(g) == index[ListOf(name[g])]

\* Equal indices mean equal states: what makes it right to compare nothing when
\* the index of an answer is the one before.
Current(g) ==
    /\ ~first[g] /\ loc[g].idx = At(g) => loc[g].last = Kept(name[g], catalog[name[g]].body)
    /\ wpc[g] = "handle" /\ loc[g].answer.index = At(g)
          => loc[g].answer.body = catalog[name[g]].body
    /\ wpc[g] = "handle" /\ ~first[g] /\ Unchanged(g)
          => Kept(name[g], loc[g].answer.body) = loc[g].last

Idle(g) == wpc[g] \in {"top", "query", "sleep", "handle"}

Only(g) == \A h \in 1..spawned : name[h] = name[g] => h = g

\* What g still has to send completes the timeline of its name.
Told(g) ==
    /\ \E M : loc[g].outbox \in Seq(M)
    /\ Idle(g) => loc[g].outbox = <<>>
    /\ wpc[g] \in {"send", "lastSend"} => loc[g].outbox # <<>>
    /\ countReady[g] /\ ~first[g] /\ Only(g) /\ (Idle(g) \/ wpc[g] = "send")
          => Telling(timeline[name[g]], FactsOf(name[g], loc[g].last), loc[g].outbox)

TInv ==
    /\ Catalog
    /\ DOMAIN timeline = Names /\ DOMAIN loc = WatchIDs
    /\ \A g \in WatchIDs : g > spawned => loc[g] = NoLocals
    /\ \A g \in 1..spawned : Locals(g) /\ Current(g) /\ Told(g)

\* A step of watch g concerns no other watch.
LEMMA OtherWatches ==
    ASSUME IInv, TInv, NEW g \in 1..spawned,
           UNCHANGED <<catalog, index, resets, spawned, name, countReady>>,
           DOMAIN timeline' = Names, DOMAIN loc' = WatchIDs,
           \A h \in WatchIDs \ {g} :
              loc'[h] = loc[h] /\ wpc'[h] = wpc[h] /\ first'[h] = first[h],
           \A n \in Names \ {name[g]} : timeline'[n] = timeline[n],
           Locals(g)', Current(g)', Told(g)'
    PROVE  TInv'
<1>1. spawned \in Nat /\ \A h \in 1..spawned : h \in WatchIDs /\ name[h] \in Names
  BY DEF IInv, TypeOK, WatchIDs
<1>2. Catalog'
  BY DEF TInv, Catalog
<1>3. \A h \in WatchIDs : h > spawned' => loc'[h] = NoLocals
  <2>1. \A h \in WatchIDs : h > spawned => h # g
    BY <1>1
  <2> QED
    BY <2>1 DEF TInv
<1>4. ASSUME NEW h \in 1..spawned, h # g PROVE Locals(h)' /\ Current(h)' /\ Told(h)'
  <2>1. loc'[h] = loc[h] /\ wpc'[h] = wpc[h] /\ first'[h] = first[h] /\ name'[h] = name[h]
        /\ countReady'[h] = countReady[h]
    BY <1>1, <1>4
  <2>2. Locals(h) /\ Current(h) /\ Told(h)
    BY DEF TInv
  <2>3. Locals(h)'
    BY <2>1, <2>2 DEF Locals, Held
  <2>4. Current(h)'
    BY <2>1, <2>2 DEF Current, At, Unchanged
  <2>5. Only(h) => timeline'[name[h]] = timeline[name[h]]
    BY <1>1, <1>4 DEF Only
  <2>6. Only(h)' <=> Only(h)
    BY DEF Only
  <2>7. Told(h)'
    BY <2>1, <2>2, <2>5, <2>6 DEF Told, Idle
  <2> QED
    BY <2>3, <2>4, <2>7
<1> QED
  BY <1>2, <1>3, <1>4 DEF TInv

\* A watch that goes on with the locals l and messages to send, or returns.
LEMMA Delivered ==
    ASSUME IInv, TInv, NEW g \in 1..spawned, NEW l, NEW m, NEW final \in BOOLEAN,
           UNCHANGED <<catalog, index, resets, spawned, name, countReady>>,
           DOMAIN timeline' = Names,
           \A h \in WatchIDs \ {g} : first'[h] = first[h],
           \A n \in Names \ {name[g]} : timeline'[n] = timeline[n],
           Deliver(g, l, m, final),
           DOMAIN l = Fields, Held(l.idx), Keeps(name[g], l.last),
           \E M : m \in Seq(M),
           ~first'[g] /\ l.idx = At(g) => l.last = Kept(name[g], catalog[name[g]].body),
           countReady[g] /\ ~first'[g] /\ Only(g) /\ ~final
              => Telling(timeline'[name[g]], FactsOf(name[g], l.last), m)
    PROVE  TInv'
<1>1. g \in WatchIDs /\ DOMAIN loc = WatchIDs /\ DOMAIN wpc = WatchIDs
  BY DEF IInv, TInv, TypeOK, WatchIDs
<1> DEFINE k == [l EXCEPT !.outbox = m, !.answer = NoAnswer]
           pc == IF final THEN (IF m = <<>> THEN "done" ELSE "lastSend")
                 ELSE (IF m = <<>> THEN "top" ELSE "send")
<1>2. loc' = [loc EXCEPT ![g] = IF final /\ m = <<>> THEN NoLocals ELSE k]
      /\ wpc' = [wpc EXCEPT ![g] = pc]
  BY DEF Deliver
<1>3. DOMAIN loc' = WatchIDs
      /\ \A h \in WatchIDs \ {g} : loc'[h] = loc[h] /\ wpc'[h] = wpc[h]
  BY <1>1, <1>2
<1>4. loc'[g] = (IF final /\ m = <<>> THEN NoLocals ELSE k) /\ wpc'[g] = pc
  BY <1>1, <1>2
<1>5. /\ DOMAIN k = Fields /\ k.outbox = m /\ k.answer = NoAnswer
      /\ k.idx = l.idx /\ k.last = l.last
  BY DEF Fields
<1>6. /\ DOMAIN NoLocals = Fields /\ NoLocals.outbox = <<>> /\ NoLocals.answer = NoAnswer
      /\ NoLocals.idx = 0 /\ NoLocals.last = Nothing /\ NoAnswer.index = 0
  BY DEF NoLocals, NoAnswer, Fields
<1>7. Keeps(name[g], Nothing)
  <2>1. DOMAIN Nothing = {}
    BY DEF Nothing
  <2> QED
    BY <2>1, FS_EmptySet DEF Keeps, Sound
<1>8. At(g) # 0 /\ At(g)' = At(g) /\ resets' = resets
  <2>1. name[g] \in Names /\ ListOf(name[g]) \in Lists
    BY DEF IInv, TypeOK, ListOf, Lists
  <2>2. index[ListOf(name[g])] > MaxResets - resets /\ resets \in 0..MaxResets
        /\ index[ListOf(name[g])] \in Nat
    BY <2>1 DEF TInv, Catalog
  <2>3. index[ListOf(name[g])] # 0
    BY <2>2
  <2> QED
    BY <2>3 DEF At
<1> HIDE DEF k
<1>9. wpc'[g] # "handle" /\ wpc'[g] \in {"done", "lastSend", "top", "send"}
  BY <1>4
<1>10. Locals(g)'
  <2>1. Held(0)
    BY DEF Held
  <2> QED
    BY <1>4, <1>5, <1>6, <1>7, <1>8, <1>9, <2>1 DEF Locals, Held
<1>11. Current(g)'
  BY <1>4, <1>5, <1>6, <1>8, <1>9 DEF Current, At
<1>12. Told(g)'
  <2>1. \E M : loc'[g].outbox \in Seq(M)
    BY <1>4, <1>5, <1>6, NoMessage
  <2>2. CASE final
    <3>1. wpc'[g] = (IF m = <<>> THEN "done" ELSE "lastSend") /\ (m # <<>> => loc'[g].outbox = m)
      BY <1>4, <1>5, <2>2
    <3> QED
      BY <2>1, <3>1 DEF Told, Idle
  <2>3. CASE ~final
    <3>1. /\ wpc'[g] = (IF m = <<>> THEN "top" ELSE "send") /\ loc'[g].outbox = m
          /\ loc'[g].last = l.last
      BY <1>4, <1>5, <2>3
    <3>2. Only(g)' <=> Only(g)
      BY DEF Only
    <3> QED
      BY <2>1, <2>3, <3>1, <3>2 DEF Told, Idle
  <2> QED
    BY <2>2, <2>3
<1> QED
  BY <1>3, <1>10, <1>11, <1>12, OtherWatches

\* A step that touches no watch, no timeline and nothing of Consul.
LEMMA QuietTInv ==
    ASSUME TInv, UNCHANGED <<catalog, index, resets, spawned, name, wpc, first, countReady,
                             loc, timeline>>
    PROVE  TInv'
<1>1. Catalog'
  BY DEF TInv, Catalog
<1>2. ASSUME NEW g \in 1..spawned PROVE Locals(g)' /\ Current(g)' /\ Told(g)'
  <2>1. Locals(g) /\ Current(g) /\ Told(g)
    BY DEF TInv
  <2> QED
    BY <2>1 DEF Locals, Held, Current, At, Unchanged, Told, Idle, Only
<1> QED
  BY <1>1, <1>2 DEF TInv

LEMMA InitTInv == Init => TInv
<1> SUFFICES ASSUME Init PROVE TInv
  OBVIOUS
<1>1. \A n \in Names : catalog[n] \in Possible[n]
  BY DEF Init
<1>2. DOMAIN catalog = Names
  BY DEF Init
<1>3. \A n \in Names : Sound(n, catalog[n].body)
  BY <1>1, AnswersAssumption DEF Sound
<1>4. /\ resets \in 0..MaxResets /\ DOMAIN index = Lists
      /\ \A l \in Lists : index[l] \in Nat /\ index[l] > MaxResets - resets
  BY DEF Init
<1>5. DOMAIN timeline = Names /\ DOMAIN loc = WatchIDs /\ \A g \in WatchIDs : loc[g] = NoLocals
  BY DEF Init
<1>6. 1..spawned = {}
  BY DEF Init
<1> QED
  BY <1>2, <1>3, <1>4, <1>5, <1>6 DEF TInv, Catalog

\* A change of the catalog, when nobody is ahead of Consul, gives an index that
\* nobody holds.
LEMMA ChangeTInv ==
    ASSUME IInv, TInv, NEW n \in Names, NEW s \in Possible[n], Change(n, s)
    PROVE  TInv'
<1> DEFINE l == ListOf(n)
<1>1. /\ catalog' = [catalog EXCEPT ![n] = s] /\ index' = [index EXCEPT ![l] = @ + 1]
      /\ ~Ahead(l)
      /\ UNCHANGED <<resets, spawned, name, wpc, first, countReady, loc, timeline>>
  BY DEF Change, watchVars, outVars
<1>2. l \in Lists
  BY DEF ListOf, Lists
<1> HIDE DEF l
<1>3. resets \in Nat /\ DOMAIN index = Lists /\ DOMAIN catalog = Names
      /\ \A k \in Lists : index[k] \in Nat /\ index[k] > MaxResets - resets
  BY DEF TInv, Catalog
<1>4. Catalog'
  <2>1. DOMAIN index' = Lists /\ DOMAIN catalog' = Names
    BY <1>1, <1>3
  <2>2. \A k \in Lists : index'[k] \in Nat /\ index'[k] > MaxResets - resets
    <3> TAKE k \in Lists
    <3>1. index'[k] = IF k = l THEN index[k] + 1 ELSE index[k]
      BY <1>1, <1>3
    <3> QED
      BY <1>3, <3>1
  <2>3. Sound(n, s.body)
    BY AnswersAssumption DEF Sound
  <2>4. \A x \in Names : Sound(x, catalog'[x].body)
    BY <1>1, <1>3, <2>3 DEF TInv, Catalog
  <2> QED
    BY <1>1, <2>1, <2>2, <2>4 DEF TInv, Catalog
<1>5. ASSUME NEW g \in 1..spawned PROVE Locals(g)' /\ Current(g)' /\ Told(g)'
  <2>1. Locals(g) /\ Current(g) /\ Told(g)
    BY DEF TInv
  <2>2. Locals(g)' /\ Told(g)'
    BY <1>1, <2>1 DEF Locals, Held, Told, Idle, Only
  <2>3. Held(loc[g].idx) /\ Held(loc[g].answer.index) /\ ListOf(name[g]) \in Lists
    BY <2>1 DEF Locals, ListOf, Lists
  <2>4. CASE ListOf(name[g]) = l
    <3>1. ~(loc[g].idx > index[l]) /\ ~(loc[g].answer.index > index[l])
      BY <1>1, <2>4 DEF Ahead
    <3>2. At(g)' = index[l] + 1 /\ index[l] \in Nat
      BY <1>1, <1>2, <1>3, <2>4 DEF At
    <3>3. loc[g].idx # At(g)' /\ loc[g].answer.index # At(g)'
      BY <2>3, <3>1, <3>2 DEF Held
    <3> QED
      BY <1>1, <2>1, <2>2, <3>3 DEF Current, Unchanged
  <2>5. CASE ListOf(name[g]) # l
    <3>1. name[g] # n
      BY <2>5 DEF l
    <3>2. name[g] \in Names
      BY DEF IInv, TypeOK
    <3>3. catalog'[name[g]] = catalog[name[g]] /\ At(g)' = At(g)
      BY <1>1, <1>3, <2>3, <2>5, <3>1, <3>2 DEF At
    <3> QED
      BY <1>1, <2>1, <2>2, <3>3 DEF Current, Unchanged
  <2> QED
    BY <2>4, <2>5
<1> QED
  BY <1>1, <1>4, <1>5 DEF TInv

\* So does a restored server.
LEMMA ResetTInv ==
    ASSUME IInv, TInv, NEW l \in Lists, Reset(l)
    PROVE  TInv'
<1>1. /\ resets < MaxResets /\ resets' = resets + 1
      /\ index' = [index EXCEPT ![l] = MaxResets - resets]
      /\ UNCHANGED <<catalog, spawned, name, wpc, first, countReady, loc, timeline>>
  BY DEF Reset, watchVars, outVars
<1>2. resets \in 0..MaxResets /\ DOMAIN index = Lists /\ DOMAIN catalog = Names
      /\ \A k \in Lists : index[k] \in Nat /\ index[k] > MaxResets - resets
  BY DEF TInv, Catalog
<1>3. Catalog'
  <2>1. \A k \in Lists : index'[k] = IF k = l THEN MaxResets - resets ELSE index[k]
    BY <1>1, <1>2
  <2>2. \A k \in Lists : index'[k] \in Nat /\ index'[k] > MaxResets - resets'
    BY <1>1, <1>2, <2>1
  <2>3. resets' \in 0..MaxResets
    BY <1>1, <1>2
  <2> QED
    BY <1>1, <1>2, <2>2, <2>3 DEF TInv, Catalog
<1>4. ASSUME NEW g \in 1..spawned PROVE Locals(g)' /\ Current(g)' /\ Told(g)'
  <2>1. Locals(g) /\ Current(g) /\ Told(g)
    BY DEF TInv
  <2>2. \A i : Held(i) => Held(i)' /\ i # MaxResets - resets
    BY <1>1, <1>2 DEF Held
  <2>3. Locals(g)' /\ Told(g)'
    BY <1>1, <2>1, <2>2 DEF Locals, Told, Idle, Only
  <2>4. ListOf(name[g]) \in Lists
    BY DEF ListOf, Lists
  <2>5. At(g)' = IF ListOf(name[g]) = l THEN MaxResets - resets ELSE At(g)
    BY <1>1, <1>2, <2>4 DEF At
  <2>6. Held(loc[g].idx) /\ Held(loc[g].answer.index)
    BY <2>1 DEF Locals
  <2>7. Current(g)'
    BY <1>1, <2>1, <2>2, <2>5, <2>6 DEF Current, Unchanged
  <2> QED
    BY <2>3, <2>7
<1> QED
  BY <1>1, <1>3, <1>4 DEF TInv

\* A new watch has told nothing, and its name is no longer that of one watch
\* when there was another.
LEMMA SyncAddTInv ==
    ASSUME IInv, TInv, NEW l \in Lists, NEW n \in Names, SyncAdd(l, n)
    PROVE  TInv'
<1>0. PICK g : g = spawned + 1
  OBVIOUS
<1>1. /\ spawned < MaxWatches /\ spawned' = g
      /\ name' = [name EXCEPT ![g] = n]
      /\ wpc' = [wpc EXCEPT ![g] = "top"]
      /\ countReady' = [countReady EXCEPT ![g] = lfirst[l]]
      /\ UNCHANGED <<catalog, index, resets, first, loc>>
  BY <1>0 DEF SyncAdd, Spawn, catalogVars
<1>2. /\ \A x \in Names \ {n} : timeline'[x] = timeline[x]
      /\ DOMAIN timeline' = Names
  <2>1. DOMAIN timeline = Names
    BY DEF TInv
  <2>2. CASE l = "nodes" /\ ~lfirst[l]
    <3>1. timeline' = [timeline EXCEPT ![n] = Learn(timeline[n], NodeEvent(n, "missing", "unknown"), {})]
      BY <2>2 DEF SyncAdd, NodeRegistered
    <3> QED
      BY <2>1, <3>1
  <2>3. CASE ~(l = "nodes" /\ ~lfirst[l])
    BY <2>1, <2>3 DEF SyncAdd, outVars
  <2> QED
    BY <2>2, <2>3
<1>3. spawned \in Nat /\ g \in WatchIDs /\ g \in Nat /\ g > spawned
      /\ DOMAIN name = WatchIDs /\ DOMAIN wpc = WatchIDs /\ DOMAIN countReady = WatchIDs
  BY <1>0, <1>1 DEF IInv, TypeOK, WatchIDs
<1>4. /\ name'[g] = n /\ wpc'[g] = "top" /\ first[g] /\ loc'[g] = NoLocals
      /\ \A h \in WatchIDs \ {g} : name'[h] = name[h] /\ wpc'[h] = wpc[h] /\ countReady'[h] = countReady[h]
  BY <1>1, <1>3 DEF IInv, Fresh, TInv
<1>5. 1..g = (1..spawned) \cup {g} /\ g \notin 1..spawned /\ 1..spawned \subseteq WatchIDs
  BY <1>0, <1>1, <1>3 DEF WatchIDs
<1>6. \A h \in WatchIDs : h > g => h > spawned
  BY <1>3 DEF WatchIDs
<1>7. Catalog'
  BY <1>1 DEF TInv, Catalog
<1>8. Locals(g)' /\ Current(g)' /\ Told(g)'
  <2>1. /\ DOMAIN NoLocals = Fields /\ NoLocals.outbox = <<>> /\ NoLocals.answer = NoAnswer
        /\ NoLocals.idx = 0 /\ NoLocals.last = Nothing /\ NoAnswer.index = 0
    BY DEF NoLocals, NoAnswer, Fields
  <2>2. Keeps(n, Nothing)
    <3>1. DOMAIN Nothing = {}
      BY DEF Nothing
    <3> QED
      BY <3>1, FS_EmptySet DEF Keeps, Sound
  <2>3. Held(0)'
    BY DEF Held
  <2>4. Locals(g)'
    BY <1>4, <2>1, <2>2, <2>3 DEF Locals
  <2>5. Current(g)' /\ Told(g)'
    BY <1>1, <1>4, <2>1, NoMessage DEF Current, Told
  <2> QED
    BY <2>4, <2>5
<1>9. ASSUME NEW h \in 1..spawned PROVE Locals(h)' /\ Current(h)' /\ Told(h)'
  <2>1. Locals(h) /\ Current(h) /\ Told(h)
    BY DEF TInv
  <2>2. loc'[h] = loc[h] /\ first'[h] = first[h] /\ name'[h] = name[h] /\ wpc'[h] = wpc[h]
        /\ countReady'[h] = countReady[h] /\ name[h] \in Names
    BY <1>1, <1>4, <1>5 DEF IInv, TypeOK
  <2>3. Locals(h)'
    BY <1>1, <2>1, <2>2 DEF Locals, Held
  <2>4. Current(h)'
    BY <1>1, <2>1, <2>2 DEF Current, At, Unchanged
  <2>5. Only(h)' => Only(h) /\ name[h] # n
    <3>1. 1..spawned' = (1..spawned) \cup {g}
      BY <1>1, <1>5
    <3>2. ASSUME Only(h)' PROVE Only(h)
      BY <1>4, <1>5, <2>2, <3>1, <3>2 DEF Only
    <3>3. ASSUME Only(h)' PROVE name[h] # n
      <4>1. name'[g] = name'[h] => g = h
        BY <3>1, <3>3 DEF Only
      <4> QED
        BY <1>4, <1>5, <2>2, <4>1
    <3> QED
      BY <3>2, <3>3
  <2>6. Told(h)'
    BY <1>2, <2>1, <2>2, <2>5 DEF Told, Idle
  <2> QED
    BY <2>3, <2>4, <2>6
<1>10. \A h \in WatchIDs : h > spawned' => loc'[h] = NoLocals
  BY <1>1, <1>6 DEF TInv
<1> QED
  BY <1>1, <1>2, <1>5, <1>7, <1>8, <1>9, <1>10 DEF TInv

\* The steps of a watch between its loop, its query and its sleep.
LEMMA LoopTInv ==
    ASSUME IInv, TInv, NEW g \in 1..spawned,
           WatchQuery(g) \/ WatchError(g) \/ WatchWake(g)
    PROVE  TInv'
<1>0. g \in WatchIDs /\ DOMAIN wpc = WatchIDs
  BY DEF IInv, TypeOK, WatchIDs
<1>1. PICK p \in {"top", "query", "sleep"} : wpc' = [wpc EXCEPT ![g] = p]
  BY DEF WatchQuery, WatchError, WatchWake
<1>2. UNCHANGED <<catalog, index, resets, spawned, name, first, countReady, loc, timeline>>
  BY DEF WatchQuery, WatchError, WatchWake, catalogVars, outVars
<1>3. Idle(g)
  BY DEF WatchQuery, WatchError, WatchWake, Idle
<1>4. Locals(g) /\ Current(g) /\ Told(g)
  BY DEF TInv
<1>5. wpc'[g] = p /\ \A h \in WatchIDs \ {g} : wpc'[h] = wpc[h]
  BY <1>0, <1>1
<1>6. Locals(g)' /\ Current(g)'
  BY <1>2, <1>4, <1>5 DEF Locals, Held, Current, At
<1>7. Told(g)'
  BY <1>2, <1>3, <1>4, <1>5 DEF Told, Idle, Only
<1> QED
  BY <1>2, <1>5, <1>6, <1>7, OtherWatches DEF TInv

\* An answer of Consul is its state at its index.
LEMMA ReplyTInv ==
    ASSUME IInv, TInv, NEW g \in 1..spawned, WatchReply(g)
    PROVE  TInv'
<1>0. /\ g \in WatchIDs /\ DOMAIN wpc = WatchIDs /\ DOMAIN loc = WatchIDs
      /\ name[g] \in Names /\ ListOf(name[g]) \in Lists
  BY DEF IInv, TInv, TypeOK, WatchIDs, ListOf, Lists
<1> DEFINE a == [body |-> catalog[name[g]].body, index |-> index[ListOf(name[g])]]
<1>1. /\ wpc[g] = "query" /\ wpc' = [wpc EXCEPT ![g] = "handle"]
      /\ loc' = [loc EXCEPT ![g].answer = a]
      /\ UNCHANGED <<catalog, index, resets, spawned, name, first, countReady, timeline>>
  BY DEF WatchReply, catalogVars, outVars
<1>2. a.body = catalog[name[g]].body /\ a.index = At(g)
  BY DEF At
<1> HIDE DEF a
<1>3. Locals(g) /\ Current(g) /\ Told(g)
  BY DEF TInv
<1>4. /\ wpc'[g] = "handle"
      /\ \A h \in WatchIDs \ {g} : wpc'[h] = wpc[h] /\ loc'[h] = loc[h]
      /\ DOMAIN loc' = WatchIDs
  BY <1>0, <1>1
<1>5. /\ DOMAIN loc'[g] = Fields /\ loc'[g].answer = a
      /\ loc'[g].idx = loc[g].idx /\ loc'[g].last = loc[g].last
      /\ loc'[g].outbox = loc[g].outbox
  <2>1. loc'[g] = [loc[g] EXCEPT !.answer = a]
    BY <1>0, <1>1
  <2>2. DOMAIN loc[g] = Fields
    BY <1>3 DEF Locals
  <2> QED
    BY <2>1, <2>2 DEF Fields
<1>6. At(g)' = At(g)
  BY <1>1 DEF At
<1>7. Held(At(g))
  BY <1>0 DEF TInv, Catalog, Held, At
<1>8. Locals(g)'
  <2>1. Sound(name[g], catalog[name[g]].body)
    BY <1>0 DEF TInv, Catalog
  <2> QED
    BY <1>1, <1>2, <1>3, <1>5, <1>7, <2>1 DEF Locals, Held
<1>9. Current(g)'
  BY <1>1, <1>2, <1>3, <1>4, <1>5, <1>6 DEF Current, Unchanged
<1>10. Told(g)'
  BY <1>1, <1>3, <1>4, <1>5 DEF Told, Idle, Only
<1> QED
  BY <1>1, <1>4, <1>8, <1>9, <1>10, OtherWatches DEF TInv

LEMMA SoundFinite ==
    ASSUME NEW n \in Services, NEW body, Sound(n, body)
    PROVE  Finite(body)
BY DEF Sound, Finite

LEMMA NothingFinite == Finite(Nothing)
<1>1. DOMAIN Nothing = {}
  BY DEF Nothing
<1> QED
  BY <1>1, FS_EmptySet DEF Finite

\* A watch that returns.
LEMMA ReturnTInv ==
    ASSUME IInv, TInv, NEW g \in 1..spawned, WatchStop(g) \/ WatchCancelled(g) \/ WatchAbort(g)
    PROVE  TInv'
<1>1. UNCHANGED <<catalog, index, resets, spawned, name, first, countReady, timeline>>
  BY DEF WatchStop, WatchCancelled, WatchAbort, catalogVars, outVars
<1>2. Locals(g) /\ Current(g) /\ Told(g) /\ DOMAIN timeline = Names
  BY DEF TInv
<1>3. PICK m : Deliver(g, loc[g], m, TRUE) /\ \E M : m \in Seq(M)
  <2>1. CASE WatchStop(g)
    <3> DEFINE msgs == IF name[g] \in Services
                       THEN CompareService(loc[g].last, Nothing, {})
                       ELSE NodeGone(name[g], loc[g].last)
    <3>1. PICK m \in msgs : Deliver(g, loc[g], m, TRUE)
      BY <2>1 DEF WatchStop
    <3>2. CASE name[g] \in Services
      <4>1. Finite(loc[g].last)
        BY <1>2, <3>2, SoundFinite DEF Locals, Keeps
      <4>2. m \in CompareService(loc[g].last, Nothing, {})
        BY <3>2
      <4>3. \E M : m \in Seq(M)
        BY <4>1, <4>2, NothingFinite, ServiceTelling
      <4> QED
        BY <3>1, <4>3
    <3>3. CASE name[g] \notin Services
      <4>1. \E x : m = <<x>>
        BY <3>3 DEF NodeGone
      <4>2. \E M : m \in Seq(M)
        BY <4>1, OneMessage
      <4> QED
        BY <3>1, <4>2
    <3> QED
      BY <3>2, <3>3
  <2>2. CASE WatchCancelled(g) \/ WatchAbort(g)
    BY <2>2, NoMessage DEF WatchCancelled, WatchAbort
  <2> QED
    BY <2>1, <2>2
<1>4. /\ DOMAIN loc[g] = Fields /\ Held(loc[g].idx) /\ Keeps(name[g], loc[g].last)
      /\ ~first[g] /\ loc[g].idx = At(g) => loc[g].last = Kept(name[g], catalog[name[g]].body)
  BY <1>2 DEF Locals, Current
<1> QED
  BY <1>1, <1>2, <1>3, <1>4, Delivered

\* What a watch keeps of the answer it handles.
LEMMA KeptLocals ==
    ASSUME IInv, TInv, NEW g \in 1..spawned, wpc[g] = "handle", NEW l,
           l.idx = NextIndex(loc[g].idx, loc[g].answer.index),
           l.last = Kept(name[g], loc[g].answer.body)
    PROVE  /\ Held(l.idx) /\ Keeps(name[g], l.last)
           /\ l.idx = At(g) => l.last = Kept(name[g], catalog[name[g]].body)
<1>1. Locals(g) /\ Current(g)
  BY DEF TInv
<1>2. Held(loc[g].answer.index) /\ Held(0) /\ Sound(name[g], loc[g].answer.body)
  BY <1>1 DEF Locals, Held
<1>3. Held(l.idx) /\ (l.idx = 0 \/ l.idx = loc[g].answer.index)
  BY <1>2 DEF NextIndex
<1>4. Keeps(name[g], l.last)
  <2>1. CASE name[g] \in Services
    BY <1>2, <2>1 DEF Kept, Keeps
  <2>2. CASE name[g] \notin Services
    <3> DEFINE b == loc[g].answer.body
    <3>1. l.last = NodeChecks(b) /\ IsFiniteSet(DOMAIN b)
      BY <1>2, <2>2 DEF Kept, Sound
    <3>2. DOMAIN NodeChecks(b) = DOMAIN b \cap NodeCheckIDs
      BY DEF NodeChecks, Restrict
    <3>3. IsFiniteSet(DOMAIN NodeChecks(b))
      BY <3>1, <3>2, FS_Subset
    <3> QED
      BY <2>2, <3>1, <3>2, <3>3 DEF Keeps, Sound
  <2> QED
    BY <2>1, <2>2
<1>5. At(g) # 0
  <2>1. ListOf(name[g]) \in Lists
    BY DEF ListOf, Lists
  <2>2. index[ListOf(name[g])] \in Nat /\ index[ListOf(name[g])] > MaxResets - resets
        /\ resets \in 0..MaxResets
    BY <2>1 DEF TInv, Catalog
  <2>3. index[ListOf(name[g])] # 0
    BY <2>2
  <2> QED
    BY <2>3 DEF At
<1>6. l.idx = At(g) => l.last = Kept(name[g], catalog[name[g]].body)
  BY <1>1, <1>3, <1>5 DEF Current
<1> QED
  BY <1>3, <1>4, <1>6

\* The first answer is the baseline of the timeline.
LEMMA FirstTInv ==
    ASSUME IInv, TInv, NEW g \in 1..spawned, WatchFirst(g)
    PROVE  TInv'
<1> DEFINE n == name[g]
           new == Kept(n, loc[g].answer.body)
           kept == [loc[g] EXCEPT !.last = new,
                                  !.idx = NextIndex(loc[g].idx, loc[g].answer.index)]
<1>0. g \in WatchIDs /\ n \in Names /\ DOMAIN first = WatchIDs /\ DOMAIN timeline = Names
  BY DEF IInv, TInv, TypeOK, WatchIDs
<1>1. /\ wpc[g] = "handle"
      /\ first' = [first EXCEPT ![g] = FALSE]
      /\ timeline' = [timeline EXCEPT ![n] = IF countReady[g] THEN FactsOf(n, new) ELSE timeline[n]]
      /\ UNCHANGED <<catalog, index, resets, spawned, name, countReady>>
  BY DEF WatchFirst, catalogVars
<1>2. /\ DOMAIN timeline' = Names /\ \A x \in Names \ {n} : timeline'[x] = timeline[x]
      /\ countReady[g] => timeline'[n] = FactsOf(n, new)
      /\ \A h \in WatchIDs \ {g} : first'[h] = first[h]
  BY <1>0, <1>1
<1>3. DOMAIN loc[g] = Fields /\ Sound(n, loc[g].answer.body)
  BY <1>1 DEF TInv, Locals
<1>4. PICK l, m : /\ Deliver(g, l, m, FALSE) /\ DOMAIN l = Fields
                  /\ l.last = new /\ l.idx = NextIndex(loc[g].idx, loc[g].answer.index)
                  /\ \E M : m \in Seq(M)
                  /\ EventsIn(ToSet(m)) = {}
  <2>1. /\ DOMAIN kept = Fields /\ kept.last = new
        /\ kept.idx = NextIndex(loc[g].idx, loc[g].answer.index)
    BY <1>3 DEF Fields
  <2>2. CASE n \in Services
    <3>1. PICK m \in AnnounceService(new, DOMAIN new) :
             Deliver(g, [kept EXCEPT !.marks = Marked(new, kept.marks, DOMAIN new, 0)], m, FALSE)
      BY <2>2 DEF WatchFirst
    <3>2. IsFiniteSet(DOMAIN new)
      BY <1>3, <2>2 DEF Kept, Sound
    <3> DEFINE l == [kept EXCEPT !.marks = Marked(new, kept.marks, DOMAIN new, 0)]
    <3> HIDE DEF kept, new
    <3>3. DOMAIN l = Fields /\ l.last = new /\ l.idx = NextIndex(loc[g].idx, loc[g].answer.index)
      BY <2>1 DEF Fields
    <3>4. (\E M : m \in Seq(M)) /\ EventsIn(ToSet(m)) = {}
      BY <3>1, <3>2, AnnouncementsOnly
    <3> HIDE DEF l
    <3> QED
      BY <3>1, <3>3, <3>4 DEF l
  <2>3. CASE n \notin Services
    <3>1. Deliver(g, kept, <<>>, FALSE)
      BY <2>3 DEF WatchFirst
    <3>2. EventsIn(ToSet(<<>>)) = {}
      BY NoMessage DEF EventsIn
    <3> HIDE DEF kept, new
    <3> QED
      BY <2>1, <3>1, <3>2, NoMessage
  <2> QED
    BY <2>2, <2>3
<1> HIDE DEF new
<1>5. /\ Held(l.idx) /\ Keeps(n, l.last)
      /\ l.idx = At(g) => l.last = Kept(n, catalog[n].body)
  BY <1>1, <1>4, KeptLocals DEF new
<1>6. countReady[g] => Telling(timeline'[n], FactsOf(n, l.last), m)
  BY <1>2, <1>4, TellingNothing
<1> QED
  BY <1>1, <1>2, <1>4, <1>5, <1>6, Delivered

\* A later answer is compared with the one before unless its index is the same,
\* and then it is the same.
LEMMA NextTInv ==
    ASSUME IInv, TInv, NEW g \in 1..spawned, WatchNext(g)
    PROVE  TInv'
<1> DEFINE n == name[g]
           old == loc[g].last
           new == Kept(n, loc[g].answer.body)
           kept == [loc[g] EXCEPT !.last = new,
                                  !.idx = NextIndex(loc[g].idx, loc[g].answer.index)]
<1>1. /\ wpc[g] = "handle" /\ ~first[g]
      /\ UNCHANGED <<catalog, index, resets, spawned, name, first, countReady, timeline>>
  BY DEF WatchNext, catalogVars, outVars
<1>2. Locals(g) /\ Current(g) /\ Told(g) /\ DOMAIN timeline = Names
  BY DEF TInv
<1>3. DOMAIN loc[g] = Fields /\ Keeps(n, old)
  BY <1>2 DEF Locals
<1>4. Unchanged(g) => new = old
  BY <1>1, <1>2 DEF Current
<1>5. Keeps(n, new)
  <2> DEFINE k == [last |-> new, idx |-> NextIndex(loc[g].idx, loc[g].answer.index)]
  <2>1. k.last = new /\ k.idx = NextIndex(loc[g].idx, loc[g].answer.index)
    OBVIOUS
  <2> HIDE DEF k
  <2> QED
    BY <1>1, <2>1, KeptLocals
<1>6. PICK l, m : /\ Deliver(g, l, m, FALSE) /\ DOMAIN l = Fields
                  /\ l.last = new /\ l.idx = NextIndex(loc[g].idx, loc[g].answer.index)
                  /\ \E M : m \in Seq(M)
                  /\ Telling(FactsOf(n, old), FactsOf(n, new), m)
  <2>1. /\ DOMAIN kept = Fields /\ kept.last = new
        /\ kept.idx = NextIndex(loc[g].idx, loc[g].answer.index)
    BY <1>3 DEF Fields
  <2>2. CASE n \in Services
    <3>1. PICK due, marks1, m :
             /\ due \subseteq DOMAIN new
             /\ m \in (IF Unchanged(g) THEN AnnounceService(new, due) ELSE CompareService(old, new, due))
             /\ Deliver(g, [kept EXCEPT !.marks = marks1], m, FALSE)
      <4>1. PICK stale \in SUBSET DOMAIN loc[g].marks :
               LET forced == IF Unchanged(g) THEN {} ELSE DOMAIN new \ DOMAIN loc[g].last
                   due == Due(new, loc[g].marks, stale, forced)
                   marks1 == IF Unchanged(g) THEN Marked(new, loc[g].marks, due, 0)
                            ELSE CompareMarks(loc[g].last, new, loc[g].marks, due, 0)
                   msgs == IF Unchanged(g) THEN AnnounceService(new, due)
                           ELSE CompareService(loc[g].last, new, due)
               IN  \E m \in msgs : Deliver(g, [kept EXCEPT !.marks = marks1], m, FALSE)
        BY <2>2 DEF WatchNext
      <4> DEFINE forced == IF Unchanged(g) THEN {} ELSE DOMAIN new \ DOMAIN loc[g].last
                 due == Due(new, loc[g].marks, stale, forced)
      <4>2. due \subseteq DOMAIN new
        BY DEF Due
      <4> HIDE DEF kept, new
      <4> QED
        BY <4>1, <4>2
    <3> DEFINE l == [kept EXCEPT !.marks = marks1]
    <3>2. Finite(old) /\ Finite(new)
      BY <1>3, <1>5, <2>2, SoundFinite DEF Keeps
    <3>3. FactsOf(n, old) = ServiceFacts(old) /\ FactsOf(n, new) = ServiceFacts(new)
      BY <2>2 DEF FactsOf
    <3> HIDE DEF kept, new, old
    <3>4. DOMAIN l = Fields /\ l.last = new /\ l.idx = NextIndex(loc[g].idx, loc[g].answer.index)
      BY <2>1 DEF Fields
    <3>5. (\E M : m \in Seq(M)) /\ Telling(FactsOf(n, old), FactsOf(n, new), m)
      <4>1. CASE Unchanged(g)
        <5>1. IsFiniteSet(due)
          BY <3>1, <3>2, FS_Subset DEF Finite
        <5>2. m \in AnnounceService(new, due)
          BY <3>1, <4>1
        <5>3. (\E M : m \in Seq(M)) /\ EventsIn(ToSet(m)) = {}
          BY <5>1, <5>2, AnnouncementsOnly
        <5> QED
          BY <1>4, <4>1, <5>3, TellingNothing
      <4>2. CASE ~Unchanged(g)
        <5>1. m \in CompareService(old, new, due)
          BY <3>1, <4>2
        <5> QED
          BY <3>2, <3>3, <5>1, ServiceTelling
      <4> QED
        BY <4>1, <4>2
    <3> HIDE DEF l
    <3> QED
      BY <3>1, <3>4, <3>5 DEF l
  <2>3. CASE n \notin Services
    <3>1. PICK m \in (IF Unchanged(g) THEN {<<>>} ELSE CompareNode(n, old, new)) :
             Deliver(g, kept, m, FALSE)
      BY <2>3 DEF WatchNext
    <3>2. /\ IsFiniteSet(DOMAIN old) /\ IsFiniteSet(DOMAIN new)
          /\ DOMAIN old \cup DOMAIN new \subseteq NodeCheckIDs
      BY <1>3, <1>5, <2>3 DEF Keeps, Sound
    <3>3. FactsOf(n, old) = NodeFacts(n, old) /\ FactsOf(n, new) = NodeFacts(n, new)
      BY <2>3 DEF FactsOf
    <3> HIDE DEF kept, new, old
    <3>4. (\E M : m \in Seq(M)) /\ Telling(FactsOf(n, old), FactsOf(n, new), m)
      <4>1. CASE Unchanged(g)
        <5>1. m = <<>>
          BY <3>1, <4>1
        <5>2. (\E M : m \in Seq(M)) /\ EventsIn(ToSet(m)) = {}
          BY <5>1, NoMessage DEF EventsIn
        <5> QED
          BY <1>4, <4>1, <5>2, TellingNothing
      <4>2. CASE ~Unchanged(g)
        <5>1. m \in CompareNode(n, old, new)
          BY <3>1, <4>2
        <5> QED
          BY <3>2, <3>3, <5>1, NodeTelling
      <4> QED
        BY <4>1, <4>2
    <3> QED
      BY <2>1, <3>1, <3>4
  <2> QED
    BY <2>2, <2>3
<1>7. countReady[g] /\ Only(g) => timeline[n] = FactsOf(n, old)
  <2>1. Idle(g) /\ EventsIn(ToSet(<<>>)) = {}
    BY <1>1, NoMessage DEF Idle, EventsIn
  <2>2. countReady[g] /\ Only(g) => Telling(timeline[n], FactsOf(n, old), <<>>)
    BY <1>1, <1>2, <2>1 DEF Told
  <2> QED
    BY <2>1, <2>2, TellingNothing
<1> HIDE DEF new, old
<1>8. /\ Held(l.idx) /\ Keeps(n, l.last)
      /\ l.idx = At(g) => l.last = Kept(n, catalog[n].body)
  BY <1>1, <1>6, KeptLocals DEF new
<1>9. countReady[g] /\ Only(g) => Telling(timeline'[n], FactsOf(n, l.last), m)
  BY <1>1, <1>6, <1>7
<1> QED
  BY <1>1, <1>2, <1>6, <1>8, <1>9, Delivered

\* A message sent is one the reader has learnt of.
LEMMA SendTInv ==
    ASSUME IInv, TInv, NEW g \in 1..spawned, WatchSend(g)
    PROVE  TInv'
<1> DEFINE n == name[g]
           box == loc[g].outbox
           F == FactsOf(n, loc[g].last)
           final == wpc[g] = "lastSend"
<1>0. n \in Names /\ DOMAIN timeline = Names
  BY DEF IInv, TInv, TypeOK
<1>1. /\ wpc[g] \in {"send", "lastSend"}
      /\ timeline' = [timeline EXCEPT ![n] =
            IF Head(box).to = "events" THEN Learn(timeline[n], Head(box).what, F) ELSE timeline[n]]
      /\ Deliver(g, loc[g], Tail(box), final)
      /\ UNCHANGED <<catalog, index, resets, spawned, name, first, countReady>>
  BY DEF WatchSend, catalogVars
<1>2. Locals(g) /\ Current(g) /\ Told(g)
  BY DEF TInv
<1>3. /\ DOMAIN timeline' = Names
      /\ \A x \in Names \ {n} : timeline'[x] = timeline[x]
      /\ timeline'[n] = IF Head(box).to = "events" THEN Learn(timeline[n], Head(box).what, F)
                        ELSE timeline[n]
  BY <1>0, <1>1
<1>4. box # <<>> /\ \E M : box \in Seq(M)
  BY <1>1, <1>2 DEF Told
<1>5. PICK M : box \in Seq(M)
  BY <1>4
<1>6. Tail(box) \in Seq(M)
  BY <1>4, <1>5, HeadAndTail
<1>7. countReady[g] /\ ~first[g] /\ Only(g) /\ ~final => Telling(timeline[n], F, box)
  BY <1>1, <1>2 DEF Told
<1> HIDE DEF box, F
<1>8. countReady[g] /\ ~first[g] /\ Only(g) /\ ~final => Telling(timeline'[n], F, Tail(box))
  BY <1>3, <1>4, <1>5, <1>7, TellingStep
<1>9. /\ DOMAIN loc[g] = Fields /\ Held(loc[g].idx) /\ Keeps(n, loc[g].last)
      /\ ~first[g] /\ loc[g].idx = At(g) => loc[g].last = Kept(n, catalog[n].body)
  BY <1>2 DEF Locals, Current
<1>10. final \in BOOLEAN
  OBVIOUS
<1> HIDE DEF final
<1> QED
  BY <1>1, <1>3, <1>6, <1>8, <1>9, <1>10, Delivered DEF F

LEMMA NextTellsTInv == IInv /\ TInv /\ [Next]_vars => TInv'
<1> SUFFICES ASSUME IInv, TInv, [Next]_vars PROVE TInv'
  OBVIOUS
<1>1. ASSUME NEW n \in Names, NEW s \in Possible[n], Change(n, s) PROVE TInv'
  BY <1>1, ChangeTInv
<1>2. ASSUME NEW l \in Lists, Reset(l) PROVE TInv'
  BY <1>2, ResetTInv
<1>3. ASSUME NEW l \in Lists,
             \/ ListTop(l) \/ ListReply(l) \/ ListError(l) \/ ListWake(l)
             \/ ListSame(l) \/ SyncBegin(l) \/ SyncEnd(l)
      PROVE  TInv'
  <2>1. UNCHANGED <<catalog, index, resets, spawned, name, wpc, first, countReady, loc, timeline>>
    BY <1>3 DEF ListTop, ListReply, ListError, ListWake, ListSame, SyncBegin, SyncEnd,
       catalogVars, watchVars, outVars
  <2> QED
    BY <2>1, QuietTInv
<1>4. ASSUME NEW l \in Lists, NEW n \in Names, SyncAdd(l, n) PROVE TInv'
  BY <1>4, SyncAddTInv
<1>5. ASSUME NEW g \in 1..spawned, WatchError(g) \/ WatchStep(g) PROVE TInv'
  BY <1>5, LoopTInv, ReplyTInv, ReturnTInv, FirstTInv, NextTInv, SendTInv DEF WatchStep
<1>6. CASE (\E c \in Channels : Consume(c)) \/ Cancel \/ UNCHANGED vars
  <2>1. UNCHANGED <<catalog, index, resets, spawned, name, wpc, first, countReady, loc, timeline>>
    BY <1>6 DEF Consume, Cancel, vars, catalogVars, watchVars, outVars
  <2> QED
    BY <2>1, QuietTInv
<1> QED
  BY <1>1, <1>2, <1>3, <1>4, <1>5, <1>6 DEF Next, ListStep

\* For a service or node of the start, the events sent so far add up to the
\* state its watch last saw, whatever Consul, the errors, the other watches and
\* the readers of the channels do: nothing is lost, repeated or made up.
THEOREM EventsTellState == Spec => []TimelineTruthful
<1>1. TInv => TimelineTruthful
  <2> SUFFICES ASSUME TInv, NEW g \in 1..spawned, countReady[g], Sole(g)
               PROVE  timeline[name[g]] = FactsOf(name[g], loc[g].last)
    BY DEF TimelineTruthful
  <2>1. Told(g) /\ Idle(g) /\ Only(g) /\ ~first[g]
    BY DEF TInv, Sole, Idle, Only
  <2>2. Telling(timeline[name[g]], FactsOf(name[g], loc[g].last), <<>>)
    BY <2>1 DEF Told
  <2>3. EventsIn(ToSet(<<>>)) = {}
    BY NoMessage DEF EventsIn
  <2> QED
    BY <2>2, <2>3, TellingNothing
<1> QED
  BY <1>1, InitTInv, NextTellsTInv, Invariance, PTL DEF Spec
=============================================================================
