---------------------------- MODULE StreamProofs ----------------------------
(***************************************************************************)
(* Proofs about the live stream: the hub and the channels of its clients,  *)
(* for any number of clients, events and breaks.                           *)
(*                                                                         *)
(* What a client loses is lost while its channel is full.  From then on    *)
(* its handler takes one event more, which is older than the one lost, and *)
(* returns after it (Dropping).                                            *)
(***************************************************************************)
EXTENDS Stream, FiniteSetTheorems, TLAPS

\* Nothing on the way to a client is newer than the latest event published.
Bounded ==
    \A c \in Clients :
        /\ \A k \in 1..Len(ch[c]) : ch[c][k] <= count
        /\ cur[c] <= count /\ wrote[c] <= count /\ lost[c] <= count

Dropping ==
    \A c \in Clients :
        /\ overflow[c] <=> lost[c] # 0
        /\ pc[c] = "write" <=> cur[c] # 0
        /\ lost[c] # 0 => wrote[c] < lost[c] /\ cur[c] < lost[c]
        /\ lost[c] # 0 /\ pc[c] # "write" =>
              /\ Len(ch[c]) = Capacity
              /\ \A k \in 1..Len(ch[c]) : ch[c][k] < lost[c]

IInv == TypeOK /\ HubConsistent /\ Bounded /\ Dropping

-----------------------------------------------------------------------------
LEMMA IInvInit == Init => IInv
  <1> SUFFICES ASSUME Init PROVE IInv
    OBVIOUS
  <1> USE CapacityAssumption, MaxEventsAssumption
  <1>1. TypeOK
    <2>1. /\ closed \in BOOLEAN /\ chClosed \in [Clients -> BOOLEAN]
          /\ overflow \in [Clients -> BOOLEAN]
      BY DEF Init
    <2>2. ch \in [Clients -> Seq(Number)] /\ \A c \in Clients : Len(ch[c]) <= Capacity
      BY DEF Init
    <2>3. /\ cur \in [Clients -> Number \cup {0}] /\ lost \in [Clients -> Number \cup {0}]
          /\ wrote \in [Clients -> Number \cup {0}]
          /\ missed \in [Clients -> SUBSET [id : Number, time : Nat]]
          /\ got \in [Clients -> SUBSET Number]
          /\ time \in [Number -> Nat] /\ count \in 0..MaxEvents
          /\ settled \in 0..count /\ store \subseteq 1..settled /\ hub \subseteq Clients
          /\ pc \in [Clients -> {"off", "subscribe", "since", "replay", "wait", "write"}]
      BY DEF Init
    <2> QED BY <2>1, <2>2, <2>3 DEF Init, TypeOK
  <1>2. HubConsistent
    BY DEF Init, HubConsistent, Connected
  <1>3. Bounded
    BY DEF Init, Bounded
  <1>4. Dropping
    BY DEF Init, Dropping
  <1> QED BY <1>1, <1>2, <1>3, <1>4 DEF IInv

-----------------------------------------------------------------------------
(* Steps that leave the channels and the hub alone.                        *)

LEMMA QuietStep ==
    ASSUME IInv, TypeOK', NEW c \in Clients, UNCHANGED <<count, hubVars, cur, wrote>>,
           \A d \in Clients : d # c => pc'[d] = pc[d],
           pc[c] # "write" /\ pc'[c] # "write",
           Connected(c) <=> Connected(c)'
    PROVE  IInv'
  <1>1. HubConsistent'
    BY DEF IInv, HubConsistent, Connected, hubVars
  <1>2. Bounded'
    BY DEF IInv, Bounded, hubVars
  <1>3. Dropping'
    BY DEF IInv, Dropping, hubVars
  <1> QED BY <1>1, <1>2, <1>3 DEF IInv

\* The handler of c returns.
LEMMA LeaveStep ==
    ASSUME IInv, TypeOK', NEW c \in Clients, Leave(c), UNCHANGED <<count, closed>>,
           cur' = [cur EXCEPT ![c] = 0]
    PROVE  IInv'
  <1> USE CapacityAssumption, MaxEventsAssumption
  <1>1. HubConsistent'
    BY DEF IInv, TypeOK, HubConsistent, Connected, Leave
  <1>2. Bounded'
    BY DEF IInv, TypeOK, Bounded, Leave
  <1>3. Dropping'
    BY DEF IInv, TypeOK, Dropping, Leave
  <1> QED BY <1>1, <1>2, <1>3 DEF IInv

LEMMA LeaveTypeOK ==
    ASSUME TypeOK, NEW c \in Clients, Leave(c), UNCHANGED <<pubVars, backend, closed>>,
           cur' = [cur EXCEPT ![c] = 0],
           got' \in [Clients -> SUBSET Number]
    PROVE  TypeOK'
  <1> USE CapacityAssumption, MaxEventsAssumption
  <1>1. ch' \in [Clients -> Seq(Number)] /\ \A d \in Clients : Len(ch'[d]) <= Capacity
    BY DEF TypeOK, Leave
  <1>2. hub' \subseteq Clients
    BY DEF TypeOK, Leave
  <1>3. missed' \in [Clients -> SUBSET [id : Number, time : Nat]]
    BY DEF TypeOK, Leave
  <1>4. /\ chClosed' \in [Clients -> BOOLEAN] /\ overflow' \in [Clients -> BOOLEAN]
        /\ cur' \in [Clients -> Number \cup {0}] /\ lost' \in [Clients -> Number \cup {0}]
        /\ wrote' \in [Clients -> Number \cup {0}]
        /\ pc' \in [Clients -> {"off", "subscribe", "since", "replay", "wait", "write"}]
    BY DEF TypeOK, Leave
  <1> QED BY <1>1, <1>2, <1>3, <1>4 DEF TypeOK, pubVars

-----------------------------------------------------------------------------
(* The rows of a replay.                                                   *)

\* A set of naturals has a smallest element: the induction of the next lemma.
LEMMA Smallest ==
    ASSUME NEW T \in SUBSET Nat, T # {}
    PROVE  \E n \in T : \A m \in T : n <= m
  <1>1. PICK n \in T : \A m \in T : ~(<<m, n>> \in OpToRel(<, Nat))
    BY NatLessThanWellFounded, WFMin
  <1>2. \A m \in T : ~(m < n)
    BY <1>1 DEF OpToRel
  <1> QED BY <1>2

\* When Oldest leaves a row out it has as many as it was asked for.  Of the rows
\* left out take one with the fewest older ones: these are all in the answer.
LEMMA OldestFills ==
    ASSUME NEW S, IsFiniteSet(S), NEW n \in Nat,
           \A r \in S : r.id \in Nat /\ r.time \in Nat,
           NEW x \in S, x \notin Oldest(S, n)
    PROVE  Cardinality(Oldest(S, n)) >= n
  <1> DEFINE Older(r) == {s \in S : Newer(r, s)}
             Cut == {r \in S : ~(Cardinality(Older(r)) < n)}
             Sizes == {Cardinality(Older(r)) : r \in Cut}
  <1>1. \A r \in S : IsFiniteSet(Older(r)) /\ Cardinality(Older(r)) \in Nat
    BY FS_Subset, FS_CardinalityType
  <1>2. Sizes \in SUBSET Nat /\ Sizes # {}
    BY <1>1 DEF Oldest
  <1>3. PICK m \in Sizes : \A k \in Sizes : m <= k
    BY <1>2, Smallest
  <1>4. PICK r \in Cut : m = Cardinality(Older(r))
    BY <1>3
  <1> HIDE DEF Sizes
  <1>5. ASSUME NEW s \in Older(r) PROVE s \in Oldest(S, n)
    <2>0. r \in S /\ s \in S
      BY <1>4, <1>5
    <2>1. Older(s) \subseteq Older(r) /\ s \in Older(r) /\ s \notin Older(s)
      BY <2>0, <1>5 DEF Newer
    <2> HIDE DEF Older
    <2>2. Cardinality(Older(s)) <= Cardinality(Older(r)) /\ Cardinality(Older(s)) # Cardinality(Older(r))
      BY <1>1, <2>0, <2>1, FS_Subset
    <2>3. Cardinality(Older(s)) < m
      BY <1>1, <1>4, <2>0, <2>2
    <2>4. s \notin Cut
      BY <1>1, <1>3, <2>0, <2>3 DEF Sizes
    <2> QED BY <2>0, <2>4 DEF Oldest, Older
  <1>6. IsFiniteSet(Oldest(S, n)) /\ Cardinality(Oldest(S, n)) \in Nat
    BY FS_Subset, FS_CardinalityType DEF Oldest
  <1>7. Cardinality(Older(r)) <= Cardinality(Oldest(S, n))
    BY <1>5, <1>6, FS_Subset
  <1>8. r \in S /\ ~(Cardinality(Older(r)) < n)
    BY <1>4
  <1> HIDE DEF Older, Cut
  <1> QED BY <1>1, <1>6, <1>7, <1>8

LEMMA StoredTimeType ==
    ASSUME NEW b \in Backends, NEW t \in Nat
    PROVE  StoredTime(b, t) \in Nat
  <1>1. b = "memory" \/ b = "mysql" \/ b = "mariadb"
    BY DEF Backends, Databases
  <1>2. (t + 1) \div 2 \in Nat /\ t \div 2 \in Nat
    OBVIOUS
  <1> QED BY <1>1, <1>2 DEF StoredTime, OfMs, Ms, Milli

LEMMA RowsType == TypeOK => StoredRows \subseteq [id : Number, time : Nat]
  <1> SUFFICES ASSUME TypeOK, NEW i \in store
               PROVE  [id |-> i, time |-> StoredTime(backend, time[i])] \in [id : Number, time : Nat]
    BY DEF StoredRows
  <1>1. i \in Number
    BY MaxEventsAssumption DEF TypeOK, Number
  <1>2. time[i] \in Nat /\ backend \in Backends
    BY <1>1, StoresAssumption DEF TypeOK
  <1> QED BY <1>1, <1>2, StoredTimeType

LEMMA ReplayType ==
    ASSUME TypeOK, NEW c \in Clients
    PROVE  Replay(c) \subseteq [id : Number, time : Nat]
  <1>1. Replay(c) \subseteq StoredRows
    BY DEF Replay, Since, Oldest
  <1> QED BY <1>1, RowsType

-----------------------------------------------------------------------------
(* The actions.                                                            *)

LEMMA PublishStep == IInv /\ Publish => IInv'
  <1> SUFFICES ASSUME IInv, Publish PROVE IInv'
    OBVIOUS
  <1> USE CapacityAssumption, MaxEventsAssumption
  <1> DEFINE e == count + 1
             room == {c \in Reached(e) : Room(c)}
             full == Reached(e) \ room
  <1>1. /\ e \in Number /\ count \in Nat /\ count' = e
        /\ ch' = [c \in Clients |-> IF c \in room THEN Append(ch[c], e) ELSE ch[c]]
        /\ overflow' = [c \in Clients |-> overflow[c] \/ c \in full]
        /\ lost' = [c \in Clients |-> IF c \in full /\ lost[c] = 0 THEN e ELSE lost[c]]
        /\ UNCHANGED <<settled, store, ctlVars, handlerVars, closed, hub, chClosed, clientVars>>
    BY DEF Publish, IInv, TypeOK, Number
  <1>2. time' \in [Number -> Nat]
    BY <1>1, TimesAssumption DEF Publish, IInv, TypeOK
  <1>0. /\ e \in Nat /\ e = count + 1
        /\ \A c \in room : Len(ch[c]) < Capacity /\ c \notin full
        /\ \A c \in full : ~(Len(ch[c]) < Capacity)
    BY <1>1 DEF Room
  <1> HIDE DEF e, room, full
  <1>3. ASSUME NEW c \in Clients
        PROVE  /\ ch'[c] \in Seq(Number) /\ Len(ch'[c]) <= Capacity
               /\ lost'[c] \in Number \cup {0} /\ overflow'[c] \in BOOLEAN
               /\ \A k \in 1..Len(ch'[c]) : ch'[c][k] <= e
               /\ cur[c] <= e /\ wrote[c] <= e /\ lost'[c] <= e
               /\ overflow'[c] <=> lost'[c] # 0
               /\ lost'[c] # 0 => wrote[c] < lost'[c] /\ cur[c] < lost'[c]
               /\ lost'[c] # 0 /\ pc[c] # "write" =>
                     /\ Len(ch'[c]) = Capacity
                     /\ \A k \in 1..Len(ch'[c]) : ch'[c][k] < lost'[c]
    <2>1. /\ ch[c] \in Seq(Number) /\ Len(ch[c]) \in Nat /\ Len(ch[c]) <= Capacity
          /\ \A k \in 1..Len(ch[c]) : ch[c][k] \in Number /\ ch[c][k] <= count
          /\ cur[c] \in Nat /\ wrote[c] \in Nat /\ lost[c] \in Nat
          /\ cur[c] <= count /\ wrote[c] <= count /\ lost[c] <= count
          /\ lost[c] \in Number \cup {0} /\ overflow[c] \in BOOLEAN
      <3>1. /\ ch[c] \in Seq(Number) /\ Len(ch[c]) <= Capacity
            /\ cur[c] \in Number \cup {0} /\ wrote[c] \in Number \cup {0}
            /\ lost[c] \in Number \cup {0} /\ overflow[c] \in BOOLEAN
        BY <1>3 DEF IInv, TypeOK
      <3>2. /\ \A k \in 1..Len(ch[c]) : ch[c][k] <= count
            /\ cur[c] <= count /\ wrote[c] <= count /\ lost[c] <= count
        BY <1>3 DEF IInv, Bounded
      <3>3. Len(ch[c]) \in Nat /\ \A k \in 1..Len(ch[c]) : ch[c][k] \in Number
        BY <3>1
      <3>4. cur[c] \in Nat /\ wrote[c] \in Nat /\ lost[c] \in Nat
        BY <3>1 DEF Number
      <3> QED BY <3>1, <3>2, <3>3, <3>4
    <2>2. /\ overflow[c] <=> lost[c] # 0
          /\ lost[c] # 0 => wrote[c] < lost[c] /\ cur[c] < lost[c]
          /\ lost[c] # 0 /\ pc[c] # "write" =>
                /\ Len(ch[c]) = Capacity
                /\ \A k \in 1..Len(ch[c]) : ch[c][k] < lost[c]
      BY <1>3 DEF IInv, Dropping
    <2>3. CASE c \in room
      <3>1. ch'[c] = Append(ch[c], e) /\ lost'[c] = lost[c] /\ overflow'[c] = overflow[c]
            /\ Len(ch[c]) < Capacity
        BY <2>1, <2>3, <1>0, <1>1, <1>3
      <3>2. /\ ch'[c] \in Seq(Number) /\ Len(ch'[c]) = Len(ch[c]) + 1
            /\ \A k \in 1..Len(ch'[c]) : ch'[c][k] <= e
        <4>1. ch'[c] \in Seq(Number) /\ Len(ch'[c]) = Len(ch[c]) + 1
          BY <3>1, <2>1, <1>1
        <4>2. \A k \in 1..Len(ch[c]) : ch'[c][k] = ch[c][k]
          BY <3>1, <2>1, <1>1
        <4>3. ch'[c][Len(ch[c]) + 1] = e
          BY <3>1, <2>1, <1>1
        <4>4. \A k \in 1..Len(ch[c]) : ch[c][k] <= e
          BY <2>1, <1>0, <1>1 DEF Number
        <4>5. ASSUME NEW k \in 1..Len(ch'[c]) PROVE ch'[c][k] <= e
          <5>1. k \in 1..Len(ch[c]) \/ k = Len(ch[c]) + 1
            BY <4>1, <2>1
          <5> QED BY <5>1, <4>2, <4>3, <4>4, <1>0
        <4> QED BY <4>1, <4>5
      <3>3. Len(ch'[c]) <= Capacity /\ cur[c] <= e /\ wrote[c] <= e /\ lost[c] <= e
        BY <3>1, <3>2, <2>1, <1>0, <1>1
      <3>4. lost[c] # 0 => pc[c] = "write"
        BY <3>1, <2>1, <2>2
      <3> QED BY <3>1, <3>2, <3>3, <3>4, <2>1, <2>2
    <2>4. CASE c \in full
      <3>0. c \notin room /\ Len(ch[c]) = Capacity
        BY <2>1, <2>4, <1>0
      <3>1. /\ ch'[c] = ch[c] /\ Len(ch[c]) = Capacity
            /\ overflow'[c] /\ overflow'[c] \in BOOLEAN
            /\ lost'[c] = IF lost[c] = 0 THEN e ELSE lost[c]
        BY <3>0, <2>4, <1>1, <1>3
      <3>2. CASE lost[c] = 0
        <4>1. lost'[c] = e /\ e # 0 /\ lost'[c] <= e /\ cur[c] < e /\ wrote[c] < e
          BY <3>1, <3>2, <2>1, <1>0, <1>1
        <4>2. \A k \in 1..Len(ch[c]) : ch[c][k] < e
          BY <2>1, <1>0, <1>1 DEF Number
        <4>3. \A k \in 1..Len(ch[c]) : ch[c][k] <= e
          BY <4>2, <2>1, <1>0 DEF Number
        <4> QED BY <4>1, <4>2, <4>3, <3>1, <2>1, <1>0, <1>1
      <3>3. CASE lost[c] # 0
        BY <3>1, <3>3, <2>1, <2>2, <1>0, <1>1 DEF Number
      <3> QED BY <3>2, <3>3
    <2>5. CASE c \notin room /\ c \notin full
      <3>1. ch'[c] = ch[c] /\ lost'[c] = lost[c] /\ overflow'[c] = overflow[c]
        BY <2>1, <2>5, <1>1, <1>3
      <3> QED BY <3>1, <2>1, <2>2, <1>0, <1>1 DEF Number
    <2> QED BY <2>3, <2>4, <2>5
  <1>4. TypeOK'
    <2>1. /\ ch' \in [Clients -> Seq(Number)] /\ lost' \in [Clients -> Number \cup {0}]
          /\ overflow' \in [Clients -> BOOLEAN]
          /\ \A c \in Clients : Len(ch'[c]) <= Capacity
      BY <1>1, <1>3
    <2>2. count' \in 0..MaxEvents /\ settled' \in 0..count' /\ store' \subseteq 1..settled'
      BY <1>0, <1>1 DEF IInv, TypeOK, Number
    <2> QED BY <1>1, <1>2, <2>1, <2>2 DEF IInv, TypeOK, ctlVars, handlerVars, clientVars
  <1>5. HubConsistent'
    BY <1>1 DEF IInv, HubConsistent, Connected, handlerVars
  <1>6. Bounded' /\ Dropping'
    <2>1. pc' = pc /\ cur' = cur /\ wrote' = wrote
      BY <1>1 DEF handlerVars
    <2>2. Bounded'
      BY <1>1, <1>3, <2>1 DEF Bounded
    <2>3. \A c \in Clients : pc[c] = "write" <=> cur[c] # 0
      BY DEF IInv, Dropping
    <2>4. Dropping'
      BY <1>3, <2>1, <2>3 DEF Dropping
    <2> QED BY <2>2, <2>4
  <1> QED BY <1>4, <1>5, <1>6 DEF IInv

LEMMA StoreStep == IInv /\ (Stored \/ Dropped) => IInv'
  <1> SUFFICES ASSUME IInv, Stored \/ Dropped PROVE IInv'
    OBVIOUS
  <1>1. TypeOK'
    <2>0. settled \in Nat /\ count \in Nat /\ settled < count /\ count' = count
          /\ settled' = settled + 1 /\ store \subseteq 1..settled
          /\ store' \subseteq store \cup {settled + 1}
      BY MaxEventsAssumption DEF IInv, TypeOK, Stored, Dropped
    <2>1. settled' \in 0..count' /\ store' \subseteq 1..settled'
      BY <2>0
    <2> QED BY <2>1 DEF IInv, TypeOK, Stored, Dropped, ctlVars, handlerVars, hubVars, clientVars
  <1>2. HubConsistent' /\ Bounded' /\ Dropping'
    BY DEF IInv, HubConsistent, Connected, Bounded, Dropping, Stored, Dropped, handlerVars, hubVars
  <1> QED BY <1>1, <1>2 DEF IInv

LEMMA CloseHubStep == IInv /\ CloseHub => IInv'
  <1> SUFFICES ASSUME IInv, CloseHub PROVE IInv'
    OBVIOUS
  <1>1. TypeOK'
    BY DEF IInv, TypeOK, CloseHub, pubVars, ctlVars, handlerVars, clientVars
  <1>2. HubConsistent'
    BY DEF IInv, TypeOK, HubConsistent, Connected, CloseHub, handlerVars
  <1>3. Bounded' /\ Dropping'
    BY DEF IInv, Bounded, Dropping, CloseHub, pubVars, handlerVars
  <1> QED BY <1>1, <1>2, <1>3 DEF IInv

LEMMA OpenStep ==
    ASSUME IInv, NEW c \in Clients, Open(c)
    PROVE  IInv'
  <1>1. TypeOK'
    BY DEF IInv, TypeOK, Open, pubVars, ctlVars, hubVars, clientVars
  <1>2. \A d \in Clients : d # c => pc'[d] = pc[d]
    BY DEF IInv, TypeOK, Open
  <1>3. pc[c] = "off" /\ pc'[c] = "subscribe"
    BY DEF IInv, TypeOK, Open
  <1>4. UNCHANGED <<count, hubVars, cur, wrote>>
    BY DEF Open, pubVars
  <1> QED BY <1>1, <1>2, <1>3, <1>4, QuietStep DEF Connected

LEMMA SubscribeStep ==
    ASSUME IInv, NEW c \in Clients, Subscribe(c)
    PROVE  IInv'
  <1>1. /\ pc[c] = "subscribe" /\ pc'[c] \in {"since", "wait"}
        /\ \A d \in Clients : d # c => pc'[d] = pc[d] /\ chClosed'[d] = chClosed[d]
        /\ chClosed'[c] = closed
        /\ hub' = IF closed THEN hub ELSE hub \cup {c}
        /\ UNCHANGED <<count, cur, wrote, closed, ch, overflow, lost>>
    BY DEF Subscribe, BornClosed, IInv, TypeOK, pubVars
  <1>2. TypeOK'
    <2>1. hub' \subseteq Clients /\ chClosed' \in [Clients -> BOOLEAN]
          /\ pc' \in [Clients -> {"off", "subscribe", "since", "replay", "wait", "write"}]
      BY DEF IInv, TypeOK, Subscribe, BornClosed
    <2> QED BY <2>1 DEF IInv, TypeOK, Subscribe, pubVars, ctlVars, clientVars
  <1>3. HubConsistent'
    BY <1>1 DEF IInv, TypeOK, HubConsistent, Connected
  <1>4. Bounded'
    BY <1>1 DEF IInv, Bounded
  <1>5. Dropping'
    BY <1>1 DEF IInv, Dropping
  <1> QED BY <1>2, <1>3, <1>4, <1>5 DEF IInv

LEMMA ReplayStep ==
    ASSUME IInv, NEW c \in Clients,
           ReadSince(c) \/ SinceFails(c) \/ ReplayNext(c) \/ ReplayDone(c)
    PROVE  IInv'
  <1>1. /\ \A d \in Clients : d # c => pc'[d] = pc[d]
        /\ pc[c] \in {"since", "replay"} /\ pc'[c] \in {"replay", "wait"}
        /\ UNCHANGED <<count, hubVars, cur, wrote>>
    BY DEF IInv, TypeOK, ReadSince, SinceFails, ReplayNext, ReplayDone, pubVars
  <1>2. missed' \in [Clients -> SUBSET [id : Number, time : Nat]]
    <2>1. CASE ReadSince(c)
      BY <2>1, ReplayType DEF ReadSince, IInv, TypeOK
    <2>2. CASE SinceFails(c)
      <3>1. PICK n \in 0..ReplayLimit : missed' = [missed EXCEPT ![c] = Oldest(Replay(c), n)]
        BY <2>2 DEF SinceFails
      <3>2. Oldest(Replay(c), n) \subseteq Replay(c)
        BY DEF Oldest
      <3> QED BY <3>1, <3>2, ReplayType DEF IInv, TypeOK
    <2>3. CASE ReplayNext(c)
      BY <2>3 DEF ReplayNext, IInv, TypeOK
    <2>4. CASE ReplayDone(c)
      BY <2>4 DEF ReplayDone, IInv, TypeOK
    <2> QED BY <2>1, <2>2, <2>3, <2>4
  <1>3. got' \in [Clients -> SUBSET Number]
    <2>1. CASE ReplayNext(c)
      <3>1. PICK r \in missed[c] : got' = [got EXCEPT ![c] = @ \cup {r.id}] \/ got' = got
        BY <2>1 DEF ReplayNext, Oldest, Receive, clientVars
      <3>2. r.id \in Number
        BY <3>1 DEF IInv, TypeOK
      <3>3. got \in [Clients -> SUBSET Number]
        BY DEF IInv, TypeOK
      <3>4. got[c] \cup {r.id} \in SUBSET Number
        BY <3>2, <3>3
      <3>5. [got EXCEPT ![c] = got[c] \cup {r.id}] \in [Clients -> SUBSET Number]
        BY <3>3, <3>4
      <3> QED BY <3>1, <3>3, <3>5
    <2>2. CASE ~ReplayNext(c)
      BY <2>2 DEF ReadSince, SinceFails, ReplayDone, clientVars, IInv, TypeOK
    <2> QED BY <2>1, <2>2
  <1>4. pc' \in [Clients -> {"off", "subscribe", "since", "replay", "wait", "write"}]
    BY DEF IInv, TypeOK, ReadSince, SinceFails, ReplayNext, ReplayDone
  <1>5. TypeOK'
    <2>1. UNCHANGED <<backend, time, count, settled, store>>
      BY DEF ReadSince, SinceFails, ReplayNext, ReplayDone, pubVars, ctlVars
    <2> QED BY <1>1, <1>2, <1>3, <1>4, <2>1 DEF IInv, TypeOK, hubVars
  <1> QED BY <1>1, <1>5, QuietStep DEF Connected

LEMMA TakeStep ==
    ASSUME IInv, NEW c \in Clients, Take(c)
    PROVE  IInv'
  <1> USE CapacityAssumption, MaxEventsAssumption
  <1> DEFINE s == ch[c]
  <1>1. /\ s \in Seq(Number) /\ s # <<>> /\ Len(s) \in Nat \ {0} /\ Len(s) <= Capacity
        /\ \A k \in 1..Len(s) : s[k] <= count
        /\ Head(s) = s[1] /\ s[1] \in Number
        /\ Tail(s) \in Seq(Number) /\ Len(Tail(s)) = Len(s) - 1
        /\ \A k \in 1..Len(s) - 1 : Tail(s)[k] = s[k + 1]
    BY DEF IInv, TypeOK, Bounded, Take
  <1>2. /\ pc[c] = "wait" /\ pc' = [pc EXCEPT ![c] = "write"]
        /\ cur' = [cur EXCEPT ![c] = s[1]] /\ ch' = [ch EXCEPT ![c] = Tail(s)]
        /\ UNCHANGED <<pubVars, backend, missed, wrote, closed, hub, chClosed, overflow, lost, got>>
    BY <1>1 DEF Take, ctlVars, clientVars
  <1> HIDE DEF s
  <1>3. TypeOK'
    <2>1. ch' \in [Clients -> Seq(Number)]
      BY <1>1, <1>2 DEF IInv, TypeOK
    <2>2. \A d \in Clients : Len(ch'[d]) <= Capacity
      <3>1. Len(ch'[c]) <= Capacity
        BY <1>1, <1>2 DEF IInv, TypeOK
      <3>2. \A d \in Clients : d # c => ch'[d] = ch[d]
        BY <1>2 DEF IInv, TypeOK
      <3> QED BY <3>1, <3>2 DEF IInv, TypeOK
    <2>3. cur' \in [Clients -> Number \cup {0}]
          /\ pc' \in [Clients -> {"off", "subscribe", "since", "replay", "wait", "write"}]
      BY <1>1, <1>2 DEF IInv, TypeOK
    <2> QED BY <1>2, <2>1, <2>2, <2>3 DEF IInv, TypeOK, pubVars
  <1>4. HubConsistent'
    BY <1>2 DEF IInv, TypeOK, HubConsistent, Connected
  <1>5. \A d \in Clients : d # c => ch'[d] = ch[d] /\ cur'[d] = cur[d] /\ pc'[d] = pc[d]
    BY <1>2 DEF IInv, TypeOK
  <1>6. ch'[c] = Tail(s) /\ cur'[c] = s[1] /\ pc'[c] = "write"
    BY <1>2 DEF IInv, TypeOK
  <1>7. Bounded'
    <2>1. \A k \in 1..Len(ch'[c]) : ch'[c][k] <= count
      BY <1>1, <1>6
    <2>2. cur'[c] <= count
      BY <1>1, <1>6
    <2>3. count' = count /\ wrote' = wrote /\ lost' = lost
      BY <1>2 DEF pubVars
    <2> QED BY <1>5, <2>1, <2>2, <2>3 DEF IInv, Bounded
  <1>8. Dropping'
    <2>1. lost[c] # 0 => s[1] < lost[c]
      BY <1>1, <1>2 DEF IInv, Dropping, s
    <2>2. wrote' = wrote /\ lost' = lost /\ overflow' = overflow
      BY <1>2
    <2>3. s[1] # 0
      BY <1>1 DEF Number
    <2> QED BY <1>5, <1>6, <2>1, <2>2, <2>3 DEF IInv, Dropping
  <1> QED BY <1>3, <1>4, <1>7, <1>8 DEF IInv

LEMMA WriteStep ==
    ASSUME IInv, NEW c \in Clients, Write(c)
    PROVE  IInv'
  <1> USE CapacityAssumption, MaxEventsAssumption
  <1>1. /\ cur' = [cur EXCEPT ![c] = 0] /\ pc[c] = "write"
        /\ got' = [got EXCEPT ![c] = @ \cup {cur[c]}]
        /\ UNCHANGED <<pubVars, backend, closed>>
    BY DEF Write, ctlVars
  <1>2. cur[c] \in Number /\ got' \in [Clients -> SUBSET Number]
    BY <1>1 DEF IInv, TypeOK, Dropping
  <1>3. CASE MustReset(c) /\ Leave(c)
    BY <1>1, <1>2, <1>3, LeaveTypeOK, LeaveStep DEF IInv, pubVars
  <1>4. ASSUME ~MustReset(c),
               pc' = [pc EXCEPT ![c] = "wait"],
               wrote' = [wrote EXCEPT ![c] = cur[c]],
               UNCHANGED <<hub, ch, chClosed, overflow, lost, missed>>
        PROVE  IInv'
    <2>1. TypeOK'
      <3>1. /\ pc' \in [Clients -> {"off", "subscribe", "since", "replay", "wait", "write"}]
            /\ wrote' \in [Clients -> Number \cup {0}]
            /\ cur' \in [Clients -> Number \cup {0}]
        BY <1>1, <1>2, <1>4 DEF IInv, TypeOK
      <3> QED BY <1>1, <1>2, <1>4, <3>1 DEF IInv, TypeOK, pubVars
    <2>2. HubConsistent'
      BY <1>1, <1>4 DEF IInv, TypeOK, HubConsistent, Connected
    <2>3. /\ pc'[c] = "wait" /\ cur'[c] = 0 /\ wrote'[c] = cur[c]
          /\ \A d \in Clients : d # c => pc'[d] = pc[d] /\ cur'[d] = cur[d] /\ wrote'[d] = wrote[d]
      BY <1>1, <1>4 DEF IInv, TypeOK
    <2>4. Bounded'
      <3>1. count' = count /\ count \in Nat
        BY <1>1 DEF pubVars, IInv, TypeOK
      <3> QED BY <1>4, <2>3, <3>1 DEF IInv, Bounded
    <2>5. lost[c] = 0
      BY <1>4 DEF IInv, Dropping, MustReset
    <2>6. Dropping'
      BY <1>4, <2>3, <2>5 DEF IInv, Dropping
    <2> QED BY <2>1, <2>2, <2>4, <2>6 DEF IInv
  <1> QED BY <1>3, <1>4 DEF Write

LEMMA IInvStep == IInv /\ [Next]_vars => IInv'
  <1> SUFFICES ASSUME IInv, [Next]_vars PROVE IInv'
    OBVIOUS
  <1>1. ASSUME NEW c \in Clients, ChannelEnds(c) \/ Break(c)
        PROVE  IInv'
    <2>1. Leave(c) /\ UNCHANGED <<pubVars, backend, closed, got>>
      BY <1>1 DEF ChannelEnds, Break, ctlVars, clientVars
    <2>2. cur' = [cur EXCEPT ![c] = 0]
      <3>1. CASE ChannelEnds(c)
        <4>1. cur[c] = 0
          BY <3>1 DEF ChannelEnds, IInv, Dropping
        <4> QED BY <3>1, <4>1 DEF ChannelEnds, IInv, TypeOK
      <3>2. CASE Break(c)
        BY <3>2 DEF Break
      <3> QED BY <1>1, <3>1, <3>2
    <2>3. TypeOK'
      BY <2>1, <2>2, LeaveTypeOK DEF IInv, TypeOK
    <2> QED BY <2>1, <2>2, <2>3, LeaveStep DEF pubVars
  <1>2. CASE UNCHANGED vars
    BY <1>2 DEF IInv, TypeOK, HubConsistent, Connected, Bounded, Dropping, vars, pubVars, ctlVars,
                handlerVars, hubVars, clientVars
  <1> QED BY <1>1, <1>2, PublishStep, StoreStep, CloseHubStep, OpenStep, SubscribeStep,
             ReplayStep, TakeStep, WriteStep DEF Next, Handler

LEMMA Invariance == Spec => []IInv
  <1>1. Init => IInv
    BY IInvInit
  <1>2. IInv /\ [Next]_vars => IInv'
    BY IInvStep
  <1> QED BY <1>1, <1>2, PTL DEF Spec

-----------------------------------------------------------------------------
(* What a client has, and what is still on its way to it.                  *)

\* The variables TypeOK leaves out: what a client remembers, and the history.
NoteTypes ==
    /\ lastID \in [Clients -> Nat] /\ url \in [Clients -> Nat] /\ last \in [Clients -> Nat]
    /\ gap \in [Clients -> BOOLEAN] /\ late \in [Clients -> SUBSET Nat]
    /\ subAt \in [Clients -> Nat] /\ joined \in [Clients -> Int]
    /\ blind \in [Clients -> Nat] /\ told \in [Clients -> Nat]
    /\ resumed \in [Clients -> Nat]

\* Event i will reach client c, or c will be told to reconnect and ask for it.
Coming(c, i) ==
    \/ \E k \in 1..Len(ch[c]) : ch[c][k] = i
    \/ cur[c] = i
    \/ lost[c] # 0 /\ lost[c] <= i
    \/ pc[c] = "since" /\ i <= subAt[c]
    \/ pc[c] = "replay" /\ (gap[c] \/ \E r \in missed[c] : r.id = i)

\* Of a client that is connected every event is accounted for, wherever its
\* handler is; of one that is not, nothing: it resumes from what it has seen.
Account(c) ==
    Connected(c) /\ ~closed =>
        \A i \in Wanted : joined[c] < i /\ i <= count =>
            i \in got[c] \/ Explained(c, i) \/ Coming(c, i)

Accounted == \A c \in Clients : Account(c)

LEMMA NoteTypesStep == IInv /\ NoteTypes /\ [Next]_vars => NoteTypes'
  <1> SUFFICES ASSUME IInv, NoteTypes, [Next]_vars PROVE NoteTypes'
    OBVIOUS
  <1> USE MaxEventsAssumption
  <1>0. count \in Nat /\ \A c \in Clients : From(c) \in Nat
    BY DEF IInv, TypeOK, NoteTypes, From
  <1>m. \A t \in Nat : Ms(t) \in Nat
    BY DEF Ms, Milli
  <1>1. CASE Publish \/ Stored \/ Dropped \/ CloseHub \/ UNCHANGED vars
    BY <1>1 DEF NoteTypes, Publish, Stored, Dropped, CloseHub, vars, clientVars, noteVars,
                handlerVars
  <1>2. ASSUME NEW c \in Clients, Open(c) \/ Take(c)
        PROVE  NoteTypes'
    BY <1>2 DEF NoteTypes, Open, Take, clientVars, noteVars
  <1>3. ASSUME NEW c \in Clients, Subscribe(c)
        PROVE  NoteTypes'
    BY <1>0, <1>3 DEF NoteTypes, Subscribe, clientVars
  <1>4. ASSUME NEW c \in Clients, ReadSince(c)
        PROVE  NoteTypes'
    <2>1. gap' \in [Clients -> BOOLEAN]
      BY <1>4 DEF NoteTypes, ReadSince, Full
    <2>2. late' \in [Clients -> SUBSET Nat]
      BY <1>4 DEF NoteTypes, ReadSince
    <2>3. subAt' \in [Clients -> Nat] /\ resumed' \in [Clients -> Nat]
      BY <1>0, <1>4 DEF NoteTypes, ReadSince
    <2> QED BY <1>4, <2>1, <2>2, <2>3 DEF NoteTypes, ReadSince, clientVars
  <1>5. ASSUME NEW c \in Clients, SinceFails(c) \/ ReplayDone(c)
        PROVE  NoteTypes'
    <2>1. gap' \in [Clients -> BOOLEAN]
      <3>1. CASE SinceFails(c)
        <4>1. PICK n \in 0..ReplayLimit :
                 gap' = [gap EXCEPT ![c] = Full(Oldest(Replay(c), n))]
          BY <3>1 DEF SinceFails
        <4>2. Full(Oldest(Replay(c), n)) \in BOOLEAN
          BY DEF Full
        <4> QED BY <4>1, <4>2 DEF NoteTypes
      <3>2. CASE ReplayDone(c)
        BY <3>2 DEF NoteTypes, ReplayDone
      <3> QED BY <1>5, <3>1, <3>2
    <2>2. told' \in [Clients -> Nat] /\ subAt' \in [Clients -> Nat]
      BY <1>0, <1>5 DEF NoteTypes, SinceFails, ReplayDone
    <2> QED BY <1>5, <2>1, <2>2 DEF NoteTypes, SinceFails, ReplayDone, clientVars
  <1>6. ASSUME NEW c \in Clients, ReplayNext(c)
        PROVE  NoteTypes'
    <2>1. PICK r \in missed[c] :
             IF r.id \in Wanted THEN Receive(c, r.id, Ms(r.time)) /\ UNCHANGED url
             ELSE UNCHANGED clientVars
      BY <1>6 DEF ReplayNext, Oldest
    <2>2. Ms(r.time) \in Nat
      BY <1>m, <2>1 DEF IInv, TypeOK
    <2>3. lastID' \in [Clients -> Nat] /\ last' \in [Clients -> Nat] /\ url' \in [Clients -> Nat]
      BY <2>1, <2>2 DEF NoteTypes, Receive, clientVars
    <2> QED BY <1>6, <2>3 DEF NoteTypes, ReplayNext, noteVars
  <1>7. ASSUME NEW c \in Clients, Write(c)
        PROVE  NoteTypes'
    <2>1. cur[c] \in Number
      BY <1>7 DEF Write, IInv, TypeOK, Dropping
    <2>2. Ms(time[cur[c]]) \in Nat
      BY <1>m, <2>1 DEF IInv, TypeOK
    <2>3. last' \in [Clients -> Nat]
      BY <1>7, <2>2 DEF NoteTypes, Write
    <2>4. lastID' \in [Clients -> Nat] /\ url' \in [Clients -> Nat]
      BY <1>7, <2>2, <2>3 DEF NoteTypes, Write
    <2>5. gap' \in [Clients -> BOOLEAN]
      BY <1>7 DEF NoteTypes, Write, Leave
    <2>6. subAt' \in [Clients -> Nat]
      <3>1. subAt' = subAt \/ subAt' = [subAt EXCEPT ![c] = 0]
        BY <1>7 DEF Write, Leave
      <3> QED BY <3>1 DEF NoteTypes
    <2> QED BY <1>7, <2>3, <2>4, <2>5, <2>6 DEF NoteTypes, Write
  <1>8. ASSUME NEW c \in Clients, ChannelEnds(c) \/ Break(c)
        PROVE  NoteTypes'
    <2>1. gap' \in [Clients -> BOOLEAN]
      BY <1>8 DEF NoteTypes, ChannelEnds, Break, Leave
    <2>2. subAt' \in [Clients -> Nat]
      <3>1. subAt' = [subAt EXCEPT ![c] = 0]
        BY <1>8 DEF ChannelEnds, Break, Leave
      <3> QED BY <3>1 DEF NoteTypes
    <2> QED BY <1>8, <2>1, <2>2 DEF NoteTypes, ChannelEnds, Break, clientVars
  <1> QED BY <1>1, <1>2, <1>3, <1>4, <1>5, <1>6, <1>7, <1>8 DEF Next, Handler

\* A client whose connection a step does not touch stays accounted for.
LEMMA OthersAccounted ==
    ASSUME NEW c \in Clients, Account(c), UNCHANGED <<backend, time, count, closed>>,
           got[c] \subseteq got'[c],
           pc'[c] = pc[c], ch'[c] = ch[c], cur'[c] = cur[c], lost'[c] = lost[c],
           missed'[c] = missed[c], gap'[c] = gap[c], subAt'[c] = subAt[c],
           joined'[c] = joined[c], blind'[c] = blind[c], resumed'[c] = resumed[c],
           late'[c] = late[c], told'[c] = told[c]
    PROVE  Account(c)'
  <1>1. \A i \in Wanted : Explained(c, i) => Explained(c, i)'
    BY DEF Explained
  <1>2. \A i \in Wanted : Coming(c, i) => Coming(c, i)'
    BY DEF Coming
  <1> QED BY <1>1, <1>2 DEF Account, Connected

LEMMA PublishAccounted == IInv /\ NoteTypes /\ Accounted /\ Publish => Accounted'
  <1> SUFFICES ASSUME IInv, NoteTypes, Accounted, Publish, NEW c \in Clients,
                      Connected(c)', ~closed',
                      NEW i \in Wanted, joined'[c] < i, i <= count'
               PROVE  i \in got'[c] \/ Explained(c, i)' \/ Coming(c, i)'
    BY DEF Accounted, Account
  <1> USE MaxEventsAssumption, WantedAssumption
  <1>1. /\ count \in Nat /\ count' = count + 1 /\ count + 1 \in Number /\ i \in Number
        /\ UNCHANGED <<backend, got, pc, cur, missed, gap, closed, hub, noteVars>>
    BY DEF Publish, IInv, TypeOK, Number, ctlVars, handlerVars, clientVars
  <1>2. Connected(c) /\ c \in hub /\ ~closed
    BY <1>1 DEF IInv, HubConsistent, Connected
  <1>3. /\ ch[c] \in Seq(Number) /\ lost[c] \in Nat /\ lost[c] <= count
        /\ ch'[c] = ch[c] \/ ch'[c] = Append(ch[c], count + 1)
        /\ lost[c] # 0 => lost'[c] = lost[c]
    BY <1>1 DEF Publish, IInv, TypeOK, Bounded, Number
  <1>4. CASE i <= count
    <2>1. i \in got[c] \/ Explained(c, i) \/ Coming(c, i)
      BY <1>1, <1>2, <1>4 DEF Accounted, Account, noteVars
    <2>2. time'[i] = time[i]
      BY <1>1, <1>4 DEF Publish, IInv, TypeOK, Number
    <2>3. Explained(c, i) => Explained(c, i)'
      BY <1>1, <2>2 DEF Explained, noteVars
    <2>4. ASSUME NEW k \in 1..Len(ch[c]), ch[c][k] = i
          PROVE  \E m \in 1..Len(ch'[c]) : ch'[c][m] = i
      BY <1>1, <1>3, <2>4
    <2>5. Coming(c, i) => Coming(c, i)'
      BY <1>1, <1>3, <2>4 DEF Coming, noteVars
    <2> QED BY <1>1, <2>1, <2>3, <2>5
  <1>5. CASE i = count + 1
    <2>1. c \in Reached(i)
      BY <1>2 DEF Reached
    <2>2. CASE Room(c)
      <3>1. ch'[c] = Append(ch[c], i)
        BY <1>5, <2>1, <2>2 DEF Publish
      <3>2. Len(ch'[c]) \in 1..Len(ch'[c]) /\ ch'[c][Len(ch'[c])] = i
        BY <1>1, <1>3, <3>1
      <3> QED BY <3>2 DEF Coming
    <2>3. CASE ~Room(c)
      <3>1. lost'[c] = IF lost[c] = 0 THEN i ELSE lost[c]
        BY <1>5, <2>1, <2>3 DEF Publish
      <3>2. lost'[c] # 0 /\ lost'[c] <= i
        BY <1>1, <1>3, <1>5, <3>1 DEF Number
      <3> QED BY <3>2 DEF Coming
    <2> QED BY <2>2, <2>3
  <1> QED BY <1>1, <1>4, <1>5 DEF Number

\* A row that is too old for Since is not later than the millisecond asked for.
LEMMA NotLater ==
    ASSUME NEW b \in Backends, NEW t \in Nat, NEW ms \in Nat,
           ~(IF b = "memory" THEN t >= OfMs(ms) + Milli ELSE t > OfMs(ms))
    PROVE  Ms(t) <= ms
  BY DEF Ms, OfMs, Milli

LEMMA ReplayComplete ==
    ASSUME IInv, NoteTypes, NEW c \in Clients, NEW i \in store
    PROVE  \/ \E r \in Replay(c) : r.id = i
           \/ Full(Replay(c))
           \/ Ms(StoredTime(backend, time[i])) <= From(c)
  <1> USE MaxEventsAssumption, LimitsAssumption, ReplayAssumption
  <1> DEFINE asked(r) == IF backend = "memory" THEN r.time >= OfMs(From(c)) + Milli
                         ELSE r.time > OfMs(From(c))
             V == {r \in StoredRows : asked(r)}
             r0 == [id |-> i, time |-> StoredTime(backend, time[i])]
  <1>1. backend \in Backends /\ From(c) \in Nat /\ i \in Number /\ time[i] \in Nat
    BY StoresAssumption DEF IInv, TypeOK, NoteTypes, From, Number
  <1>2. Limit(backend, ReplayLimit) = ReplayLimit
    BY <1>1 DEF Limit
  <1>3. Replay(c) = Oldest(V, ReplayLimit)
    BY <1>2 DEF Replay, Since
  <1>4. StoredRows \subseteq [id : Number, time : Nat]
    BY RowsType DEF IInv
  <1>5. IsFiniteSet(V) /\ \A r \in V : r.id \in Nat /\ r.time \in Nat
    <2>1. store \in SUBSET (1..settled) /\ settled \in Int
      BY DEF IInv, TypeOK
    <2>2. IsFiniteSet(1..settled)
      BY <2>1, FS_Interval
    <2>3. IsFiniteSet(store)
      BY <2>1, <2>2, FS_Subset
    <2> DEFINE row == [j \in store |-> [id |-> j, time |-> StoredTime(backend, time[j])]]
    <2>4. row \in Surjection(store, StoredRows)
      BY DEF Surjection, StoredRows
    <2>5. IsFiniteSet(StoredRows)
      BY <2>3, <2>4, FS_Surjection
    <2>6. IsFiniteSet(V)
      BY <2>5, FS_Subset
    <2> QED BY <1>4, <2>6 DEF Number
  <1>6. r0 \in StoredRows /\ r0.id = i /\ r0.time = StoredTime(backend, time[i])
    BY DEF StoredRows
  <1>7. CASE r0 \in V
    <2>1. r0 \notin Oldest(V, ReplayLimit) => Cardinality(Oldest(V, ReplayLimit)) >= ReplayLimit
      BY <1>5, <1>7, OldestFills
    <2> QED BY <1>3, <1>6, <2>1 DEF Full
  <1>8. CASE r0 \notin V
    <2>1. StoredTime(backend, time[i]) \in Nat
      BY <1>1, StoredTimeType
    <2> QED BY <1>1, <1>6, <1>8, <2>1, NotLater
  <1> QED BY <1>7, <1>8

\* What the replay leaves out was not stored, is too old, or is behind the limit.
LEMMA ReadSinceAccounted ==
    ASSUME IInv, NoteTypes, NEW c \in Clients, Account(c), ReadSince(c)
    PROVE  Account(c)'
  <1> SUFFICES ASSUME ~closed, NEW i \in Wanted, joined[c] < i, i <= count
               PROVE  i \in got[c] \/ Explained(c, i)' \/ Coming(c, i)'
    BY DEF Account, ReadSince, pubVars, hubVars, clientVars
  <1> USE MaxEventsAssumption, WantedAssumption
  <1>1. /\ pc[c] = "since" /\ pc'[c] = "replay" /\ missed'[c] = Replay(c)
        /\ gap'[c] = Full(Replay(c))
        /\ resumed'[c] = IF From(c) > resumed[c] THEN From(c) ELSE resumed[c]
        /\ late'[c] = late[c] \cup ((1..subAt[c]) \ store)
        /\ UNCHANGED <<backend, time, ch, cur, lost, blind, told>>
    BY DEF ReadSince, IInv, TypeOK, NoteTypes, pubVars, ctlVars, hubVars
  <1>2. From(c) \in Nat /\ resumed[c] \in Nat /\ i \in Number /\ subAt[c] \in Nat
    BY DEF NoteTypes, From
  <1>3. resumed'[c] \in Nat /\ resumed'[c] >= From(c) /\ resumed'[c] >= resumed[c]
    BY <1>1, <1>2
  <1>4. Ms(StoredTime(backend, time[i])) \in Nat
    <2>1. StoredTime(backend, time[i]) \in Nat
      BY <1>2, StoredTimeType, StoresAssumption DEF IInv, TypeOK
    <2> QED BY <2>1 DEF Ms, Milli
  <1>5. Explained(c, i) => Explained(c, i)'
    BY <1>1, <1>2, <1>3, <1>4 DEF Explained
  <1>6. CASE i <= subAt[c]
    <2>1. i \notin store => i \in late'[c]
      BY <1>1, <1>2, <1>6 DEF Number
    <2>2. CASE i \in store
      <3>1. CASE Ms(StoredTime(backend, time[i])) <= From(c)
        BY <1>1, <1>2, <1>3, <1>4, <3>1 DEF Explained
      <3>2. CASE Full(Replay(c))
        BY <1>1, <3>2 DEF Coming
      <3>3. CASE \E r \in Replay(c) : r.id = i
        BY <1>1, <3>3 DEF Coming
      <3> QED BY <2>2, <3>1, <3>2, <3>3, ReplayComplete
    <2> QED BY <2>1, <2>2 DEF Explained
  <1>7. CASE ~(i <= subAt[c])
    <2>1. i \in got[c] \/ Explained(c, i) \/ Coming(c, i)
      BY <1>1 DEF Account, Connected
    <2>2. Coming(c, i) => Coming(c, i)'
      BY <1>1, <1>7 DEF Coming
    <2> QED BY <1>5, <2>1, <2>2
  <1> QED BY <1>6, <1>7

LEMMA HandlerAccounted ==
    ASSUME IInv, IInv', NoteTypes, NEW c \in Clients, Account(c),
           Subscribe(c) \/ SinceFails(c) \/ ReplayNext(c) \/ ReplayDone(c) \/ Take(c) \/ Write(c)
    PROVE  Account(c)'
  <1> SUFFICES ASSUME Connected(c)', ~closed', NEW i \in Wanted, joined'[c] < i, i <= count'
               PROVE  i \in got'[c] \/ Explained(c, i)' \/ Coming(c, i)'
    BY DEF Account
  <1> USE MaxEventsAssumption, WantedAssumption
  <1>0. /\ count \in Nat /\ i \in Number /\ count' = count /\ closed' = closed
        /\ backend' = backend /\ time' = time
    BY DEF IInv, TypeOK, Subscribe, SinceFails, ReplayNext, ReplayDone, Take, Write, pubVars,
           ctlVars, hubVars
  <1>1. CASE Subscribe(c)
    <2>1. From(c) # 0 => pc'[c] = "since" /\ subAt'[c] = count
      BY <1>1 DEF Subscribe, IInv, TypeOK, NoteTypes
    <2>2. From(c) = 0 => blind'[c] = count
      BY <1>1 DEF Subscribe, NoteTypes
    <2> QED BY <1>0, <2>1, <2>2 DEF Coming, Explained
  <1>2. CASE SinceFails(c)
    <2>1. told'[c] = count
      BY <1>2 DEF SinceFails, NoteTypes
    <2> QED BY <1>0, <2>1 DEF Explained
  <1>3. ASSUME Connected(c), joined'[c] = joined[c]
        PROVE  i \in got[c] \/ Explained(c, i) \/ Coming(c, i)
    BY <1>0, <1>3 DEF Account
  <1>4. CASE ReplayNext(c)
    <2>1. /\ pc[c] = "replay" /\ pc' = pc /\ UNCHANGED <<ch, cur, lost, gap, noteVars>>
      BY <1>4 DEF ReplayNext, hubVars
    <2>2. PICK r \in missed[c] :
             /\ missed'[c] = missed[c] \ {r}
             /\ got[c] \subseteq got'[c] /\ (r.id \in Wanted => r.id \in got'[c])
      <3>1. PICK r \in missed[c] :
               /\ missed' = [missed EXCEPT ![c] = @ \ {r}]
               /\ IF r.id \in Wanted THEN got' = [got EXCEPT ![c] = @ \cup {r.id}]
                  ELSE got' = got
        BY <1>4 DEF ReplayNext, Oldest, Receive, clientVars
      <3>2. missed'[c] = missed[c] \ {r}
        BY <3>1 DEF IInv, TypeOK
      <3>3. r.id \in Wanted => got'[c] = got[c] \cup {r.id}
        BY <3>1 DEF IInv, TypeOK
      <3> QED BY <3>1, <3>2, <3>3
    <2>3. Explained(c, i) => Explained(c, i)'
      BY <1>0, <2>1 DEF Explained, noteVars
    <2>4. Coming(c, i) => i \in got'[c] \/ Coming(c, i)'
      BY <2>1, <2>2 DEF Coming, noteVars
    <2> QED BY <1>3, <2>1, <2>2, <2>3, <2>4 DEF Connected, noteVars
  <1>5. CASE ReplayDone(c)
    <2>1. /\ pc[c] = "replay" /\ pc'[c] = "wait" /\ missed[c] = {} /\ (gap[c] => told'[c] = count)
          /\ ~gap[c] => told'[c] = told[c]
          /\ UNCHANGED <<got, ch, cur, lost, joined, blind, resumed, late>>
      BY <1>5 DEF ReplayDone, hubVars, clientVars, IInv, TypeOK, NoteTypes
    <2>2. CASE gap[c]
      BY <1>0, <2>1, <2>2 DEF Explained
    <2>3. CASE ~gap[c]
      <3>1. Explained(c, i) => Explained(c, i)'
        BY <1>0, <2>1, <2>3 DEF Explained
      <3>2. Coming(c, i) => Coming(c, i)'
        BY <2>1, <2>3 DEF Coming
      <3> QED BY <1>3, <2>1, <3>1, <3>2 DEF Connected
    <2> QED BY <2>2, <2>3
  <1>6. CASE Take(c)
    <2>1. /\ pc[c] = "wait" /\ UNCHANGED <<got, missed, gap, lost, noteVars>>
      BY <1>6 DEF Take, clientVars
    <2>2. /\ ch[c] \in Seq(Number) /\ ch[c] # <<>> /\ ch'[c] = Tail(ch[c])
          /\ cur'[c] = Head(ch[c]) /\ cur[c] = 0
      BY <1>6 DEF Take, IInv, TypeOK, Dropping
    <2>3. ASSUME NEW k \in 1..Len(ch[c]), ch[c][k] = i
          PROVE  cur'[c] = i \/ \E m \in 1..Len(ch'[c]) : ch'[c][m] = i
      <3>1. CASE k = 1
        BY <2>2, <2>3, <3>1
      <3>2. CASE k # 1
        <4>1. k - 1 \in 1..Len(ch'[c]) /\ ch'[c][k - 1] = ch[c][k]
          BY <2>2, <3>2
        <4> QED BY <2>3, <4>1
      <3> QED BY <3>1, <3>2
    <2>4. Explained(c, i) => Explained(c, i)'
      BY <1>0, <2>1 DEF Explained, noteVars
    <2>5. Coming(c, i) => Coming(c, i)'
      BY <2>1, <2>2, <2>3 DEF Coming, noteVars, Number
    <2> QED BY <1>3, <2>1, <2>4, <2>5 DEF Connected, noteVars
  <1>7. CASE Write(c)
    <2>1. /\ pc[c] = "write" /\ got'[c] = got[c] \cup {cur[c]}
          /\ UNCHANGED <<joined, blind, resumed, late, told>>
      BY <1>7 DEF Write, IInv, TypeOK
    <2>2. UNCHANGED <<ch, lost>>
      BY <1>7 DEF Write, Leave, Connected, IInv, TypeOK
    <2>3. Explained(c, i) => Explained(c, i)'
      BY <1>0, <2>1 DEF Explained
    <2>4. Coming(c, i) => i \in got'[c] \/ Coming(c, i)'
      BY <2>1, <2>2 DEF Coming
    <2> QED BY <1>3, <2>1, <2>3, <2>4 DEF Connected
  <1> QED BY <1>1, <1>2, <1>4, <1>5, <1>6, <1>7

LEMMA AccountedStep == IInv /\ IInv' /\ NoteTypes /\ Accounted /\ [Next]_vars => Accounted'
  <1> SUFFICES ASSUME IInv, IInv', NoteTypes, Accounted, [Next]_vars PROVE Accounted'
    OBVIOUS
  <1>1. CASE Publish
    BY <1>1, PublishAccounted
  <1>2. CASE Stored \/ Dropped \/ UNCHANGED vars
    <2>1. UNCHANGED <<backend, time, count, closed, got, pc, ch, cur, lost, missed, gap, subAt,
                      joined, blind, resumed, late, told>>
      BY <1>2 DEF Stored, Dropped, vars, pubVars, ctlVars, handlerVars, hubVars, clientVars,
                  noteVars
    <2> QED BY <2>1, OthersAccounted DEF Accounted
  <1>3. CASE CloseHub
    BY <1>3 DEF CloseHub, Accounted, Account
  <1>4. ASSUME NEW c \in Clients, Open(c) \/ Handler(c) \/ Break(c), NEW d \in Clients, d # c
        PROVE  Account(d)'
    <2>1. /\ pc'[d] = pc[d] /\ ch'[d] = ch[d] /\ cur'[d] = cur[d] /\ lost'[d] = lost[d]
          /\ missed'[d] = missed[d] /\ got'[d] = got[d]
          /\ UNCHANGED <<backend, time, count, closed>>
      BY <1>4 DEF Open, Handler, Break, Subscribe, ReadSince, SinceFails, ReplayNext, ReplayDone,
                  Take, Write, ChannelEnds, Leave, Receive, IInv, TypeOK, pubVars, ctlVars,
                  hubVars, clientVars
    <2>2. /\ gap'[d] = gap[d] /\ subAt'[d] = subAt[d] /\ joined'[d] = joined[d]
          /\ blind'[d] = blind[d] /\ resumed'[d] = resumed[d] /\ late'[d] = late[d]
          /\ told'[d] = told[d]
      BY <1>4 DEF Open, Handler, Break, Subscribe, ReadSince, SinceFails, ReplayNext, ReplayDone,
                  Take, Write, ChannelEnds, Leave, NoteTypes, noteVars
    <2> QED BY <2>1, <2>2, OthersAccounted DEF Accounted
  <1>5. ASSUME NEW c \in Clients, Open(c) \/ Handler(c) \/ Break(c)
        PROVE  Account(c)'
    <2>1. CASE Open(c) \/ ChannelEnds(c) \/ Break(c)
      BY <2>1 DEF Open, ChannelEnds, Break, Leave, Account, Connected, IInv, TypeOK
    <2>2. CASE ReadSince(c)
      BY <2>2, ReadSinceAccounted DEF Accounted
    <2> QED BY <1>5, <2>1, <2>2, HandlerAccounted DEF Accounted, Handler
  <1>6. ASSUME NEW c \in Clients, Open(c) \/ Handler(c) \/ Break(c)
        PROVE  Accounted'
    BY <1>4, <1>5, <1>6 DEF Accounted
  <1> QED BY <1>1, <1>2, <1>3, <1>6 DEF Next

-----------------------------------------------------------------------------
\* Type correctness of the stream; a channel never holds more than its buffer.
THEOREM TypeCorrect == Spec => []TypeOK
  <1>1. IInv => TypeOK
    BY DEF IInv
  <1> QED BY <1>1, Invariance, PTL

\* However many streams start, end and are reset while the hub closes, Publish never
\* sends on a closed channel, and every handler left has a channel that is closed.
THEOREM HubStaysConsistent == Spec => []HubConsistent
  <1>1. IInv => HubConsistent
    BY DEF IInv
  <1> QED BY <1>1, Invariance, PTL

\* A handler forwards nothing after an event that was dropped on its channel, for
\* any size of the buffer and any interleaving of Publish with the handlers.
THEOREM NothingAfterAHole == Spec => []NoHoles
  <1>1. IInv => NoHoles
    BY DEF IInv, Dropping, NoHoles
  <1> QED BY <1>1, Invariance, PTL

\* Whatever breaks, is reset, fails or is published meanwhile, and whatever the
\* sizes of the buffer and of the replay: a client that waits for the next event has
\* all that were published since it joined, but for the four reasons of Explained.
THEOREM EveryLossExplained == Spec => []LossExplained
  <1>1. Init => NoteTypes /\ Accounted
    BY DEF Init, NoteTypes, Accounted, Account, Connected
  <1>2. IInv /\ IInv' /\ NoteTypes /\ Accounted /\ [Next]_vars => NoteTypes' /\ Accounted'
    BY NoteTypesStep, AccountedStep
  <1>3. IInv /\ NoteTypes /\ Accounted => LossExplained
    <2> SUFFICES ASSUME IInv, NoteTypes, Accounted, NEW c \in Clients,
                        pc[c] = "wait", ch[c] = <<>>, ~closed,
                        NEW i \in Wanted, joined[c] < i, i <= count
                 PROVE  i \in got[c] \/ Explained(c, i)
      BY DEF LossExplained
    <2>1. i \in got[c] \/ Explained(c, i) \/ Coming(c, i)
      BY DEF Accounted, Account, Connected
    <2>2. lost[c] = 0 /\ cur[c] = 0 /\ i # 0
      BY CapacityAssumption, WantedAssumption DEF IInv, Dropping, Number
    <2> QED BY <2>1, <2>2 DEF Coming
  <1> QED BY <1>1, <1>2, <1>3, Invariance, PTL DEF Spec
=============================================================================
