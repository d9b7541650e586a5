---------------------------- MODULE WriterProofs ----------------------------
(***************************************************************************)
(* Proofs about the storage writer, for every batch size, channel size,    *)
(* number of attempts, chunk size and number of items.                     *)
(***************************************************************************)
EXTENDS Writer, FiniteSetTheorems, TLAPS

USE BatchSizeAssumption, CapacityAssumption, MaxAttemptsAssumption,
    ChunkAssumption, MaxSentAssumption

-----------------------------------------------------------------------------
(* The inductive invariant                                                 *)

\* Where the items are: received ones were sent, held ones received.
Places ==
    \A k \in Kinds :
        /\ recv[k] <= sent[k]
        /\ sent[k] <= MaxSent
        /\ batch[k] <= recv[k]

\* Where persist stands.
Attempts ==
    /\ pc = "backoff" => attempt < MaxAttempts /\ faulted
    /\ pc = "persist" /\ ~faulted => attempt = 1
    /\ pc = "select" => ~last
    /\ pc \in {"drain", "done"} => last
    /\ lastFailed => last
    /\ last => ctxDone
    /\ pc = "backoff" /\ last => lastFailed

\* Writes of the items in the batch of channel k so far.
WritesSoFar(k) ==
    IF k = cur /\ pc = "persist" THEN attempt - 1
    ELSE IF k = cur /\ pc = "backoff" THEN attempt ELSE 0

\* What has been written: nothing not yet received, at most WritesSoFar of
\* what is held, in order, and no more than the bound of anything.
Writes ==
    \A k \in Kinds : \A i \in Item :
        /\ i > recv[k] => written[k][i] = 0
        /\ i \in Held(k) => written[k][i] <= WritesSoFar(k)
        /\ i \in Held(k) =>
               \A j \in Item : i < j => written[k][i] >= written[k][j]
        /\ written[k][i] <= IF faulted THEN MaxAttempts ELSE 1

\* The items received that are neither held nor stored.
Missing(k) == {i \in 1..(recv[k] - batch[k]) : written[k][i] = 0}

Counted ==
    (~ctxDone \/ ~faulted) =>
        \A k \in Kinds : Cardinality(Missing(k)) <= dropped[k]

\* The last flush has, until one of its writes fails, written each of its
\* items once or still holds it unwritten, and has left nothing behind.
LastFlush ==
    last =>
        /\ pc = "done" => \A k \in Kinds : batch[k] = 0
        /\ \A k \in Kinds :
            /\ pc # "drain" => lastUpto[k] <= recv[k]
            /\ lastUpto[k] <= sent[k]
            /\ ~lastFailed =>
                \A i \in Item : lastFrom[k] < i /\ i <= recv[k] =>
                    IF i \in Held(k) THEN written[k][i] = 0
                                     ELSE written[k][i] = 1

IInv == TypeOK /\ Places /\ Attempts /\ Writes /\ Counted /\ LastFlush

-----------------------------------------------------------------------------
(* Lemmas                                                                  *)

\* A subset of an interval of numbers and an interval that follows it.
LEMMA CardinalityUpTo ==
    ASSUME NEW a \in Nat, NEW b \in Nat, a <= b,
           NEW S, S \subseteq 1..a,
           NEW T, T \subseteq S \cup ((a + 1)..b)
    PROVE  /\ Cardinality(S) \in Nat
           /\ Cardinality(T) \in Nat
           /\ Cardinality(T) <= Cardinality(S) + (b - a)
<1>1. IsFiniteSet(1..a)
  BY FS_Interval
<1>2. IsFiniteSet(S) /\ Cardinality(S) \in Nat
  BY <1>1, FS_Subset, FS_CardinalityType
<1>3. IsFiniteSet((a + 1)..b) /\ Cardinality((a + 1)..b) = b - a
  <2>1. CASE a = b
    <3>1. (a + 1)..b = {}
      BY <2>1
    <3> QED
      BY <2>1, <3>1, FS_EmptySet
  <2>2. CASE a < b
    BY <2>2, FS_Interval
  <2> QED
    BY <2>1, <2>2
<1>4. /\ IsFiniteSet(S \cup ((a + 1)..b))
      /\ Cardinality(S \cup ((a + 1)..b)) =
           Cardinality(S) + Cardinality((a + 1)..b)
             - Cardinality(S \cap ((a + 1)..b))
  BY <1>2, <1>3, FS_Union
<1>5. S \cap ((a + 1)..b) = {}
  OBVIOUS
<1>6. Cardinality(S \cap ((a + 1)..b)) = 0
  BY <1>5, FS_EmptySet
<1>7. Cardinality(T) \in Nat /\ Cardinality(T) <= Cardinality(S \cup ((a + 1)..b))
  BY <1>4, FS_Subset, FS_CardinalityType
<1> QED
  BY <1>2, <1>3, <1>4, <1>6, <1>7

-----------------------------------------------------------------------------
(* The invariant holds initially and is preserved by every action.         *)

\* The invariant holds at the start.
LEMMA InitIInv == Init => IInv
<1> SUFFICES ASSUME Init PROVE IInv
  OBVIOUS
<1> USE DEF Init
<1>1. TypeOK
  <2>1. batch \in [Kinds -> Nat]
    OBVIOUS
  <2>2. cur \in Kinds
    BY DEF Kinds
  <2>3. written \in [Kinds -> [Item -> Nat]]
    OBVIOUS
  <2>4. attempt \in 1..MaxAttempts
    OBVIOUS
  <2> QED
    BY <2>1, <2>2, <2>3, <2>4 DEF TypeOK
<1>2. Places /\ Attempts /\ LastFlush
  BY DEF Places, Attempts, LastFlush
<1>3. Writes
  BY DEF Writes, Held, WritesSoFar, Item
<1>4. Counted
  <2> SUFFICES ASSUME NEW k \in Kinds PROVE Cardinality(Missing(k)) <= dropped[k]
    BY DEF Counted
  <2>1. Missing(k) = {}
    BY DEF Missing
  <2> QED
    BY <2>1, FS_EmptySet
<1> QED
  BY <1>1, <1>2, <1>3, <1>4 DEF IInv

\* The numbers of one channel.
LEMMA Numbers ==
    ASSUME IInv, NEW k \in Kinds
    PROVE  /\ sent[k] \in Nat /\ recv[k] \in Nat /\ batch[k] \in Nat
           /\ recv[k] <= sent[k] /\ sent[k] <= MaxSent /\ batch[k] <= recv[k]
           /\ \A i \in Item : i \in Nat /\ written[k][i] \in Nat
<1>1. \A i \in Item : i \in Nat
  BY DEF Item
<1> QED
  BY <1>1 DEF IInv, TypeOK, Places

\* An item put on a channel moves nothing else.
LEMMA SendIInv ==
    ASSUME IInv, NEW c \in Kinds, Send(c) PROVE IInv'
<1>1. /\ sent' \in [Kinds -> Nat]
      /\ \A k \in Kinds : sent[k] <= sent'[k] /\ sent'[k] <= MaxSent
  BY DEF IInv, TypeOK, Places, Send
<1>2. UNCHANGED <<recv, batch, pc, cur, attempt, ctxDone, lastDone, last,
                  written, dropped, faulted, lastFailed, lastFrom, lastUpto>>
  BY DEF Send, ctxVars, storeVars, lastVars
<1> HIDE DEF Kinds, Item
<1>3. TypeOK'
  BY <1>1, <1>2 DEF IInv, TypeOK
<1>4. Places'
  <2>1. ASSUME NEW k \in Kinds PROVE recv[k] <= sent'[k]
    BY <1>1 DEF IInv, TypeOK, Places
  <2> QED
    BY <1>1, <1>2, <2>1 DEF IInv, Places
<1>5. Attempts'
  BY <1>2 DEF IInv, Attempts
<1>6. Writes'
  BY <1>2 DEF IInv, Writes, Held, WritesSoFar
<1>7. Counted'
  BY <1>2 DEF IInv, Counted, Missing
<1>8. LastFlush'
  <2>1. ASSUME last, NEW k \in Kinds PROVE lastUpto[k] <= sent'[k]
    BY <1>1, <2>1 DEF IInv, TypeOK, LastFlush
  <2> QED
    BY <1>2, <2>1 DEF IInv, LastFlush, Held
<1> QED
  BY <1>3, <1>4, <1>5, <1>6, <1>7, <1>8 DEF IInv

\* The cancellation and the deadline only weaken what is claimed.
LEMMA CancelIInv ==
    ASSUME IInv, Cancel \/ Deadline PROVE IInv'
<1> USE DEF IInv, Cancel, Deadline, ctxVars, storeVars, lastVars
<1>1. TypeOK'
  BY DEF TypeOK
<1>2. Places' /\ Attempts' /\ Writes' /\ LastFlush'
  BY DEF Places, Attempts, Writes, LastFlush, Held, WritesSoFar
<1>3. Counted'
  BY DEF Counted, Missing
<1> QED
  BY <1>1, <1>2, <1>3


\* Receive and Drain: item recv[c] + 1 moves from channel c to its batch.
LEMMA TakeIInv ==
    ASSUME IInv, NEW c \in Kinds, Receive(c) \/ Drain(c) PROVE IInv'
<1>1. /\ recv' = [recv EXCEPT ![c] = @ + 1]
      /\ batch' = [batch EXCEPT ![c] = @ + 1]
      /\ recv[c] < sent[c]
      /\ UNCHANGED <<sent, ctxDone, lastDone, last, written, dropped, faulted,
                     lastFailed, lastFrom, lastUpto>>
  BY DEF Receive, Drain, ctxVars, storeVars, lastVars
<1>2. /\ recv' \in [Kinds -> Nat]
      /\ batch' \in [Kinds -> Nat]
      /\ \A k \in Kinds : recv'[k] - batch'[k] = recv[k] - batch[k]
      /\ \A k \in Kinds : recv[k] <= recv'[k] /\ recv'[k] <= sent[k]
      /\ recv'[c] = recv[c] + 1 /\ batch'[c] = batch[c] + 1
      /\ \A k \in Kinds : k # c => recv'[k] = recv[k] /\ batch'[k] = batch[k]
  <2>1. /\ recv' \in [Kinds -> Nat]
        /\ batch' \in [Kinds -> Nat]
        /\ recv'[c] = recv[c] + 1 /\ batch'[c] = batch[c] + 1
        /\ \A k \in Kinds : k # c => recv'[k] = recv[k] /\ batch'[k] = batch[k]
    BY <1>1 DEF IInv, TypeOK
  <2> QED
    BY <1>1, <2>1, Numbers
<1>3. \/ pc = "drain" /\ pc' = "drain" /\ UNCHANGED <<cur, attempt>>
      \/ pc = "select" /\ pc' = "select" /\ UNCHANGED <<cur, attempt>>
      \/ pc = "select" /\ pc' = "persist" /\ attempt' = 1 /\ cur' \in Kinds
  <2>1. CASE Drain(c)
    BY <2>1 DEF Drain
  <2>2. CASE Receive(c) /\ ~(batch'[c] >= BatchSize)
    BY <2>2 DEF Receive
  <2>3. CASE Receive(c) /\ batch'[c] >= BatchSize
    BY <2>3, <1>2 DEF Receive, Flush, FlushTarget, Kinds
  <2> QED
    BY <2>1, <2>2, <2>3
<1>4. TypeOK'
  <2>1. cur' \in Kinds /\ attempt' \in 1..MaxAttempts
    BY <1>3 DEF IInv, TypeOK
  <2> QED
    BY <1>1, <1>2, <1>3, <2>1 DEF IInv, TypeOK
<1>5. Places'
  <2> SUFFICES ASSUME NEW k \in Kinds
               PROVE  recv'[k] <= sent[k] /\ sent[k] <= MaxSent /\ batch'[k] <= recv'[k]
    BY <1>1 DEF Places
  <2> QED
    BY <1>2 DEF IInv, TypeOK, Places
<1>6. Attempts'
  BY <1>1, <1>3 DEF IInv, Attempts
<1>7. \A k \in Kinds : \A i \in Item : i \in Held(k) => written[k][i] = 0
  BY <1>3 DEF IInv, TypeOK, Writes, WritesSoFar
<1>8. \A k \in Kinds : \A i \in Held(k)' :
        i \in Held(k) \/ (i > recv[k] /\ i = recv'[k])
  <2> SUFFICES ASSUME NEW k \in Kinds, NEW i \in Held(k)'
               PROVE  i \in Held(k) \/ (i > recv[k] /\ i = recv'[k])
    OBVIOUS
  <2>1. CASE k = c
    BY <1>2, <2>1, Numbers DEF Held
  <2>2. CASE k # c
    BY <1>2, <2>2, Numbers DEF Held
  <2> QED
    BY <2>1, <2>2
<1>9. \A k \in Kinds : \A i \in Item : i \in Held(k)' => written[k][i] = 0
  BY <1>7, <1>8 DEF IInv, Writes
<1>10. Writes'
  <2>1. ASSUME NEW k \in Kinds, NEW i \in Item
        PROVE  i > recv'[k] => written[k][i] = 0
    <3>1. i > recv'[k] => i > recv[k]
      BY <1>2, Numbers
    <3> QED
      BY <3>1 DEF IInv, Writes
  <2>2. ASSUME NEW k \in Kinds, NEW i \in Item, i \in Held(k)', NEW j \in Item, i < j
        PROVE  written[k][i] >= written[k][j]
    <3>1. CASE i \in Held(k)
      BY <2>2, <3>1 DEF IInv, Writes
    <3>2. CASE i > recv[k]
      <4>1. j > recv[k]
        BY <2>2, <3>2, Numbers
      <4> QED
        BY <2>2, <3>2, <4>1 DEF IInv, Writes
    <3> QED
      BY <2>2, <3>1, <3>2, <1>8
  <2>3. ASSUME NEW k \in Kinds, NEW i \in Item, i \in Held(k)'
        PROVE  written[k][i] <= WritesSoFar(k)'
    BY <2>3, <1>9, <1>3 DEF WritesSoFar
  <2> QED
    BY <1>1, <2>1, <2>2, <2>3 DEF IInv, Writes
<1>11. Counted'
  <2>1. \A k \in Kinds : Missing(k)' = Missing(k)
    BY <1>1, <1>2 DEF Missing
  <2> QED
    BY <1>1, <2>1 DEF IInv, Counted
<1>12. LastFlush'
  <2> SUFFICES ASSUME last PROVE LastFlush'
    BY <1>1 DEF LastFlush
  <2>1. pc = "drain" /\ pc' = "drain"
    BY <1>3 DEF IInv, Attempts
  <2>2. ASSUME ~lastFailed, NEW k \in Kinds, NEW i \in Item,
               lastFrom[k] < i, i <= recv'[k], i \notin Held(k)'
        PROVE  written[k][i] = 1
    <3>1. i <= recv[k] /\ i \notin Held(k)
      <4>1. CASE k = c
        BY <1>2, <2>2, <4>1, Numbers DEF Held
      <4>2. CASE k # c
        BY <1>2, <2>2, <4>2, Numbers DEF Held
      <4> QED
        BY <4>1, <4>2
    <3> QED
      BY <2>2, <3>1 DEF IInv, LastFlush
  <2> QED
    BY <1>1, <1>9, <2>1, <2>2 DEF IInv, LastFlush
<1> QED
  BY <1>4, <1>5, <1>6, <1>10, <1>11, <1>12 DEF IInv

\* Tick, Stop and Drained: nothing moves, a flush or the drain may start.
LEMMA TurnIInv ==
    ASSUME IInv, Tick \/ Stop \/ Drained PROVE IInv'
<1>1. UNCHANGED <<sent, recv, batch, ctxDone, lastDone, written, dropped,
                  faulted, lastFailed>>
  BY DEF Tick, Stop, Drained, ctxVars, storeVars, lastVars
<1>2. \A k \in Kinds : \A i \in Item : i \in Held(k) => written[k][i] = 0
  <2>1. \A k \in Kinds : WritesSoFar(k) = 0
    BY DEF WritesSoFar, Tick, Stop, Drained
  <2> QED
    BY <2>1, Numbers DEF IInv, Writes
<1>3. Places'
  BY <1>1 DEF IInv, Places
<1>4. Counted'
  BY <1>1 DEF IInv, Counted, Missing
<1>5. Writes'
  <2>1. attempt' \in Nat /\ (pc' = "persist" => attempt' = 1) /\ pc' # "backoff"
    BY DEF IInv, TypeOK, Tick, Stop, Drained, Flush
  <2>2. \A k \in Kinds : WritesSoFar(k)' = 0
    BY <2>1 DEF WritesSoFar
  <2> QED
    BY <1>1, <1>2, <2>2 DEF IInv, Writes, Held
<1>6. CASE Tick
  <2>1. /\ pc = "select" /\ pc' = "persist" /\ attempt' = 1 /\ cur' \in Kinds
        /\ UNCHANGED <<last, lastFrom, lastUpto>>
    BY <1>6 DEF Tick, Flush, FlushTarget, Kinds, lastVars
  <2>2. TypeOK' /\ Attempts' /\ LastFlush'
    BY <1>1, <2>1 DEF IInv, TypeOK, Attempts, LastFlush
  <2> QED
    BY <1>3, <1>4, <1>5, <2>2 DEF IInv
<1>7. CASE Drained
  <2>1. /\ pc = "drain" /\ recv = sent
        /\ UNCHANGED <<last, lastFrom, lastUpto>>
    BY <1>7 DEF Drained, lastVars
  <2>2. \/ pc' = "persist" /\ attempt' = 1 /\ cur' \in Kinds
        \/ /\ pc' = "done" /\ UNCHANGED <<cur, attempt>>
           /\ \A k \in Kinds : ~(batch[k] > 0)
    BY <1>7 DEF Drained, Flush, FlushTarget, Kinds
  <2>3. TypeOK'
    <3>1. cur' \in Kinds /\ attempt' \in 1..MaxAttempts
      BY <2>2 DEF IInv, TypeOK
    <3> QED
      BY <1>1, <2>1, <2>2, <3>1 DEF IInv, TypeOK
  <2>4. Attempts'
    BY <1>1, <2>1, <2>2 DEF IInv, Attempts
  <2>5. pc' = "done" => \A k \in Kinds : batch[k] = 0
    BY <2>2 DEF IInv, TypeOK
  <2>6. LastFlush'
    BY <1>1, <2>1, <2>5 DEF IInv, LastFlush, Held
  <2> QED
    BY <1>3, <1>4, <1>5, <2>3, <2>4, <2>6 DEF IInv
<1>8. CASE Stop
  <2>1. /\ pc = "select" /\ pc' = "drain" /\ last' = TRUE /\ ctxDone
        /\ UNCHANGED <<cur, attempt>>
        /\ lastFrom' = [k \in Kinds |-> recv[k] - batch[k]]
        /\ lastUpto' = sent
    BY <1>8 DEF Stop
  <2>2. lastFrom' \in [Kinds -> Nat]
    BY <2>1 DEF IInv, TypeOK, Places
  <2>3. TypeOK' /\ Attempts'
    BY <1>1, <2>1, <2>2 DEF IInv, TypeOK, Attempts
  <2>4. LastFlush'
    <3>1. ASSUME NEW k \in Kinds, NEW i \in Item, lastFrom'[k] < i, i <= recv[k]
          PROVE  i \in Held(k)
      BY <2>1, <3>1 DEF IInv, TypeOK, Held, Item
    <3>2. \A k \in Kinds : lastUpto'[k] <= sent[k]
      BY <2>1 DEF IInv, TypeOK
    <3> QED
      BY <1>1, <1>2, <2>1, <3>1, <3>2 DEF LastFlush, Held
  <2> QED
    BY <1>3, <1>4, <1>5, <2>3, <2>4 DEF IInv
<1> QED
  BY <1>6, <1>7, <1>8

\* A call of the storage that commits the first n items of the batch.
LEMMA CommitEffect ==
    ASSUME IInv, NEW n \in Nat, n <= batch[cur], Commit(n)
    PROVE  /\ written' \in [Kinds -> [Item -> Nat]]
           /\ \A k \in Kinds : \A i \in Item :
                written'[k][i] =
                  IF k = cur /\ i \in Held(cur) /\ i <= recv[cur] - batch[cur] + n
                  THEN written[k][i] + 1 ELSE written[k][i]
<1> DEFINE new == [i \in Item |->
                     IF i \in Held(cur) /\ i <= recv[cur] - batch[cur] + n
                     THEN written[cur][i] + 1 ELSE written[cur][i]]
<1>1. cur \in Kinds /\ written \in [Kinds -> [Item -> Nat]]
  BY DEF IInv, TypeOK
<1>2. new \in [Item -> Nat]
  BY <1>1
<1>3. written' = [written EXCEPT ![cur] = new]
  BY DEF Commit
<1> HIDE DEF new
<1>4. written' \in [Kinds -> [Item -> Nat]]
  BY <1>1, <1>2, <1>3
<1>5. \A k \in Kinds : written'[k] = IF k = cur THEN new ELSE written[k]
  BY <1>1, <1>3
<1>6. \A i \in Item : new[i] =
          IF i \in Held(cur) /\ i <= recv[cur] - batch[cur] + n
          THEN written[cur][i] + 1 ELSE written[cur][i]
  BY DEF new
<1> QED
  BY <1>4, <1>5, <1>6

\* WriteRetry: the batch stays, some of its items got one more row.
LEMMA WriteRetryIInv ==
    ASSUME IInv, WriteRetry PROVE IInv'
<1>1. /\ pc = "persist" /\ pc' = "backoff"
      /\ attempt < MaxAttempts /\ ~Cancelled
      /\ UNCHANGED <<sent, recv, batch, cur, attempt, ctxDone, lastDone, last,
                     dropped, lastFrom, lastUpto>>
      /\ faulted' = (faulted \/ ~Cancelled)
      /\ lastFailed' = (lastFailed \/ last)
  BY DEF WriteRetry, Failed, ctxVars, lastVars
<1>2. PICK n \in Committable : Commit(n)
  BY DEF WriteRetry, Failed
<1>3. cur \in Kinds
  BY DEF IInv, TypeOK
<1>4. n \in Nat /\ n <= batch[cur]
  BY <1>3, Numbers DEF Committable
<1>5. /\ written' \in [Kinds -> [Item -> Nat]]
      /\ \A k \in Kinds : \A i \in Item :
           written'[k][i] =
             IF k = cur /\ i \in Held(cur) /\ i <= recv[cur] - batch[cur] + n
             THEN written[k][i] + 1 ELSE written[k][i]
  BY <1>2, <1>4, CommitEffect
<1>6. TypeOK'
  BY <1>1, <1>5 DEF IInv, TypeOK
<1>7. Places'
  BY <1>1 DEF IInv, Places
<1>8. Attempts'
  BY <1>1 DEF IInv, Attempts
<1>9. Writes'
  <2>0. attempt \in Nat /\ attempt <= MaxAttempts /\ faulted'
    <3>1. attempt \in Nat /\ attempt <= MaxAttempts
      BY DEF IInv, TypeOK
    <3>2. faulted'
      BY <1>1
    <3> QED
      BY <3>1, <3>2
  <2>1. ASSUME NEW k \in Kinds, NEW i \in Item, i > recv[k]
        PROVE  written'[k][i] = 0
    <3>1. i \notin Held(k)
      BY <2>1, Numbers DEF Held
    <3> QED
      BY <1>5, <2>1, <3>1 DEF IInv, Writes
  <2>2. ASSUME NEW k \in Kinds, NEW i \in Item, i \in Held(k)
        PROVE  written'[k][i] <= WritesSoFar(k)'
    <3>1. written[k][i] <= WritesSoFar(k)
      BY <2>2 DEF IInv, Writes
    <3>2. CASE k = cur
      <4>1. WritesSoFar(k) = attempt - 1 /\ WritesSoFar(k)' = attempt
        BY <1>1, <3>2 DEF WritesSoFar
      <4> QED
        BY <1>5, <2>0, <3>1, <4>1, Numbers
    <3>3. CASE k # cur
      BY <1>1, <1>5, <3>1, <3>3 DEF WritesSoFar
    <3> QED
      BY <3>2, <3>3
  <2>3. ASSUME NEW k \in Kinds, NEW i \in Item, i \in Held(k), NEW j \in Item, i < j
        PROVE  written'[k][i] >= written'[k][j]
    <3>1. written[k][i] >= written[k][j]
      BY <2>3 DEF IInv, Writes
    <3>2. written[k][i] \in Nat /\ written[k][j] \in Nat
      BY Numbers
    <3>3. CASE k # cur
      BY <1>5, <3>1, <3>3
    <3>4. CASE k = cur /\ j <= recv[cur] - batch[cur] + n
      <4>1. i <= recv[cur] - batch[cur] + n
        BY <1>4, <2>3, <3>4, Numbers
      <4> QED
        BY <1>5, <2>3, <3>1, <3>2, <3>4, <4>1
    <3>5. CASE k = cur /\ ~(j <= recv[cur] - batch[cur] + n)
      BY <1>5, <2>3, <3>1, <3>2, <3>5
    <3> QED
      BY <3>3, <3>4, <3>5
  <2>4. ASSUME NEW k \in Kinds, NEW i \in Item
        PROVE  written'[k][i] <= MaxAttempts
    <3>1. CASE k = cur /\ i \in Held(cur)
      <4>1. WritesSoFar(k)' = attempt
        BY <1>1, <3>1 DEF WritesSoFar
      <4> QED
        BY <2>0, <2>2, <3>1, <4>1, <1>5
    <3>2. CASE ~(k = cur /\ i \in Held(cur))
      <4>1. written'[k][i] = written[k][i]
        BY <1>5, <3>2
      <4>2. written[k][i] <= IF faulted THEN MaxAttempts ELSE 1
        BY DEF IInv, Writes
      <4> QED
        BY <4>1, <4>2, Numbers
    <3> QED
      BY <3>1, <3>2
  <2> QED
    BY <1>1, <2>0, <2>1, <2>2, <2>3, <2>4 DEF Writes, Held
<1>10. Counted'
  <2>1. ASSUME NEW k \in Kinds, NEW i \in 1..(recv[k] - batch[k])
        PROVE  written'[k][i] = written[k][i]
    <3>1. i \in Item /\ i \notin Held(k)
      BY Numbers DEF Item, Held
    <3> QED
      BY <1>5, <3>1
  <2>2. \A k \in Kinds : Missing(k)' = Missing(k)
    BY <1>1, <2>1 DEF Missing
  <2> QED
    BY <1>1, <2>2 DEF IInv, Counted
<1>11. LastFlush'
  BY <1>1 DEF IInv, LastFlush
<1> QED
  BY <1>6, <1>7, <1>8, <1>9, <1>10, <1>11 DEF IInv

\* The next attempt starts with the writes of the one before.
LEMMA RetryIInv ==
    ASSUME IInv, Retry PROVE IInv'
<1>1. /\ pc = "backoff" /\ pc' = "persist" /\ attempt' = attempt + 1
      /\ UNCHANGED <<sent, recv, batch, cur, ctxDone, lastDone, last, written,
                     dropped, faulted, lastFailed, lastFrom, lastUpto>>
  BY DEF Retry, ctxVars, storeVars, lastVars
<1>2. attempt' \in 1..MaxAttempts /\ faulted
  BY <1>1 DEF IInv, TypeOK, Attempts
<1>3. TypeOK'
  BY <1>1, <1>2 DEF IInv, TypeOK
<1>4. Places' /\ Counted' /\ LastFlush'
  BY <1>1 DEF IInv, Places, Counted, Missing, LastFlush, Held
<1>5. Attempts'
  BY <1>1, <1>2 DEF IInv, Attempts
<1>6. Writes'
  <2>1. attempt \in Nat
    BY DEF IInv, TypeOK
  <2>2. \A k \in Kinds : WritesSoFar(k)' = WritesSoFar(k)
    BY <1>1, <2>1 DEF WritesSoFar
  <2> QED
    BY <1>1, <2>2 DEF IInv, Writes, Held
<1> QED
  BY <1>3, <1>4, <1>5, <1>6 DEF IInv

\* WriteOK, WriteDrop and Abandon: the batch is over and flush goes on.
LEMMA PersistedIInv ==
    ASSUME IInv, WriteOK \/ WriteDrop \/ Abandon PROVE IInv'
<1>1. /\ Persisted
      /\ pc \in {"persist", "backoff"}
      /\ UNCHANGED <<sent, recv, ctxDone, lastDone, last, lastFrom, lastUpto>>
  BY DEF WriteOK, WriteDrop, Failed, Abandon, ctxVars, lastVars
<1>2. cur \in Kinds
  BY DEF IInv, TypeOK
<1>3. /\ batch' \in [Kinds -> Nat]
      /\ batch'[cur] = 0
      /\ \A k \in Kinds : k # cur => batch'[k] = batch[k]
  BY <1>1, <1>2 DEF IInv, TypeOK, Persisted
<1>4. \/ pc' = "persist" /\ attempt' = 1 /\ cur' \in Kinds
      \/ /\ pc' = (IF last THEN "done" ELSE "select") /\ UNCHANGED <<cur, attempt>>
         /\ \A k \in Kinds : ~(batch'[k] > 0)
  BY <1>1 DEF Persisted, Flush, FlushTarget, Kinds
\* What the action does to the storage.
<1>5. /\ written' \in [Kinds -> [Item -> Nat]]
      /\ \A k \in Kinds : \A i \in Item :
           \/ written'[k][i] = written[k][i]
           \/ /\ pc = "persist" /\ k = cur /\ i \in Held(cur)
              /\ written'[k][i] = written[k][i] + 1
      /\ WriteOK => \A i \in Item : i \in Held(cur) =>
           written'[cur][i] = written[cur][i] + 1
  <2>1. CASE WriteOK
    <3>1. Commit(batch[cur]) /\ pc = "persist"
      BY <2>1 DEF WriteOK
    <3>2. batch[cur] \in Nat /\ batch[cur] <= batch[cur] /\ recv[cur] \in Nat
      BY <1>2, Numbers
    <3>3. \A i \in Held(cur) : i <= recv[cur] - batch[cur] + batch[cur]
      BY <3>2 DEF Held
    <3> QED
      BY <1>2, <3>1, <3>2, <3>3, CommitEffect
  <2>2. CASE WriteDrop
    <3>1. pc = "persist"
      BY <2>2 DEF WriteDrop, Failed
    <3>2. PICK n \in Committable : Commit(n)
      BY <2>2 DEF WriteDrop, Failed
    <3>3. n \in Nat /\ n <= batch[cur]
      BY <1>2, Numbers DEF Committable
    <3>4. \/ ~WriteOK
          \/ \A i \in Item : i \in Held(cur) =>
                written'[cur][i] = written[cur][i] + 1
      BY <2>1
    <3> QED
      BY <3>1, <3>2, <3>3, <3>4, CommitEffect
  <2>3. CASE Abandon
    BY <2>1, <2>3 DEF Abandon, storeVars, IInv, TypeOK
  <2> QED
    BY <2>1, <2>2, <2>3
<1>6. /\ faulted' \in BOOLEAN /\ lastFailed' \in BOOLEAN
      /\ faulted => faulted'
      /\ lastFailed => lastFailed'
      /\ lastFailed' => lastFailed \/ last
      /\ last /\ ~lastFailed' => WriteOK
  <2>1. faulted \in BOOLEAN /\ lastFailed \in BOOLEAN /\ last \in BOOLEAN
    BY DEF IInv, TypeOK
  <2>2. CASE WriteOK
    BY <2>1, <2>2 DEF WriteOK
  <2>3. CASE WriteDrop
    BY <2>1, <2>3 DEF WriteDrop, Failed
  <2>4. CASE Abandon
    BY <2>1, <2>4 DEF IInv, Attempts, Abandon, storeVars
  <2> QED
    BY <2>2, <2>3, <2>4
<1>7. dropped' \in [Kinds -> Nat]
  <2>1. CASE WriteDrop
    BY <2>1, <1>2 DEF IInv, TypeOK, WriteDrop
  <2>2. CASE ~WriteDrop
    BY <2>2 DEF IInv, TypeOK, WriteOK, Abandon, storeVars
  <2> QED
    BY <2>1, <2>2
<1>8. TypeOK'
  <2>1. cur' \in Kinds /\ attempt' \in 1..MaxAttempts
    BY <1>2, <1>4 DEF IInv, TypeOK
  <2> QED
    BY <1>1, <1>3, <1>4, <1>5, <1>6, <1>7, <2>1 DEF IInv, TypeOK
<1>9. Places'
  <2> SUFFICES ASSUME NEW k \in Kinds
               PROVE  recv[k] <= sent[k] /\ sent[k] <= MaxSent /\ batch'[k] <= recv[k]
    BY <1>1 DEF Places
  <2> QED
    BY <1>3, Numbers
<1>10. Attempts'
  BY <1>1, <1>4, <1>6 DEF IInv, Attempts
<1>11. \A k \in Kinds : Held(k)' = IF k = cur THEN {} ELSE Held(k)
  BY <1>1, <1>2, <1>3, Numbers DEF Held
<1>12. ASSUME NEW k \in Kinds, NEW i \in Item, k # cur \/ i \notin Held(cur)
       PROVE  written'[k][i] = written[k][i]
  BY <1>5, <1>12
<1>13. Writes'
  <2>1. ASSUME NEW k \in Kinds, NEW i \in Item, i > recv[k]
        PROVE  written'[k][i] = 0
    <3>1. i \notin Held(k)
      BY <2>1, Numbers DEF Held
    <3> QED
      BY <1>12, <2>1, <3>1 DEF IInv, Writes
  <2>2. ASSUME NEW k \in Kinds, NEW i \in Item, i \in Held(k)'
        PROVE  /\ written'[k][i] <= WritesSoFar(k)'
               /\ \A j \in Item : i < j => written'[k][i] >= written'[k][j]
    <3>1. k # cur /\ i \in Held(k)
      BY <1>11, <2>2
    <3>2. written'[k] = written[k]
      <4>1. \A j \in Item : written'[k][j] = written[k][j]
        BY <1>12, <3>1
      <4>2. written'[k] \in [Item -> Nat] /\ written[k] \in [Item -> Nat]
        BY <1>5 DEF IInv, TypeOK
      <4> QED
        BY <4>1, <4>2
    <3>3. written[k][i] = 0
      <4>1. WritesSoFar(k) = 0
        BY <3>1 DEF WritesSoFar
      <4> QED
        BY <3>1, <4>1, Numbers DEF IInv, Writes
    <3>4. WritesSoFar(k)' = 0
      BY <1>4 DEF WritesSoFar
    <3> QED
      BY <3>1, <3>2, <3>3, <3>4 DEF IInv, Writes
  <2>3. ASSUME NEW k \in Kinds, NEW i \in Item
        PROVE  written'[k][i] <= IF faulted' THEN MaxAttempts ELSE 1
    <3>1. written[k][i] <= IF faulted THEN MaxAttempts ELSE 1
      BY DEF IInv, Writes
    <3>2. CASE written'[k][i] = written[k][i]
      BY <1>6, <3>1, <3>2, Numbers
    <3>3. CASE /\ pc = "persist" /\ k = cur /\ i \in Held(cur)
               /\ written'[k][i] = written[k][i] + 1
      <4>1. written[k][i] <= attempt - 1
        <5>1. WritesSoFar(k) = attempt - 1
          BY <3>3 DEF WritesSoFar
        <5> QED
          BY <3>3, <5>1 DEF IInv, Writes
      <4>2. attempt \in 1..MaxAttempts /\ (~faulted => attempt = 1)
        BY <3>3 DEF IInv, TypeOK, Attempts
      <4>3. written[k][i] \in Nat
        BY Numbers
      <4> QED
        BY <1>6, <3>3, <4>1, <4>2, <4>3
    <3> QED
      BY <1>5, <3>2, <3>3
  <2> QED
    BY <1>1, <2>1, <2>2, <2>3 DEF Writes
<1>14. Counted'
  <2> SUFFICES ASSUME ~ctxDone \/ ~faulted', NEW k \in Kinds
               PROVE  Cardinality(Missing(k)') <= dropped'[k]
    BY <1>1 DEF Counted
  <2>1. Cardinality(Missing(k)) <= dropped[k] /\ dropped[k] \in Nat
    BY <1>6 DEF IInv, TypeOK, Counted
  <2> DEFINE a == recv[k] - batch[k]
             b == recv[k] - batch'[k]
  <2>2. a \in Nat /\ b \in Nat /\ a <= b
    BY <1>3, Numbers
  <2>3. Missing(k) \subseteq 1..a
    BY DEF Missing
  <2>4. Missing(k)' \subseteq Missing(k) \cup ((a + 1)..b)
    <3> SUFFICES ASSUME NEW i \in 1..b, written'[k][i] = 0, i <= a
                 PROVE  written[k][i] = 0
      BY <1>1, <2>2 DEF Missing
    <3>1. i \in Item
      BY <1>3, Numbers DEF Item
    <3> QED
      BY <1>5, <3>1, Numbers
  <2>5. CASE k # cur
    <3>1. a = b
      BY <1>3, <2>5
    <3>2. dropped'[k] = dropped[k]
      BY <2>5 DEF IInv, TypeOK, WriteOK, WriteDrop, Abandon, storeVars
    <3> HIDE DEF a, b
    <3> QED
      BY <2>1, <2>2, <2>3, <2>4, <3>1, <3>2, CardinalityUpTo
  <2>6. CASE k = cur /\ WriteDrop
    <3>1. dropped'[k] = dropped[k] + batch[k]
      BY <1>2, <2>6 DEF IInv, TypeOK, WriteDrop
    <3>2. b - a = batch[k]
      BY <1>3, <2>6, Numbers
    <3>3. batch[k] \in Nat
      BY Numbers
    <3> HIDE DEF a, b
    <3>4. /\ Cardinality(Missing(k)) \in Nat
          /\ Cardinality(Missing(k)') \in Nat
          /\ Cardinality(Missing(k)') <= Cardinality(Missing(k)) + (b - a)
      BY <2>2, <2>3, <2>4, CardinalityUpTo
    <3> QED
      BY <2>1, <3>1, <3>2, <3>3, <3>4
  <2>7. CASE k = cur /\ WriteOK
    <3>1. Missing(k)' \subseteq Missing(k) \cup ((a + 1)..a)
      <4> SUFFICES ASSUME NEW i \in (a + 1)..b PROVE written'[k][i] # 0
        BY <1>1, <2>2, <2>4 DEF Missing
      <4>1. i \in Item /\ i \in Held(cur)
        BY <1>3, <2>7, Numbers DEF Item, Held
      <4> QED
        BY <1>5, <2>7, <4>1, Numbers
    <3>2. dropped'[k] = dropped[k]
      BY <2>7 DEF WriteOK
    <3> HIDE DEF a, b
    <3>3. /\ Cardinality(Missing(k)) \in Nat
          /\ Cardinality(Missing(k)') \in Nat
          /\ Cardinality(Missing(k)') <= Cardinality(Missing(k)) + (a - a)
      BY <2>2, <2>3, <3>1, CardinalityUpTo
    <3> QED
      BY <2>1, <2>2, <3>2, <3>3
  <2>8. CASE Abandon
    BY <1>6, <2>8 DEF IInv, TypeOK, Attempts, Abandon, Cancelled
  <2> QED
    BY <2>5, <2>6, <2>7, <2>8
<1>15. LastFlush'
  <2> SUFFICES ASSUME last PROVE LastFlush'
    BY <1>1 DEF LastFlush
  <2>1. pc' = "done" => \A k \in Kinds : batch'[k] = 0
    BY <1>3, <1>4
  <2>2. \A k \in Kinds : lastUpto[k] <= recv[k] /\ lastUpto[k] <= sent[k]
    BY <1>1 DEF IInv, LastFlush
  <2>3. ASSUME ~lastFailed', NEW k \in Kinds, NEW i \in Item,
               lastFrom[k] < i, i <= recv[k]
        PROVE  IF i \in Held(k)' THEN written'[k][i] = 0 ELSE written'[k][i] = 1
    <3>1. WriteOK /\ ~lastFailed
      BY <1>6, <2>3
    <3>2. IF i \in Held(k) THEN written[k][i] = 0 ELSE written[k][i] = 1
      BY <2>3, <3>1 DEF IInv, LastFlush
    <3>3. CASE k = cur /\ i \in Held(cur)
      BY <1>5, <1>11, <3>1, <3>2, <3>3
    <3>4. CASE ~(k = cur /\ i \in Held(cur))
      BY <1>11, <1>12, <3>2, <3>4
    <3> QED
      BY <3>3, <3>4
  <2> QED
    BY <1>1, <2>1, <2>2, <2>3 DEF LastFlush
<1> QED
  BY <1>8, <1>9, <1>10, <1>13, <1>14, <1>15 DEF IInv

\* Every step keeps the invariant.
LEMMA NextIInv == IInv /\ [Next]_vars => IInv'
<1> SUFFICES ASSUME IInv, [Next]_vars PROVE IInv'
  OBVIOUS
<1>1. CASE Terminated \/ UNCHANGED vars
  <2>1. UNCHANGED vars
    BY <1>1 DEF Terminated
  <2>2. TypeOK' /\ Places' /\ Attempts'
    BY <2>1 DEF vars, IInv, TypeOK, Places, Attempts
  <2>3. Writes' /\ Counted' /\ LastFlush'
    BY <2>1 DEF vars, IInv, Writes, WritesSoFar, Held, Counted, Missing, LastFlush
  <2> QED
    BY <2>2, <2>3 DEF IInv
<1>2. CASE \E k \in Kinds : Send(k)
  BY <1>2, SendIInv
<1>3. CASE Cancel \/ Deadline
  BY <1>3, CancelIInv
<1>4. CASE WriterStep
  BY <1>4, TakeIInv, TurnIInv, WriteRetryIInv, RetryIInv, PersistedIInv
     DEF WriterStep
<1> QED
  BY <1>1, <1>2, <1>3, <1>4 DEF Next

\* The invariant holds in every behaviour of the writer.
THEOREM Invariance == Spec => []IInv
  BY InitIInv, NextIInv, PTL DEF Spec

-----------------------------------------------------------------------------
(* The theorems                                                            *)

\* Type correctness of the writer, for all constants.
THEOREM TypeCorrect == Spec => []TypeOK
<1>1. IInv => TypeOK
  BY DEF IInv
<1> QED
  BY <1>1, Invariance, PTL

\* While its context is alive (and beyond, if no write failed by itself)
\* RunWriter loses no more items than the dropped-rows counter admits.
THEOREM LossIsCounted == Spec => []Accounted
<1>1. ASSUME IInv PROVE Accounted
  <2> SUFFICES ASSUME NEW k \in Kinds, ~ctxDone \/ ~faulted
               PROVE  Cardinality(Unaccounted(k)) <= dropped[k]
    BY DEF Accounted
  <2>1. Unaccounted(k) = Missing(k)
    BY <1>1, Numbers DEF Unaccounted, Missing, Held
  <2> QED
    BY <1>1, <2>1 DEF IInv, Counted
<1> QED
  BY <1>1, Invariance, PTL

\* Within a channel no item is stored more often than an earlier item that
\* the writer still holds, whatever fails and however often it is retried.
THEOREM StoredInOrder == Spec => []WrittenInOrder
<1>1. ASSUME IInv PROVE WrittenInOrder
  <2> SUFFICES ASSUME NEW k \in Kinds, NEW i \in 1..recv[k], NEW j \in 1..recv[k],
                      i < j, i \in Held(k)
               PROVE  written[k][i] >= written[k][j]
    BY DEF WrittenInOrder
  <2>1. i \in Item /\ j \in Item
    BY <1>1, Numbers DEF Item
  <2> QED
    BY <1>1, <2>1 DEF IInv, Writes
<1> QED
  BY <1>1, Invariance, PTL

\* No item is stored more often than persist has attempts, and none twice
\* as long as no write failed under a live context.
THEOREM StoredAtMost == Spec => []WritesBounded
<1>1. ASSUME IInv PROVE WritesBounded
  BY <1>1 DEF IInv, Writes, WritesBounded
<1> QED
  BY <1>1, Invariance, PTL

\* The last flush stores, exactly once, all that was gathered or queued when
\* the writer noticed the shutdown, unless one of its writes failed.
THEOREM LastFlushStoresAll == Spec => []LastFlushComplete
<1>1. ASSUME IInv PROVE LastFlushComplete
  <2> SUFFICES ASSUME pc = "done", ~lastFailed, NEW k \in Kinds, NEW i \in Item,
                      lastFrom[k] < i, i <= lastUpto[k] \/ i <= recv[k]
               PROVE  written[k][i] = 1
    BY DEF LastFlushComplete
  <2>1. last /\ batch[k] = 0 /\ lastUpto[k] <= recv[k]
    BY <1>1 DEF IInv, Attempts, LastFlush
  <2>2. lastUpto[k] \in Nat
    BY <1>1 DEF IInv, TypeOK
  <2>3. i <= recv[k] /\ i \notin Held(k)
    BY <1>1, <2>1, <2>2, Numbers DEF Held
  <2> QED
    BY <1>1, <2>1, <2>3 DEF IInv, LastFlush
<1> QED
  BY <1>1, Invariance, PTL
=============================================================================
