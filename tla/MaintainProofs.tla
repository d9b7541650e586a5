--------------------------- MODULE MaintainProofs ---------------------------
(***************************************************************************)
(* Proofs about the maintenance of the mysql storage.                      *)
(*                                                                         *)
(* The heart is that the days from today on that have a partition have no  *)
(* gap below the latest one (Contiguous), which rests on the mutual        *)
(* exclusion of the runs (Mutex) and on the order in which a run looks at  *)
(* the three days (Looked).                                                *)
(***************************************************************************)
EXTENDS Maintain, TLAPS

Mutex == \A i \in Instances : pc[i] # "idle" => lock = i

Clock == FirstDay <= day /\ \A i \in Instances : today[i] <= day

\* What the lists of a run hold is current.
Listed == \A i \in Instances : pc[i] \in {"create", "drop"} => existing[i] = parts

\* The days a run has looked at have a partition at or above them.
Looked ==
    \A i \in Instances : pc[i] = "create" =>
        \A e \in Int : today[i] - 1 <= e /\ e < next[i] => \E q \in parts : e <= q

Contiguous == \A p \in parts : \A d \in Int : day <= d /\ d <= p => d \in parts

Assured == \A d \in Int : day <= d /\ d <= ensured + 1 => d \in parts

IInv ==
    /\ TypeOK /\ Mutex /\ Clock /\ Listed /\ Looked /\ Contiguous /\ Assured

-----------------------------------------------------------------------------
LEMMA IInvInit == Init => IInv
  <1> SUFFICES ASSUME Init PROVE IInv
    OBVIOUS
  <1>1. TypeOK
    BY DaysAssumption, BatchesAssumption, MaxErrorsAssumption DEF Init, TypeOK
  <1>2. Mutex /\ Clock /\ Listed /\ Looked /\ Contiguous /\ Assured
    BY DaysAssumption DEF Init, Mutex, Clock, Listed, Looked, Contiguous, Assured
  <1> QED BY <1>1, <1>2 DEF IInv

LEMMA TypeStep == IInv /\ [Next]_vars => TypeOK'
  <1> SUFFICES ASSUME IInv, [Next]_vars PROVE TypeOK'
    OBVIOUS
  <1> USE DaysAssumption, BatchesAssumption, MaxErrorsAssumption, RetentionAssumption
  <1>1. CASE Midnight
    BY <1>1 DEF IInv, TypeOK, Midnight, tables, run
  <1>2. CASE StoreEvents
    BY <1>2 DEF IInv, TypeOK, StoreEvents, run
  <1>3. ASSUME NEW i \in Instances, Lock(i) \/ Work(i) \/ SessionEnds(i)
        PROVE  TypeOK'
    <2>1. CASE Lock(i)
      BY <2>1 DEF IInv, TypeOK, Lock, Goto, tables
    <2>2. CASE List(i)
      BY <2>2 DEF IInv, TypeOK, List, Goto, tables
    <2>3. CASE Create(i)
      <3>1. next[i] \in Int /\ next[i] + 1 \in Int
        BY DEF IInv, TypeOK
      <3>2. parts' \in SUBSET Int /\ existing' \in [Instances -> SUBSET Int]
            /\ next' \in [Instances -> Int]
        BY <2>3, <3>1 DEF IInv, TypeOK, Create
      <3> QED BY <2>3, <3>2 DEF IInv, TypeOK, Create
    <2>4. CASE Skip(i)
      BY <2>4 DEF IInv, TypeOK, Skip, tables
    <2>5. CASE ListAgain(i)
      BY <2>5 DEF IInv, TypeOK, ListAgain, NoteEnsured, Goto, tables
    <2>6. CASE Drop(i)
      BY <2>6 DEF IInv, TypeOK, Drop
    <2>7. CASE DropDone(i)
      BY <2>7 DEF IInv, TypeOK, DropDone, Goto, tables, Tables
    <2>8. CASE DeleteBatch(i)
      BY <2>8 DEF IInv, TypeOK, DeleteBatch, MoreBatches
    <2>9. CASE BatchesDone(i)
      BY <2>9 DEF IInv, TypeOK, BatchesDone, After, Goto, tables, Tables
    <2>10. CASE Fail(i)
      BY <2>10 DEF IInv, TypeOK, Fail, NoteEnsured, AfterError, Goto, tables, Tables
    <2>11. CASE Release(i)
      BY <2>11 DEF IInv, TypeOK, Release, Return, Goto, tables
    <2>12. CASE SessionEnds(i)
      BY <2>12 DEF IInv, TypeOK, SessionEnds, Return, Goto, tables
    <2> QED BY <1>3, <2>1, <2>2, <2>3, <2>4, <2>5, <2>6, <2>7, <2>8, <2>9, <2>10, <2>11, <2>12
            DEF Work
  <1>4. CASE UNCHANGED vars
    BY <1>4 DEF IInv, TypeOK, vars, tables, run
  <1> QED BY <1>1, <1>2, <1>3, <1>4 DEF Next

\* A step that leaves the partitions, the latest success and the run alone.
LEMMA IdleStep ==
    ASSUME IInv, TypeOK', parts' = parts, ensured' = ensured, lock' = lock,
           UNCHANGED run, day' >= day
    PROVE  IInv'
  <1>1. Mutex' /\ Listed' /\ Looked'
    BY DEF IInv, Mutex, Listed, Looked, run
  <1>2. Clock'
    BY DaysAssumption DEF IInv, TypeOK, Clock, run
  <1>3. Contiguous' /\ Assured'
    BY DEF IInv, TypeOK, Contiguous, Assured
  <1> QED BY <1>1, <1>2, <1>3 DEF IInv

\* A step of a run that leaves the partitions and the latest success alone.
LEMMA QuietStep ==
    ASSUME IInv, TypeOK', NEW i \in Instances, parts' = parts, ensured' = ensured,
           day' = day,
           \A j \in Instances : j # i => pc'[j] = pc[j] /\ existing'[j] = existing[j]
                                         /\ today'[j] = today[j] /\ next'[j] = next[j],
           lock = i \/ lock = Nobody,
           pc'[i] # "idle" => lock' = i,
           today'[i] <= day,
           pc'[i] \in {"create", "drop"} => existing'[i] = parts,
           pc'[i] = "create" =>
               \A e \in Int : today'[i] - 1 <= e /\ e < next'[i] => \E q \in parts : e <= q
    PROVE  IInv'
  <1>1. \A j \in Instances : j # i => pc[j] = "idle"
    BY NobodyAssumption DEF IInv, Mutex
  <1>2. Mutex' /\ Listed' /\ Looked'
    BY <1>1 DEF IInv, Mutex, Listed, Looked
  <1>3. Clock'
    BY DEF IInv, Clock
  <1>4. Contiguous' /\ Assured'
    BY DEF IInv, Contiguous, Assured
  <1> QED BY <1>2, <1>3, <1>4 DEF IInv

LEMMA CreateStep ==
    ASSUME IInv, TypeOK', NEW i \in Instances, Create(i)
    PROVE  IInv'
  <1>1. lock = i /\ \A j \in Instances : j # i => pc[j] = "idle"
    BY DEF IInv, Mutex, Create
  <1>2. /\ pc' = pc /\ lock' = lock /\ day' = day /\ today' = today /\ ensured' = ensured
        /\ parts' = parts \cup {next[i]}
        /\ next'[i] = next[i] + 1
        /\ existing'[i] = existing[i] \cup {next[i]}
    BY DEF Create, IInv, TypeOK
  <1>3. Mutex' /\ Clock'
    BY <1>2 DEF IInv, Mutex, Clock
  <1>4. Listed'
    BY <1>1, <1>2 DEF IInv, Listed, Create
  <1>5. Looked'
    <2> SUFFICES ASSUME NEW e \in Int, today[i] - 1 <= e, e < next[i] + 1
                 PROVE  \E q \in parts' : e <= q
      BY <1>1, <1>2 DEF Looked, Create
    <2>1. CASE e < next[i]
      BY <2>1, <1>2 DEF IInv, Looked, Create
    <2>2. CASE e >= next[i]
      <3>1. e = next[i]
        BY <2>2 DEF IInv, TypeOK
      <3>2. next[i] \in parts' /\ e <= next[i]
        BY <3>1, <1>2
      <3> QED BY <3>2
    <2> QED BY <2>1, <2>2 DEF IInv, TypeOK
  <1>6. Contiguous'
    <2> SUFFICES ASSUME NEW p \in parts', NEW d \in Int, day <= d, d <= p
                 PROVE  d \in parts'
      BY <1>2 DEF Contiguous
    <2>1. CASE p \in parts
      BY <2>1, <1>2 DEF IInv, Contiguous
    <2>2. CASE p = next[i] /\ d = next[i]
      BY <2>2, <1>2
    <2>3. CASE p = next[i] /\ d # next[i]
      <3>1. today[i] - 1 <= d /\ d < next[i]
        BY <2>3 DEF IInv, TypeOK, Clock
      <3>2. PICK q \in parts : d <= q
        BY <3>1 DEF IInv, Looked, Create
      <3> QED BY <3>2, <1>2 DEF IInv, Contiguous
    <2> QED BY <2>1, <2>2, <2>3, <1>2
  <1>7. Assured'
    BY <1>2 DEF IInv, Assured
  <1> QED BY <1>3, <1>4, <1>5, <1>6, <1>7 DEF IInv

\* A success of ensurePartitions, noted by whichever statement comes next.
LEMMA NoteEnsuredStep ==
    ASSUME IInv, TypeOK', NEW i \in Instances, pc[i] # "idle", NoteEnsured(i),
           UNCHANGED <<day, parts>>
    PROVE  Assured'
  <1>1. CASE ensured' = ensured
    BY <1>1 DEF IInv, Assured
  <1>2. CASE Ensured(i) /\ ensured' = today[i]
    <2> SUFFICES ASSUME NEW d \in Int, day <= d, d <= today[i] + 1
                 PROVE  d \in parts
      BY <1>2 DEF Assured
    <2>1. today[i] - 1 <= d /\ d < next[i]
      BY <1>2 DEF IInv, TypeOK, Clock, Ensured
    <2>2. PICK q \in parts : d <= q
      BY <2>1, <1>2 DEF IInv, Looked, Ensured
    <2> QED BY <2>2 DEF IInv, Contiguous
  <1> QED BY <1>1, <1>2 DEF NoteEnsured

LEMMA ListAgainStep ==
    ASSUME IInv, TypeOK', NEW i \in Instances, ListAgain(i)
    PROVE  IInv'
  <1>1. pc[i] # "idle" /\ lock = i /\ \A j \in Instances : j # i => pc[j] = "idle"
    BY DEF IInv, Mutex, ListAgain, Ensured
  <1>2. /\ lock' = lock /\ day' = day /\ today' = today /\ parts' = parts
        /\ pc' = [pc EXCEPT ![i] = "drop"]
        /\ existing'[i] = parts
    BY DEF ListAgain, Goto, tables, IInv, TypeOK
  <1>3. Mutex' /\ Clock' /\ Listed' /\ Looked'
    BY <1>1, <1>2 DEF IInv, TypeOK, Mutex, Clock, Listed, Looked
  <1>4. Contiguous'
    BY <1>2 DEF IInv, Contiguous
  <1>5. Assured'
    BY <1>1, <1>2, NoteEnsuredStep DEF ListAgain
  <1> QED BY <1>3, <1>4, <1>5 DEF IInv

LEMMA FailStep ==
    ASSUME IInv, TypeOK', NEW i \in Instances, Fail(i)
    PROVE  IInv'
  <1>1. /\ pc[i] \in DOMAIN AfterError
        /\ pc'[i] = AfterError[IF Ensured(i) THEN "relist" ELSE pc[i]]
        /\ \A j \in Instances : j # i => pc'[j] = pc[j]
        /\ lock' = lock /\ day' = day /\ today' = today /\ parts' = parts
    BY DEF Fail, Goto, tables, IInv, TypeOK
  <1>2. pc[i] # "idle" /\ pc'[i] \notin {"idle", "create", "drop"}
    BY <1>1 DEF AfterError
  <1>3. lock = i /\ \A j \in Instances : j # i => pc[j] = "idle"
    BY <1>2 DEF IInv, Mutex
  <1>4. Mutex' /\ Clock' /\ Listed' /\ Looked'
    BY <1>1, <1>2, <1>3 DEF IInv, TypeOK, Mutex, Clock, Listed, Looked
  <1>5. Contiguous'
    BY <1>1 DEF IInv, Contiguous
  <1>6. Assured'
    BY <1>1, <1>2, NoteEnsuredStep DEF Fail
  <1> QED BY <1>4, <1>5, <1>6 DEF IInv

LEMMA DropStep ==
    ASSUME IInv, TypeOK', NEW i \in Instances, Drop(i)
    PROVE  IInv'
  <1>1. lock = i /\ \A j \in Instances : j # i => pc[j] = "idle"
    BY DEF IInv, Mutex, Drop
  <1>2. PICK p \in existing[i] :
            /\ Expired(i, p)
            /\ parts' = parts \ {p}
            /\ existing' = [existing EXCEPT ![i] = @ \ {p}]
    BY DEF Drop
  <1>3. /\ pc' = pc /\ lock' = lock /\ day' = day /\ today' = today /\ ensured' = ensured
        /\ next' = next /\ pc[i] = "drop"
    BY DEF Drop
  <1>4. p \in Int /\ p < day
    <2>1. p \in Int /\ today[i] \in Int /\ day \in Int /\ today[i] <= day
      BY <1>2 DEF IInv, TypeOK, Clock
    <2>2. Retention[i] \in Nat
      BY RetentionAssumption
    <2>3. p + 1 <= today[i] - Retention[i]
      BY <1>2 DEF Expired, Cutoff
    <2> QED BY <2>1, <2>2, <2>3
  <1>5. Mutex' /\ Clock'
    BY <1>3 DEF IInv, Mutex, Clock
  <1>6. Listed' /\ Looked'
    BY <1>1, <1>2, <1>3 DEF IInv, TypeOK, Listed, Looked
  <1>7. Contiguous' /\ Assured'
    BY <1>2, <1>3, <1>4 DEF IInv, TypeOK, Contiguous, Assured
  <1> QED BY <1>5, <1>6, <1>7 DEF IInv

LEMMA IInvStep == IInv /\ [Next]_vars => IInv'
  <1> SUFFICES ASSUME IInv, [Next]_vars PROVE IInv'
    OBVIOUS
  <1>0. TypeOK'
    BY TypeStep
  <1>1. CASE Midnight
    <2>1. day' >= day
      BY <1>1 DEF IInv, TypeOK, Midnight
    <2> QED BY <1>0, <1>1, <2>1, IdleStep DEF Midnight, tables
  <1>2. CASE StoreEvents
    <2>1. day' >= day
      BY <1>2 DEF IInv, TypeOK, StoreEvents
    <2> QED BY <1>0, <1>2, <2>1, IdleStep DEF StoreEvents
  <1>3. CASE UNCHANGED vars
    <2>1. day' >= day
      BY <1>3 DEF IInv, TypeOK, vars
    <2> QED BY <1>0, <1>3, <2>1, IdleStep DEF vars, tables
  <1>4. ASSUME NEW i \in Instances, Lock(i) \/ Work(i) \/ SessionEnds(i)
        PROVE  IInv'
    <2> DEFINE Alone ==
          \A j \in Instances : j # i => pc'[j] = pc[j] /\ existing'[j] = existing[j]
                                        /\ today'[j] = today[j] /\ next'[j] = next[j]
    <2>0. /\ pc[i] # "idle" => lock = i
          /\ today[i] <= day /\ FirstDay <= day
          /\ pc[i] \in {"create", "drop"} => existing[i] = parts
          /\ today[i] \in Int /\ next[i] \in Int /\ day \in Int
      BY <1>4 DEF IInv, TypeOK, Mutex, Clock, Listed
    <2>1. CASE Lock(i)
      <3>1. Alone /\ pc'[i] = "list" /\ lock' = i /\ today'[i] = day
            /\ parts' = parts /\ ensured' = ensured /\ day' = day /\ lock = Nobody
        BY <2>1 DEF Lock, Free, Goto, tables, IInv, TypeOK
      <3> QED BY <3>1, <1>0, <1>4, <2>0, QuietStep
    <2>2. CASE List(i)
      <3>1. Alone /\ pc[i] = "list" /\ pc'[i] = "create" /\ lock' = lock /\ today'[i] = today[i]
            /\ existing'[i] = parts /\ next'[i] = today[i] - 1
            /\ parts' = parts /\ ensured' = ensured /\ day' = day
        BY <2>2 DEF List, Goto, tables, IInv, TypeOK
      <3> QED BY <3>1, <1>0, <1>4, <2>0, QuietStep
    <2>3. CASE Create(i)
      BY <2>3, <1>0, <1>4, CreateStep
    <2>4. CASE Skip(i)
      <3>1. Alone /\ pc[i] = "create" /\ pc' = pc /\ lock' = lock /\ today'[i] = today[i]
            /\ existing'[i] = existing[i] /\ next'[i] = next[i] + 1
            /\ parts' = parts /\ ensured' = ensured /\ day' = day
        BY <2>4 DEF Skip, tables, IInv, TypeOK
      <3>2. PICK q \in parts : next[i] <= q
        BY <2>0, <2>4, <3>1 DEF Skip, Missing, IInv, TypeOK
      <3>3. \A e \in Int : today[i] - 1 <= e /\ e < next[i] + 1 => \E p \in parts : e <= p
        <4> SUFFICES ASSUME NEW e \in Int, today[i] - 1 <= e, e < next[i] + 1
                     PROVE  \E p \in parts : e <= p
          OBVIOUS
        <4>1. CASE e < next[i]
          BY <4>1, <1>4, <3>1 DEF IInv, Looked
        <4>2. CASE e >= next[i]
          <5>1. e <= q
            BY <4>2, <2>0, <3>2 DEF IInv, TypeOK
          <5> QED BY <5>1
        <4> QED BY <4>1, <4>2, <2>0
      <3> QED BY <3>1, <3>3, <1>0, <1>4, <2>0, QuietStep
    <2>5. CASE ListAgain(i)
      BY <2>5, <1>0, <1>4, ListAgainStep
    <2>6. CASE Drop(i)
      BY <2>6, <1>0, <1>4, DropStep
    <2>7. CASE DropDone(i)
      <3>1. Alone /\ pc[i] = "drop" /\ pc'[i] = "rollup" /\ lock' = lock /\ today'[i] = today[i]
            /\ parts' = parts /\ ensured' = ensured /\ day' = day
        BY <2>7 DEF DropDone, Goto, tables, IInv, TypeOK
      <3> QED BY <3>1, <1>0, <1>4, <2>0, QuietStep
    <2>8. CASE DeleteBatch(i)
      <3>1. Alone /\ pc[i] \in Tables /\ pc' = pc /\ lock' = lock /\ today'[i] = today[i]
            /\ parts' = parts /\ ensured' = ensured /\ day' = day
        BY <2>8 DEF DeleteBatch
      <3>2. pc[i] \notin {"idle", "create", "drop"}
        BY <3>1 DEF Tables
      <3> QED BY <3>1, <3>2, <1>0, <1>4, <2>0, QuietStep
    <2>9. CASE BatchesDone(i)
      <3>1. Alone /\ pc[i] \in Tables /\ pc'[i] = After[pc[i]] /\ lock' = lock
            /\ today'[i] = today[i]
            /\ parts' = parts /\ ensured' = ensured /\ day' = day
        BY <2>9 DEF BatchesDone, Goto, tables, IInv, TypeOK
      <3>2. pc[i] # "idle" /\ pc'[i] \notin {"idle", "create", "drop"}
        BY <3>1 DEF Tables, After
      <3> QED BY <3>1, <3>2, <1>0, <1>4, <2>0, QuietStep
    <2>10. CASE Fail(i)
      BY <2>10, <1>0, <1>4, FailStep
    <2>11. CASE Release(i) \/ SessionEnds(i)
      <3>1. Alone /\ pc[i] # "idle" /\ pc'[i] = "idle" /\ today'[i] = FirstDay
            /\ parts' = parts /\ ensured' = ensured /\ day' = day
        BY <2>11 DEF Release, SessionEnds, Return, Goto, tables, IInv, TypeOK
      <3> QED BY <3>1, <1>0, <1>4, <2>0, QuietStep
    <2> QED BY <1>4, <2>1, <2>2, <2>3, <2>4, <2>5, <2>6, <2>7, <2>8, <2>9, <2>10, <2>11 DEF Work
  <1> QED BY <1>1, <1>2, <1>3, <1>4 DEF Next

LEMMA Invariance == Spec => []IInv
  <1>1. Init => IInv
    BY IInvInit
  <1>2. IInv /\ [Next]_vars => IInv'
    BY IInvStep
  <1> QED BY <1>1, <1>2, PTL DEF Spec

-----------------------------------------------------------------------------
\* Type correctness of the maintenance of the mysql storage.
THEOREM TypeCorrect == Spec => []TypeOK
  <1>1. IInv => TypeOK
    BY DEF IInv
  <1> QED BY <1>1, Invariance, PTL

\* However many instances run Maintain, the one that holds the named lock acts on
\* lists that are current: REORGANIZE PARTITION is never refused for its bound.
THEOREM ListsStayCurrent == Spec => []ListsCurrent
  <1>1. IInv => ListsCurrent
    BY DEF IInv, Listed, ListsCurrent, Missing, Ascends
  <1> QED BY <1>1, Invariance, PTL

\* After a success of ensurePartitions the rows of the day are not in p_max until
\* the end of the next day, for any retentions.
THEOREM DayIsPartitioned == Spec => []DayHasPartition
  <1>1. IInv => DayHasPartition
    BY DEF IInv, TypeOK, Assured, DayHasPartition
  <1> QED BY <1>1, Invariance, PTL

\* Maintain deletes nothing that is newer than the retention of every instance.
THEOREM OnlyExpiredGo == Spec => OnlyExpired
  <1> DEFINE Due == /\ \A d \in rows \ rows' : \E i \in Instances : d + Retention[i] < day
                    /\ \A t \in Tables : \A d \in old[t] \ old'[t] :
                           \E i \in Instances : d + Retention[i] < day
  <1>1. IInv /\ [Next]_vars => [Due]_vars
    <2> SUFFICES ASSUME IInv, Next PROVE Due
      OBVIOUS
    <2>0. \A i \in Instances : today[i] <= day /\ today[i] \in Int /\ day \in Int
                                /\ Retention[i] \in Nat
      BY RetentionAssumption DEF IInv, TypeOK, Clock
    <2>1. ASSUME NEW i \in Instances, Drop(i) PROVE Due
      <3>1. PICK p \in existing[i] : Expired(i, p) /\ rows' = rows \ Within(p)
        BY <2>1 DEF Drop
      <3>2. p \in Int /\ p + 1 <= today[i] - Retention[i]
        BY <3>1 DEF Expired, Cutoff, IInv, TypeOK
      <3>3. \A d \in rows \ rows' : d \in Int /\ d <= p
        BY <3>1 DEF Within, IInv, TypeOK
      <3>4. \A d \in rows \ rows' : d + Retention[i] < day
        BY <3>2, <3>3, <2>0
      <3>5. old' = old
        BY <2>1 DEF Drop
      <3> QED BY <3>4, <3>5
    <2>2. ASSUME NEW i \in Instances, DeleteBatch(i) PROVE Due
      <3>1. PICK S \in SUBSET Before(pc[i], Cutoff(i)) : old' = [old EXCEPT ![pc[i]] = @ \ S]
        BY <2>2 DEF DeleteBatch
      <3>2. \A t \in Tables : \A d \in old[t] \ old'[t] :
               d \in Int /\ d < today[i] - Retention[i]
        BY <2>2, <3>1 DEF Before, Cutoff, IInv, TypeOK, DeleteBatch
      <3>3. \A t \in Tables : \A d \in old[t] \ old'[t] : d + Retention[i] < day
        BY <3>2, <2>0
      <3>4. rows' = rows
        BY <2>2 DEF DeleteBatch
      <3> QED BY <3>3, <3>4
    <2>3. CASE StoreEvents
      <3>1. \A t \in Tables : old[t] \subseteq old'[t]
        BY <2>3 DEF StoreEvents
      <3>2. rows \subseteq rows'
        BY <2>3 DEF StoreEvents
      <3> QED BY <3>1, <3>2
    <2>4. CASE rows' = rows /\ old' = old
      BY <2>4
    <2>5. Midnight => rows' = rows /\ old' = old
      BY DEF Midnight, tables
    <2>6. ASSUME NEW i \in Instances,
                 Lock(i) \/ SessionEnds(i) \/ (Work(i) /\ ~Drop(i) /\ ~DeleteBatch(i))
          PROVE  rows' = rows /\ old' = old
      BY <2>6 DEF Lock, SessionEnds, Work, List, Create, Skip, ListAgain, DropDone, BatchesDone,
                  Fail, Release, tables
    <2> QED BY <2>1, <2>2, <2>3, <2>4, <2>5, <2>6 DEF Next, Work
  <1> QED BY <1>1, Invariance, PTL DEF Spec, OnlyExpired
=============================================================================
