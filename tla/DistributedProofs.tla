------------------------- MODULE DistributedProofs --------------------------
(***************************************************************************)
(* Proofs about the shared storage, for any set of instances and any       *)
(* number of faults and restarts.                                          *)
(***************************************************************************)
EXTENDS Distributed, TLAPS

USE NoneAssumption, MaxFaultsAssumption, MaxRestartsAssumption

-----------------------------------------------------------------------------
(* The inductive invariant                                                 *)

\* The WaitGroup counts the loop from the lock's acquisition to its release.
CountedIn(p) == done[p] = IF lp[p] \in {"leading", "unlock"} THEN 1 ELSE 0

\* Only a loop that leads has the flag set, and only under a Lock not yet
\* unlocked.
FlagUnderLock(p) ==
    /\ leader[p] => lp[p] = "leading"
    /\ Alive(p) /\ lp[p] \in {"acquired", "leading", "unlock"} => isHeld[p]

\* The Lock is unlocked only after Stop.
UnlockAfterStop(p) ==
    Alive(p) /\ lp[p] = "unlock" => main[p] \in {"stopping", "returned"}

\* A call goes on without the flag only while the Lock was not unlocked or
\* after Stop.
CallsUnderLock(p) ==
    busy[p] # {} /\ ~leader[p] =>
        isHeld[p] \/ main[p] \in {"stopping", "returned"}

\* A process that ended does nothing.
EndedIsIdle(p) == ~Alive(p) => busy[p] = {} /\ ~leader[p]

InstanceInv(p) ==
    /\ CountedIn(p)
    /\ FlagUnderLock(p)
    /\ UnlockAfterStop(p)
    /\ CallsUnderLock(p)
    /\ EndedIsIdle(p)

IInv == TypeOK /\ \A p \in Instances : InstanceInv(p)

-----------------------------------------------------------------------------
(* Lemmas                                                                  *)

LEMMA InitIInv == Init => IInv
  BY DEF Init, IInv, TypeOK, InstanceInv, CountedIn, FlagUnderLock,
         UnlockAfterStop, CallsUnderLock, EndedIsIdle, Alive

\* The steps of lockLoop, one by one, on an instance p and a bystander q.
LEMMA LoopStepInv ==
    ASSUME IInv, NEW p \in Instances, LoopStep(p)
    PROVE  IInv'
<1> USE DEF IInv, TypeOK, InstanceInv, CountedIn, FlagUnderLock,
            UnlockAfterStop, CallsUnderLock, EndedIsIdle, Alive, vars,
            lockVars, loopVars, mainVars
<1>1. CASE NewLock(p)
  BY <1>1 DEF NewLock
<1>2. CASE Acquire(p)
  BY <1>2 DEF Acquire
<1>3. CASE AcquireFails(p)
  BY <1>3 DEF AcquireFails, Fault
<1>4. CASE AlreadyHeld(p)
  BY <1>4 DEF AlreadyHeld
<1>5. CASE Retry(p)
  BY <1>5 DEF Retry
<1>6. CASE Lead(p)
  BY <1>6 DEF Lead
<1>7. CASE LockLost(p)
  BY <1>7 DEF LockLost
<1>8. CASE StopSeen(p)
  BY <1>8 DEF StopSeen
<1>9. CASE Unlock(p)
  BY <1>9 DEF Unlock, Fault
<1> QED
  BY <1>1, <1>2, <1>3, <1>4, <1>5, <1>6, <1>7, <1>8, <1>9 DEF LoopStep

\* What Consul and its client do.
LEMMA ConsulStepInv ==
    ASSUME IInv, NEW p \in Instances,
           LoseSession(p) \/ Expire(p) \/ Notice(p) \/ WatchFails(p)
    PROVE  IInv'
<1> USE DEF IInv, TypeOK, InstanceInv, CountedIn, FlagUnderLock,
            UnlockAfterStop, CallsUnderLock, EndedIsIdle, Alive,
            lockVars, loopVars, mainVars
<1>1. CASE LoseSession(p)
  BY <1>1 DEF LoseSession, Fault
<1>2. CASE Expire(p)
  BY <1>2 DEF Expire
<1>3. CASE Notice(p)
  BY <1>3 DEF Notice
<1>4. CASE WatchFails(p)
  BY <1>4 DEF WatchFails, Fault
<1> QED
  BY <1>1, <1>2, <1>3, <1>4

\* Calls of the storage.
LEMMA CallInv ==
    ASSUME IInv, NEW p \in Instances, NEW c \in Callers,
           Begin(p, c) \/ End(p, c)
    PROVE  IInv'
<1> USE DEF IInv, TypeOK, InstanceInv, CountedIn, FlagUnderLock,
            UnlockAfterStop, CallsUnderLock, EndedIsIdle, Alive,
            lockVars, loopVars, mainVars
<1>1. CASE Begin(p, c)
  BY <1>1 DEF Begin
<1>2. CASE End(p, c)
  BY <1>2 DEF End
<1> QED
  BY <1>1, <1>2

\* The life of the process.
LEMMA ProcessInv ==
    ASSUME IInv, NEW p \in Instances,
           \/ MainStep(p)
           \/ Shutdown(p) \/ WriterDone(p) \/ Crash(p) \/ Restart(p)
    PROVE  IInv'
<1> USE DEF IInv, TypeOK, InstanceInv, CountedIn, FlagUnderLock,
            UnlockAfterStop, CallsUnderLock, EndedIsIdle, Alive,
            lockVars, loopVars, mainVars
<1>1. CASE Stop(p)
  BY <1>1 DEF Stop
<1>2. CASE Waited(p)
  BY <1>2 DEF Waited
<1>3. CASE Exit(p)
  BY <1>3 DEF Exit, Ends
<1>4. CASE Shutdown(p)
  BY <1>4 DEF Shutdown
<1>5. CASE WriterDone(p)
  BY <1>5 DEF WriterDone
<1>6. CASE Crash(p)
  BY <1>6 DEF Crash, Ends, Fault
<1>7. CASE Restart(p)
  BY <1>7 DEF Restart
<1> QED
  BY <1>1, <1>2, <1>3, <1>4, <1>5, <1>6, <1>7 DEF MainStep

LEMMA NextIInv == IInv /\ [Next]_vars => IInv'
<1> SUFFICES ASSUME IInv, [Next]_vars
             PROVE  IInv'
  OBVIOUS
<1>1. ASSUME NEW p \in Instances, Step(p)
      PROVE  IInv'
  BY <1>1, LoopStepInv, ConsulStepInv, CallInv, ProcessInv DEF Step
<1>2. CASE UNCHANGED vars
  BY <1>2 DEF vars, lockVars, loopVars, mainVars, IInv, TypeOK, InstanceInv,
              CountedIn, FlagUnderLock, UnlockAfterStop, CallsUnderLock,
              EndedIsIdle, Alive
<1> QED
  BY <1>1, <1>2 DEF Next, Terminated

\* Two active instances: the one that is not the holder is excused.
LEMMA IInvExclusive == IInv => Exclusive
<1> SUFFICES ASSUME IInv, NEW p \in Instances, holder # p, Active(p)
             PROVE  Unaware(p) \/ Overrun(p)
  BY DEF Exclusive
<1>1. CASE leader[p]
  BY <1>1 DEF IInv, InstanceInv, FlagUnderLock, Unaware
<1>2. CASE ~leader[p]
  BY <1>2 DEF IInv, InstanceInv, CallsUnderLock, Overrun, Active
<1> QED
  BY <1>1, <1>2

LEMMA SpecIInv == Spec => []IInv
  BY InitIInv, NextIInv, PTL DEF Spec

-----------------------------------------------------------------------------
(* Theorems                                                                *)

\* The variables keep their types; the WaitGroup of Distributed never goes
\* below zero and never counts the loop twice.
THEOREM TypeCorrect == Spec => []TypeOK
<1>1. IInv => TypeOK
  BY DEF IInv
<1> QED
  BY <1>1, SpecIInv, PTL

\* "only the holder of a Consul lock writes": for any number of instances,
\* with any crashes and lost sessions, two are active at once only in the two
\* windows that reading the flag before the write leaves open.
THEOREM WritersExclude == Spec => []Exclusive
  BY SpecIInv, IInvExclusive, PTL

\* Stop of Distributed does not return before the loop of a leader has
\* called Unlock.
THEOREM StopReleasesLock == Spec => StopHandsOver
<1>1. IInv /\ [Next]_vars =>
        [\A p \in Instances :
            main[p] = "stopping" /\ main'[p] = "returned" =>
                lp[p] \notin {"leading", "unlock"}]_vars
  <2> SUFFICES ASSUME IInv, Next, NEW p \in Instances,
                      main[p] = "stopping", main'[p] = "returned"
               PROVE  lp[p] \notin {"leading", "unlock"}
    BY DEF vars
  <2>1. PICK q \in Instances : Step(q)
    BY DEF Next, Terminated, vars, mainVars
  <2>2. done[p] = 0
    BY <2>1 DEF IInv, TypeOK, Step, LoopStep, NewLock, Acquire, AcquireFails,
                AlreadyHeld, Retry, Lead, LockLost, StopSeen, Unlock,
                MainStep, Stop, Waited, Exit, Ends, LoseSession, Expire,
                Notice, WatchFails, Begin, End, Shutdown, WriterDone, Crash,
                Restart, lockVars, loopVars, mainVars
  <2> QED
    BY <2>2 DEF IInv, InstanceInv, CountedIn
<1> QED
  BY <1>1, SpecIInv, PTL DEF Spec, StopHandsOver
=============================================================================
