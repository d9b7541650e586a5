---------------------------- MODULE Distributed -----------------------------
(***************************************************************************)
(* Several instances that share one database: Distributed in               *)
(* storage/distributed.go, and the way main.go starts and stops it.        *)
(*                                                                         *)
(* Every instance runs lockLoop, which acquires a lock of Consul and sets  *)
(* the leader flag while it has it.  The writer and the maintenance read   *)
(* the flag once per call and then work on the database.  The lock belongs *)
(* to a session: Consul may end the session of an instance that still runs *)
(* (it was paused or cut off for longer than SessionTTL), and the instance *)
(* learns of it later, from the channel that Lock returned.                *)
(*                                                                         *)
(* The client of Consul (hashicorp/consul/api) is not part of the          *)
(* repository.  Three things it does matter here.  A Lock remembers that   *)
(* it is held until Unlock is called, and Lock refuses a Lock that is held *)
(* (ErrLockHeld).  The channel is closed when the key shows another        *)
(* session, or none, and also when the query that watches the key fails,   *)
(* while the session goes on being renewed.  A session nobody renews ends. *)
(* Times (SessionTTL, the lock delay, pauses) are left out: each takes as  *)
(* long as it takes.                                                       *)
(***************************************************************************)
EXTENDS Integers

CONSTANTS
    Instances,    \* the processes
    None,         \* no holder
    MaxFaults,    \* bound: crashes, lost sessions and failed requests
    MaxRestarts   \* bound: processes started again

ASSUME NoneAssumption == None \notin Instances
ASSUME MaxFaultsAssumption == MaxFaults \in Nat
ASSUME MaxRestartsAssumption == MaxRestarts \in Nat

\* The goroutines of an instance that write: RunWriter and maintain.
Callers == {"writer", "maintain"}

VARIABLES
    holder,    \* the instance whose session has the lock, in Consul
    isHeld,    \* isHeld[p]: the client's Lock considers itself held
    closed,    \* closed[p]: lockChan is closed
    lp,        \* lp[p]: where lockLoop is
    leader,    \* leader[p]: the flag
    done,      \* done[p]: the counter of the WaitGroup
    main,      \* main[p]: where main is; from "stopping" on, stop is closed
    wdone,     \* wdone[p]: RunWriter has returned
    busy,      \* busy[p]: the callers that are past the flag, in the database
    faults,    \* faults so far
    restarts   \* restarts so far

lockVars == <<holder, isHeld, closed>>
loopVars == <<lp, leader, done>>
mainVars == <<main, wdone, busy>>
vars == <<lockVars, loopVars, mainVars, faults, restarts>>

TypeOK ==
    /\ holder \in Instances \cup {None}
    /\ isHeld \in [Instances -> BOOLEAN]
    /\ closed \in [Instances -> BOOLEAN]
    /\ lp \in [Instances -> {"new", "acquire", "acquired", "leading",
                             "unlock", "pause", "ended"}]
    /\ leader \in [Instances -> BOOLEAN]
    /\ done \in [Instances -> 0..1]
    /\ main \in [Instances -> {"run", "drain", "stopping", "returned",
                               "exited"}]
    /\ wdone \in [Instances -> BOOLEAN]
    /\ busy \in [Instances -> SUBSET Callers]
    /\ faults \in 0..MaxFaults
    /\ restarts \in 0..MaxRestarts

Init ==
    /\ holder = None
    /\ isHeld = [p \in Instances |-> FALSE]
    /\ closed = [p \in Instances |-> FALSE]
    /\ lp = [p \in Instances |-> "new"]
    /\ leader = [p \in Instances |-> FALSE]
    /\ done = [p \in Instances |-> 0]
    /\ main = [p \in Instances |-> "run"]
    /\ wdone = [p \in Instances |-> FALSE]
    /\ busy = [p \in Instances |-> {}]
    /\ faults = 0
    /\ restarts = 0

Alive(p) == main[p] # "exited"

\* Something goes wrong, within the bound.
Fault ==
    /\ faults < MaxFaults
    /\ faults' = faults + 1

-----------------------------------------------------------------------------
(* Consul and its client                                                   *)

\* Consul ends the session of a running instance that has the lock.
LoseSession(p) ==
    /\ Alive(p)
    /\ holder = p
    /\ isHeld[p]
    /\ Fault
    /\ holder' = None
    /\ UNCHANGED <<isHeld, closed, loopVars, mainVars, restarts>>

\* A session that nobody renews ends: its process is gone, or the client has
\* given it up after an error.
Expire(p) ==
    /\ holder = p
    /\ ~Alive(p) \/ ~isHeld[p]
    /\ holder' = None
    /\ UNCHANGED <<isHeld, closed, loopVars, mainVars, faults, restarts>>

\* The client sees that the key has lost its session and closes lockChan.
Notice(p) ==
    /\ Alive(p)
    /\ isHeld[p]
    /\ ~closed[p]
    /\ holder # p
    /\ closed' = [closed EXCEPT ![p] = TRUE]
    /\ UNCHANGED <<holder, isHeld, loopVars, mainVars, faults, restarts>>

\* The query that watches the key fails: lockChan is closed although the
\* session, which another goroutine renews, still has the lock.
WatchFails(p) ==
    /\ Alive(p)
    /\ isHeld[p]
    /\ ~closed[p]
    /\ holder = p
    /\ Fault
    /\ closed' = [closed EXCEPT ![p] = TRUE]
    /\ UNCHANGED <<holder, isHeld, loopVars, mainVars, restarts>>

-----------------------------------------------------------------------------
(* lockLoop                                                                *)

\* consul.Lock() makes the Lock; after an error it is called again.
NewLock(p) ==
    /\ Alive(p)
    /\ lp[p] = "new"
    /\ lp' = [lp EXCEPT ![p] = "acquire"]
    /\ UNCHANGED <<lockVars, leader, done, mainVars, faults, restarts>>

\* lock.Lock(nil) returns once it has the lock.
Acquire(p) ==
    /\ Alive(p)
    /\ lp[p] = "acquire"
    /\ ~isHeld[p]
    /\ holder = None
    /\ holder' = p
    /\ isHeld' = [isHeld EXCEPT ![p] = TRUE]
    /\ closed' = [closed EXCEPT ![p] = FALSE]
    /\ lp' = [lp EXCEPT ![p] = "acquired"]
    /\ UNCHANGED <<leader, done, mainVars, faults, restarts>>

\* Mutant: the loop gives up after an error.
AcquireFailsForGood(p) ==
    /\ Alive(p)
    /\ lp[p] = "acquire"
    /\ ~isHeld[p]
    /\ Fault
    /\ holder' \in {holder, IF holder = None THEN p ELSE holder}
    /\ lp' = [lp EXCEPT ![p] = "ended"]
    /\ UNCHANGED <<isHeld, closed, leader, done, mainVars, restarts>>

\* lock.Lock(nil) fails.  If only the answer was lost, a session that the
\* client gives up now has the lock.
AcquireFails(p) ==
    /\ Alive(p)
    /\ lp[p] = "acquire"
    /\ ~isHeld[p]
    /\ Fault
    /\ holder' \in {holder, IF holder = None THEN p ELSE holder}
    /\ lp' = [lp EXCEPT ![p] = "pause"]
    /\ UNCHANGED <<isHeld, closed, leader, done, mainVars, restarts>>

\* lock.Lock(nil) refuses a Lock that was not unlocked: ErrLockHeld.
AlreadyHeld(p) ==
    /\ Alive(p)
    /\ lp[p] = "acquire"
    /\ isHeld[p]
    /\ lp' = [lp EXCEPT ![p] = "pause"]
    /\ UNCHANGED <<lockVars, leader, done, mainVars, faults, restarts>>

\* The second between an error and the next attempt.
Retry(p) ==
    /\ Alive(p)
    /\ lp[p] = "pause"
    /\ lp' = [lp EXCEPT ![p] = "acquire"]
    /\ UNCHANGED <<lockVars, leader, done, mainVars, faults, restarts>>

\* The lock was acquired: count the loop in and set the flag.
Lead(p) ==
    /\ Alive(p)
    /\ lp[p] = "acquired"
    /\ lp' = [lp EXCEPT ![p] = "leading"]
    /\ done' = [done EXCEPT ![p] = @ + 1]
    /\ leader' = [leader EXCEPT ![p] = TRUE]
    /\ UNCHANGED <<lockVars, mainVars, faults, restarts>>

\* Mutant: the flag stays set.
LockLostStillLeader(p) ==
    /\ Alive(p)
    /\ lp[p] = "leading"
    /\ closed[p]
    /\ done' = [done EXCEPT ![p] = @ - 1]
    /\ lp' = [lp EXCEPT ![p] = "acquire"]
    /\ UNCHANGED <<lockVars, leader, mainVars, faults, restarts>>

\* case <-lockChan: clear the flag, and try to acquire the lock again.
LockLost(p) ==
    /\ Alive(p)
    /\ lp[p] = "leading"
    /\ closed[p]
    /\ leader' = [leader EXCEPT ![p] = FALSE]
    /\ done' = [done EXCEPT ![p] = @ - 1]
    /\ lp' = [lp EXCEPT ![p] = "acquire"]
    /\ UNCHANGED <<lockVars, mainVars, faults, restarts>>

\* case <-s.stop: clear the flag.
StopSeen(p) ==
    /\ Alive(p)
    /\ lp[p] = "leading"
    /\ main[p] \in {"stopping", "returned"}
    /\ leader' = [leader EXCEPT ![p] = FALSE]
    /\ lp' = [lp EXCEPT ![p] = "unlock"]
    /\ UNCHANGED <<lockVars, done, mainVars, faults, restarts>>

\* Mutant: the loop is counted out twice.
UnlockDoneTwice(p) ==
    /\ Alive(p)
    /\ lp[p] = "unlock"
    /\ \/ /\ holder' = IF holder = p THEN None ELSE holder
          /\ UNCHANGED faults
       \/ Fault /\ UNCHANGED holder
    /\ isHeld' = [isHeld EXCEPT ![p] = FALSE]
    /\ done' = [done EXCEPT ![p] = @ - 2]
    /\ lp' = [lp EXCEPT ![p] = "ended"]
    /\ UNCHANGED <<closed, leader, mainVars, restarts>>

\* lock.Unlock() releases the key if the session still has it; if the request
\* fails the session is given up all the same.  The loop is counted out and
\* returns.
Unlock(p) ==
    /\ Alive(p)
    /\ lp[p] = "unlock"
    /\ \/ /\ holder' = IF holder = p THEN None ELSE holder
          /\ UNCHANGED faults
       \/ Fault /\ UNCHANGED holder
    /\ isHeld' = [isHeld EXCEPT ![p] = FALSE]
    /\ done' = [done EXCEPT ![p] = @ - 1]
    /\ lp' = [lp EXCEPT ![p] = "ended"]
    /\ UNCHANGED <<closed, leader, mainVars, restarts>>

-----------------------------------------------------------------------------
(* Calls of the storage                                                    *)

\* StoreEvents, UpsertInstances or Maintain finds the flag set and goes on to
\* the database.  (Without the flag it returns and nothing changes.)  After
\* the cancellation maintain makes no more calls that do anything.
Begin(p, c) ==
    /\ Alive(p)
    /\ leader[p]
    /\ c \notin busy[p]
    /\ c = "writer" => ~wdone[p]
    /\ c = "maintain" => main[p] = "run"
    /\ busy' = [busy EXCEPT ![p] = @ \cup {c}]
    /\ UNCHANGED <<lockVars, loopVars, main, wdone, faults, restarts>>

End(p, c) ==
    /\ Alive(p)
    /\ c \in busy[p]
    /\ busy' = [busy EXCEPT ![p] = @ \ {c}]
    /\ UNCHANGED <<lockVars, loopVars, main, wdone, faults, restarts>>

-----------------------------------------------------------------------------
(* main                                                                    *)

\* A signal cancels the context; the server returns.
Shutdown(p) ==
    /\ main[p] = "run"
    /\ main' = [main EXCEPT ![p] = "drain"]
    /\ UNCHANGED <<lockVars, loopVars, wdone, busy, faults, restarts>>

\* RunWriter has made its last flush.
WriterDone(p) ==
    /\ main[p] \in {"drain", "stopping", "returned"}
    /\ ~wdone[p]
    /\ "writer" \notin busy[p]
    /\ wdone' = [wdone EXCEPT ![p] = TRUE]
    /\ UNCHANGED <<lockVars, loopVars, main, busy, faults, restarts>>

\* Stop closes the channel, after the writer returned or after the 10 seconds
\* that main waits for it.
Stop(p) ==
    /\ main[p] = "drain"
    /\ main' = [main EXCEPT ![p] = "stopping"]
    /\ UNCHANGED <<lockVars, loopVars, wdone, busy, faults, restarts>>

\* Mutant: Stop does not wait.
WaitedAtOnce(p) ==
    /\ main[p] = "stopping"
    /\ main' = [main EXCEPT ![p] = "returned"]
    /\ UNCHANGED <<lockVars, loopVars, wdone, busy, faults, restarts>>

\* s.done.Wait() returns.
Waited(p) ==
    /\ main[p] = "stopping"
    /\ done[p] = 0
    /\ main' = [main EXCEPT ![p] = "returned"]
    /\ UNCHANGED <<lockVars, loopVars, wdone, busy, faults, restarts>>

\* The process ends, and with it the calls under way.
Ends(p) ==
    /\ main' = [main EXCEPT ![p] = "exited"]
    /\ busy' = [busy EXCEPT ![p] = {}]
    /\ leader' = [leader EXCEPT ![p] = FALSE]
    /\ UNCHANGED <<lockVars, lp, done, wdone, restarts>>

Exit(p) ==
    /\ main[p] = "returned"
    /\ Ends(p)
    /\ UNCHANGED faults

\* The process crashes, or fatal ends it.
Crash(p) ==
    /\ Alive(p)
    /\ Fault
    /\ Ends(p)

\* The process is started again.
Restart(p) ==
    /\ ~Alive(p)
    /\ restarts < MaxRestarts
    /\ restarts' = restarts + 1
    /\ isHeld' = [isHeld EXCEPT ![p] = FALSE]
    /\ closed' = [closed EXCEPT ![p] = FALSE]
    /\ lp' = [lp EXCEPT ![p] = "new"]
    /\ done' = [done EXCEPT ![p] = 0]
    /\ main' = [main EXCEPT ![p] = "run"]
    /\ wdone' = [wdone EXCEPT ![p] = FALSE]
    /\ UNCHANGED <<holder, leader, busy, faults>>

-----------------------------------------------------------------------------
Terminated ==
    /\ \A p \in Instances : ~Alive(p)
    /\ UNCHANGED vars

LoopStep(p) ==
    \/ NewLock(p) \/ Acquire(p) \/ AcquireFails(p) \/ AlreadyHeld(p)
    \/ Retry(p) \/ Lead(p) \/ LockLost(p) \/ StopSeen(p) \/ Unlock(p)

MainStep(p) == Stop(p) \/ Waited(p) \/ Exit(p)

Step(p) ==
    \/ LoopStep(p)
    \/ MainStep(p)
    \/ LoseSession(p) \/ Expire(p) \/ Notice(p) \/ WatchFails(p)
    \/ \E c \in Callers : Begin(p, c) \/ End(p, c)
    \/ Shutdown(p) \/ WriterDone(p) \/ Crash(p) \/ Restart(p)

Next ==
    \/ \E p \in Instances : Step(p)
    \/ Terminated

Spec == Init /\ [][Next]_vars

\* Goroutines are scheduled, requests are answered and pauses end; main waits
\* 10 seconds at most; Consul ends sessions that are not renewed and the
\* client notices.  Nothing makes a process stop, crash or start.
Fairness ==
    \A p \in Instances :
        /\ WF_vars(LoopStep(p))
        /\ WF_vars(MainStep(p))
        /\ WF_vars(Expire(p))
        /\ WF_vars(Notice(p))

FairSpec == Spec /\ Fairness

-----------------------------------------------------------------------------
(* Properties                                                              *)

\* The instance would write, or is writing.
Active(p) == leader[p] \/ busy[p] # {}

\* The session of p was lost and lockLoop does not know yet.
Unaware(p) == lp[p] = "leading" /\ holder # p

\* A call of p has outlived its leadership: the lock was lost during the call,
\* or main stopped waiting for it.
Overrun(p) ==
    /\ ~leader[p]
    /\ busy[p] # {}
    /\ \/ isHeld[p] /\ holder # p
       \/ main[p] \in {"stopping", "returned"}

\* "only the holder of a Consul lock writes and runs maintenance"
\* (storage/distributed.go): two instances have the flag set or a call in the
\* database at once only while one of them does not know yet that Consul
\* ended its session, or is in a call that has outlived its leadership.
Exclusive ==
    \A p, q \in Instances :
        p # q /\ Active(p) /\ Active(q) =>
            \E r \in {p, q} : Unaware(r) \/ Overrun(r)

\* Stop hands over: it does not return between the moment the loop has the
\* lock counted in and the moment it has called Unlock, so the next instance
\* need not wait for the session to end.
StopHandsOver ==
    [][\A p \in Instances :
        main[p] = "stopping" /\ main'[p] = "returned" =>
            lp[p] \notin {"leading", "unlock"}]_vars

\* The client of a running instance keeps renewing a session that has the
\* lock while the instance believes it lost it.
Wedged == \E p \in Instances : Alive(p) /\ holder = p /\ isHeld[p] /\ closed[p]

\* Failover: while an instance runs that has not lost the lock before, some
\* instance leads again and again, whatever crashes, stops, lost sessions and
\* failed requests there were, unless the lock is wedged.
Failover ==
    \A q \in Instances :
        main[q] = "run" /\ ~isHeld[q] ~>
            \/ \E p \in Instances : leader[p]
            \/ Wedged
            \/ main[q] # "run"

\* "Run more than one instance for availability" (README.md): while an
\* instance runs, some instance leads again and again.
Available ==
    \A q \in Instances :
        main[q] = "run" ~> \/ \E p \in Instances : leader[p]
                           \/ main[q] # "run"
=============================================================================
