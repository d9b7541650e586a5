------------------------------ MODULE Maintain ------------------------------
(***************************************************************************)
(* Maintenance of the mysql storage (storage/mysql/storage.go, Maintain),  *)
(* run by main.go every ten minutes on the leader of each datacenter.  All *)
(* share the tables; a named lock of the database serializes them.         *)
(*                                                                         *)
(* A day is a number.  The partition of a day is named by the day and      *)
(* holds the rows up to its end that are in no earlier partition; p_max,   *)
(* which nothing ever removes, holds the rest.  A table is the set of the  *)
(* days it has rows of: where a row lies follows from the partitions.      *)
(* Every statement is one step.  A lost connection, a timeout and a crash  *)
(* look alike to the database: the session ends and its lock with it.      *)
(***************************************************************************)
EXTENDS Integers

CONSTANTS
    Instances,   \* the instances that run maintenance
    Retention,   \* Retention[i]: cfg.RetentionDays of i
    Batches,     \* statements of one call of deleteBatches, 20 in the code
    FirstDay,    \* the day on which the schema is created
    LastDay,     \* bound: the last day
    MaxErrors    \* bound: statements that fail and sessions that end

ASSUME RetentionAssumption == Retention \in [Instances -> Nat]
ASSUME BatchesAssumption == Batches \in Nat
ASSUME DaysAssumption == FirstDay \in Int /\ LastDay \in Int
ASSUME MaxErrorsAssumption == MaxErrors \in Nat

Nobody == "nobody"
ASSUME NobodyAssumption == Nobody \notin Instances

Tables == {"rollup", "instances"}

VARIABLES
    day,       \* today
    parts,     \* the day partitions of events_v2
    rows,      \* the days events_v2 has rows of
    old,       \* old[t]: the days the other tables have rows of
    lock,      \* who holds maintainLock
    errors,
    pc,        \* pc[i]: the next statement of i
    today,     \* today[i]: the day i read when it got the lock
    existing,  \* existing[i]: the partitions i knows of
    next,      \* next[i]: the day whose partition i looks at
    batch,     \* batch[i]: statements deleteBatches has run
    ensured    \* history: the latest day ensurePartitions succeeded for

tables == <<parts, rows, old>>
run == <<pc, today, existing, next, batch>>
vars == <<day, tables, lock, errors, run, ensured>>

Init ==
    /\ day = FirstDay /\ parts = {} /\ rows = {}
    /\ old = [t \in Tables |-> {}]
    /\ lock = Nobody /\ errors = 0
    /\ pc = [i \in Instances |-> "idle"]
    /\ today = [i \in Instances |-> FirstDay]
    /\ existing = [i \in Instances |-> {}]
    /\ next = [i \in Instances |-> FirstDay]
    /\ batch = [i \in Instances |-> 0]
    /\ ensured = FirstDay - 2

-----------------------------------------------------------------------------
(* The world.                                                              *)

Midnight ==
    /\ day < LastDay
    /\ day' = day + 1
    /\ UNCHANGED <<tables, lock, errors, run, ensured>>

\* The writers store events of today and, a little late, of yesterday, with
\* their rollup; an instance is last seen at such a time too.
StoreEvents ==
    /\ \E d \in {day - 1, day} :
          /\ rows' = rows \cup {d}
          /\ old' = [t \in Tables |-> old[t] \cup {d}]
    /\ UNCHANGED <<day, parts, lock, errors, run, ensured>>

-----------------------------------------------------------------------------
(* Maintain, by instance i.                                                *)

Goto(i, s) == pc' = [pc EXCEPT ![i] = s]

\* Mutant: the answer of GET_LOCK is not looked at.
FreeAlways == TRUE

\* GET_LOCK does not wait: an instance that does not get it has nothing to do.
Free == lock = Nobody

Lock(i) ==
    /\ pc[i] = "idle" /\ Free
    /\ lock' = i
    /\ today' = [today EXCEPT ![i] = day]
    /\ Goto(i, "list")
    /\ UNCHANGED <<day, tables, errors, existing, next, batch, ensured>>

\* The partitions that ensurePartitions works from; p_max is always among them,
\* so the check for it passes.
List(i) ==
    /\ pc[i] = "list"
    /\ existing' = [existing EXCEPT ![i] = parts]
    /\ next' = [next EXCEPT ![i] = today[i] - 1]
    /\ Goto(i, "create")
    /\ UNCHANGED <<day, tables, lock, errors, today, batch, ensured>>

\* Later than the latest partition.
Missing(i) == \A p \in existing[i] : p < next[i]

\* REORGANIZE PARTITION refuses a bound that is not above the others.
Ascends(d) == \A p \in parts : p < d

Create(i) ==
    /\ pc[i] = "create" /\ next[i] <= today[i] + 1 /\ Missing(i) /\ Ascends(next[i])
    /\ parts' = parts \cup {next[i]}
    /\ existing' = [existing EXCEPT ![i] = @ \cup {next[i]}]
    /\ next' = [next EXCEPT ![i] = @ + 1]
    /\ UNCHANGED <<day, rows, old, lock, errors, pc, today, batch, ensured>>

Skip(i) ==
    /\ pc[i] = "create" /\ next[i] <= today[i] + 1 /\ ~Missing(i)
    /\ next' = [next EXCEPT ![i] = @ + 1]
    /\ UNCHANGED <<day, tables, lock, errors, pc, today, existing, batch, ensured>>

\* Mutant: no partition for tomorrow.
EnsuredEarly(i) == pc[i] = "create" /\ next[i] > today[i]

\* Yesterday, today and tomorrow have been looked at.
Ensured(i) == pc[i] = "create" /\ next[i] > today[i] + 1

\* If so, ensurePartitions has returned without an error.
NoteEnsured(i) ==
    ensured' = IF Ensured(i) /\ today[i] > ensured THEN today[i] ELSE ensured

\* The partitions that dropExpiredPartitions works from.
ListAgain(i) ==
    /\ Ensured(i) \/ pc[i] = "relist"
    /\ NoteEnsured(i)
    /\ existing' = [existing EXCEPT ![i] = parts]
    /\ next' = [next EXCEPT ![i] = FirstDay]
    /\ Goto(i, "drop")
    /\ UNCHANGED <<day, tables, lock, errors, today, batch>>

Cutoff(i) == today[i] - Retention[i]

\* Mutant: the partition that ends a day after the cutoff.
ExpiredEarly(i, p) == p <= Cutoff(i)

\* No row of partition p is newer than the cutoff.
Expired(i, p) == p + 1 <= Cutoff(i)

Within(p) == {d \in rows : d <= p /\ \A q \in parts : q < p => q < d}

Drop(i) ==
    /\ pc[i] = "drop"
    /\ \E p \in existing[i] :
          /\ Expired(i, p)
          /\ parts' = parts \ {p}
          /\ rows' = rows \ Within(p)
          /\ existing' = [existing EXCEPT ![i] = @ \ {p}]
    /\ UNCHANGED <<day, old, lock, errors, pc, today, next, batch, ensured>>

DropDone(i) ==
    /\ pc[i] = "drop" /\ \A p \in existing[i] : ~Expired(i, p)
    /\ existing' = [existing EXCEPT ![i] = {}]
    /\ Goto(i, "rollup")
    /\ batch' = [batch EXCEPT ![i] = 0]
    /\ UNCHANGED <<day, tables, lock, errors, today, next, ensured>>

After == [rollup |-> "instances", instances |-> "release"]

Before(t, d) == {x \in old[t] : x < d}

MoreBatches(i) == batch[i] < Batches

\* One statement of deleteBatches deletes some of what is before the cutoff.
DeleteBatch(i) ==
    /\ pc[i] \in Tables /\ MoreBatches(i)
    /\ \E S \in SUBSET Before(pc[i], Cutoff(i)) :
          /\ S # {}
          /\ old' = [old EXCEPT ![pc[i]] = @ \ S]
    /\ batch' = [batch EXCEPT ![i] = @ + 1]
    /\ UNCHANGED <<day, parts, rows, lock, errors, pc, today, existing, next, ensured>>

BatchesDone(i) ==
    /\ pc[i] \in Tables
    /\ ~MoreBatches(i) \/ Before(pc[i], Cutoff(i)) = {}
    /\ Goto(i, After[pc[i]])
    /\ batch' = [batch EXCEPT ![i] = 0]
    /\ UNCHANGED <<day, tables, lock, errors, today, existing, next, ensured>>

\* A statement fails; what comes after it in Maintain is still tried.
AfterError == [list |-> "relist", create |-> "relist", relist |-> "rollup", drop |-> "rollup",
               rollup |-> "instances", instances |-> "release"]

\* If ensurePartitions has returned, the statement is the second listing.
Fail(i) ==
    /\ pc[i] \in DOMAIN AfterError /\ errors < MaxErrors
    /\ errors' = errors + 1
    /\ Goto(i, AfterError[IF Ensured(i) THEN "relist" ELSE pc[i]])
    /\ NoteEnsured(i)
    /\ existing' = [existing EXCEPT ![i] = {}]
    /\ next' = [next EXCEPT ![i] = FirstDay]
    /\ batch' = [batch EXCEPT ![i] = 0]
    /\ UNCHANGED <<day, tables, lock, today>>

\* The session is rid of the lock, and Maintain of its variables.
Return(i) ==
    /\ lock' = Nobody
    /\ Goto(i, "idle")
    /\ today' = [today EXCEPT ![i] = FirstDay]
    /\ existing' = [existing EXCEPT ![i] = {}]
    /\ next' = [next EXCEPT ![i] = FirstDay]
    /\ batch' = [batch EXCEPT ![i] = 0]

\* Mutant: only a run that comes to its end releases the lock.
ReleaseNot(i) ==
    /\ pc[i] = "release" /\ errors = 0
    /\ Return(i)
    /\ UNCHANGED <<day, tables, errors, ensured>>

Release(i) ==
    /\ pc[i] = "release"
    /\ Return(i)
    /\ UNCHANGED <<day, tables, errors, ensured>>

SessionEnds(i) ==
    /\ pc[i] # "idle" /\ errors < MaxErrors
    /\ errors' = errors + 1
    /\ Return(i)
    /\ UNCHANGED <<day, tables, ensured>>

Work(i) ==
    \/ List(i) \/ Create(i) \/ Skip(i) \/ ListAgain(i) \/ Drop(i) \/ DropDone(i)
    \/ DeleteBatch(i) \/ BatchesDone(i) \/ Fail(i) \/ Release(i)

Next ==
    \/ Midnight \/ StoreEvents
    \/ \E i \in Instances : Lock(i) \/ Work(i) \/ SessionEnds(i)

Spec == Init /\ [][Next]_vars

\* While nobody is at it, the timer of some instance fires; a run goes on.
FairSpec ==
    /\ Spec
    /\ WF_vars(\E i \in Instances : Lock(i))
    /\ \A i \in Instances : WF_vars(Work(i))

-----------------------------------------------------------------------------
(* Properties.                                                             *)

TypeOK ==
    /\ day \in Int /\ ensured \in Int
    /\ parts \subseteq Int /\ rows \subseteq Int
    /\ old \in [Tables -> SUBSET Int]
    /\ lock \in Instances \cup {Nobody}
    /\ errors \in 0..MaxErrors
    /\ pc \in [Instances -> {"idle", "list", "create", "relist", "drop", "release"} \cup Tables]
    /\ today \in [Instances -> Int]
    /\ existing \in [Instances -> SUBSET Int]
    /\ next \in [Instances -> Int]
    /\ batch \in [Instances -> 0..Batches]

\* "the work is serialized on a MySQL named lock": what an instance listed is
\* still so when it acts on it.  The next partition it creates is above all there
\* are, which the database asks for, and those it means to drop are there.
ListsCurrent ==
    \A i \in Instances :
        /\ pc[i] = "create" /\ next[i] <= today[i] + 1 /\ Missing(i) => Ascends(next[i])
        /\ pc[i] = "drop" => existing[i] = parts

\* Nothing is deleted before its time, whatever the rows of a partition are and
\* however long a run takes: the days that go are those before the cutoff of
\* some instance.
OnlyExpired ==
    [][/\ \A d \in rows \ rows' : \E i \in Instances : d + Retention[i] < day
       /\ \A t \in Tables : \A d \in old[t] \ old'[t] :
              \E i \in Instances : d + Retention[i] < day]_vars

\* "creates the partitions for yesterday, today and tomorrow": after it succeeded,
\* until the end of the next day, the rows of the day have their partition and
\* are not in p_max, whoever fails or drops partitions in the meantime.
DayHasPartition == day <= ensured + 1 => day \in parts

Outdated(d) == \A i \in Instances : d + Retention[i] < day

\* "drops the ones past retention and prunes rollups and instances": again and
\* again nothing is left that is too old for every instance, although a failed
\* statement ends the loop it is in, what a run deletes is bounded, and no
\* maintenance happens while somebody keeps the lock.
ExpiredGoes ==
    []<>(/\ \A p \in parts : ~Outdated(p)
         /\ \A t \in Tables : \A d \in old[t] : ~Outdated(d))
=============================================================================
