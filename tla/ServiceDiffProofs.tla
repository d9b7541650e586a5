-------------------------- MODULE ServiceDiffProofs --------------------------
(***************************************************************************)
(* Proofs about ServiceDiff, for any set of instances Consul may report:   *)
(* the events tell the states, no more than once and no less, and the      *)
(* registry of instance records follows the registrations.                 *)
(***************************************************************************)
EXTENDS ServiceDiff, CompareProofs

-----------------------------------------------------------------------------
(* Replaying the messages of a step.                                       *)

\* f is the function by which LearnAll replays the first n of msgs.
Learning(f, facts, msgs, F, n) ==
    f = [i \in 0..n |->
            IF i = 0 THEN facts
            ELSE IF msgs[i].to = "events" THEN Learn(f[i - 1], msgs[i].what, F) ELSE f[i - 1]]

LEMMA LearningAt ==
    ASSUME NEW f, NEW facts, NEW msgs, NEW F, NEW n \in Nat, Learning(f, facts, msgs, F, n)
    PROVE  \A i \in 0..n : f[i] =
              IF i = 0 THEN facts
              ELSE IF msgs[i].to = "events" THEN Learn(f[i - 1], msgs[i].what, F) ELSE f[i - 1]
  <1> DEFINE after(i) == IF i = 0 THEN facts
                         ELSE IF msgs[i].to = "events" THEN Learn(f[i - 1], msgs[i].what, F)
                         ELSE f[i - 1]
  <1>1. f = [i \in 0..n |-> after(i)]
    BY DEF Learning
  <1> HIDE DEF after
  <1>2. \A i \in 0..n : f[i] = after(i)
    BY <1>1
  <1> QED BY <1>2 DEF after

LEMMA LearningExists ==
    ASSUME NEW facts, NEW msgs, NEW F, NEW n \in Nat
    PROVE  \E f : Learning(f, facts, msgs, F, n)
  <1> DEFINE T == {m \in Nat : ~\E f : Learning(f, facts, msgs, F, m)}
  <1>1. SUFFICES ASSUME T # {} PROVE FALSE
    OBVIOUS
  <1>2. PICK m \in T : \A k \in T : m <= k
    <2>1. T \in SUBSET Nat
      OBVIOUS
    <2> HIDE DEF T
    <2> QED BY <1>1, <2>1, LeastNumber
  <1>3. m \in Nat
    OBVIOUS
  <1>4. m # 0
    <2> DEFINE z == [i \in 0..0 |-> facts]
    <2>1. z = [i \in 0..0 |->
            IF i = 0 THEN facts
            ELSE IF msgs[i].to = "events" THEN Learn(z[i - 1], msgs[i].what, F) ELSE z[i - 1]]
      OBVIOUS
    <2> HIDE DEF z
    <2>2. Learning(z, facts, msgs, F, 0)
      BY <2>1 DEF Learning
    <2> QED BY <2>2
  <1>5. m - 1 \in Nat /\ m - 1 \notin T
    <2> HIDE DEF T
    <2> QED BY <1>2, <1>3, <1>4
  <1>6. PICK f : Learning(f, facts, msgs, F, m - 1)
    BY <1>5
  <1> DEFINE last1 == IF msgs[m].to = "events" THEN Learn(f[m - 1], msgs[m].what, F) ELSE f[m - 1]
             g == [i \in 0..m |-> IF i = m THEN last1 ELSE f[i]]
  <1>7. \A i \in 0..(m - 1) : f[i] =
           IF i = 0 THEN facts
           ELSE IF msgs[i].to = "events" THEN Learn(f[i - 1], msgs[i].what, F) ELSE f[i - 1]
    BY <1>5, <1>6, LearningAt
  <1>8. ASSUME NEW i \in 0..m
        PROVE  g[i] = IF i = 0 THEN facts
                      ELSE IF msgs[i].to = "events" THEN Learn(g[i - 1], msgs[i].what, F)
                      ELSE g[i - 1]
    <2>1. CASE i = m
      <3>1. g[i] = last1 /\ i # 0 /\ g[i - 1] = f[i - 1]
        BY <1>3, <1>4, <2>1
      <3> HIDE DEF g
      <3> QED BY <2>1, <3>1
    <2>2. CASE i # m
      <3>1. i \in 0..(m - 1) /\ g[i] = f[i] /\ (i # 0 => g[i - 1] = f[i - 1])
        BY <1>3, <2>2
      <3> HIDE DEF g
      <3> QED BY <1>7, <3>1
    <2> QED BY <2>1, <2>2
  <1>9. DOMAIN g = 0..m /\ g = [i \in DOMAIN g |-> g[i]]
    OBVIOUS
  <1> HIDE DEF g
  <1>10. Learning(g, facts, msgs, F, m)
    BY <1>8, <1>9 DEF Learning
  <1> QED BY <1>2, <1>10

\* The events that come after the i-th message.
Later(msgs, i) == {msgs[j].what : j \in {l \in DOMAIN msgs : l > i /\ msgs[l].to = "events"}}

LEMMA LearnAllTrue ==
    ASSUME NEW facts, NEW M, NEW msgs \in Seq(M), NEW service,
           \A e \in EventsIn(ToSet(msgs)) : Truthful(e, ServiceFacts(service)),
           Agree(facts, ServiceFacts(service), EventsIn(ToSet(msgs)))
    PROVE  LearnAll(facts, msgs, service) = ServiceFacts(service)
  <1> DEFINE F == ServiceFacts(service)
             n == Len(msgs)
             f == CHOOSE f : Learning(f, facts, msgs, F, n)
             E == EventsIn(ToSet(msgs))
  <1>1. LearnAll(facts, msgs, service) = f[n]
    BY DEF LearnAll, Learning
  <1>2. n \in Nat /\ DOMAIN msgs = 1..n
    BY LenProperties
  <1> HIDE DEF F, n
  <1>3. Learning(f, facts, msgs, F, n)
    BY <1>2, LearningExists
  <1> HIDE DEF f
  <1>4. \A i \in 0..n : f[i] =
           IF i = 0 THEN facts
           ELSE IF msgs[i].to = "events" THEN Learn(f[i - 1], msgs[i].what, F) ELSE f[i - 1]
    BY <1>2, <1>3, LearningAt
  <1>5. \A j \in DOMAIN msgs : msgs[j].to = "events" => msgs[j].what \in E
    BY DEF EventsIn, ToSet
  <1>6. E \subseteq Later(msgs, 0)
    <2>1. \A j \in DOMAIN msgs : j > 0
      BY <1>2
    <2> QED BY <2>1 DEF EventsIn, ToSet, Later
  <1>7. (\A e \in E : Truthful(e, F)) /\ Agree(facts, F, E)
    BY DEF F
  <1> HIDE DEF E
  <1> DEFINE T == {i \in 0..n : ~Agree(f[i], F, Later(msgs, i))}
  <1>8. ASSUME T # {} PROVE FALSE
    <2>1. PICK i \in T : \A j \in T : i <= j
      <3>1. T \in SUBSET Nat
        BY <1>2
      <3> HIDE DEF T
      <3> QED BY <1>8, <3>1, LeastNumber
    <2>2. i \in 0..n /\ ~Agree(f[i], F, Later(msgs, i))
      OBVIOUS
    <2>3. i # 0
      <3>1. 0 \in 0..n /\ f[0] = facts
        BY <1>2, <1>4
      <3>2. Agree(facts, F, Later(msgs, 0))
        BY <1>6, <1>7 DEF Agree
      <3> QED BY <2>2, <3>1, <3>2
    <2>4. i - 1 \in 0..n /\ i - 1 \notin T /\ i \in DOMAIN msgs
      <3> HIDE DEF T
      <3> QED BY <1>2, <2>1, <2>2, <2>3
    <2>5. Agree(f[i - 1], F, Later(msgs, i - 1))
      BY <2>4
    <2>6. \A j \in DOMAIN msgs : j > i - 1 <=> j > i \/ j = i
      BY <1>2, <2>2
    <2>7. CASE msgs[i].to = "events"
      <3> DEFINE e == msgs[i].what
      <3>1. f[i] = Learn(f[i - 1], e, F)
        BY <1>4, <2>2, <2>3, <2>7
      <3>2. Later(msgs, i - 1) = Later(msgs, i) \cup {e}
        BY <2>4, <2>6, <2>7 DEF Later
      <3>3. Truthful(e, F)
        BY <1>5, <1>7, <2>4, <2>7
      <3> HIDE DEF e
      <3> QED BY <2>2, <2>5, <3>1, <3>2, <3>3, LearnOne
    <2>8. CASE msgs[i].to # "events"
      <3>1. f[i] = f[i - 1]
        BY <1>4, <2>2, <2>3, <2>8
      <3>2. Later(msgs, i - 1) = Later(msgs, i)
        BY <2>4, <2>6, <2>8 DEF Later
      <3> QED BY <2>2, <2>5, <3>1, <3>2
    <2> QED BY <2>7, <2>8
  <1>9. Agree(f[n], F, Later(msgs, n))
    <2>1. n \in 0..n
      BY <1>2
    <2> QED BY <1>8, <2>1
  <1>10. Later(msgs, n) = {}
    <2>1. \A j \in DOMAIN msgs : ~(j > n)
      BY <1>2
    <2> QED BY <2>1 DEF Later
  <1>11. f[n] = F
    BY <1>9, <1>10, AgreeAtLast
  <1> QED BY <1>1, <1>11 DEF F

LEMMA ServicesFinite ==
    ASSUME NEW service \in Services
    PROVE  /\ Finite(service)
           /\ \A k \in DOMAIN service : service[k] \in Instances
  <1>1. PICK K \in SUBSET Keys : service \in [K -> Instances]
    BY DEF Services
  <1>2. IsFiniteSet(K)
    BY FS_Subset, RepliesAssumption
  <1> QED BY <1>1, <1>2, RepliesAssumption DEF Finite

LEMMA NoServiceEmpty ==
    NoService \in Services /\ DOMAIN NoService = {} /\ ServiceFacts(NoService) = {}
  <1>1. DOMAIN NoService = {}
    BY DEF NoService
  <1>2. NoService \in [{} -> Instances]
    BY DEF NoService
  <1>3. ServiceFacts(NoService) = {}
    BY <1>1, ServiceFact
  <1> QED BY <1>1, <1>2, <1>3 DEF Services

\* Comparing two states takes a reader from the facts of one to the other's.
LEMMA ComparisonTold ==
    ASSUME NEW old \in Services, NEW new \in Services, NEW due,
           NEW msgs \in CompareService(old, new, due)
    PROVE  LearnAll(ServiceFacts(old), msgs, new) = ServiceFacts(new)
  <1> DEFINE M == ServiceMsgs(old, new, due)
  <1>1. msgs \in Seq(M) /\ ToSet(msgs) = M
    BY ServicesFinite, ServiceMessages
  <1>2. \A e \in EventsIn(M) : Truthful(e, ServiceFacts(new))
    BY ServiceEventsTrue
  <1>3. Agree(ServiceFacts(old), ServiceFacts(new), EventsIn(M))
    BY ServiceEventsTellAll
  <1> HIDE DEF M
  <1> QED BY <1>1, <1>2, <1>3, LearnAllTrue

-----------------------------------------------------------------------------
(* The timeline.                                                           *)

TimelineInv ==
    /\ last \in Services
    /\ pc # "loop" => last = NoService
    /\ timeline = ServiceFacts(last)

LEMMA TimelineStep == TimelineInv /\ [Next]_vars => TimelineInv'
  <1> SUFFICES ASSUME TimelineInv, [Next]_vars PROVE TimelineInv'
    OBVIOUS
  <1> USE DEF TimelineInv
  <1>1. ASSUME NEW new \in Services, First(new) PROVE TimelineInv'
    BY <1>1 DEF First
  <1>2. ASSUME NEW new \in Services, Changed(new) PROVE TimelineInv'
    <2>1. PICK msgs \in CompareService(last, new, Due(new, marks, Stale, DOMAIN new \ DOMAIN last)) :
             timeline' = LearnAll(timeline, msgs, new)
      BY <1>2 DEF Changed
    <2>2. timeline' = ServiceFacts(new)
      BY <2>1, ComparisonTold
    <2> QED BY <1>2, <2>2 DEF Changed
  <1>3. CASE TimedOut
    BY <1>3 DEF TimedOut
  <1>4. CASE Left
    <2>1. PICK msgs \in CompareService(last, NoService, {}) :
             timeline' = LearnAll(timeline, msgs, NoService)
      BY <1>4 DEF Left
    <2>2. timeline' = ServiceFacts(NoService)
      BY <2>1, NoServiceEmpty, ComparisonTold
    <2> QED BY <1>4, <2>2, NoServiceEmpty DEF Left
  <1>5. CASE Tick
    BY <1>5 DEF Tick
  <1>6. CASE UNCHANGED vars
    BY <1>6 DEF vars
  <1> QED BY <1>1, <1>2, <1>3, <1>4, <1>5, <1>6 DEF Next

LEMMA TimelineInvariant == Spec => []TimelineInv
  <1>1. Init => TimelineInv
    BY NoServiceEmpty DEF Init, TimelineInv
  <1>2. TimelineInv /\ [Next]_vars => TimelineInv'
    BY TimelineStep
  <1> QED BY <1>1, <1>2, PTL DEF Spec

\* The events of compareService, replayed by a reader in the order in which
\* they are emitted and starting from the first reply, give the instances and
\* the check statuses of the last reply, for every sequence of replies and
\* every order in which the maps are walked.
THEOREM EventsTellStates == Spec => []TimelineTruthful
  <1>1. TimelineInv => TimelineTruthful
    BY DEF TimelineInv, TimelineTruthful
  <1> QED BY <1>1, TimelineInvariant, PTL

-----------------------------------------------------------------------------
(* The events of a step.                                                   *)

\* The aggregation of indexInstances against the filter of Consul.
LEMMA PassingMeansAll ==
    ASSUME NEW inst \in Instances
    PROVE  InstanceStatus(inst.checks) = "passing"
              <=> \A c \in DOMAIN inst.checks : inst.checks[c] = "passing"
  <1> DEFINE checks == inst.checks
  <1>1. /\ \A c \in DOMAIN checks : checks[c] \in {"critical", "warning", "passing"}
        /\ \A c \in DOMAIN checks \cap MaintCheckIDs : checks[c] # "passing"
    BY RepliesAssumption DEF ConsulStatus
  <1> HIDE DEF checks
  <1>2. InstanceStatus(checks) = "passing" <=> \A c \in DOMAIN checks : checks[c] = "passing"
    <2>1. CASE DOMAIN checks = {}
      BY <2>1 DEF InstanceStatus
    <2>2. CASE DOMAIN checks # {} /\ DOMAIN checks \cap MaintCheckIDs # {}
      <3>1. InstanceStatus(checks) = "maintenance"
        BY <2>2 DEF InstanceStatus, Aggregate
      <3> QED BY <1>1, <2>2, <3>1
    <2>3. CASE DOMAIN checks # {} /\ DOMAIN checks \cap MaintCheckIDs = {}
      <3>1. DOMAIN checks \ MaintCheckIDs = DOMAIN checks
        BY <2>3
      <3> QED BY <1>1, <2>3, <3>1 DEF InstanceStatus, Aggregate
    <2> QED BY <2>1, <2>2, <2>3
  <1> QED BY <1>2 DEF checks

LEMMA HealthyCounted ==
    ASSUME NEW service \in Services
    PROVE  Healthy(service) = Cardinality(AllPassing(service))
  <1> DEFINE H == {k \in DOMAIN service : InstanceStatus(service[k].checks) = "passing"}
  <1>1. H = AllPassing(service)
    BY ServicesFinite, PassingMeansAll DEF AllPassing
  <1>2. Healthy(service) = Cardinality(H)
    BY DEF Healthy
  <1> QED BY <1>1, <1>2

\* An event of a comparison: its headline differs, its counts are those of the
\* new state, and its kind tells whether the instance is in both states.
LEMMA ServiceEventsShape ==
    ASSUME NEW old \in Services, NEW new \in Services, NEW due,
           NEW e \in EventsIn(ServiceMsgs(old, new, due))
    PROVE  /\ OldStatus(e) # NewStatus(e)
           /\ e.newHealthy = Healthy(new) /\ e.total = Cardinality(DOMAIN new)
           /\ e.kind = "instance" \/ e.kind = "check"
           /\ e.kind = "check" <=> e.key \in DOMAIN old \cap DOMAIN new
  <1>1. PICK m \in ServiceMsgs(old, new, due) : m.to = "events" /\ e = m.what
    BY DEF EventsIn
  <1>0. \A checks : InstanceStatus(checks) # "missing"
    BY DEF InstanceStatus, Aggregate
  <1>2. CASE m \in GoneMsgs(old, new)
    <2>1. PICK k \in DOMAIN old \ DOMAIN new : m = Emit(GoneEvent(k, old, new))
      BY <1>2 DEF GoneMsgs
    <2>2. /\ e.kind = "instance" /\ e.new = "missing" /\ e.key = k
          /\ e.old = InstanceStatus(old[k].checks)
          /\ e.newHealthy = Healthy(new) /\ e.total = Cardinality(DOMAIN new)
      BY <1>1, <2>1 DEF Emit, GoneEvent, ServiceEvent
    <2> QED BY <1>0, <2>1, <2>2 DEF OldStatus, NewStatus
  <1>3. CASE m \in PresentMsgs(old, new, due)
    <2>1. PICK k \in DOMAIN new : m \in InstanceMsgs(k, old, new, due)
      BY <1>3 DEF PresentMsgs
    <2>2. Announce(k, new[k]).to = "instances"
      BY DEF Announce
    <2>3. CASE k \notin DOMAIN old
      <3>1. m = Emit(Registered(k, old, new))
        BY <1>1, <2>1, <2>2, <2>3 DEF InstanceMsgs
      <3>2. /\ e.kind = "instance" /\ e.new = InstanceStatus(new[k].checks)
            /\ e.old = "missing" /\ e.key = k
            /\ e.newHealthy = Healthy(new) /\ e.total = Cardinality(DOMAIN new)
        BY <1>1, <3>1 DEF Emit, Registered, ServiceEvent
      <3> QED BY <1>0, <2>3, <3>2 DEF OldStatus, NewStatus
    <2>4. CASE k \in DOMAIN old
      <3> DEFINE so == ServiceChecks(old[k].checks)
                 sn == ServiceChecks(new[k].checks)
                 base == Base(k, old, new)
      <3>1. m \in CheckMsgs(base, so, sn)
        BY <1>1, <2>1, <2>2, <2>4 DEF InstanceMsgs
      <3>2. PICK c \in Differing(so, sn) : m = Emit(CheckEvent(base, so, sn, c))
        BY <3>1 DEF CheckMsgs
      <3>3. /\ base.kind = "check" /\ base.key = k
            /\ base.newHealthy = Healthy(new) /\ base.total = Cardinality(DOMAIN new)
            /\ {"kind", "key", "check", "oldCheck", "newCheck", "newHealthy", "total"}
                  \subseteq DOMAIN base
        BY DEF Base, ServiceEvent
      <3> HIDE DEF base
      <3>4. /\ e.kind = "check" /\ e.key = k
            /\ e.newHealthy = Healthy(new) /\ e.total = Cardinality(DOMAIN new)
            /\ e.oldCheck = IF c \in DOMAIN so THEN StatusFromConsul(so[c]) ELSE "missing"
            /\ e.newCheck = IF c \in DOMAIN sn THEN StatusFromConsul(sn[c]) ELSE "missing"
        BY <1>1, <3>2, <3>3, CheckEventFields DEF Emit
      <3>5. /\ c \in DOMAIN so => so[c] \in ConsulStatus
            /\ c \in DOMAIN sn => sn[c] \in ConsulStatus
        <4>1. old[k] \in Instances /\ new[k] \in Instances
          BY <2>1, <2>4, ServicesFinite
        <4> QED BY <4>1, RepliesAssumption, ServiceChecksDomain
      <3> HIDE DEF so, sn
      <3>6. (c \in DOMAIN so \/ c \in DOMAIN sn)
            /\ (c \in DOMAIN so /\ c \in DOMAIN sn => so[c] # sn[c])
        BY DEF Differing, MovedChecks, GoneChecks
      <3>7. e.oldCheck # e.newCheck
        BY <3>4, <3>5, <3>6 DEF StatusFromConsul, ConsulStatus
      <3> QED BY <2>1, <2>4, <3>4, <3>7 DEF OldStatus, NewStatus
    <2> QED BY <2>3, <2>4
  <1> QED BY <1>1, <1>2, <1>3 DEF ServiceMsgs

LEMMA ComparisonMinimal ==
    ASSUME NEW old \in Services, NEW new \in Services, NEW due,
           NEW msgs \in CompareService(old, new, due)
    PROVE  /\ \A e \in EventsIn(ToSet(msgs)) :
                /\ OldStatus(e) # NewStatus(e)
                /\ e.newHealthy = Cardinality(AllPassing(new))
                /\ e.total = Cardinality(DOMAIN new)
           /\ \A e, f \in EventsIn(ToSet(msgs)) :
                e.key = f.key /\ e.kind = "instance" => f.kind = "instance"
           /\ \A i, j \in 1..Len(msgs) :
                i # j /\ msgs[i].to = "events" /\ msgs[j].to = "events"
                => Label(msgs[i]) # Label(msgs[j])
  <1> DEFINE M == ServiceMsgs(old, new, due)
  <1>1. msgs \in Seq(M) /\ ToSet(msgs) = M /\ Distinct(msgs)
    BY ServicesFinite, ServiceMessages
  <1>2. ASSUME NEW e \in EventsIn(M)
        PROVE  /\ OldStatus(e) # NewStatus(e)
               /\ e.newHealthy = Healthy(new) /\ e.total = Cardinality(DOMAIN new)
               /\ e.kind = "instance" \/ e.kind = "check"
               /\ e.kind = "check" <=> e.key \in DOMAIN old \cap DOMAIN new
    BY ServiceEventsShape
  <1>3. DOMAIN msgs = 1..Len(msgs)
    BY <1>1, LenProperties
  <1> HIDE DEF M
  <1> QED BY <1>1, <1>2, <1>3, HealthyCounted DEF Distinct

\* A comparison reports each instance or check at most once, an instance that
\* registers or leaves never check by check, and only what changed.
THEOREM ReportedOnce == Spec => []EventsMinimal
  <1>1. Init => EventsMinimal
    BY NoMessage DEF Init, EventsMinimal, Events
  <1>2. TimelineInv /\ EventsMinimal /\ [Next]_vars => EventsMinimal'
    <2> SUFFICES ASSUME TimelineInv, EventsMinimal, [Next]_vars PROVE EventsMinimal'
      OBVIOUS
    <2>1. ASSUME NEW service, NEW due, IsFiniteSet(due),
                 NEW m \in AnnounceService(service, due), out' = m
          PROVE  EventsMinimal'
      <3>1. Events' = {} /\ \A i \in 1..Len(out') : out'[i].to # "events"
        BY <2>1, AnnouncementsOnly DEF Events, EventsIn
      <3> QED BY <3>1 DEF EventsMinimal
    <2>2. ASSUME NEW new \in Services, NEW due,
                 NEW m \in CompareService(last, new, due), out' = m
          PROVE  EventsMinimal'
      <3>1. last \in Services
        BY DEF TimelineInv
      <3>2. Events' = EventsIn(ToSet(m))
        BY <2>2 DEF Events, EventsIn
      <3> QED BY <2>2, <3>1, <3>2, ComparisonMinimal DEF EventsMinimal, Label
    <2>3. ASSUME NEW new \in Services, First(new) PROVE EventsMinimal'
      BY <2>1, <2>3, ServicesFinite DEF First, Send, Finite
    <2>4. ASSUME NEW new \in Services, Changed(new) PROVE EventsMinimal'
      BY <2>2, <2>4 DEF Changed, Send
    <2>5. CASE TimedOut
      <3>1. IsFiniteSet(Due(last, marks, Stale, {}))
        BY ServicesFinite, FS_Subset DEF TimelineInv, Due, Finite
      <3> QED BY <2>1, <2>5, <3>1 DEF TimedOut, Send
    <2>6. CASE Left
      BY <2>2, <2>6, NoServiceEmpty DEF Left, Send
    <2>7. CASE Tick
      <3>1. out' = <<>> /\ Events' = {}
        BY <2>7, NoMessage DEF Tick, Events
      <3> QED BY <3>1 DEF EventsMinimal
    <2>8. CASE UNCHANGED vars
      BY <2>8 DEF vars, EventsMinimal, Events
    <2> QED BY <2>3, <2>4, <2>5, <2>6, <2>7, <2>8 DEF Next
  <1> QED BY <1>1, <1>2, TimelineInvariant, PTL DEF Spec

\* Every event carries the number of instances of the new state and of those
\* that Consul itself would call healthy.
THEOREM CountsAsConsul == Spec => []HealthyAsConsul
  <1>1. Init => HealthyAsConsul
    BY NoMessage DEF Init, HealthyAsConsul, Events
  <1>2. TimelineInv /\ HealthyAsConsul /\ [Next]_vars => HealthyAsConsul'
    <2> SUFFICES ASSUME TimelineInv, HealthyAsConsul, [Next]_vars PROVE HealthyAsConsul'
      OBVIOUS
    <2>1. ASSUME NEW service, NEW due, IsFiniteSet(due),
                 NEW m \in AnnounceService(service, due), out' = m
          PROVE  HealthyAsConsul'
      <3>1. Events' = {}
        BY <2>1, AnnouncementsOnly DEF Events, EventsIn
      <3> QED BY <3>1 DEF HealthyAsConsul
    <2>2. ASSUME NEW new \in Services, NEW due, last' = new,
                 NEW m \in CompareService(last, new, due), out' = m
          PROVE  HealthyAsConsul'
      <3>1. last \in Services
        BY DEF TimelineInv
      <3>2. Events' = EventsIn(ToSet(m))
        BY <2>2 DEF Events, EventsIn
      <3> QED BY <2>2, <3>1, <3>2, ComparisonMinimal DEF HealthyAsConsul
    <2>3. ASSUME NEW new \in Services, First(new) PROVE HealthyAsConsul'
      BY <2>1, <2>3, ServicesFinite DEF First, Send, Finite
    <2>4. ASSUME NEW new \in Services, Changed(new) PROVE HealthyAsConsul'
      BY <2>2, <2>4 DEF Changed, Send
    <2>5. CASE TimedOut
      <3>1. IsFiniteSet(Due(last, marks, Stale, {}))
        BY ServicesFinite, FS_Subset DEF TimelineInv, Due, Finite
      <3> QED BY <2>1, <2>5, <3>1 DEF TimedOut, Send
    <2>6. CASE Left
      BY <2>2, <2>6, NoServiceEmpty DEF Left, Send
    <2>7. CASE Tick
      <3>1. Events' = {}
        BY <2>7, NoMessage DEF Tick, Events
      <3> QED BY <3>1 DEF HealthyAsConsul
    <2>8. CASE UNCHANGED vars
      BY <2>8 DEF vars, HealthyAsConsul, Events
    <2> QED BY <2>3, <2>4, <2>5, <2>6, <2>7, <2>8 DEF Next
  <1> QED BY <1>1, <1>2, TimelineInvariant, PTL DEF Spec

-----------------------------------------------------------------------------
(* The registry of instance records.                                       *)

\* The records that announce the instances D of a service.
RecordsOf(service, D) == {[key |-> k, reg |-> service[k].reg, ip |-> service[k].ip] : k \in D}

LEMMA RecordsAnnounced ==
    ASSUME NEW service, NEW due, IsFiniteSet(due), NEW m \in AnnounceService(service, due)
    PROVE  Records(m) = RecordsOf(service, due)
  <1>1. ToSet(m) = AnnounceMsgs(service, due)
    BY AnnounceMessages
  <1> DEFINE an(k) == Announce(k, service[k])
             rec(k) == [key |-> k, reg |-> service[k].reg, ip |-> service[k].ip]
  <1>2. \A k : an(k).to = "instances" /\ an(k).what = rec(k)
    BY DEF Announce
  <1>3. ToSet(m) = {an(k) : k \in due}
    BY <1>1 DEF AnnounceMsgs
  <1>4. RecordsOf(service, due) = {rec(k) : k \in due}
    BY DEF RecordsOf
  <1>5. \A r : r \in Records(m) <=> \E x \in ToSet(m) : x.to = "instances" /\ r = x.what
    BY DEF Records
  <1> HIDE DEF an, rec
  <1> QED BY <1>2, <1>3, <1>4, <1>5

LEMMA RecordsCompared ==
    ASSUME NEW old \in Services, NEW new \in Services, NEW due,
           due \subseteq DOMAIN new, DOMAIN new \ DOMAIN old \subseteq due,
           NEW m \in CompareService(old, new, due)
    PROVE  Records(m) = RecordsOf(new, due)
  <1> DEFINE an(k) == Announce(k, new[k])
             rec(k) == [key |-> k, reg |-> new[k].reg, ip |-> new[k].ip]
             M == ServiceMsgs(old, new, due)
  <1>1. ToSet(m) = M
    BY ServicesFinite, ServiceMessages
  <1>2. \A k : an(k).to = "instances" /\ an(k).what = rec(k)
    BY DEF Announce
  <1>3. ASSUME NEW x \in M, x.to = "instances" PROVE \E k \in due : x = an(k)
    <2>0. \A e : Emit(e).to = "events"
      BY DEF Emit
    <2>1. x \notin GoneMsgs(old, new)
      BY <1>3, <2>0 DEF GoneMsgs
    <2>2. PICK k \in DOMAIN new : x \in InstanceMsgs(k, old, new, due)
      BY <2>1 DEF ServiceMsgs, PresentMsgs
    <2>3. x \notin CheckMsgs(Base(k, old, new), ServiceChecks(old[k].checks),
                             ServiceChecks(new[k].checks))
      BY <1>3, <2>0 DEF CheckMsgs
    <2>4. x = an(k) /\ (k \notin DOMAIN old \/ k \in due)
      BY <1>3, <2>0, <2>2, <2>3 DEF InstanceMsgs
    <2> QED BY <2>4
  <1>4. ASSUME NEW k \in due PROVE an(k) \in M
    <2>1. an(k) \in InstanceMsgs(k, old, new, due)
      BY DEF InstanceMsgs
    <2> QED BY <2>1 DEF ServiceMsgs, PresentMsgs
  <1>5. RecordsOf(new, due) = {rec(k) : k \in due}
    BY DEF RecordsOf
  <1>6. \A r : r \in Records(m) <=> \E x \in ToSet(m) : x.to = "instances" /\ r = x.what
    BY DEF Records
  <1> HIDE DEF an, rec, M
  <1> QED BY <1>1, <1>2, <1>3, <1>4, <1>5, <1>6

Stored(inst, at) == [reg |-> inst.reg, ip |-> inst.ip, seen |-> at]

\* r is the registry after storing the instances D of a service.
Stores(r, service, D, at) ==
    /\ DOMAIN r = DOMAIN registry \cup D
    /\ \A k \in D : r[k] = Stored(service[k], at)
    /\ \A k \in DOMAIN registry \ D : r[k] = registry[k]

LEMMA UpsertedRecords ==
    ASSUME NEW msgs, NEW at, NEW service, NEW D, Records(msgs) = RecordsOf(service, D)
    PROVE  Stores(Upserted(msgs, at), service, D, at)
  <1> DEFINE R == RecordsOf(service, D)
             rec(k) == [key |-> k, reg |-> service[k].reg, ip |-> service[k].ip]
             pick(k) == CHOOSE r \in R : r.key = k
             val(k) == IF \E r \in R : r.key = k
                       THEN [reg |-> pick(k).reg, ip |-> pick(k).ip, seen |-> at]
                       ELSE registry[k]
             K == DOMAIN registry \cup {r.key : r \in R}
  <1>1. Upserted(msgs, at) = [k \in K |-> val(k)]
    BY DEF Upserted
  <1>2. R = {rec(k) : k \in D}
    BY DEF RecordsOf
  <1>3. \A k : rec(k).key = k /\ rec(k).reg = service[k].reg /\ rec(k).ip = service[k].ip
    OBVIOUS
  <1> HIDE DEF R, rec
  <1>4. \A k : (\E r \in R : r.key = k) <=> k \in D
    BY <1>2, <1>3
  <1>5. \A k \in D : pick(k) = rec(k)
    <2> TAKE k \in D
    <2>1. \E r \in R : r.key = k
      BY <1>4
    <2>2. pick(k) \in R /\ pick(k).key = k
      BY <2>1
    <2> HIDE DEF pick
    <2> QED BY <1>2, <1>3, <2>2
  <1>6. K = DOMAIN registry \cup D
    <2>1. {r.key : r \in R} = D
      BY <1>2, <1>3
    <2> QED BY <2>1
  <1>7. \A k \in D : val(k) = Stored(service[k], at)
    <2> HIDE DEF pick
    <2> QED BY <1>3, <1>4, <1>5 DEF Stored
  <1>8. \A k : k \notin D => val(k) = registry[k]
    BY <1>4
  <1> HIDE DEF val, K
  <1> QED BY <1>1, <1>6, <1>7, <1>8 DEF Stores

\* What is stored of a known instance is what was announced, and when.
RegistryInv ==
    /\ now \in Nat
    /\ DOMAIN marks = DOMAIN last
    /\ \A k \in DOMAIN last :
        /\ k \in DOMAIN registry
        /\ Fingerprint(registry[k]) = Fingerprint(last[k])
        /\ marks[k].fingerprint = Fingerprint(last[k])
        /\ marks[k].announced = registry[k].seen
        /\ registry[k].seen \in Nat /\ registry[k].seen <= now

\* The announcements of a reply: D is announced, the rest was in time.
Announced(new, D) ==
    /\ D \subseteq DOMAIN new
    /\ \A k \in DOMAIN new : k \in DOMAIN registry' /\
        IF k \in D
        THEN registry'[k] = Stored(new[k], now)
        ELSE /\ k \in DOMAIN last /\ registry'[k] = registry[k]
             /\ marks[k].fingerprint = Fingerprint(new[k])
             /\ k \notin Stale
    /\ DOMAIN marks' = DOMAIN new
    /\ \A k \in DOMAIN new :
        marks'[k] = IF k \in D THEN [fingerprint |-> Fingerprint(new[k]), announced |-> now]
                    ELSE marks[k]
    /\ now' = now /\ last' = new

LEMMA SameFingerprint ==
    ASSUME NEW a, NEW b, a.reg = b.reg
    PROVE  Fingerprint(a) = Fingerprint(b)
  BY DEF Fingerprint

LEMMA AnnouncedInv ==
    ASSUME RegistryInv, NEW new, NEW D, Announced(new, D)
    PROVE  /\ RegistryInv'
           /\ \A k \in DOMAIN last' : now - registry'[k].seen < InstanceRefresh
  <1>1. ASSUME NEW k \in DOMAIN new
        PROVE  /\ k \in DOMAIN registry'
               /\ Fingerprint(registry'[k]) = Fingerprint(new[k])
               /\ marks'[k].fingerprint = Fingerprint(new[k])
               /\ marks'[k].announced = registry'[k].seen
               /\ registry'[k].seen \in Nat /\ registry'[k].seen <= now
               /\ now - registry'[k].seen < InstanceRefresh
    <2>1. CASE k \in D
      <3>1. registry'[k].reg = new[k].reg /\ registry'[k].seen = now
        <4>1. registry'[k] = Stored(new[k], now)
          BY <2>1 DEF Announced
        <4> QED BY <4>1 DEF Stored
      <3>2. Fingerprint(registry'[k]) = Fingerprint(new[k])
        BY <3>1, SameFingerprint
      <3>3. now \in Nat
        BY DEF RegistryInv
      <3>4. marks'[k].fingerprint = Fingerprint(new[k]) /\ marks'[k].announced = now
        BY <2>1 DEF Announced
      <3>5. now <= now /\ now - now < InstanceRefresh
        BY <3>3, RefreshAssumption
      <3> QED BY <3>1, <3>2, <3>3, <3>4, <3>5 DEF Announced
    <2>2. CASE k \notin D
      <3>1. /\ k \in DOMAIN last /\ registry'[k] = registry[k] /\ marks'[k] = marks[k]
            /\ marks[k].fingerprint = Fingerprint(new[k]) /\ k \notin Stale
            /\ k \in DOMAIN registry'
        BY <2>2 DEF Announced
      <3>2. /\ Fingerprint(registry[k]) = Fingerprint(last[k])
            /\ marks[k].fingerprint = Fingerprint(last[k])
            /\ marks[k].announced = registry[k].seen
            /\ registry[k].seen \in Nat /\ registry[k].seen <= now
            /\ now \in Nat /\ k \in DOMAIN marks
        BY <3>1 DEF RegistryInv
      <3>3. ~(now - registry[k].seen >= InstanceRefresh)
        BY <3>1, <3>2 DEF Stale
      <3>4. now - registry[k].seen < InstanceRefresh
        BY <3>2, <3>3, RefreshAssumption
      <3> QED BY <3>1, <3>2, <3>4
    <2> QED BY <2>1, <2>2
  <1>2. now' = now /\ last' = new /\ DOMAIN marks' = DOMAIN new /\ now \in Nat
    BY DEF Announced, RegistryInv
  <1> QED BY <1>1, <1>2 DEF RegistryInv

\* D is what announce sends of a reply.
DueIn(new, D) == D = Due(new, marks, Stale, DOMAIN new \ DOMAIN last)

\* What a reply that is compared, one that is only announced and the last one
\* leave behind.
LEMMA RepliesAnnounced ==
    ASSUME TimelineInv, RegistryInv, NEW new \in Services, NEW D, NEW msgs,
           DueIn(new, D),
           Records(msgs) = RecordsOf(new, D), Send(msgs),
           \/ DOMAIN last \subseteq DOMAIN new /\ marks' = Marked(new, marks, D, now)
           \/ marks' = CompareMarks(last, new, marks, D, now),
           now' = now, last' = new
    PROVE  Announced(new, D)
  <1>1. D \subseteq DOMAIN new
    BY DEF Due, DueIn
  <1>2. ASSUME NEW k \in DOMAIN new
        PROVE  k \in DOMAIN registry' /\
               IF k \in D
               THEN registry'[k] = Stored(new[k], now)
               ELSE /\ k \in DOMAIN last /\ registry'[k] = registry[k]
                    /\ marks[k].fingerprint = Fingerprint(new[k])
                    /\ k \notin Stale
    <2> DEFINE up == Upserted(msgs, now)
    <2>0. Stores(up, new, D, now)
      BY UpsertedRecords
    <2>1. registry' = up
      BY DEF Send
    <2> HIDE DEF up
    <2>2. CASE k \in D
      BY <2>0, <2>1, <2>2 DEF Stores
    <2>3. CASE k \notin D
      <3>1. k \in DOMAIN last /\ marks[k].fingerprint = Fingerprint(new[k]) /\ k \notin Stale
        BY <2>3 DEF Due, DueIn
      <3>2. k \in DOMAIN registry
        BY <3>1 DEF RegistryInv
      <3> QED BY <2>0, <2>1, <2>3, <3>1, <3>2 DEF Stores
    <2> QED BY <2>2, <2>3
  <1>3. DOMAIN marks = DOMAIN last /\ DOMAIN new \ DOMAIN last \subseteq D
    BY DEF RegistryInv, Due, DueIn
  <1> DEFINE m == Marked(new, marks, D, now)
  <1>4. /\ DOMAIN m = DOMAIN last \cup D
        /\ \A k \in DOMAIN m :
              m[k] = IF k \in D THEN [fingerprint |-> Fingerprint(new[k]), announced |-> now]
                     ELSE marks[k]
    BY <1>3 DEF Marked
  <1> HIDE DEF m
  <1>5. /\ DOMAIN marks' = DOMAIN new
        /\ \A k \in DOMAIN new : marks'[k] = m[k]
    <2>1. CASE DOMAIN last \subseteq DOMAIN new /\ marks' = m
      BY <1>1, <1>3, <1>4, <2>1
    <2>2. CASE marks' = CompareMarks(last, new, marks, D, now)
      <3>1. marks' = Restrict(m, DOMAIN m \ (DOMAIN last \ DOMAIN new))
        BY <2>2 DEF CompareMarks, m
      <3>2. DOMAIN m \ (DOMAIN last \ DOMAIN new) = DOMAIN new
        BY <1>1, <1>3, <1>4
      <3> QED BY <3>1, <3>2 DEF Restrict
    <2> QED BY <2>1, <2>2 DEF m
  <1>6. DOMAIN new \subseteq DOMAIN m
    BY <1>3, <1>4
  <1> QED BY <1>1, <1>2, <1>4, <1>5, <1>6 DEF Announced

LEMMA RegistryStep ==
    ASSUME TimelineInv, RegistryInv, [Next]_vars
    PROVE  \/ \E new \in Services :
                 /\ Announced(new, Due(new, marks, Stale, DOMAIN new \ DOMAIN last))
                 /\ Records(out') = RecordsOf(new, Due(new, marks, Stale, DOMAIN new \ DOMAIN last))
           \/ now' = now + 1 /\ UNCHANGED <<last, marks, registry>>
           \/ UNCHANGED vars
  <1>0. last \in Services
    BY DEF TimelineInv
  <1>1. ASSUME NEW new \in Services, First(new)
        PROVE  /\ Announced(new, Due(new, marks, Stale, DOMAIN new \ DOMAIN last))
               /\ Records(out') = RecordsOf(new, Due(new, marks, Stale, DOMAIN new \ DOMAIN last))
    <2> DEFINE D == Due(new, marks, Stale, DOMAIN new \ DOMAIN last)
    <2>1. last = NoService
      BY <1>1 DEF First, TimelineInv
    <2>2. D = DOMAIN new /\ DOMAIN last \subseteq DOMAIN new
      BY <2>1, NoServiceEmpty DEF Due
    <2>3. PICK msgs \in AnnounceService(new, DOMAIN new) : Send(msgs)
      BY <1>1 DEF First
    <2>4. Records(msgs) = RecordsOf(new, DOMAIN new)
      BY <2>3, ServicesFinite, RecordsAnnounced DEF Finite
    <2>5. out' = msgs /\ marks' = Marked(new, marks, DOMAIN new, now) /\ now' = now /\ last' = new
      BY <1>1, <2>3 DEF First, Send
    <2>6. Announced(new, D)
      <3> HIDE DEF D
      <3>1. DueIn(new, D)
        BY DEF D, DueIn
      <3> QED BY <2>2, <2>3, <2>4, <2>5, <3>1, RepliesAnnounced
    <2> QED BY <2>2, <2>4, <2>5, <2>6
  <1>2. ASSUME NEW new \in Services, Changed(new)
        PROVE  /\ Announced(new, Due(new, marks, Stale, DOMAIN new \ DOMAIN last))
               /\ Records(out') = RecordsOf(new, Due(new, marks, Stale, DOMAIN new \ DOMAIN last))
    <2> DEFINE D == Due(new, marks, Stale, DOMAIN new \ DOMAIN last)
    <2>1. PICK msgs \in CompareService(last, new, D) : Send(msgs)
      BY <1>2 DEF Changed
    <2>2. D \subseteq DOMAIN new /\ DOMAIN new \ DOMAIN last \subseteq D
      BY DEF Due
    <2>3. out' = msgs /\ marks' = CompareMarks(last, new, marks, D, now) /\ now' = now /\ last' = new
      BY <1>2, <2>1 DEF Changed, Send
    <2>4. DueIn(new, D)
      BY DEF DueIn
    <2> HIDE DEF D
    <2>5. Records(msgs) = RecordsOf(new, D)
      BY <1>0, <2>1, <2>2, RecordsCompared
    <2>6. Announced(new, D)
      BY <2>1, <2>3, <2>4, <2>5, RepliesAnnounced
    <2> QED BY <2>3, <2>5, <2>6 DEF D
  <1>3. ASSUME TimedOut
        PROVE  /\ Announced(last, Due(last, marks, Stale, DOMAIN last \ DOMAIN last))
               /\ Records(out') = RecordsOf(last, Due(last, marks, Stale, DOMAIN last \ DOMAIN last))
    <2> DEFINE D == Due(last, marks, Stale, DOMAIN last \ DOMAIN last)
    <2>1. DOMAIN last \ DOMAIN last = {} /\ D = Due(last, marks, Stale, {})
      BY DEF Due
    <2>2. PICK msgs \in AnnounceService(last, D) : Send(msgs)
      BY <1>3, <2>1 DEF TimedOut
    <2>3. IsFiniteSet(D)
      BY <1>0, ServicesFinite, FS_Subset DEF Due, Finite
    <2>4. out' = msgs /\ marks' = Marked(last, marks, D, now) /\ now' = now /\ last' = last
      BY <1>3, <2>1, <2>2 DEF TimedOut, Send
    <2>5. DueIn(last, D)
      BY DEF DueIn
    <2> HIDE DEF D
    <2>6. Records(msgs) = RecordsOf(last, D)
      BY <2>2, <2>3, RecordsAnnounced
    <2>7. Announced(last, D)
      BY <1>0, <2>2, <2>4, <2>5, <2>6, RepliesAnnounced
    <2> QED BY <2>4, <2>6, <2>7 DEF D
  <1>4. ASSUME Left
        PROVE  /\ Announced(NoService, Due(NoService, marks, Stale, DOMAIN NoService \ DOMAIN last))
               /\ Records(out') = RecordsOf(NoService,
                                     Due(NoService, marks, Stale, DOMAIN NoService \ DOMAIN last))
    <2> DEFINE D == Due(NoService, marks, Stale, DOMAIN NoService \ DOMAIN last)
    <2>1. D = {}
      BY NoServiceEmpty DEF Due
    <2>2. PICK msgs \in CompareService(last, NoService, D) : Send(msgs)
      BY <1>4, <2>1 DEF Left
    <2>3. /\ out' = msgs /\ marks' = CompareMarks(last, NoService, marks, D, now)
          /\ now' = now /\ last' = NoService
      BY <1>4, <2>1, <2>2 DEF Left, Send
    <2>4. DueIn(NoService, D)
      BY DEF DueIn
    <2> HIDE DEF D
    <2>5. Records(msgs) = RecordsOf(NoService, D)
      BY <1>0, <2>1, <2>2, NoServiceEmpty, RecordsCompared
    <2>6. Announced(NoService, D)
      BY <2>2, <2>3, <2>4, <2>5, NoServiceEmpty, RepliesAnnounced
    <2> QED BY <2>3, <2>5, <2>6 DEF D
  <1>5. CASE Tick
    BY <1>5 DEF Tick
  <1> QED BY <1>0, <1>1, <1>2, <1>3, <1>4, <1>5, NoServiceEmpty DEF Next

LEMMA RegistryInvariant == Spec => []RegistryInv
  <1>1. Init => RegistryInv
    BY NoServiceEmpty DEF Init, RegistryInv
  <1>2. TimelineInv /\ RegistryInv /\ [Next]_vars => RegistryInv'
    <2> SUFFICES ASSUME TimelineInv, RegistryInv, [Next]_vars PROVE RegistryInv'
      OBVIOUS
    <2>1. ASSUME NEW new, NEW D, Announced(new, D) PROVE RegistryInv'
      BY <2>1, AnnouncedInv
    <2>2. CASE now' = now + 1 /\ UNCHANGED <<last, marks, registry>>
      BY <2>2 DEF RegistryInv
    <2>3. CASE UNCHANGED vars
      BY <2>3 DEF vars, RegistryInv
    <2> QED BY <2>1, <2>2, <2>3, RegistryStep
  <1> QED BY <1>1, <1>2, TimelineInvariant, PTL DEF Spec

\* Every known instance has a stored record with its current fingerprint, and
\* exactly the known instances have a mark: one that left and registers again
\* is announced again, however often it happens.
THEOREM RegistryFollows == Spec => []RegistryCurrent
  <1>1. RegistryInv => RegistryCurrent
    BY DEF RegistryInv, RegistryCurrent
  <1> QED BY <1>1, RegistryInvariant, PTL

\* No reply leaves a record of a known instance older than instanceRefresh,
\* and none renews a younger one whose fingerprint is the same.
THEOREM RecordsRenewedOnTime == Spec => AnnouncedOnTime
  <1> DEFINE InTime == \A k \in DOMAIN last' : now - registry'[k].seen < InstanceRefresh
             Wanted == \A k \in DOMAIN last \cap DOMAIN last' :
                /\ Fingerprint(last[k]) = Fingerprint(last'[k])
                /\ \E i \in DOMAIN out' : out'[i].to = "instances" /\ out'[i].what.key = k
                => now - registry[k].seen >= InstanceRefresh
  <1>1. TimelineInv /\ RegistryInv /\ [Next]_vars => [now' = now => InTime /\ Wanted]_vars
    <2> SUFFICES ASSUME TimelineInv, RegistryInv, [Next]_vars, now' = now, ~UNCHANGED vars
                 PROVE  InTime /\ Wanted
      OBVIOUS
    <2>0. now' # now + 1
      BY DEF RegistryInv
    <2>1. PICK new \in Services :
             /\ Announced(new, Due(new, marks, Stale, DOMAIN new \ DOMAIN last))
             /\ Records(out') = RecordsOf(new, Due(new, marks, Stale, DOMAIN new \ DOMAIN last))
      BY <2>0, RegistryStep
    <2> DEFINE D == Due(new, marks, Stale, DOMAIN new \ DOMAIN last)
    <2>2. InTime
      BY <2>1, AnnouncedInv
    <2>3. last' = new
      BY <2>1 DEF Announced
    <2>4. ASSUME NEW k \in DOMAIN last \cap DOMAIN new, Fingerprint(last[k]) = Fingerprint(new[k]),
                 NEW i \in DOMAIN out', out'[i].to = "instances", out'[i].what.key = k
          PROVE  now - registry[k].seen >= InstanceRefresh
      <3>1. out'[i].what \in Records(out')
        BY <2>4 DEF Records, ToSet
      <3>2. k \in D
        <4>1. \A r \in RecordsOf(new, D) : r.key \in D
          BY DEF RecordsOf
        <4> HIDE DEF D
        <4> QED BY <2>1, <2>4, <3>1, <4>1 DEF D
      <3>3. k \in DOMAIN marks /\ marks[k].fingerprint = Fingerprint(new[k])
            /\ marks[k].announced = registry[k].seen
        BY <2>4 DEF RegistryInv
      <3>4. k \in Stale
        BY <2>4, <3>2, <3>3 DEF Due
      <3> QED BY <3>3, <3>4 DEF Stale
    <2>5. Wanted
      BY <2>3, <2>4
    <2> QED BY <2>2, <2>5
  <1> QED BY <1>1, TimelineInvariant, RegistryInvariant, PTL DEF Spec, AnnouncedOnTime
=============================================================================
