----------------------------- MODULE ServiceDiff -----------------------------
(***************************************************************************)
(* The watch of one service seen as a sequential program: the replies of   *)
(* Consul follow one another, each is compared with the one before and     *)
(* turned into events and instance records (watchService in watch/watch.go *)
(* with all of watch/compare.go).  Interleavings, errors and blocking      *)
(* channels are the subject of module Watcher; here the data is rich:      *)
(* every sequence of states of a service with a few instances.             *)
(***************************************************************************)
EXTENDS Compare

CONSTANTS
    Keys,            \* instance keys: (node, service id)
    Instances,       \* the instances Consul may report under a key
    InstanceRefresh, \* instanceRefresh, in ticks
    MaxTime          \* bound: ticks of the clock

ASSUME RefreshAssumption == InstanceRefresh \in Nat \ {0}

\* A reply holds finitely many instances with finitely many checks each.  The
\* checks of the maintenance mode are registered as critical by Consul, and
\* deregistered when the mode ends: they are never passing.
ASSUME RepliesAssumption ==
    /\ IsFiniteSet(Keys)
    /\ \A inst \in Instances :
        /\ IsFiniteSet(DOMAIN inst.checks)
        /\ DOMAIN inst.checks \subseteq CheckIDs
        /\ \A c \in DOMAIN inst.checks : inst.checks[c] \in ConsulStatus
        /\ \A c \in DOMAIN inst.checks \cap MaintCheckIDs : inst.checks[c] # "passing"

Services == UNION {[K -> Instances] : K \in SUBSET Keys}

NoService == [k \in {} |-> "none"]

VARIABLES
    pc,        \* "first" fetch, "loop", or "gone" once the service left
    now,       \* the clock
    last,      \* the state of the service in the last reply
    marks,     \* what was announced of each instance, and when
    out,       \* the messages of the last step, in order
    timeline,  \* what a reader of the events knows: facts <<key, check, status>>
    registry   \* the stored instance records, by key

vars == <<pc, now, last, marks, out, timeline, registry>>

\* The reader learns of the events among the messages.
LearnAll(facts, msgs, service) ==
    LET known[i \in 0..Len(msgs)] ==
            IF i = 0 THEN facts
            ELSE IF msgs[i].to = "events"
                 THEN Learn(known[i - 1], msgs[i].what, ServiceFacts(service))
                 ELSE known[i - 1]
    IN  known[Len(msgs)]

\* The storage upserts the announced records.
Records(msgs) == {m.what : m \in {x \in ToSet(msgs) : x.to = "instances"}}

Upserted(msgs, at) ==
    LET recs == Records(msgs)
    IN  [k \in DOMAIN registry \cup {r.key : r \in recs} |->
            IF \E r \in recs : r.key = k
            THEN LET r == CHOOSE r \in recs : r.key = k
                 IN  [reg |-> r.reg, ip |-> r.ip, seen |-> at]
            ELSE registry[k]]

Send(msgs) ==
    /\ out' = msgs
    /\ registry' = Upserted(msgs, now)

Stale == {k \in DOMAIN marks : now - marks[k].announced >= InstanceRefresh}

Init ==
    /\ pc = "first"
    /\ now = 0
    /\ last = NoService
    /\ marks = NoService
    /\ out = <<>>
    /\ timeline = {}
    /\ registry = NoService

\* The first reply: every instance is announced, nothing is reported.
First(new) ==
    /\ pc = "first"
    /\ pc' = "loop"
    /\ \E msgs \in AnnounceService(new, DOMAIN new) : Send(msgs)
    /\ marks' = Marked(new, marks, DOMAIN new, now)
    /\ last' = new
    /\ timeline' = ServiceFacts(new)
    /\ UNCHANGED now

\* A reply with another index: the two states are compared.
Changed(new) ==
    /\ pc = "loop"
    /\ LET due == Due(new, marks, Stale, DOMAIN new \ DOMAIN last)
       IN  /\ \E msgs \in CompareService(last, new, due) :
                 /\ Send(msgs)
                 /\ timeline' = LearnAll(timeline, msgs, new)
           /\ marks' = CompareMarks(last, new, marks, due, now)
    /\ last' = new
    /\ UNCHANGED <<pc, now>>

\* The wait timed out: stale announcements are refreshed.
TimedOut ==
    /\ pc = "loop"
    /\ LET due == Due(last, marks, Stale, {})
       IN  /\ \E msgs \in AnnounceService(last, due) : Send(msgs)
           /\ marks' = Marked(last, marks, due, now)
    /\ UNCHANGED <<pc, now, last, timeline>>

\* The service left the catalog.
Left ==
    /\ pc = "loop"
    /\ pc' = "gone"
    /\ \E msgs \in CompareService(last, NoService, {}) :
          /\ Send(msgs)
          /\ timeline' = LearnAll(timeline, msgs, NoService)
    /\ marks' = CompareMarks(last, NoService, marks, {}, now)
    /\ last' = NoService
    /\ UNCHANGED now

Tick ==
    /\ pc = "loop"
    /\ now < MaxTime
    /\ now' = now + 1
    /\ out' = <<>>
    /\ UNCHANGED <<pc, last, marks, timeline, registry>>

Next ==
    \/ \E new \in Services : First(new) \/ Changed(new)
    \/ TimedOut \/ Left \/ Tick

Spec == Init /\ [][Next]_vars

-----------------------------------------------------------------------------
(* Properties                                                              *)

Events == {m.what : m \in {x \in ToSet(out) : x.to = "events"}}

\* Replaying the events of compareService, in the order they were emitted and
\* starting from the first fetch, gives exactly the instances and the check
\* statuses of the last state fetched: nothing is missed, nothing is
\* reported twice or undone by the order within one comparison.
TimelineTruthful == timeline = ServiceFacts(last)

\* The tests call "a new instance is one event, not one per check": a
\* comparison reports each instance or check at most once, and only when the
\* headline status of the event changes.
EventsMinimal ==
    /\ \A e \in Events : OldStatus(e) # NewStatus(e)
    /\ \A i, j \in 1..Len(out) :
          /\ i # j /\ out[i].to = "events" /\ out[j].to = "events"
          => <<out[i].what.key, out[i].what.check>> #
             <<out[j].what.key, out[j].what.check>>
    /\ \A e, f \in Events :
          e.key = f.key /\ e.kind = "instance" => f.kind = "instance"

AllPassing(service) ==
    {k \in DOMAIN service :
        \A c \in DOMAIN service[k].checks : service[k].checks[c] = "passing"}

\* indexInstances counts the healthy instances "as Consul itself filters": the
\* instances none of whose checks, the ones of the node included, is anything
\* but passing.  Every event of a comparison carries that count and the number
\* of instances of the new state.
HealthyAsConsul ==
    \A e \in Events :
        /\ e.newHealthy = Cardinality(AllPassing(last))
        /\ e.total = Cardinality(DOMAIN last)

\* The registry of instance records follows the registrations: every known
\* instance has a record with its current fingerprint, and there is a mark for
\* exactly the known instances, so that one that registers again is announced
\* again.
RegistryCurrent ==
    /\ DOMAIN marks = DOMAIN last
    /\ \A k \in DOMAIN last :
        /\ k \in DOMAIN registry
        /\ Fingerprint(registry[k]) = Fingerprint(last[k])

\* "unchanged registrations are not re-sent more than once a day", and sent
\* again when "the last announcement is older than instanceRefresh": a reply
\* leaves no known instance with a record that old, and it renews the record
\* of an instance whose fingerprint is the same only when it was that old.
AnnouncedOnTime ==
    [][now' = now =>
        /\ \A k \in DOMAIN last' : now - registry'[k].seen < InstanceRefresh
        /\ \A k \in DOMAIN last \cap DOMAIN last' :
              /\ Fingerprint(last[k]) = Fingerprint(last'[k])
              /\ \E i \in DOMAIN out' :
                    out'[i].to = "instances" /\ out'[i].what.key = k
              => now - registry[k].seen >= InstanceRefresh]_vars
=============================================================================
