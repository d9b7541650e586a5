---------------------------- MODULE CompareProofs ----------------------------
(***************************************************************************)
(* What the comparison of two states emits, whatever order the maps of Go  *)
(* are walked in: lemmas for the proofs about ServiceDiff and Watcher.     *)
(***************************************************************************)
EXTENDS Compare, FiniteSetTheorems, SequenceTheorems, TLAPS

-----------------------------------------------------------------------------
(* Sequences of messages.                                                  *)

LEMMA LeastNumber ==
    ASSUME NEW T \in SUBSET Nat, T # {}
    PROVE  \E n \in T : \A m \in T : n <= m
  <1>1. PICK n \in T : \A m \in T : ~(<<m, n>> \in OpToRel(<, Nat))
    BY NatLessThanWellFounded, WFMin
  <1>2. \A m \in T : ~(m < n)
    BY <1>1 DEF OpToRel
  <1> QED BY <1>2

\* What an event is about: an instance or a node, and one of its checks.
Label(m) == <<m.what.key, m.what.check>>

\* The events among the messages of s, or those of s and t, differ in that.
Distinct(s) ==
    \A i, j \in DOMAIN s :
        i # j /\ s[i].to = "events" /\ s[j].to = "events" => Label(s[i]) # Label(s[j])

Apart(S, T) ==
    \A x \in S, y \in T : x.to = "events" /\ y.to = "events" => Label(x) # Label(y)

LEMMA ConcatMessages ==
    ASSUME NEW M, NEW s \in Seq(M), NEW t \in Seq(M)
    PROVE  /\ s \o t \in Seq(M)
           /\ ToSet(s \o t) = ToSet(s) \cup ToSet(t)
           /\ Distinct(s) /\ Distinct(t) /\ Apart(ToSet(s), ToSet(t)) => Distinct(s \o t)
  <1> DEFINE u == s \o t
             m == Len(s)
             n == Len(t)
  <1>1. /\ m \in Nat /\ n \in Nat /\ DOMAIN s = 1..m /\ DOMAIN t = 1..n
    BY LenProperties
  <1>2. u \in Seq(M) /\ DOMAIN u = 1..(m + n)
        /\ \A i \in 1..(m + n) : u[i] = IF i <= m THEN s[i] ELSE t[i - m]
    BY ConcatProperties, LenProperties
  <1> HIDE DEF u, m, n
  <1>3. ASSUME NEW i \in DOMAIN u
        PROVE  IF i <= m THEN i \in DOMAIN s /\ u[i] = s[i]
               ELSE i - m \in DOMAIN t /\ u[i] = t[i - m]
    BY <1>1, <1>2
  <1>4. \A i \in DOMAIN s : i \in DOMAIN u /\ u[i] = s[i]
    BY <1>1, <1>2
  <1>5. \A i \in DOMAIN t : i + m \in DOMAIN u /\ u[i + m] = t[i]
    <2> TAKE i \in DOMAIN t
    <2>1. i + m \in 1..(m + n) /\ ~(i + m <= m) /\ (i + m) - m = i
      BY <1>1
    <2> QED BY <1>2, <2>1
  <1>6. ToSet(u) = ToSet(s) \cup ToSet(t)
    <2>1. ToSet(u) \subseteq ToSet(s) \cup ToSet(t)
      BY <1>3 DEF ToSet
    <2>2. ToSet(s) \subseteq ToSet(u)
      BY <1>4 DEF ToSet
    <2>3. ToSet(t) \subseteq ToSet(u)
      BY <1>5 DEF ToSet
    <2> QED BY <2>1, <2>2, <2>3
  <1>7. ASSUME Distinct(s), Distinct(t), Apart(ToSet(s), ToSet(t)) PROVE Distinct(u)
    <2> SUFFICES ASSUME NEW i \in DOMAIN u, NEW j \in DOMAIN u, i # j,
                        u[i].to = "events", u[j].to = "events"
                 PROVE  Label(u[i]) # Label(u[j])
      BY DEF Distinct
    <2>0. i \in Int /\ j \in Int /\ m \in Nat
      BY <1>1, <1>2
    <2>1. CASE i <= m /\ j <= m
      BY <1>3, <1>7, <2>1 DEF Distinct
    <2>2. CASE i <= m /\ ~(j <= m)
      <3>1. u[i] \in ToSet(s) /\ u[j] \in ToSet(t)
        BY <1>3, <2>2 DEF ToSet
      <3> QED BY <1>7, <3>1 DEF Apart
    <2>3. CASE ~(i <= m) /\ j <= m
      <3>1. u[i] \in ToSet(t) /\ u[j] \in ToSet(s)
        BY <1>3, <2>3 DEF ToSet
      <3> QED BY <1>7, <3>1 DEF Apart
    <2>4. CASE ~(i <= m) /\ ~(j <= m)
      <3>1. i - m # j - m
        BY <2>0
      <3>2. i - m \in DOMAIN t /\ u[i] = t[i - m] /\ j - m \in DOMAIN t /\ u[j] = t[j - m]
        BY <1>3, <2>4
      <3> QED BY <1>7, <3>1, <3>2 DEF Distinct
    <2> QED BY <2>1, <2>2, <2>3, <2>4
  <1> QED BY <1>2, <1>6, <1>7 DEF u

\* f is the function by which FlattenSeq concatenates the first n of seqs.
Flattening(f, seqs, n) ==
    f = [i \in 1..n |-> IF i = 1 THEN seqs[i] ELSE f[i - 1] \o seqs[i]]

LEMMA FlatteningAt ==
    ASSUME NEW f, NEW seqs, NEW n \in Nat, Flattening(f, seqs, n)
    PROVE  \A i \in 1..n : f[i] = IF i = 1 THEN seqs[i] ELSE f[i - 1] \o seqs[i]
  <1> DEFINE after(i) == IF i = 1 THEN seqs[i] ELSE f[i - 1] \o seqs[i]
  <1>1. f = [i \in 1..n |-> after(i)]
    BY DEF Flattening
  <1> HIDE DEF after
  <1>2. \A i \in 1..n : f[i] = after(i)
    BY <1>1
  <1> QED BY <1>2 DEF after

LEMMA FlatteningExists ==
    ASSUME NEW seqs, NEW n \in Nat
    PROVE  \E f : Flattening(f, seqs, n)
  <1> DEFINE T == {m \in Nat : ~\E f : Flattening(f, seqs, m)}
  <1>1. SUFFICES ASSUME T # {} PROVE FALSE
    OBVIOUS
  <1>2. PICK m \in T : \A k \in T : m <= k
    <2>1. T \in SUBSET Nat
      OBVIOUS
    <2> HIDE DEF T
    <2> QED BY <1>1, <2>1, LeastNumber
  <1>3. m \in Nat
    OBVIOUS
  <1>4. m # 0
    <2>1. Flattening([i \in 1..0 |-> 0], seqs, 0)
      BY DEF Flattening
    <2> QED BY <2>1
  <1>5. m - 1 \in Nat /\ m - 1 \notin T
    <2> HIDE DEF T
    <2> QED BY <1>2, <1>3, <1>4
  <1>6. PICK f : Flattening(f, seqs, m - 1)
    BY <1>5
  <1> DEFINE g == [i \in 1..m |-> IF i = m
                                  THEN (IF m = 1 THEN seqs[m] ELSE f[m - 1] \o seqs[m])
                                  ELSE f[i]]
  <1>7. \A i \in 1..(m - 1) : f[i] = IF i = 1 THEN seqs[i] ELSE f[i - 1] \o seqs[i]
    BY <1>5, <1>6, FlatteningAt
  <1>8. ASSUME NEW i \in 1..m
        PROVE  g[i] = IF i = 1 THEN seqs[i] ELSE g[i - 1] \o seqs[i]
    <2>1. CASE i = m
      BY <1>3, <1>4, <2>1
    <2>2. CASE i # m
      <3>1. i \in 1..(m - 1) /\ g[i] = f[i] /\ (i # 1 => g[i - 1] = f[i - 1])
        BY <1>3, <2>2
      <3> HIDE DEF g
      <3> QED BY <1>7, <3>1
    <2> QED BY <2>1, <2>2
  <1>9. DOMAIN g = 1..m /\ g = [i \in DOMAIN g |-> g[i]]
    OBVIOUS
  <1> HIDE DEF g
  <1>10. Flattening(g, seqs, m)
    BY <1>8, <1>9 DEF Flattening
  <1> QED BY <1>2, <1>10

LEMMA FlattenMessages ==
    ASSUME NEW M, NEW seqs \in Seq(Seq(M))
    PROVE  /\ FlattenSeq(seqs) \in Seq(M)
           /\ ToSet(FlattenSeq(seqs)) = UNION {ToSet(seqs[i]) : i \in DOMAIN seqs}
           /\ (\A i \in DOMAIN seqs : Distinct(seqs[i]))
              /\ (\A i, j \in DOMAIN seqs : i # j => Apart(ToSet(seqs[i]), ToSet(seqs[j])))
              => Distinct(FlattenSeq(seqs))
  <1> DEFINE n == Len(seqs)
             upTo(i) == UNION {ToSet(seqs[j]) : j \in 1..i}
             Clear == /\ \A i \in DOMAIN seqs : Distinct(seqs[i])
                      /\ \A i, j \in DOMAIN seqs : i # j => Apart(ToSet(seqs[i]), ToSet(seqs[j]))
  <1>1. n \in Nat /\ DOMAIN seqs = 1..n /\ \A i \in 1..n : seqs[i] \in Seq(M)
    BY LenProperties, ElementOfSeq
  <1>2. CASE n = 0
    <2>1. seqs = <<>>
      BY <1>1, <1>2
    <2>2. FlattenSeq(seqs) = <<>>
      BY <1>2, <2>1 DEF FlattenSeq
    <2>3. DOMAIN seqs = {} /\ DOMAIN <<>> = {}
      BY <1>1, <1>2
    <2>4. ToSet(<<>>) = {} /\ Distinct(<<>>) /\ <<>> \in Seq(M)
      BY DEF ToSet, Distinct
    <2> QED BY <2>2, <2>3, <2>4
  <1>3. CASE n # 0
    <2> DEFINE f == CHOOSE f : Flattening(f, seqs, n)
    <2>1. FlattenSeq(seqs) = f[n]
      BY <1>3 DEF FlattenSeq, Flattening
    <2>2. Flattening(f, seqs, n)
      BY <1>1, FlatteningExists
    <2> HIDE DEF f
    <2>3. \A i \in 1..n : f[i] = IF i = 1 THEN seqs[i] ELSE f[i - 1] \o seqs[i]
      BY <1>1, <2>2, FlatteningAt
    <2> DEFINE P(i) == f[i] \in Seq(M) /\ ToSet(f[i]) = upTo(i) /\ (Clear => Distinct(f[i]))
               T == {i \in 1..n : ~P(i)}
    <2>4. ASSUME T # {} PROVE FALSE
      <3>1. PICK i \in T : \A j \in T : i <= j
        <4>1. T \in SUBSET Nat
          BY <1>1
        <4> HIDE DEF T
        <4> QED BY <2>4, <4>1, LeastNumber
      <3>2. i \in 1..n /\ ~P(i)
        OBVIOUS
      <3>3. CASE i = 1
        <4>1. f[i] = seqs[i]
          BY <2>3, <3>2, <3>3
        <4>2. upTo(1) = ToSet(seqs[1])
          BY <1>1
        <4> QED BY <1>1, <3>2, <3>3, <4>1, <4>2
      <3>4. CASE i # 1
        <4>1. i - 1 \in 1..n /\ i - 1 \notin T
          <5> HIDE DEF T
          <5> QED BY <1>1, <3>1, <3>2, <3>4
        <4>2. P(i - 1)
          BY <4>1
        <4>3. f[i] = f[i - 1] \o seqs[i] /\ seqs[i] \in Seq(M)
          BY <1>1, <2>3, <3>2, <3>4
        <4>4. upTo(i) = upTo(i - 1) \cup ToSet(seqs[i])
          <5>1. 1..i = (1..(i - 1)) \cup {i}
            BY <1>1, <3>2
          <5> QED BY <5>1
        <4>5. f[i] \in Seq(M) /\ ToSet(f[i]) = upTo(i)
          <5> HIDE DEF upTo
          <5> QED BY <4>2, <4>3, <4>4, ConcatMessages
        <4>6. ASSUME Clear PROVE Distinct(f[i])
          <5>1. Distinct(f[i - 1]) /\ Distinct(seqs[i])
            BY <1>1, <3>2, <4>2, <4>6
          <5>2. ASSUME NEW j \in 1..(i - 1) PROVE Apart(ToSet(seqs[j]), ToSet(seqs[i]))
            <6>1. j \in 1..n /\ j # i
              BY <1>1, <3>2
            <6> QED BY <1>1, <3>2, <4>6, <6>1
          <5>3. Apart(upTo(i - 1), ToSet(seqs[i]))
            BY <5>2 DEF Apart
          <5> QED BY <4>2, <4>3, <5>1, <5>3, ConcatMessages
        <4> QED BY <3>2, <4>5, <4>6
      <3> QED BY <3>3, <3>4
    <2>5. P(n)
      <3>1. n \in 1..n
        BY <1>1, <1>3
      <3> QED BY <2>4, <3>1
    <2> QED BY <1>1, <2>1, <2>5
  <1> QED BY <1>2, <1>3

\* An order of a finite set has each of its elements once.
LEMMA OrderOf ==
    ASSUME NEW S, IsFiniteSet(S), NEW order \in SetToSeqs(S)
    PROVE  /\ order \in Seq(S) /\ DOMAIN order = 1..Len(order) /\ Len(order) \in Nat
           /\ ToSet(order) = S
           /\ \A i, j \in DOMAIN order : i # j => order[i] # order[j]
  <1> DEFINE n == Cardinality(S)
  <1>1. n \in Nat
    BY FS_CardinalityType
  <1>2. order \in [1..n -> S] /\ \A i, j \in 1..n : i # j => order[i] # order[j]
    BY DEF SetToSeqs
  <1>3. order \in Injection(1..n, S)
    BY <1>2 DEF Injection, IsInjective
  <1>4. Cardinality(1..n) = n
    BY <1>1, FS_Interval
  <1>5. order \in Surjection(1..n, S)
    BY <1>3, <1>4, FS_Injection
  <1>6. \A x \in S : \E i \in 1..n : order[i] = x
    BY <1>5 DEF Surjection
  <1>7. order \in Seq(S) /\ DOMAIN order = 1..n /\ Len(order) = n
    <2> HIDE DEF n
    <2> QED BY <1>1, <1>2
  <1>8. ToSet(order) = S
    BY <1>2, <1>6, <1>7 DEF ToSet
  <1> QED BY <1>1, <1>2, <1>7, <1>8

\* Maps walked in any order: all that is emitted for one of the elements.
LEMMA AnyOrderMessages ==
    ASSUME NEW S, IsFiniteSet(S), NEW choices, NEW M,
           \A x \in S : choices[x] \subseteq Seq(M),
           NEW m \in InAnyOrder(S, choices)
    PROVE  /\ m \in Seq(M)
           /\ \E pick : /\ \A x \in S : pick[x] \in choices[x]
                        /\ ToSet(m) = UNION {ToSet(pick[x]) : x \in S}
                        /\ (\A x \in S : Distinct(pick[x]))
                           /\ (\A x, y \in S : x # y => Apart(ToSet(pick[x]), ToSet(pick[y])))
                           => Distinct(m)
  <1>0. PICK order \in SetToSeqs(S), pick \in Picks(S, choices) :
           m = FlattenSeq([i \in 1..Len(order) |-> pick[order[i]]])
    BY DEF InAnyOrder
  <1>1. /\ \A x \in S : pick[x] \in choices[x]
        /\ m = FlattenSeq([i \in 1..Len(order) |-> pick[order[i]]])
    BY <1>0 DEF Picks
  <1> DEFINE seqs == [i \in 1..Len(order) |-> pick[order[i]]]
  <1>2. /\ DOMAIN order = 1..Len(order) /\ Len(order) \in Nat /\ ToSet(order) = S
        /\ \A i \in 1..Len(order) : order[i] \in S
        /\ \A i, j \in 1..Len(order) : i # j => order[i] # order[j]
    BY OrderOf DEF ToSet
  <1>3. \A x \in S : \E i \in 1..Len(order) : order[i] = x
    BY <1>2 DEF ToSet
  <1>4. seqs \in Seq(Seq(M)) /\ DOMAIN seqs = 1..Len(order)
    <2>1. \A i \in 1..Len(order) : pick[order[i]] \in Seq(M)
      BY <1>1, <1>2
    <2> QED BY <1>2, <2>1
  <1>5. \A i \in 1..Len(order) : seqs[i] = pick[order[i]]
    OBVIOUS
  <1> HIDE DEF seqs
  <1>6. m = FlattenSeq(seqs)
    BY <1>1 DEF seqs
  <1>7. m \in Seq(M) /\ ToSet(m) = UNION {ToSet(seqs[i]) : i \in DOMAIN seqs}
    BY <1>4, <1>6, FlattenMessages
  <1>8. UNION {ToSet(seqs[i]) : i \in DOMAIN seqs} = UNION {ToSet(pick[x]) : x \in S}
    <2>1. \A i \in DOMAIN seqs : order[i] \in S /\ seqs[i] = pick[order[i]]
      BY <1>2, <1>4, <1>5
    <2>2. \A x \in S : \E i \in DOMAIN seqs : seqs[i] = pick[x]
      BY <1>3, <1>4, <1>5
    <2> QED BY <2>1, <2>2
  <1>9. ASSUME \A x \in S : Distinct(pick[x]),
               \A x, y \in S : x # y => Apart(ToSet(pick[x]), ToSet(pick[y]))
        PROVE  Distinct(m)
    <2>1. \A i \in DOMAIN seqs : Distinct(seqs[i])
      BY <1>2, <1>4, <1>5, <1>9
    <2>2. \A i, j \in DOMAIN seqs : i # j => Apart(ToSet(seqs[i]), ToSet(seqs[j]))
      BY <1>2, <1>4, <1>5, <1>9
    <2> QED BY <1>4, <1>6, <2>1, <2>2, FlattenMessages
  <1> QED BY <1>1, <1>7, <1>8, <1>9

-----------------------------------------------------------------------------
(* What a comparison emits.                                                *)

\* The checks that differ between two states of an instance or a node.
Differing(old, new) == MovedChecks(old, new) \cup GoneChecks(old, new)

CheckMsgs(base, old, new) == {Emit(CheckEvent(base, old, new, c)) : c \in Differing(old, new)}

LEMMA CheckEventFields ==
    ASSUME NEW base, {"check", "oldCheck", "newCheck"} \subseteq DOMAIN base,
           NEW old, NEW new, NEW c
    PROVE  LET e == CheckEvent(base, old, new, c)
           IN  /\ e.check = c
               /\ e.oldCheck = IF c \in DOMAIN old THEN StatusFromConsul(old[c]) ELSE "missing"
               /\ e.newCheck = IF c \in DOMAIN new THEN StatusFromConsul(new[c]) ELSE "missing"
               /\ DOMAIN e = DOMAIN base
               /\ \A f \in DOMAIN base \ {"check", "oldCheck", "newCheck"} : e[f] = base[f]
  BY DEF CheckEvent

LEMMA CheckMessages ==
    ASSUME NEW base, {"check", "oldCheck", "newCheck"} \subseteq DOMAIN base,
           NEW old, NEW new, IsFiniteSet(DOMAIN old), IsFiniteSet(DOMAIN new),
           NEW m \in CompareChecks(base, old, new)
    PROVE  /\ m \in Seq(CheckMsgs(base, old, new))
           /\ ToSet(m) = CheckMsgs(base, old, new)
           /\ Distinct(m)
  <1> DEFINE moved == MovedChecks(old, new)
             gone == GoneChecks(old, new)
             C == Differing(old, new)
             msg(c) == Emit(CheckEvent(base, old, new, c))
  <1>1. PICK a \in SetToSeqs(moved), b \in SetToSeqs(gone) : m = CheckEvents(base, old, new, a \o b)
    BY DEF CompareChecks
  <1>2. IsFiniteSet(moved) /\ IsFiniteSet(gone) /\ moved \cap gone = {} /\ C = moved \cup gone
    BY FS_Subset DEF MovedChecks, GoneChecks, Differing
  <1> HIDE DEF moved, gone, C
  <1>3. /\ a \in Seq(moved) /\ ToSet(a) = moved
        /\ \A i, j \in DOMAIN a : i # j => a[i] # a[j]
        /\ b \in Seq(gone) /\ ToSet(b) = gone
        /\ \A i, j \in DOMAIN b : i # j => b[i] # b[j]
    BY <1>2, OrderOf
  <1> DEFINE s == a \o b
  <1>4. a \in Seq(C) /\ b \in Seq(C)
    BY <1>2, <1>3, SeqMonotonic
  <1>5. s \in Seq(C) /\ ToSet(s) = C
    BY <1>2, <1>3, <1>4, ConcatMessages
  <1>6. ASSUME NEW i \in DOMAIN s, NEW j \in DOMAIN s, i # j PROVE s[i] # s[j]
    <2> DEFINE k == Len(a)
               l == Len(b)
    <2>1. k \in Nat /\ l \in Nat /\ DOMAIN a = 1..k /\ DOMAIN b = 1..l
      BY <1>4, LenProperties
    <2>2. DOMAIN s = 1..(k + l) /\ \A x \in 1..(k + l) : s[x] = IF x <= k THEN a[x] ELSE b[x - k]
      BY <1>4, ConcatProperties, LenProperties
    <2> HIDE DEF k, l, s
    <2>3. i \in 1..(k + l) /\ j \in 1..(k + l)
      BY <2>2
    <2>4. \A x \in 1..(k + l) : IF x <= k THEN x \in DOMAIN a /\ s[x] = a[x]
                                ELSE x - k \in DOMAIN b /\ s[x] = b[x - k]
      BY <2>1, <2>2
    <2>5. \A x \in 1..(k + l) : IF x <= k THEN s[x] \in moved ELSE s[x] \in gone
      BY <1>3, <2>4 DEF ToSet
    <2>6. CASE (i <= k) # (j <= k)
      BY <1>2, <2>3, <2>5, <2>6
    <2>7. CASE i <= k /\ j <= k
      BY <1>3, <1>6, <2>3, <2>4, <2>7
    <2>8. CASE ~(i <= k) /\ ~(j <= k)
      <3>1. i - k # j - k
        BY <1>6, <2>1, <2>3
      <3> QED BY <1>3, <2>3, <2>4, <2>8, <3>1
    <2> QED BY <2>6, <2>7, <2>8
  <1>7. DOMAIN s = 1..Len(s) /\ Len(s) \in Nat /\ \A i \in 1..Len(s) : s[i] \in C
    BY <1>5, LenProperties, ElementOfSeq
  <1> HIDE DEF s
  <1>8. m = [i \in 1..Len(s) |-> msg(s[i])]
    BY <1>1, <1>7 DEF s, CheckEvents
  <1>9. CheckMsgs(base, old, new) = {msg(c) : c \in C}
    BY DEF CheckMsgs, C
  <1>10. \A c : msg(c).to = "events" /\ msg(c).what.check = c
    BY CheckEventFields DEF Emit
  <1> HIDE DEF msg
  <1>11. m \in Seq(CheckMsgs(base, old, new)) /\ DOMAIN m = 1..Len(s)
    <2>1. \A i \in 1..Len(s) : msg(s[i]) \in CheckMsgs(base, old, new)
      BY <1>7, <1>9
    <2> QED BY <1>7, <1>8, <2>1
  <1>12. ToSet(m) = CheckMsgs(base, old, new)
    <2>1. \A c \in C : \E i \in 1..Len(s) : s[i] = c
      BY <1>5, <1>7 DEF ToSet
    <2>2. \A i \in 1..Len(s) : m[i] = msg(s[i])
      BY <1>8
    <2> QED BY <1>7, <1>9, <1>11, <2>1, <2>2 DEF ToSet
  <1>13. Distinct(m)
    <2>1. \A i \in DOMAIN m : i \in DOMAIN s /\ m[i].what.check = s[i]
      BY <1>7, <1>8, <1>10, <1>11
    <2>2. \A i, j \in DOMAIN m : i # j => m[i].what.check # m[j].what.check
      BY <1>6, <2>1
    <2> QED BY <2>2 DEF Distinct, Label
  <1> QED BY <1>11, <1>12, <1>13

\* What compareService emits for an instance that is there, and in all.
Base(k, old, new) ==
    ServiceEvent(k, "check", InstanceStatus(old[k].checks), InstanceStatus(new[k].checks), old, new)

Registered(k, old, new) ==
    ServiceEvent(k, "instance", "missing", InstanceStatus(new[k].checks), old, new)

InstanceMsgs(k, old, new, due) ==
    IF k \notin DOMAIN old
    THEN {Emit(Registered(k, old, new)), Announce(k, new[k])}
    ELSE (IF k \in due THEN {Announce(k, new[k])} ELSE {})
         \cup CheckMsgs(Base(k, old, new), ServiceChecks(old[k].checks),
                        ServiceChecks(new[k].checks))

PresentMsgs(old, new, due) == UNION {InstanceMsgs(k, old, new, due) : k \in DOMAIN new}
GoneMsgs(old, new) == {Emit(GoneEvent(k, old, new)) : k \in DOMAIN old \ DOMAIN new}
ServiceMsgs(old, new, due) == PresentMsgs(old, new, due) \cup GoneMsgs(old, new)

\* A state of a service, as far as the comparison needs it.
Finite(service) ==
    /\ IsFiniteSet(DOMAIN service)
    /\ \A k \in DOMAIN service : IsFiniteSet(DOMAIN service[k].checks)

LEMMA ServiceChecksDomain ==
    ASSUME NEW checks
    PROVE  /\ DOMAIN ServiceChecks(checks) = DOMAIN checks \cap ServiceCheckIDs
           /\ \A c \in DOMAIN ServiceChecks(checks) : ServiceChecks(checks)[c] = checks[c]
  BY DEF ServiceChecks, Restrict

LEMMA OneMessage ==
    ASSUME NEW x
    PROVE  <<x>> \in Seq({x}) /\ ToSet(<<x>>) = {x} /\ Distinct(<<x>>)
  <1>1. DOMAIN <<x>> = {1} /\ <<x>>[1] = x
    OBVIOUS
  <1> QED BY <1>1 DEF ToSet, Distinct

LEMMA NoMessage == <<>> \in Seq({}) /\ ToSet(<<>>) = {} /\ Distinct(<<>>)
  <1>1. DOMAIN <<>> = {}
    OBVIOUS
  <1> QED BY <1>1 DEF ToSet, Distinct

LEMMA InstanceMessages ==
    ASSUME NEW k, NEW old, NEW new, NEW due,
           k \in DOMAIN old => IsFiniteSet(DOMAIN old[k].checks),
           IsFiniteSet(DOMAIN new[k].checks),
           NEW m \in CompareInstance(k, old, new, due)
    PROVE  /\ m \in Seq(InstanceMsgs(k, old, new, due))
           /\ ToSet(m) = InstanceMsgs(k, old, new, due)
           /\ Distinct(m)
  <1> DEFINE M == InstanceMsgs(k, old, new, due)
             ann == Announce(k, new[k])
             reg == Emit(Registered(k, old, new))
  <1>1. CASE k \notin DOMAIN old
    <2>1. m = <<reg, ann>> /\ M = {reg, ann}
      BY <1>1 DEF CompareInstance, InstanceMsgs, Registered
    <2>2. ann.to = "instances"
      BY DEF Announce
    <2> HIDE DEF reg, ann, M
    <2>3. DOMAIN <<reg, ann>> = {1, 2} /\ <<reg, ann>>[1] = reg /\ <<reg, ann>>[2] = ann
      OBVIOUS
    <2>4. m \in Seq(M)
      BY <2>1
    <2> QED BY <2>1, <2>2, <2>3, <2>4 DEF ToSet, Distinct, M
  <1>2. CASE k \in DOMAIN old
    <2> DEFINE start == IF k \in due THEN <<ann>> ELSE <<>>
               S == IF k \in due THEN {ann} ELSE {}
               so == ServiceChecks(old[k].checks)
               sn == ServiceChecks(new[k].checks)
               base == Base(k, old, new)
               C == CheckMsgs(base, so, sn)
    <2>1. PICK evs \in CompareChecks(base, so, sn) : m = start \o evs
      BY <1>2 DEF CompareInstance, Base
    <2>2. M = S \cup C
      BY <1>2 DEF InstanceMsgs
    <2>3. IsFiniteSet(DOMAIN so) /\ IsFiniteSet(DOMAIN sn)
      BY <1>2, ServiceChecksDomain, FS_Subset
    <2>4. {"check", "oldCheck", "newCheck"} \subseteq DOMAIN base
      BY DEF Base, ServiceEvent
    <2> HIDE DEF so, sn, base
    <2>5. evs \in Seq(C) /\ ToSet(evs) = C /\ Distinct(evs)
      BY <2>3, <2>4, CheckMessages
    <2>6. start \in Seq(S) /\ ToSet(start) = S /\ Distinct(start)
      BY OneMessage, NoMessage
    <2>7. ann.to = "instances"
      BY DEF Announce
    <2>8. Apart(ToSet(start), ToSet(evs))
      BY <2>6, <2>7 DEF Apart
    <2> HIDE DEF start, S, C, M
    <2>9. start \in Seq(M) /\ evs \in Seq(M)
      BY <2>2, <2>5, <2>6, SeqMonotonic
    <2>10. m \in Seq(M) /\ ToSet(m) = M /\ Distinct(m)
      BY <2>1, <2>2, <2>5, <2>6, <2>8, <2>9, ConcatMessages
    <2> QED BY <2>10 DEF M
  <1> QED BY <1>1, <1>2

\* The messages of an instance name it, the events as well as the record.
LEMMA InstanceKeys ==
    ASSUME NEW k, NEW old, NEW new, NEW due, NEW x \in InstanceMsgs(k, old, new, due)
    PROVE  x.what.key = k
  <1>1. Announce(k, new[k]).what.key = k
    BY DEF Announce
  <1>2. Emit(Registered(k, old, new)).what.key = k
    BY DEF Emit, Registered, ServiceEvent
  <1>3. ASSUME NEW c
        PROVE  Emit(CheckEvent(Base(k, old, new), ServiceChecks(old[k].checks),
                               ServiceChecks(new[k].checks), c)).what.key = k
    <2>1. /\ DOMAIN Base(k, old, new) = {"kind", "key", "check", "old", "new", "oldCheck", "newCheck",
                              "oldHealthy", "newHealthy", "total"}
          /\ Base(k, old, new).key = k
      BY DEF Base, ServiceEvent
    <2> QED BY <2>1, CheckEventFields DEF Emit
  <1> QED BY <1>1, <1>2, <1>3 DEF InstanceMsgs, CheckMsgs

\* What compareService emits, whatever order it walks the two maps in.
LEMMA ServiceMessages ==
    ASSUME NEW old, NEW new, NEW due, Finite(old), Finite(new),
           NEW m \in CompareService(old, new, due)
    PROVE  /\ m \in Seq(ServiceMsgs(old, new, due))
           /\ ToSet(m) = ServiceMsgs(old, new, due)
           /\ Distinct(m)
  <1> DEFINE P == PresentMsgs(old, new, due)
             G == GoneMsgs(old, new)
             M == ServiceMsgs(old, new, due)
             Im(k) == InstanceMsgs(k, old, new, due)
             gone == DOMAIN old \ DOMAIN new
             ge(k) == Emit(GoneEvent(k, old, new))
  <1>1. PICK a \in ComparePresent(old, new, due), b \in CompareGone(old, new) : m = a \o b
    BY DEF CompareService
  <1>2. a \in Seq(P) /\ ToSet(a) = P /\ Distinct(a)
    <2> DEFINE ch == [k \in DOMAIN new |-> CompareInstance(k, old, new, due)]
    <2>1. ASSUME NEW k \in DOMAIN new, NEW s \in ch[k]
          PROVE  s \in Seq(Im(k)) /\ ToSet(s) = Im(k) /\ Distinct(s)
      BY InstanceMessages DEF Finite
    <2>2. P = UNION {Im(k) : k \in DOMAIN new}
      BY DEF PresentMsgs
    <2>3. a \in InAnyOrder(DOMAIN new, ch)
      BY DEF ComparePresent
    <2>4. \A k, l \in DOMAIN new : k # l => Apart(Im(k), Im(l))
      BY InstanceKeys DEF Apart, Label
    <2> HIDE DEF ch, Im, P
    <2>5. \A k \in DOMAIN new : ch[k] \subseteq Seq(P)
      <3> SUFFICES ASSUME NEW k \in DOMAIN new, NEW s \in ch[k] PROVE s \in Seq(P)
        OBVIOUS
      <3>1. Im(k) \subseteq P
        BY <2>2
      <3> QED BY <2>1, <3>1, SeqMonotonic
    <2>6. IsFiniteSet(DOMAIN new)
      BY DEF Finite
    <2>7. a \in Seq(P)
      BY <2>3, <2>5, <2>6, AnyOrderMessages
    <2>8. PICK pick : /\ \A x \in DOMAIN new : pick[x] \in ch[x]
                      /\ ToSet(a) = UNION {ToSet(pick[x]) : x \in DOMAIN new}
                      /\ (\A x \in DOMAIN new : Distinct(pick[x]))
                         /\ (\A x, y \in DOMAIN new : x # y => Apart(ToSet(pick[x]), ToSet(pick[y])))
                         => Distinct(a)
      BY <2>3, <2>5, <2>6, AnyOrderMessages
    <2>9. \A x \in DOMAIN new : ToSet(pick[x]) = Im(x) /\ Distinct(pick[x])
      BY <2>1, <2>8
    <2>10. ToSet(a) = P
      BY <2>2, <2>8, <2>9
    <2>11. Distinct(a)
      BY <2>4, <2>8, <2>9
    <2> QED BY <2>7, <2>10, <2>11
  <1>3. b \in Seq(G) /\ ToSet(b) = G /\ Distinct(b)
    <2> DEFINE ch == [k \in gone |-> {<<ge(k)>>}]
    <2>1. \A k \in gone : ch[k] = {<<ge(k)>>}
      OBVIOUS
    <2>2. G = {ge(k) : k \in gone}
      BY DEF GoneMsgs
    <2>3. b \in InAnyOrder(gone, ch)
      BY DEF CompareGone
    <2>4. \A k : ge(k).what.key = k
      BY DEF Emit, GoneEvent, ServiceEvent
    <2>5. IsFiniteSet(gone)
      BY FS_Subset DEF Finite
    <2> HIDE DEF ch, ge, G, gone
    <2>6. \A k \in gone : ch[k] \subseteq Seq(G)
      <3> TAKE k \in gone
      <3>1. ge(k) \in G
        BY <2>2
      <3>2. <<ge(k)>> \in Seq(G)
        BY <3>1
      <3> QED BY <2>1, <3>2
    <2>7. b \in Seq(G)
      BY <2>3, <2>5, <2>6, AnyOrderMessages
    <2>8. PICK pick : /\ \A x \in gone : pick[x] \in ch[x]
                      /\ ToSet(b) = UNION {ToSet(pick[x]) : x \in gone}
                      /\ (\A x \in gone : Distinct(pick[x]))
                         /\ (\A x, y \in gone : x # y => Apart(ToSet(pick[x]), ToSet(pick[y])))
                         => Distinct(b)
      BY <2>3, <2>5, <2>6, AnyOrderMessages
    <2>9. \A x \in gone : ToSet(pick[x]) = {ge(x)} /\ Distinct(pick[x])
      <3> TAKE x \in gone
      <3>1. pick[x] = <<ge(x)>>
        BY <2>1, <2>8
      <3> QED BY <3>1, OneMessage
    <2>10. ToSet(b) = G
      BY <2>2, <2>8, <2>9
    <2>11. \A x, y \in gone : x # y => Apart({ge(x)}, {ge(y)})
      BY <2>4 DEF Apart, Label
    <2>12. Distinct(b)
      BY <2>8, <2>9, <2>11
    <2> QED BY <2>7, <2>10, <2>12
  <1>4. Apart(P, G)
    <2>1. \A x \in P : \E k \in DOMAIN new : x.what.key = k
      BY InstanceKeys DEF PresentMsgs
    <2>2. \A y \in G : \E k \in gone : y.what.key = k
      <3>1. \A k : ge(k).what.key = k
        BY DEF Emit, GoneEvent, ServiceEvent
      <3> HIDE DEF ge
      <3>2. G = {ge(k) : k \in gone}
        BY DEF GoneMsgs, ge
      <3> QED BY <3>1, <3>2
    <2>3. ASSUME NEW x \in P, NEW y \in G PROVE Label(x) # Label(y)
      <3>1. x.what.key # y.what.key
        BY <2>1, <2>2
      <3> QED BY <3>1 DEF Label
    <2> QED BY <2>3 DEF Apart
  <1>5. M = P \cup G
    BY DEF ServiceMsgs
  <1> HIDE DEF P, G, M
  <1>6. a \in Seq(M) /\ b \in Seq(M)
    BY <1>2, <1>3, <1>5, SeqMonotonic
  <1>7. m \in Seq(M) /\ ToSet(m) = M /\ Distinct(m)
    BY <1>1, <1>2, <1>3, <1>4, <1>5, <1>6, ConcatMessages
  <1> QED BY <1>7 DEF M

AnnounceMsgs(service, due) == {Announce(k, service[k]) : k \in due}

LEMMA AnnounceMessages ==
    ASSUME NEW service, NEW due, IsFiniteSet(due), NEW m \in AnnounceService(service, due)
    PROVE  m \in Seq(AnnounceMsgs(service, due)) /\ ToSet(m) = AnnounceMsgs(service, due)
  <1> DEFINE A == AnnounceMsgs(service, due)
             an(k) == Announce(k, service[k])
             ch == [k \in due |-> {<<an(k)>>}]
  <1>1. \A k \in due : ch[k] = {<<an(k)>>}
    OBVIOUS
  <1>2. A = {an(k) : k \in due}
    BY DEF AnnounceMsgs
  <1>3. m \in InAnyOrder(due, ch)
    BY DEF AnnounceService
  <1> HIDE DEF ch, an, A
  <1>4. \A k \in due : ch[k] \subseteq Seq(A)
    <2> TAKE k \in due
    <2>1. an(k) \in A
      BY <1>2
    <2>2. <<an(k)>> \in Seq(A)
      BY <2>1
    <2> QED BY <1>1, <2>2
  <1>5. m \in Seq(A)
    BY <1>3, <1>4, AnyOrderMessages
  <1>6. PICK pick : /\ \A x \in due : pick[x] \in ch[x]
                    /\ ToSet(m) = UNION {ToSet(pick[x]) : x \in due}
    BY <1>3, <1>4, AnyOrderMessages
  <1>7. \A x \in due : ToSet(pick[x]) = {an(x)}
    <2> TAKE x \in due
    <2>1. pick[x] = <<an(x)>>
      BY <1>1, <1>6
    <2> QED BY <2>1, OneMessage
  <1>8. ToSet(m) = A
    <2>1. ToSet(m) = UNION {{an(x)} : x \in due}
      BY <1>6, <1>7
    <2> QED BY <1>2, <2>1
  <1> QED BY <1>5, <1>8 DEF A

-----------------------------------------------------------------------------
(* What a reader of the events learns.                                     *)

\* The event e speaks of a whole instance or node, or of one of its checks.
Whole(e) == e.kind # "check" /\ (e.new = "missing" \/ e.kind = "instance")

\* The facts that learning of e decides.
Touches(e, f) ==
    IF Whole(e) THEN f[1] = e.key
    ELSE f = <<e.key, "", "registered">> \/ (f[1] = e.key /\ f[2] = e.check)

\* What e says holds in the facts F.
Truthful(e, F) ==
    IF Whole(e) THEN e.new = "missing" => \A f \in F : f[1] # e.key
    ELSE /\ e.check # ""
         /\ <<e.key, "", "registered">> \in F
         /\ \A f : f[1] = e.key /\ f[2] = e.check =>
                (f \in F <=> e.newCheck # "missing" /\ f = <<e.key, e.check, e.newCheck>>)

\* Two sets of facts agree where none of the events E decides.
Agree(A, F, E) == \A f : (\A e \in E : ~Touches(e, f)) => (f \in A <=> f \in F)

LEMMA LearnDecides ==
    ASSUME NEW A, NEW F, NEW e, Truthful(e, F), NEW f
    PROVE  f \in Learn(A, e, F) <=> (IF Touches(e, f) THEN f \in F ELSE f \in A)
  <1> DEFINE reg == <<e.key, "", "registered">>
             now == <<e.key, e.check, e.newCheck>>
  <1>0. reg[1] = e.key /\ reg[2] = "" /\ now[1] = e.key /\ now[2] = e.check
    OBVIOUS
  <1>1. CASE e.kind # "check" /\ e.new = "missing"
    <2>1. Learn(A, e, F) = {g \in A : g[1] # e.key} \cup {}
      BY <1>1 DEF Learn
    <2> QED BY <1>1, <2>1 DEF Touches, Truthful, Whole
  <1>2. CASE e.kind = "instance" /\ e.new # "missing"
    <2>1. Learn(A, e, F) = {g \in A : g[1] # e.key} \cup {g \in F : g[1] = e.key}
      BY <1>2 DEF Learn
    <2> QED BY <1>2, <2>1 DEF Touches, Whole
  <1>3. CASE ~Whole(e)
    <2>1. /\ e.check # "" /\ reg \in F
          /\ \A g : g[1] = e.key /\ g[2] = e.check =>
                (g \in F <=> e.newCheck # "missing" /\ g = now)
      BY <1>3 DEF Truthful
    <2>2. Touches(e, f) <=> f = reg \/ (f[1] = e.key /\ f[2] = e.check)
      BY <1>3 DEF Touches
    <2>3. Learn(A, e, F) =
             {g \in A : g[1] # e.key} \cup
             ({g \in A \ {h \in A : h[1] # e.key} : g[2] # e.check} \cup {reg}
              \cup (IF e.newCheck = "missing" THEN {} ELSE {now}))
      BY <1>3, <2>1 DEF Learn, Whole
    <2> HIDE DEF reg, now
    <2>4. f \in Learn(A, e, F) <=>
             \/ f \in A /\ (f[1] # e.key \/ f[2] # e.check)
             \/ f = reg
             \/ e.newCheck # "missing" /\ f = now
      BY <2>3
    <2> QED BY <1>0, <2>1, <2>2, <2>4
  <1> QED BY <1>1, <1>2, <1>3 DEF Whole

\* Learning of one event of several leaves the others to decide.
LEMMA LearnOne ==
    ASSUME NEW A, NEW F, NEW E, NEW e, Truthful(e, F), Agree(A, F, E \cup {e})
    PROVE  Agree(Learn(A, e, F), F, E)
  <1> SUFFICES ASSUME NEW f, \A d \in E : ~Touches(d, f)
               PROVE  f \in Learn(A, e, F) <=> f \in F
    BY DEF Agree
  <1>1. CASE Touches(e, f)
    BY <1>1, LearnDecides
  <1>2. CASE ~Touches(e, f)
    <2>1. f \in A <=> f \in F
      BY <1>2 DEF Agree
    <2> QED BY <1>2, <2>1, LearnDecides
  <1> QED BY <1>1, <1>2

LEMMA AgreeAtLast ==
    ASSUME NEW A, NEW F, Agree(A, F, {})
    PROVE  A = F
  BY DEF Agree

EventsIn(M) == {m.what : m \in {x \in M : x.to = "events"}}

\* What is a fact of a service.
FactOf(f, k, checks) ==
    \/ f = <<k, "", "registered">>
    \/ \E c \in DOMAIN checks : f = <<k, c, StatusFromConsul(checks[c])>>

LEMMA ServiceFact ==
    ASSUME NEW service, NEW f
    PROVE  f \in ServiceFacts(service) <=>
              \E k \in DOMAIN service : FactOf(f, k, ServiceChecks(service[k].checks))
  <1>1. \A k, checks : f \in CheckFacts(k, checks) <=>
            \E c \in DOMAIN checks : f = <<k, c, StatusFromConsul(checks[c])>>
    BY DEF CheckFacts
  <1>2. f \in ServiceFacts(service) <=>
            \E k \in DOMAIN service : \/ f = <<k, "", "registered">>
                                      \/ f \in CheckFacts(k, ServiceChecks(service[k].checks))
    BY DEF ServiceFacts
  <1> QED BY <1>1, <1>2 DEF FactOf

LEMMA FactKey ==
    ASSUME NEW f, NEW k, NEW checks, FactOf(f, k, checks)
    PROVE  f[1] = k
  <1>1. <<k, "", "registered">>[1] = k /\ \A c, s : <<k, c, s>>[1] = k
    OBVIOUS
  <1> QED BY <1>1 DEF FactOf

\* The events of compareService tell the new state, and they tell all that
\* differs from the old one.
LEMMA ServiceEventsTrue ==
    ASSUME NEW old, NEW new, NEW due,
           NEW e \in EventsIn(ServiceMsgs(old, new, due))
    PROVE  Truthful(e, ServiceFacts(new))
  <1> DEFINE F == ServiceFacts(new)
  <1>1. PICK m \in ServiceMsgs(old, new, due) : m.to = "events" /\ e = m.what
    BY DEF EventsIn
  <1>2. CASE m \in GoneMsgs(old, new)
    <2>1. PICK k \in DOMAIN old \ DOMAIN new : m = Emit(GoneEvent(k, old, new))
      BY <1>2 DEF GoneMsgs
    <2>2. e.kind = "instance" /\ e.new = "missing" /\ e.key = k
      BY <1>1, <2>1 DEF Emit, GoneEvent, ServiceEvent
    <2>3. \A f \in F : f[1] \in DOMAIN new
      BY ServiceFact, FactKey
    <2> HIDE DEF F
    <2>4. Truthful(e, F)
      BY <2>1, <2>2, <2>3 DEF Truthful, Whole
    <2> QED BY <2>4 DEF F
  <1>3. CASE m \in PresentMsgs(old, new, due)
    <2>1. PICK k \in DOMAIN new : m \in InstanceMsgs(k, old, new, due)
      BY <1>3 DEF PresentMsgs
    <2>2. Announce(k, new[k]).to = "instances"
      BY DEF Announce
    <2>3. CASE k \notin DOMAIN old
      <3>1. m = Emit(Registered(k, old, new))
        BY <1>1, <2>1, <2>2, <2>3 DEF InstanceMsgs
      <3>2. e.kind = "instance" /\ e.new = InstanceStatus(new[k].checks)
        BY <1>1, <3>1 DEF Emit, Registered, ServiceEvent
      <3>3. e.new # "missing"
        BY <3>2 DEF InstanceStatus, Aggregate
      <3> QED BY <3>2, <3>3 DEF Truthful, Whole
    <2>4. CASE k \in DOMAIN old
      <3> DEFINE so == ServiceChecks(old[k].checks)
                 sn == ServiceChecks(new[k].checks)
                 base == Base(k, old, new)
      <3>1. m \in CheckMsgs(base, so, sn)
        BY <1>1, <2>1, <2>2, <2>4 DEF InstanceMsgs
      <3>2. PICK c \in Differing(so, sn) : m = Emit(CheckEvent(base, so, sn, c))
        BY <3>1 DEF CheckMsgs
      <3>3. base.kind = "check" /\ base.key = k
            /\ {"kind", "key", "check", "oldCheck", "newCheck"} \subseteq DOMAIN base
        BY DEF Base, ServiceEvent
      <3> HIDE DEF base
      <3>4. /\ e.kind = "check" /\ e.key = k /\ e.check = c
            /\ e.newCheck = IF c \in DOMAIN sn THEN StatusFromConsul(sn[c]) ELSE "missing"
        BY <1>1, <3>2, <3>3, CheckEventFields DEF Emit
      <3>5. c # "" /\ c \in ServiceCheckIDs
        <4>1. c \in DOMAIN so \cup DOMAIN sn
          BY DEF Differing, MovedChecks, GoneChecks
        <4>2. DOMAIN so \cup DOMAIN sn \subseteq ServiceCheckIDs
          BY ServiceChecksDomain
        <4> HIDE DEF so, sn
        <4> QED BY <4>1, <4>2, CheckIDsAssumption
      <3>6. \A d : StatusFromConsul(d) # "missing"
        BY DEF StatusFromConsul
      <3> HIDE DEF sn
      <3>7. ASSUME NEW f, f[1] = k, f[2] = c
            PROVE  f \in F <=> c \in DOMAIN sn /\ f = <<k, c, StatusFromConsul(sn[c])>>
        <4>1. f \in F <=> \E l \in DOMAIN new : FactOf(f, l, ServiceChecks(new[l].checks))
          BY ServiceFact
        <4>2. f \in F <=> FactOf(f, k, sn)
          BY <2>1, <3>7, <4>1, FactKey DEF sn
        <4> HIDE DEF F
        <4>3. f # <<k, "", "registered">>
          <5>1. <<k, "", "registered">>[2] = ""
            OBVIOUS
          <5> QED BY <3>5, <3>7, <5>1
        <4>4. \A d \in DOMAIN sn : f = <<k, d, StatusFromConsul(sn[d])>> => d = c
          BY <3>7
        <4> QED BY <4>2, <4>3, <4>4 DEF FactOf
      <3>8. <<k, "", "registered">> \in F
        BY <2>1, ServiceFact DEF FactOf
      <3> HIDE DEF F, so
      <3>9. Truthful(e, F)
        <4>1. ~Whole(e)
          BY <3>4 DEF Whole
        <4>2. e.newCheck # "missing" <=> c \in DOMAIN sn
          BY <3>4, <3>6
        <4> QED BY <3>4, <3>5, <3>7, <3>8, <4>1, <4>2 DEF Truthful
      <3> QED BY <3>9 DEF F
    <2> QED BY <2>3, <2>4
  <1> QED BY <1>1, <1>2, <1>3 DEF ServiceMsgs

LEMMA ServiceEventsTellAll ==
    ASSUME NEW old, NEW new, NEW due
    PROVE  Agree(ServiceFacts(old), ServiceFacts(new), EventsIn(ServiceMsgs(old, new, due)))
  <1> DEFINE E == EventsIn(ServiceMsgs(old, new, due))
             so(k) == ServiceChecks(old[k].checks)
             sn(k) == ServiceChecks(new[k].checks)
  <1>1. SUFFICES ASSUME NEW f, \A e \in E : ~Touches(e, f)
                 PROVE  f \in ServiceFacts(old) <=> f \in ServiceFacts(new)
    BY DEF Agree
  <1>2. ASSUME NEW k \in DOMAIN old \ DOMAIN new PROVE f[1] # k
    <2> DEFINE g == GoneEvent(k, old, new)
    <2>1. g.kind = "instance" /\ g.new = "missing" /\ g.key = k
      BY DEF GoneEvent, ServiceEvent
    <2>2. Emit(g) \in ServiceMsgs(old, new, due)
      BY DEF ServiceMsgs, GoneMsgs
    <2>3. g \in E
      BY <2>2 DEF EventsIn, Emit
    <2> HIDE DEF E, g
    <2> QED BY <1>1, <2>1, <2>3 DEF Touches, Whole
  <1>3. ASSUME NEW k \in DOMAIN new \ DOMAIN old PROVE f[1] # k
    <2> DEFINE g == Registered(k, old, new)
    <2>1. g.kind = "instance" /\ g.key = k
      BY DEF Registered, ServiceEvent
    <2>2. Emit(g) \in ServiceMsgs(old, new, due)
      BY DEF ServiceMsgs, PresentMsgs, InstanceMsgs
    <2>3. g \in E
      BY <2>2 DEF EventsIn, Emit
    <2> HIDE DEF E, g
    <2> QED BY <1>1, <2>1, <2>3 DEF Touches, Whole
  <1>4. ASSUME NEW k \in DOMAIN new \cap DOMAIN old, f[1] = k
        PROVE  f[2] \notin Differing(so(k), sn(k))
    <2> SUFFICES ASSUME NEW c \in Differing(so(k), sn(k)), f[2] = c PROVE FALSE
      OBVIOUS
    <2> DEFINE base == Base(k, old, new)
               g == CheckEvent(base, so(k), sn(k), c)
    <2>1. base.kind = "check" /\ base.key = k
            /\ {"kind", "key", "check", "oldCheck", "newCheck"} \subseteq DOMAIN base
      BY DEF Base, ServiceEvent
    <2>2. Emit(g) \in InstanceMsgs(k, old, new, due)
      BY DEF InstanceMsgs, CheckMsgs
    <2>3. Emit(g) \in ServiceMsgs(old, new, due)
      BY <2>2 DEF ServiceMsgs, PresentMsgs
    <2>4. g \in E
      BY <2>3 DEF EventsIn, Emit
    <2> HIDE DEF E, base
    <2>5. g.kind = "check" /\ g.key = k /\ g.check = c
      BY <2>1, CheckEventFields
    <2> HIDE DEF g
    <2> QED BY <1>1, <1>4, <2>4, <2>5 DEF Touches, Whole
  <1> HIDE DEF E
  <1>5. ASSUME NEW k \in DOMAIN new \cap DOMAIN old
        PROVE  FactOf(f, k, so(k)) <=> FactOf(f, k, sn(k))
    <2> DEFINE o == so(k)
               n == sn(k)
    <2>1. CASE f[1] # k
      BY <2>1, FactKey
    <2>2. CASE f[1] = k
      <3>1. f[2] \notin Differing(o, n)
        BY <1>4, <2>2
      <3> HIDE DEF o, n
      <3>2. (f[2] \in DOMAIN o <=> f[2] \in DOMAIN n)
            /\ (f[2] \in DOMAIN o => o[f[2]] = n[f[2]])
        BY <3>1 DEF Differing, MovedChecks, GoneChecks
      <3>3. ASSUME NEW x
            PROVE  FactOf(f, k, x) <=>
                      \/ f = <<k, "", "registered">>
                      \/ f[2] \in DOMAIN x /\ f = <<k, f[2], StatusFromConsul(x[f[2]])>>
        <4>1. \A c : f = <<k, c, StatusFromConsul(x[c])>> => f[2] = c
          OBVIOUS
        <4> QED BY <4>1 DEF FactOf
      <3>4. FactOf(f, k, o) <=> FactOf(f, k, n)
        BY <3>2, <3>3
      <3> QED BY <3>4 DEF o, n
    <2> QED BY <2>1, <2>2
  <1>6. f \in ServiceFacts(old) <=> \E k \in DOMAIN old : FactOf(f, k, so(k))
    BY ServiceFact
  <1>7. f \in ServiceFacts(new) <=> \E k \in DOMAIN new : FactOf(f, k, sn(k))
    BY ServiceFact
  <1> HIDE DEF so, sn
  <1> QED BY <1>2, <1>3, <1>5, <1>6, <1>7, FactKey

LEMMA NodeFact ==
    ASSUME NEW n, NEW checks, NEW f
    PROVE  f \in NodeFacts(n, checks) <=> DOMAIN checks # {} /\ FactOf(f, n, checks)
  <1>1. f \in CheckFacts(n, checks) <=>
            \E c \in DOMAIN checks : f = <<n, c, StatusFromConsul(checks[c])>>
    BY DEF CheckFacts
  <1>2. f \in NodeFacts(n, checks) <=>
            (DOMAIN checks # {} /\ f = <<n, "", "registered">>) \/ f \in CheckFacts(n, checks)
    BY DEF NodeFacts
  <1> QED BY <1>1, <1>2 DEF FactOf

\* A fact about an instance or a node, told apart by what it is about.
LEMMA FactAbout ==
    ASSUME NEW f, NEW k, NEW checks, f[1] = k
    PROVE  FactOf(f, k, checks) <=>
              \/ f = <<k, "", "registered">>
              \/ f[2] \in DOMAIN checks /\ f = <<k, f[2], StatusFromConsul(checks[f[2]])>>
  <1>1. \A c : f = <<k, c, StatusFromConsul(checks[c])>> => f[2] = c
    OBVIOUS
  <1> QED BY <1>1 DEF FactOf

NodeMsgs(n, old, new) == CheckMsgs(NodeEvent(n, NodeStatus(old), NodeStatus(new)), old, new)

LEMMA NodeMessages ==
    ASSUME NEW n, NEW old, NEW new, IsFiniteSet(DOMAIN old), IsFiniteSet(DOMAIN new),
           NEW m \in CompareNode(n, old, new)
    PROVE  m \in Seq(NodeMsgs(n, old, new)) /\ ToSet(m) = NodeMsgs(n, old, new)
  <1> DEFINE base == NodeEvent(n, NodeStatus(old), NodeStatus(new))
  <1>1. {"check", "oldCheck", "newCheck"} \subseteq DOMAIN base
    BY DEF NodeEvent
  <1>2. m \in CompareChecks(base, old, new)
    BY DEF CompareNode
  <1> HIDE DEF base
  <1>3. m \in Seq(CheckMsgs(base, old, new)) /\ ToSet(m) = CheckMsgs(base, old, new)
    BY <1>1, <1>2, CheckMessages
  <1> QED BY <1>3 DEF NodeMsgs, base

\* An event of compareNode: "no checks means the node is gone".
LEMMA NodeEventFields ==
    ASSUME NEW n, NEW old, NEW new, NEW c
    PROVE  LET e == CheckEvent(NodeEvent(n, NodeStatus(old), NodeStatus(new)), old, new, c)
           IN  /\ e.kind = "node" /\ e.key = n /\ e.check = c
               /\ e.newCheck = IF c \in DOMAIN new THEN StatusFromConsul(new[c]) ELSE "missing"
               /\ Whole(e) <=> DOMAIN new = {}
  <1> DEFINE base == NodeEvent(n, NodeStatus(old), NodeStatus(new))
             e == CheckEvent(base, old, new, c)
  <1>1. /\ base.kind = "node" /\ base.key = n /\ base.new = NodeStatus(new)
        /\ {"kind", "key", "new", "check", "oldCheck", "newCheck"} \subseteq DOMAIN base
    BY DEF NodeEvent
  <1> HIDE DEF base
  <1>2. /\ e.kind = "node" /\ e.key = n /\ e.check = c /\ e.new = NodeStatus(new)
        /\ e.newCheck = IF c \in DOMAIN new THEN StatusFromConsul(new[c]) ELSE "missing"
    BY <1>1, CheckEventFields
  <1>3. NodeStatus(new) = "missing" <=> DOMAIN new = {}
    BY DEF NodeStatus, Aggregate
  <1> HIDE DEF e
  <1>4. Whole(e) <=> DOMAIN new = {}
    BY <1>2, <1>3 DEF Whole
  <1> QED BY <1>2, <1>4 DEF e, base

LEMMA NodeEventsTrue ==
    ASSUME NEW n, NEW old, NEW new, DOMAIN old \cup DOMAIN new \subseteq NodeCheckIDs,
           NEW e \in EventsIn(NodeMsgs(n, old, new))
    PROVE  Truthful(e, NodeFacts(n, new))
  <1> DEFINE F == NodeFacts(n, new)
             base == NodeEvent(n, NodeStatus(old), NodeStatus(new))
  <1>1. PICK c \in Differing(old, new) : e = CheckEvent(base, old, new, c)
    BY DEF EventsIn, NodeMsgs, CheckMsgs, Emit
  <1>2. /\ e.kind = "node" /\ e.key = n /\ e.check = c
        /\ e.newCheck = IF c \in DOMAIN new THEN StatusFromConsul(new[c]) ELSE "missing"
        /\ Whole(e) <=> DOMAIN new = {}
    BY <1>1, NodeEventFields
  <1>3. c # ""
    <2>1. c \in DOMAIN old \cup DOMAIN new
      BY DEF Differing, MovedChecks, GoneChecks
    <2> QED BY <2>1, CheckIDsAssumption
  <1>4. \A f : f \in F <=> DOMAIN new # {} /\ FactOf(f, n, new)
    BY NodeFact
  <1> HIDE DEF F, base
  <1>5. CASE DOMAIN new = {}
    BY <1>2, <1>4, <1>5 DEF Truthful, F
  <1>6. CASE DOMAIN new # {}
    <2>1. <<n, "", "registered">> \in F
      BY <1>4, <1>6 DEF FactOf
    <2>2. \A d : StatusFromConsul(d) # "missing"
      BY DEF StatusFromConsul
    <2>3. ASSUME NEW f, f[1] = n, f[2] = c
          PROVE  f \in F <=> e.newCheck # "missing" /\ f = <<n, c, e.newCheck>>
      <3>1. f # <<n, "", "registered">>
        <4>1. <<n, "", "registered">>[2] = ""
          OBVIOUS
        <4> QED BY <1>3, <2>3, <4>1
      <3>2. f \in F <=> c \in DOMAIN new /\ f = <<n, c, StatusFromConsul(new[c])>>
        BY <1>4, <1>6, <2>3, <3>1, FactAbout
      <3> QED BY <1>2, <2>2, <3>2
    <2>4. Truthful(e, F)
      BY <1>2, <1>3, <1>6, <2>1, <2>3 DEF Truthful
    <2> QED BY <2>4 DEF F
  <1> QED BY <1>5, <1>6

LEMMA NodeEventsTellAll ==
    ASSUME NEW n, NEW old, NEW new, DOMAIN old \cup DOMAIN new \subseteq NodeCheckIDs
    PROVE  Agree(NodeFacts(n, old), NodeFacts(n, new), EventsIn(NodeMsgs(n, old, new)))
  <1> DEFINE E == EventsIn(NodeMsgs(n, old, new))
             base == NodeEvent(n, NodeStatus(old), NodeStatus(new))
             g(c) == CheckEvent(base, old, new, c)
  <1>1. SUFFICES ASSUME NEW f, \A e \in E : ~Touches(e, f)
                 PROVE  f \in NodeFacts(n, old) <=> f \in NodeFacts(n, new)
    BY DEF Agree
  <1>2. \A c \in Differing(old, new) : g(c) \in E
    <2> TAKE c \in Differing(old, new)
    <2>1. Emit(g(c)) \in NodeMsgs(n, old, new)
      BY DEF NodeMsgs, CheckMsgs
    <2> QED BY <2>1 DEF EventsIn, Emit
  <1>3. \A c : g(c).key = n /\ g(c).check = c /\ (Whole(g(c)) <=> DOMAIN new = {})
    BY NodeEventFields
  <1> HIDE DEF g, E
  <1>4. /\ f \in NodeFacts(n, old) <=> DOMAIN old # {} /\ FactOf(f, n, old)
        /\ f \in NodeFacts(n, new) <=> DOMAIN new # {} /\ FactOf(f, n, new)
    BY NodeFact
  <1>5. CASE f[1] # n
    BY <1>4, <1>5, FactKey
  <1>6. CASE f[1] = n
    <2>1. CASE Differing(old, new) = {}
      <3>1. DOMAIN old = DOMAIN new /\ \A c \in DOMAIN new : old[c] = new[c]
        BY <2>1 DEF Differing, MovedChecks, GoneChecks
      <3> QED BY <1>4, <3>1 DEF FactOf
    <2>2. ASSUME NEW c \in Differing(old, new) PROVE f \in NodeFacts(n, old) <=> f \in NodeFacts(n, new)
      <3>1. DOMAIN new # {} /\ f # <<n, "", "registered">>
        BY <1>1, <1>2, <1>3, <1>6 DEF Touches
      <3>2. f[2] \notin Differing(old, new)
        BY <1>1, <1>2, <1>3, <1>6, <3>1 DEF Touches
      <3>3. (f[2] \in DOMAIN old <=> f[2] \in DOMAIN new)
            /\ (f[2] \in DOMAIN old => old[f[2]] = new[f[2]])
        BY <3>2 DEF Differing, MovedChecks, GoneChecks
      <3>4. FactOf(f, n, old) <=> FactOf(f, n, new)
        <4>1. \A x : FactOf(f, n, x) <=>
                \/ f = <<n, "", "registered">>
                \/ f[2] \in DOMAIN x /\ f = <<n, f[2], StatusFromConsul(x[f[2]])>>
          BY <1>6, FactAbout
        <4> QED BY <3>3, <4>1
      <3>5. FactOf(f, n, old) => DOMAIN old # {}
        BY <3>1 DEF FactOf
      <3> QED BY <1>4, <3>1, <3>4, <3>5
    <2> QED BY <2>1, <2>2
  <1> QED BY <1>5, <1>6

-----------------------------------------------------------------------------
(* A reader who has learnt of some of the messages of a comparison.        *)

\* The rest of the messages takes the facts A to the facts F.
Telling(A, F, msgs) ==
    /\ Agree(A, F, EventsIn(ToSet(msgs)))
    /\ \A e \in EventsIn(ToSet(msgs)) : Truthful(e, F)

LEMMA HeadAndTail ==
    ASSUME NEW M, NEW msgs \in Seq(M), msgs # <<>>
    PROVE  /\ Tail(msgs) \in Seq(M)
           /\ ToSet(msgs) = {Head(msgs)} \cup ToSet(Tail(msgs))
  <1> DEFINE n == Len(msgs)
             t == Tail(msgs)
  <1>1. n \in Nat /\ n # 0 /\ DOMAIN msgs = 1..n /\ Head(msgs) = msgs[1]
    BY LenProperties, EmptySeq, HeadTailProperties
  <1>2. t \in Seq(M) /\ Len(t) = n - 1 /\ \A i \in 1..(n - 1) : t[i] = msgs[i + 1]
    BY HeadTailProperties
  <1>3. DOMAIN t = 1..(n - 1)
    BY <1>2, LenProperties
  <1> HIDE DEF n, t
  <1>4. \A i \in DOMAIN msgs : i = 1 \/ (i - 1 \in DOMAIN t /\ t[i - 1] = msgs[i])
    <2> TAKE i \in DOMAIN msgs
    <2>1. i # 1 => i - 1 \in 1..(n - 1) /\ (i - 1) + 1 = i
      BY <1>1
    <2> QED BY <1>2, <1>3, <2>1
  <1>5. \A i \in DOMAIN t : i + 1 \in DOMAIN msgs /\ t[i] = msgs[i + 1]
    BY <1>1, <1>2, <1>3
  <1>6. 1 \in DOMAIN msgs
    BY <1>1
  <1>7. ToSet(msgs) = {Head(msgs)} \cup ToSet(t)
    BY <1>1, <1>4, <1>5, <1>6 DEF ToSet
  <1> QED BY <1>2, <1>7 DEF t

LEMMA TellingStep ==
    ASSUME NEW A, NEW F, NEW M, NEW msgs \in Seq(M), msgs # <<>>, Telling(A, F, msgs)
    PROVE  Telling(IF Head(msgs).to = "events" THEN Learn(A, Head(msgs).what, F) ELSE A,
                   F, Tail(msgs))
  <1> DEFINE h == Head(msgs)
             E == EventsIn(ToSet(msgs))
             R == EventsIn(ToSet(Tail(msgs)))
  <1>1. ToSet(msgs) = {h} \cup ToSet(Tail(msgs))
    BY HeadAndTail
  <1>2. Agree(A, F, E) /\ \A e \in E : Truthful(e, F)
    BY DEF Telling
  <1>3. CASE h.to = "events"
    <2>1. E = R \cup {h.what}
      BY <1>1, <1>3 DEF EventsIn
    <2> DEFINE w == h.what
    <2> HIDE DEF h, E, R, w
    <2>2. Agree(Learn(A, w, F), F, R)
      BY <1>2, <2>1, LearnOne DEF w
    <2>3. \A e \in R : Truthful(e, F)
      BY <1>2, <2>1
    <2> QED BY <1>3, <2>2, <2>3 DEF Telling, h, R, w
  <1>4. CASE h.to # "events"
    <2>1. E = R
      BY <1>1, <1>4 DEF EventsIn
    <2> HIDE DEF E, R
    <2>2. Agree(A, F, R) /\ \A e \in R : Truthful(e, F)
      BY <1>2, <2>1
    <2> QED BY <1>4, <2>2 DEF Telling, R
  <1> QED BY <1>3, <1>4

LEMMA TellingNothing ==
    ASSUME NEW A, NEW F, NEW msgs, EventsIn(ToSet(msgs)) = {}
    PROVE  Telling(A, F, msgs) <=> A = F
  BY DEF Telling, Agree

LEMMA AnnouncementsOnly ==
    ASSUME NEW service, NEW due, IsFiniteSet(due), NEW m \in AnnounceService(service, due)
    PROVE  /\ m \in Seq(AnnounceMsgs(service, due))
           /\ \A i \in 1..Len(m) : m[i].to # "events"
           /\ EventsIn(ToSet(m)) = {}
  <1>1. m \in Seq(AnnounceMsgs(service, due)) /\ ToSet(m) = AnnounceMsgs(service, due)
    BY AnnounceMessages
  <1>2. \A x \in AnnounceMsgs(service, due) : x.to = "instances"
    BY DEF AnnounceMsgs, Announce
  <1>3. \A i \in 1..Len(m) : m[i] \in AnnounceMsgs(service, due)
    BY <1>1, ElementOfSeq
  <1> QED BY <1>1, <1>2, <1>3 DEF EventsIn

\* What compareService and compareNode emit takes a reader from the facts of
\* the old state to those of the new one.
LEMMA ServiceTelling ==
    ASSUME NEW old, NEW new, NEW due, Finite(old), Finite(new),
           NEW m \in CompareService(old, new, due)
    PROVE  (\E M : m \in Seq(M)) /\ Telling(ServiceFacts(old), ServiceFacts(new), m)
  <1> DEFINE M == ServiceMsgs(old, new, due)
  <1>1. m \in Seq(M) /\ ToSet(m) = M
    BY ServiceMessages
  <1>2. \A e \in EventsIn(M) : Truthful(e, ServiceFacts(new))
    BY ServiceEventsTrue
  <1>3. Agree(ServiceFacts(old), ServiceFacts(new), EventsIn(M))
    BY ServiceEventsTellAll
  <1> HIDE DEF M
  <1> QED BY <1>1, <1>2, <1>3 DEF Telling

LEMMA NodeTelling ==
    ASSUME NEW n, NEW old, NEW new, IsFiniteSet(DOMAIN old), IsFiniteSet(DOMAIN new),
           DOMAIN old \cup DOMAIN new \subseteq NodeCheckIDs,
           NEW m \in CompareNode(n, old, new)
    PROVE  (\E M : m \in Seq(M)) /\ Telling(NodeFacts(n, old), NodeFacts(n, new), m)
  <1> DEFINE M == NodeMsgs(n, old, new)
  <1>1. m \in Seq(M) /\ ToSet(m) = M
    BY NodeMessages
  <1>2. \A e \in EventsIn(M) : Truthful(e, NodeFacts(n, new))
    BY NodeEventsTrue
  <1>3. Agree(NodeFacts(n, old), NodeFacts(n, new), EventsIn(M))
    BY NodeEventsTellAll
  <1> HIDE DEF M
  <1> QED BY <1>1, <1>2, <1>3 DEF Telling
=============================================================================
