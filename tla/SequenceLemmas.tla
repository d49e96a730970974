--------------------------- MODULE SequenceLemmas ---------------------------
(***************************************************************************)
(* Facts about numbers and sequences that the proofs of several components *)
(* use.                                                                    *)
(***************************************************************************)
EXTENDS SequencesExt, Naturals, WellFoundedInduction, TLAPS

\* Every set of numbers that is not empty has a least one.
LEMMA LeastNumber ==
    ASSUME NEW S \in SUBSET Nat, S # {}
    PROVE  \E m \in S : \A n \in S : m <= n
<1> DEFINE R == OpToRel(<, Nat)
<1>1. IsWellFoundedOn(R, Nat)
  BY NatLessThanWellFounded
<1>2. \A m, n \in Nat : m < n => <<m, n>> \in R
  BY DEF OpToRel
<1> HIDE DEF R
<1>3. PICK m \in S : \A n \in S : ~ (<<n, m>> \in R)
  BY <1>1, WFMin
<1>4. \A n \in S : ~(n < m)
  BY <1>2, <1>3
<1>5. \A n \in Nat : ~(n < m) => m <= n
  OBVIOUS
<1> QED BY <1>4, <1>5

\* What stays of a sequence without its i-th element.
LEMMA RemovedElements ==
    ASSUME NEW S, NEW s \in Seq(S), NEW i \in 1 .. Len(s)
    PROVE  /\ RemoveAt(s, i) \in Seq(S) /\ Len(RemoveAt(s, i)) = Len(s) - 1
           /\ DOMAIN RemoveAt(s, i) = 1 .. Len(s) - 1
           /\ \A j \in 1 .. Len(s) - 1 : RemoveAt(s, i)[j] = s[IF j < i THEN j ELSE j + 1]
<1> DEFINE a == SubSeq(s, 1, i - 1)
           b == SubSeq(s, i + 1, Len(s))
<1>1. Len(s) \in Nat /\ i \in Nat /\ i >= 1 /\ i <= Len(s)
  OBVIOUS
<1>2. a \in Seq(S) /\ Len(a) = i - 1 /\ \A j \in 1 .. i - 1 : a[j] = s[j]
  BY <1>1
<1>3. b \in Seq(S) /\ Len(b) = Len(s) - i /\ \A j \in 1 .. Len(s) - i : b[j] = s[j + i]
  BY <1>1
<1>4. RemoveAt(s, i) = a \o b
  BY DEF RemoveAt
<1> HIDE DEF a, b
<1>5. a \o b \in Seq(S) /\ Len(a \o b) = Len(s) - 1 /\ DOMAIN (a \o b) = 1 .. Len(s) - 1
  <2>1. a \o b \in Seq(S) /\ Len(a \o b) = Len(a) + Len(b)
    <3>1. a \in Seq(S) /\ b \in Seq(S)
      BY <1>2, <1>3
    <3> QED BY <3>1
  <2>2. Len(a) + Len(b) = Len(s) - 1
    BY <1>1, <1>2, <1>3
  <2> QED BY <2>1, <2>2
<1>6. ASSUME NEW j \in 1 .. Len(s) - 1
      PROVE  (a \o b)[j] = s[IF j < i THEN j ELSE j + 1]
  <2>1. CASE j < i
    BY <1>1, <1>2, <1>3, <2>1
  <2>2. CASE ~(j < i)
    <3>1. (a \o b)[j] = b[j - (i - 1)] /\ j - (i - 1) \in 1 .. Len(s) - i
      BY <1>1, <1>2, <1>3, <2>2
    <3>2. b[j - (i - 1)] = s[j - (i - 1) + i]
      BY <1>3, <3>1
    <3>3. j - (i - 1) + i = j + 1
      BY <1>1
    <3> QED BY <2>2, <3>1, <3>2, <3>3
  <2> QED BY <2>1, <2>2
<1> QED BY <1>4, <1>5, <1>6

\* Editing a sequence gives a sequence.
LEMMA EditsOfSequence ==
    ASSUME NEW S, NEW s \in Seq(S), NEW e \in S
    PROVE  /\ \A i \in 1 .. Len(s) + 1 : InsertAt(s, i, e) \in Seq(S)
           /\ \A i \in 1 .. Len(s) : RemoveAt(s, i) \in Seq(S) /\ Len(RemoveAt(s, i)) = Len(s) - 1
<1>1. ASSUME NEW i \in 1 .. Len(s) + 1
      PROVE  InsertAt(s, i, e) \in Seq(S)
  <2> DEFINE k == i - 1
             a == SubSeq(s, 1, k)
             c == SubSeq(s, i, Len(s))
  <2>1. a \in Seq(S) /\ c \in Seq(S) /\ <<e>> \in Seq(S)
    OBVIOUS
  <2>2. InsertAt(s, i, e) = (a \o <<e>>) \o c
    BY DEF InsertAt
  <2> HIDE DEF a, c
  <2>3. a \o <<e>> \in Seq(S)
    BY <2>1
  <2> QED BY <2>1, <2>2, <2>3
<1> QED BY <1>1, RemovedElements

\* A sequence without repetitions.
Distinct(s) == s \in Seq(ToSet(s)) /\ IsInjective(s)

\* One element more.
LEMMA DistinctAppended ==
    ASSUME NEW s, Distinct(s), NEW x, x \notin ToSet(s)
    PROVE  Distinct(Append(s, x)) /\ ToSet(Append(s, x)) = ToSet(s) \cup {x}
<1> DEFINE S == ToSet(s) \cup {x}
           t == Append(s, x)
           n == Len(s)
<1>1. s \in Seq(S) /\ n \in Nat /\ DOMAIN s = 1 .. n
  BY DEF Distinct
<1>2. x \in S
  OBVIOUS
<1> HIDE DEF S
<1>3. /\ t \in Seq(S) /\ Len(t) = n + 1 /\ DOMAIN t = 1 .. n + 1
      /\ \A i \in 1 .. n : t[i] = s[i]
      /\ t[n + 1] = x
  BY <1>1, <1>2
<1> HIDE DEF t
<1>4. \A i \in 1 .. n : s[i] # x
  BY <1>1 DEF ToSet
<1>5. \A i \in 1 .. n + 1 : i \in 1 .. n \/ i = n + 1
  BY <1>1
<1>6. IsInjective(t)
  <2> SUFFICES ASSUME NEW i \in 1 .. n + 1, NEW j \in 1 .. n + 1, t[i] = t[j] PROVE i = j
    BY <1>3 DEF IsInjective
  <2>1. CASE i \in 1 .. n /\ j \in 1 .. n
    BY <1>1, <1>3, <2>1 DEF Distinct, IsInjective
  <2> QED BY <1>3, <1>4, <1>5, <2>1
<1>7. ToSet(t) = S
  <2>1. ASSUME NEW y \in ToSet(t) PROVE y \in S
    <3>1. PICK i \in 1 .. n + 1 : y = t[i]
      BY <1>3 DEF ToSet
    <3> QED BY <1>1, <1>2, <1>3, <1>5, <3>1
  <2>2. ASSUME NEW y \in S PROVE y \in ToSet(t)
    <3>1. CASE y = x
      <4>1. n + 1 \in 1 .. n + 1
        BY <1>1
      <4> QED BY <1>3, <3>1, <4>1 DEF ToSet
    <3>2. CASE y \in ToSet(s)
      <4>1. PICK i \in 1 .. n : y = s[i]
        BY <1>1, <3>2 DEF ToSet
      <4>2. i \in 1 .. n + 1
        BY <1>1
      <4> QED BY <1>3, <4>1, <4>2 DEF ToSet
    <3> QED BY <3>1, <3>2 DEF S
  <2> QED BY <2>1, <2>2
<1> QED BY <1>3, <1>6, <1>7 DEF Distinct, t, S

\* The first element less.
LEMMA DistinctTail ==
    ASSUME NEW s, Distinct(s), s # <<>>
    PROVE  /\ Distinct(Tail(s)) /\ ToSet(Tail(s)) = ToSet(s) \ {Head(s)}
           /\ Head(s) \in ToSet(s)
<1> DEFINE S == ToSet(s)
           t == Tail(s)
           n == Len(s)
<1>1. s \in Seq(S) /\ n \in Nat /\ n >= 1 /\ DOMAIN s = 1 .. n /\ Head(s) = s[1]
  BY DEF Distinct
<1> HIDE DEF S
<1>2. t \in Seq(S) /\ Len(t) = n - 1 /\ DOMAIN t = 1 .. n - 1 /\ \A i \in 1 .. n - 1 : t[i] = s[i + 1]
  BY <1>1
<1> HIDE DEF t
<1>3. \A i \in 1 .. n - 1 : i + 1 \in 1 .. n /\ i + 1 # 1
  BY <1>1
<1>4. IsInjective(t)
  <2> SUFFICES ASSUME NEW i \in 1 .. n - 1, NEW j \in 1 .. n - 1, t[i] = t[j] PROVE i = j
    BY <1>2 DEF IsInjective
  <2>1. s[i + 1] = s[j + 1]
    BY <1>2
  <2>2. i + 1 = j + 1
    BY <1>1, <1>3, <2>1 DEF Distinct, IsInjective
  <2> QED BY <1>1, <2>2
<1>5. ToSet(t) = S \ {s[1]}
  <2>1. ASSUME NEW y \in ToSet(t) PROVE y \in S \ {s[1]}
    <3>1. PICK i \in 1 .. n - 1 : y = t[i]
      BY <1>2 DEF ToSet
    <3>2. PICK j \in 1 .. n : j = i + 1 /\ j # 1 /\ y = s[j]
      BY <1>2, <1>3, <3>1
    <3>3. s[j] # s[1] /\ s[j] \in S
      BY <1>1, <3>2 DEF Distinct, IsInjective
    <3> QED BY <3>2, <3>3
  <2>2. ASSUME NEW y \in S \ {s[1]} PROVE y \in ToSet(t)
    <3>1. PICK j \in 1 .. n : y = s[j]
      BY <1>1 DEF ToSet, S
    <3>2. PICK i \in 1 .. n - 1 : j = i + 1
      <4>1. j - 1 \in 1 .. n - 1 /\ j = (j - 1) + 1
        BY <1>1, <3>1
      <4> QED BY <4>1
    <3> QED BY <1>2, <3>1, <3>2 DEF ToSet
  <2> QED BY <2>1, <2>2
<1>6. s[1] \in S
  BY <1>1
<1>7. t \in Seq(ToSet(t))
  <2>1. \A i \in 1 .. n - 1 : t[i] \in ToSet(t)
    BY <1>2 DEF ToSet
  <2>2. n - 1 \in Nat
    BY <1>1
  <2> QED BY <1>2, <2>1, <2>2
<1> QED BY <1>1, <1>4, <1>5, <1>6, <1>7 DEF Distinct, t, S

\* Two that share nothing, one after the other.
LEMMA DistinctJoined ==
    ASSUME NEW s, Distinct(s), NEW t, Distinct(t), ToSet(s) \cap ToSet(t) = {}, NEW all, all = s \o t
    PROVE  Distinct(all) /\ ToSet(all) = ToSet(s) \cup ToSet(t)
<1> DEFINE S == ToSet(s) \cup ToSet(t)
           m == Len(s)
           n == Len(t)
<1>1. s \in Seq(S) /\ m \in Nat /\ DOMAIN s = 1 .. m /\ t \in Seq(S) /\ n \in Nat /\ DOMAIN t = 1 .. n
  BY DEF Distinct
<1> HIDE DEF S
<1>2. all \in Seq(S) /\ Len(all) = m + n
  <2>1. s \in Seq(S) /\ t \in Seq(S)
    BY <1>1
  <2> QED BY <2>1
<1>3. DOMAIN all = 1 .. m + n
  BY <1>1, <1>2
<1>4. ASSUME NEW i \in 1 .. m PROVE i \in 1 .. m + n /\ all[i] = s[i] /\ all[i] \in ToSet(s)
  <2>1. i \in 1 .. m + n
    BY <1>1
  <2>2. all[i] = s[i]
    BY <1>1, <2>1
  <2> QED BY <1>1, <2>1, <2>2 DEF ToSet
<1>5. ASSUME NEW j \in 1 .. n PROVE m + j \in 1 .. m + n /\ all[m + j] = t[j] /\ all[m + j] \in ToSet(t)
  <2>1. PICK i \in 1 .. m + n : i = m + j /\ ~(i <= m) /\ i - m = j
    BY <1>1
  <2>2. all[i] = t[i - m]
    BY <1>1, <2>1
  <2>3. all[i] = t[j]
    BY <2>1, <2>2
  <2> QED BY <1>1, <2>1, <2>3 DEF ToSet
<1>6. ASSUME NEW i \in 1 .. m + n PROVE i \in 1 .. m \/ \E j \in 1 .. n : i = m + j
  <2>1. CASE i <= m
    BY <1>1, <2>1
  <2>2. CASE ~(i <= m)
    <3>1. i - m \in 1 .. n /\ i = m + (i - m)
      BY <1>1, <2>2
    <3> QED BY <3>1
  <2> QED BY <2>1, <2>2
<1>7. ASSUME NEW i \in 1 .. m + n, NEW j \in 1 .. m + n, all[i] = all[j] PROVE i = j
  <2>1. CASE i \in 1 .. m /\ j \in 1 .. m
    BY <1>1, <1>4, <1>7, <2>1 DEF Distinct, IsInjective
  <2>2. CASE i \in 1 .. m /\ \E b \in 1 .. n : j = m + b
    BY <1>4, <1>5, <1>7, <2>2
  <2>3. CASE j \in 1 .. m /\ \E b \in 1 .. n : i = m + b
    BY <1>4, <1>5, <1>7, <2>3
  <2>4. ASSUME NEW a \in 1 .. n, NEW b \in 1 .. n, i = m + a, j = m + b PROVE i = j
    <3>1. t[a] = t[b]
      BY <1>5, <1>7, <2>4
    <3> QED BY <1>1, <2>4, <3>1 DEF Distinct, IsInjective
  <2> QED BY <1>6, <2>1, <2>2, <2>3, <2>4
<1>8. ToSet(all) = S
  <2>1. ASSUME NEW y \in ToSet(all) PROVE y \in S
    <3>1. PICK i \in 1 .. m + n : y = all[i]
      BY <1>3 DEF ToSet
    <3> QED BY <1>4, <1>5, <1>6, <3>1 DEF S
  <2>2. ASSUME NEW y \in S PROVE y \in ToSet(all)
    <3>1. CASE y \in ToSet(s)
      <4>1. PICK i \in 1 .. m : y = s[i]
        BY <1>1, <3>1 DEF ToSet
      <4> QED BY <1>3, <1>4, <4>1 DEF ToSet
    <3>2. CASE y \in ToSet(t)
      <4>1. PICK j \in 1 .. n : y = t[j]
        BY <1>1, <3>2 DEF ToSet
      <4>2. PICK i \in 1 .. m + n : i = m + j
        BY <1>5
      <4>3. y = all[i]
        BY <1>5, <4>1, <4>2
      <4> QED BY <1>3, <4>3 DEF ToSet
    <3> QED BY <3>1, <3>2 DEF S
  <2> QED BY <2>1, <2>2
<1>9. IsInjective(all)
  BY <1>3, <1>7 DEF IsInjective
<1> QED BY <1>2, <1>8, <1>9 DEF Distinct, S
=============================================================================
