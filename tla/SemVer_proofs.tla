---------------------------- MODULE SemVer_proofs ----------------------------
(***************************************************************************)
(* Versions, proved for all of them: release.py's comparison is semantic   *)
(* versioning's precedence, and which bumps lead to a newer version.       *)
(***************************************************************************)
EXTENDS SemVer, FiniteSetTheorems, WellFoundedInduction, SequenceTheorems, TLAPS

\* A version without padded numbers: all that semantic versioning allows.
Proper == {v \in Versions : WellFormed(v)}

(***************************************************************************)
(* Comparison.                                                             *)
(***************************************************************************)

\* The parts of a proper version's prerelease.
LEMMA ProperParts ==
    ASSUME NEW v \in Proper
    PROVE  /\ v.major \in Nat /\ v.minor \in Nat /\ v.patch \in Nat
           /\ v.pre \in Seq(Identifiers)
           /\ Len(v.pre) \in Nat
           /\ DOMAIN v.pre = 1 .. Len(v.pre)
           /\ \A i \in 1 .. Len(v.pre) : v.pre[i] \in Identifiers /\ v.pre[i].zeros = 0
           /\ Stable(v) <=> Len(v.pre) = 0
BY DEF Proper, Versions, WellFormed, Stable

\* Without padding, parts of equal type and rank are the same part.
LEMMA UnpaddedParts ==
    ASSUME NEW a \in Identifiers, NEW b \in Identifiers, a.zeros = 0, b.zeros = 0
    PROVE  SamePart(a, b) <=> a = b
BY DEF Identifiers, SamePart

\* Of two different unpadded parts one precedes, and ComparePart says which.
LEMMA PartTotal ==
    ASSUME NEW a \in Identifiers, NEW b \in Identifiers,
           a.zeros = 0, b.zeros = 0, a # b
    PROVE  /\ ComparePart(a, b) = -1 <=> PartPrecedes(a, b)
           /\ ComparePart(a, b) = 1 <=> PartPrecedes(b, a)
           /\ ~SamePart(a, b)
BY UnpaddedParts DEF Identifiers, SamePart, PartPrecedes, ComparePart, Sign

\* No part precedes itself.
LEMMA PartIrreflexive == ASSUME NEW a \in Identifiers PROVE ~PartPrecedes(a, a)
BY DEF PartPrecedes, Identifiers

\* A set of naturals has a least element: of the intervals that end in its members
\* one is minimal, since proper inclusion of finite sets is well founded.
LEMMA LeastNatural ==
    ASSUME NEW D \in SUBSET Nat, D # {}
    PROVE  \E i \in D : \A j \in D : i <= j
<1> DEFINE Intervals == {0 .. i : i \in D}
<1>1. IsWellFoundedOn(StrictSubsetOrdering(Nat), FiniteSubsetsOf(Nat))
  BY FS_StrictSubsetOrderingWellFounded
<1>2. Intervals \subseteq FiniteSubsetsOf(Nat) /\ Intervals # {}
  <2>1. \A i \in D : IsFiniteSet(0 .. i) /\ 0 .. i \subseteq Nat
    BY FS_Interval
  <2>2. QED
    BY <2>1 DEF FiniteSubsetsOf
<1>3. \E x \in Intervals : \A y \in Intervals : <<y, x>> \notin StrictSubsetOrdering(Nat)
  <2> HIDE DEF Intervals
  <2> QED
    BY <1>1, <1>2, WFMin
<1>4. PICK m \in D : \A j \in D : <<0 .. j, 0 .. m>> \notin StrictSubsetOrdering(Nat)
  BY <1>3
<1>5. \A j \in D : m <= j
  <2> SUFFICES ASSUME NEW j \in D, j < m PROVE FALSE
    OBVIOUS
  <2>1. 0 .. j \subseteq 0 .. m /\ m \in 0 .. m /\ m \notin 0 .. j
    OBVIOUS
  <2>2. <<0 .. j, 0 .. m>> \in StrictSubsetOrdering(Nat)
    <3>1. 0 .. j \in SUBSET Nat /\ 0 .. m \in SUBSET Nat /\ 0 .. j # 0 .. m
      BY <2>1
    <3>2. QED
      BY <2>1, <3>1 DEF StrictSubsetOrdering
  <2>3. QED
    BY <1>4, <2>2
<1>6. QED
  BY <1>5

\* The first difference of two sequences of parts, when they differ at all.
LEMMA FirstDifference ==
    ASSUME NEW s \in Seq(Identifiers), NEW t \in Seq(Identifiers), Differ(s, t) # {}
    PROVE  \E first \in Differ(s, t) :
             /\ first = CHOOSE i \in Differ(s, t) : \A j \in Differ(s, t) : i <= j
             /\ \A j \in Differ(s, t) : first <= j
<1>1. Differ(s, t) \subseteq Nat
  BY DEF Differ
<1>2. \E i \in Differ(s, t) : \A j \in Differ(s, t) : i <= j
  BY <1>1, LeastNatural
<1>3. QED
  BY <1>2

Unpadded(s) == \A i \in 1 .. Len(s) : s[i].zeros = 0

\* A list of parts that differs from another first at some place precedes it
\* when its part there does; one that has no such place precedes it when shorter.
LEMMA IdentifiersPrecede ==
    ASSUME NEW s \in Seq(Identifiers), NEW t \in Seq(Identifiers),
           Unpadded(s), Unpadded(t)
    PROVE  CompareIdentifiers(s, t) = -1 <=> PrePrecedes(s, t)
<1> USE DEF Unpadded
<1>n. Len(s) \in Nat /\ Len(t) \in Nat
  OBVIOUS
<1>0. /\ Len(s) \in Nat /\ DOMAIN s = 1 .. Len(s)
      /\ Len(t) \in Nat /\ DOMAIN t = 1 .. Len(t)
      /\ \A i \in 1 .. Len(s) : s[i] \in Identifiers
      /\ \A i \in 1 .. Len(t) : t[i] \in Identifiers
  OBVIOUS
<1>1. CASE Differ(s, t) = {}
  <2>1. \A i \in 1 .. Len(s) : i <= Len(t) => s[i] = t[i]
    BY <1>0, <1>1 DEF Differ
  <2>2. PrePrecedes(s, t) => Len(s) < Len(t)
    <3> SUFFICES ASSUME NEW k \in 0 .. Len(s), k < Len(t),
                        k < Len(s) => PartPrecedes(s[k + 1], t[k + 1])
                 PROVE  Len(s) < Len(t)
      BY DEF PrePrecedes
    <3>1. CASE k = Len(s)
      BY <1>0, <3>1
    <3>2. CASE k < Len(s)
      <4>1. k + 1 \in 1 .. Len(s) /\ k + 1 <= Len(t)
        BY <1>0, <3>2
      <4>2. s[k + 1] = t[k + 1] /\ s[k + 1] \in Identifiers
        BY <1>0, <2>1, <4>1
      <4>3. ~PartPrecedes(s[k + 1], t[k + 1])
        BY <4>2 DEF PartPrecedes, Identifiers
      <4>4. QED
        BY <3>2, <4>3
    <3>3. k = Len(s) \/ k < Len(s)
      BY <1>n
    <3>4. QED
      BY <3>1, <3>2, <3>3
  <2>3. Len(s) < Len(t) => PrePrecedes(s, t)
    <3>1. ASSUME Len(s) < Len(t) PROVE PrePrecedes(s, t)
      <4>1. \A i \in 1 .. Len(s) : SamePart(s[i], t[i])
        BY <1>0, <2>1, <3>1 DEF SamePart
      <4>2. QED
        BY <1>0, <3>1, <4>1 DEF PrePrecedes
    <3>2. QED
      BY <3>1
  <2>4. CompareIdentifiers(s, t) = -1 <=> Len(s) < Len(t)
    <3>1. CompareIdentifiers(s, t)
            = IF Len(s) = Len(t) THEN 0 ELSE Sign(Len(s) < Len(t))
      BY <1>1 DEF CompareIdentifiers
    <3>2. QED
      BY <1>n, <3>1 DEF Sign
  <2>5. QED
    BY <2>2, <2>3, <2>4
<1>2. CASE Differ(s, t) # {}
  <2>1. PICK first \in Differ(s, t) :
          /\ first = CHOOSE i \in Differ(s, t) : \A j \in Differ(s, t) : i <= j
          /\ \A j \in Differ(s, t) : first <= j
    BY <1>2, FirstDifference
  <2>2. /\ first \in 1 .. Len(s) /\ first \in 1 .. Len(t)
        /\ s[first] # t[first]
    BY <1>0, <2>1 DEF Differ
  <2>3. \A i \in 1 .. Len(s) : i < first => s[i] = t[i]
    <3>1. SUFFICES ASSUME NEW i \in 1 .. Len(s), i < first, s[i] # t[i] PROVE FALSE
      OBVIOUS
    <3>2. i \in Differ(s, t)
      BY <1>0, <2>2, <3>1 DEF Differ
    <3>3. first <= i
      BY <2>1, <3>2
    <3>4. i \in Nat /\ first \in Nat
      BY <2>2
    <3>5. QED
      BY <3>1, <3>3, <3>4
  <2>4. CompareIdentifiers(s, t) = -1 <=> PartPrecedes(s[first], t[first])
    <3>1. CompareIdentifiers(s, t) = ComparePart(s[first], t[first])
      BY <1>2, <2>1 DEF CompareIdentifiers
    <3>2. QED
      BY <1>0, <2>2, <3>1, PartTotal
  <2>5. PartPrecedes(s[first], t[first]) => PrePrecedes(s, t)
    <3>1. ASSUME PartPrecedes(s[first], t[first]) PROVE PrePrecedes(s, t)
      <4>1. first - 1 \in 0 .. Len(s) /\ first - 1 < Len(t) /\ (first - 1) + 1 = first
        BY <1>0, <2>2
      <4>2. \A i \in 1 .. first - 1 : SamePart(s[i], t[i])
        BY <1>0, <2>2, <2>3 DEF SamePart
      <4>3. QED
        BY <3>1, <4>1, <4>2 DEF PrePrecedes
    <3>2. QED
      BY <3>1
  <2>6. PrePrecedes(s, t) => PartPrecedes(s[first], t[first])
    <3> SUFFICES ASSUME NEW k \in 0 .. Len(s), k < Len(t),
                        \A i \in 1 .. k : SamePart(s[i], t[i]),
                        k < Len(s) => PartPrecedes(s[k + 1], t[k + 1])
                 PROVE  PartPrecedes(s[first], t[first])
      BY DEF PrePrecedes
    <3>1. ~(first \in 1 .. k)
      BY <1>0, <2>2, PartTotal
    <3>2. k < Len(s)
      BY <1>0, <2>2, <3>1
    <3>3. k + 1 \in 1 .. Len(s) /\ k + 1 \in 1 .. Len(t)
      BY <1>0, <3>2
    <3>4. s[k + 1] # t[k + 1]
      <4>1. s[k + 1] \in Identifiers /\ PartPrecedes(s[k + 1], t[k + 1])
        BY <1>0, <3>2, <3>3
      <4>2. QED
        BY <4>1, PartIrreflexive
    <3>5. first = k + 1
      <4>1. k \in Nat /\ first \in Nat /\ first >= 1
        BY <1>n, <2>2
      <4>2. ~(k + 1 < first)
        BY <2>3, <3>3, <3>4
      <4>3. first > k
        BY <3>1, <4>1
      <4>4. QED
        BY <4>1, <4>2, <4>3
    <3>6. QED
      BY <3>2, <3>5
  <2>7. QED
    BY <2>4, <2>5, <2>6
<1>3. QED
  BY <1>1, <1>2

\* Comparing the other way round changes the sign.
LEMMA IdentifiersAntisymmetric ==
    ASSUME NEW s \in Seq(Identifiers), NEW t \in Seq(Identifiers),
           Unpadded(s), Unpadded(t)
    PROVE  CompareIdentifiers(s, t) = 1 <=> CompareIdentifiers(t, s) = -1
<1> USE DEF Unpadded
<1>n. Len(s) \in Nat /\ Len(t) \in Nat
  OBVIOUS
<1>0. /\ Len(s) \in Nat /\ DOMAIN s = 1 .. Len(s)
      /\ Len(t) \in Nat /\ DOMAIN t = 1 .. Len(t)
      /\ \A i \in 1 .. Len(s) : s[i] \in Identifiers
      /\ \A i \in 1 .. Len(t) : t[i] \in Identifiers
  OBVIOUS
<1>1. Differ(s, t) = Differ(t, s)
  BY DEF Differ
<1>2. CASE Differ(s, t) = {}
  <2>1. /\ CompareIdentifiers(s, t)
             = IF Len(s) = Len(t) THEN 0 ELSE Sign(Len(s) < Len(t))
        /\ CompareIdentifiers(t, s)
             = IF Len(t) = Len(s) THEN 0 ELSE Sign(Len(t) < Len(s))
    BY <1>1, <1>2 DEF CompareIdentifiers
  <2>2. QED
    BY <1>n, <2>1 DEF Sign
<1>3. CASE Differ(s, t) # {}
  <2>1. PICK first \in Differ(s, t) :
          first = CHOOSE i \in Differ(s, t) : \A j \in Differ(s, t) : i <= j
    BY <1>3, FirstDifference
  <2>2. /\ CompareIdentifiers(s, t) = ComparePart(s[first], t[first])
        /\ CompareIdentifiers(t, s) = ComparePart(t[first], s[first])
    BY <1>1, <1>3, <2>1 DEF CompareIdentifiers
  <2>3. /\ first \in 1 .. Len(s) /\ first \in 1 .. Len(t)
        /\ s[first] # t[first]
    BY <1>0, <2>1 DEF Differ
  <2>4. QED
    BY <1>0, <2>2, <2>3, PartTotal
<1>4. QED
  BY <1>2, <1>3

\* release.py's compare is the precedence of semantic versioning, for every two
\* versions that semantic versioning allows.
THEOREM CompareIsPrecedence ==
    \A v, w \in Proper :
        /\ Compare(v, w) = -1 <=> Precedes(v, w)
        /\ Compare(v, w) = 1 <=> Precedes(w, v)
<1> SUFFICES ASSUME NEW v \in Proper, NEW w \in Proper
             PROVE  /\ Compare(v, w) = -1 <=> Precedes(v, w)
                    /\ Compare(v, w) = 1 <=> Precedes(w, v)
  OBVIOUS
<1>0. /\ v.major \in Nat /\ v.minor \in Nat /\ v.patch \in Nat
      /\ w.major \in Nat /\ w.minor \in Nat /\ w.patch \in Nat
      /\ v.pre \in Seq(Identifiers) /\ Unpadded(v.pre)
      /\ w.pre \in Seq(Identifiers) /\ Unpadded(w.pre)
  BY ProperParts DEF Unpadded
<1>1. CASE ~SameKey(v, w)
  <2>1. KeyBefore(v, w) <=> ~KeyBefore(w, v)
    BY <1>0, <1>1 DEF SameKey, KeyBefore
  <2>2. ~SameKey(w, v)
    BY <1>1 DEF SameKey
  <2>3. Compare(v, w) = Sign(KeyBefore(v, w))
    BY <1>1 DEF Compare
  <2>4. QED
    BY <1>1, <2>1, <2>2, <2>3 DEF Precedes, Sign
<1>2. CASE SameKey(v, w)
  <2>1. ~KeyBefore(v, w) /\ ~KeyBefore(w, v) /\ SameKey(w, v)
    BY <1>0, <1>2 DEF SameKey, KeyBefore
  <2>2. CASE ~Stable(v) /\ ~Stable(w)
    <3>1. Compare(v, w) = CompareIdentifiers(v.pre, w.pre)
      BY <1>2, <2>2 DEF Compare
    <3>2. /\ Precedes(v, w) <=> PrePrecedes(v.pre, w.pre)
          /\ Precedes(w, v) <=> PrePrecedes(w.pre, v.pre)
      BY <1>2, <2>1, <2>2 DEF Precedes
    <3>3. QED
      BY <1>0, <3>1, <3>2, IdentifiersPrecede, IdentifiersAntisymmetric
  <2>3. CASE Stable(v) \/ Stable(w)
    <3>1. /\ Precedes(v, w) <=> (~Stable(v) /\ Stable(w))
          /\ Precedes(w, v) <=> (~Stable(w) /\ Stable(v))
      BY <1>2, <2>1, <2>3 DEF Precedes
    <3>2. CASE Stable(v) /\ Stable(w)
      BY <1>2, <3>1, <3>2 DEF Compare
    <3>3. CASE Stable(v) /\ ~Stable(w)
      BY <1>2, <3>1, <3>3 DEF Compare
    <3>4. CASE ~Stable(v) /\ Stable(w)
      BY <1>2, <3>1, <3>4 DEF Compare
    <3>5. QED
      BY <2>3, <3>2, <3>3, <3>4
  <2>4. QED
    BY <2>2, <2>3
<1>3. QED
  BY <1>1, <1>2

\* Parts that precede, or are the same, chain.
LEMMA PartsChain ==
    ASSUME NEW a \in Identifiers, NEW b \in Identifiers, NEW c \in Identifiers
    PROVE  /\ PartPrecedes(a, b) /\ PartPrecedes(b, c) => PartPrecedes(a, c)
           /\ SamePart(a, b) /\ PartPrecedes(b, c) => PartPrecedes(a, c)
           /\ PartPrecedes(a, b) /\ SamePart(b, c) => PartPrecedes(a, c)
           /\ SamePart(a, b) /\ SamePart(b, c) => SamePart(a, c)
BY DEF Identifiers, PartPrecedes, SamePart

\* Lists of parts chain: whichever of the two pairs differs first decides.
LEMMA PartListsChain ==
    ASSUME NEW s \in Seq(Identifiers), NEW t \in Seq(Identifiers), NEW u \in Seq(Identifiers),
           PrePrecedes(s, t), PrePrecedes(t, u)
    PROVE  PrePrecedes(s, u)
<1>0. /\ Len(s) \in Nat /\ Len(t) \in Nat /\ Len(u) \in Nat
      /\ \A i \in 1 .. Len(s) : s[i] \in Identifiers
      /\ \A i \in 1 .. Len(t) : t[i] \in Identifiers
      /\ \A i \in 1 .. Len(u) : u[i] \in Identifiers
  OBVIOUS
<1>1. PICK k \in 0 .. Len(s) : /\ k < Len(t)
                               /\ \A i \in 1 .. k : SamePart(s[i], t[i])
                               /\ k < Len(s) => PartPrecedes(s[k + 1], t[k + 1])
  BY DEF PrePrecedes
<1>2. PICK l \in 0 .. Len(t) : /\ l < Len(u)
                               /\ \A i \in 1 .. l : SamePart(t[i], u[i])
                               /\ l < Len(t) => PartPrecedes(t[l + 1], u[l + 1])
  BY DEF PrePrecedes
<1>3. CASE k < l
  <2>1. k < Len(u) /\ k + 1 \in 1 .. Len(t) /\ k + 1 \in 1 .. Len(u) /\ k + 1 \in 1 .. l
    BY <1>0, <1>1, <1>2, <1>3
  <2>2. \A i \in 1 .. k : /\ i \in 1 .. Len(s) /\ i \in 1 .. Len(t) /\ i \in 1 .. Len(u)
                          /\ i \in 1 .. l
    BY <1>0, <1>1, <1>2, <1>3
  <2>3. \A i \in 1 .. k : SamePart(s[i], u[i])
    BY <1>0, <1>1, <1>2, <2>2, PartsChain
  <2>4. k < Len(s) => PartPrecedes(s[k + 1], u[k + 1])
    <3> SUFFICES ASSUME k < Len(s) PROVE PartPrecedes(s[k + 1], u[k + 1])
      OBVIOUS
    <3>1. k + 1 \in 1 .. Len(s)
      BY <1>0
    <3>2. QED
      BY <1>0, <1>1, <1>2, <2>1, <3>1, PartsChain
  <2>5. QED
    BY <2>1, <2>3, <2>4 DEF PrePrecedes
<1>4. CASE l < k
  <2>1. l \in 0 .. Len(s) /\ l + 1 \in 1 .. k /\ l < Len(t)
    BY <1>0, <1>1, <1>2, <1>4
  <2>2. l + 1 \in 1 .. Len(s) /\ l + 1 \in 1 .. Len(t) /\ l + 1 \in 1 .. Len(u)
    BY <1>0, <1>1, <1>2, <1>4
  <2>3. \A i \in 1 .. l : /\ i \in 1 .. Len(s) /\ i \in 1 .. Len(t) /\ i \in 1 .. Len(u)
                          /\ i \in 1 .. k
    BY <1>0, <1>1, <1>2, <1>4
  <2>4. \A i \in 1 .. l : SamePart(s[i], u[i])
    BY <1>0, <1>1, <1>2, <2>3, PartsChain
  <2>5. PartPrecedes(s[l + 1], u[l + 1])
    BY <1>0, <1>1, <1>2, <2>1, <2>2, PartsChain
  <2>6. QED
    BY <1>2, <2>1, <2>4, <2>5 DEF PrePrecedes
<1>5. CASE l = k
  <2>1. \A i \in 1 .. k : i \in 1 .. Len(s) /\ i \in 1 .. Len(t) /\ i \in 1 .. Len(u)
    BY <1>0, <1>1, <1>2, <1>5
  <2>2. \A i \in 1 .. k : SamePart(s[i], u[i])
    BY <1>0, <1>1, <1>2, <1>5, <2>1, PartsChain
  <2>3. k < Len(s) => PartPrecedes(s[k + 1], u[k + 1])
    <3> SUFFICES ASSUME k < Len(s) PROVE PartPrecedes(s[k + 1], u[k + 1])
      OBVIOUS
    <3>1. k + 1 \in 1 .. Len(s) /\ k + 1 \in 1 .. Len(t) /\ k + 1 \in 1 .. Len(u)
      BY <1>0, <1>1, <1>2, <1>5
    <3>2. QED
      BY <1>0, <1>1, <1>2, <1>5, <3>1, PartsChain
  <2>4. QED
    BY <1>1, <1>2, <1>5, <2>2, <2>3 DEF PrePrecedes
<1>6. k < l \/ l < k \/ l = k
  BY <1>0
<1>7. QED
  BY <1>3, <1>4, <1>5, <1>6

\* Two lists of parts compare as smaller, larger or equal, and as equal only when
\* they are.
LEMMA IdentifiersDecided ==
    ASSUME NEW s \in Seq(Identifiers), NEW t \in Seq(Identifiers),
           Unpadded(s), Unpadded(t)
    PROVE  /\ CompareIdentifiers(s, t) \in {-1, 0, 1}
           /\ CompareIdentifiers(s, t) = 0 <=> s = t
<1>0. /\ Len(s) \in Nat /\ DOMAIN s = 1 .. Len(s)
      /\ Len(t) \in Nat /\ DOMAIN t = 1 .. Len(t)
      /\ \A i \in 1 .. Len(s) : s[i] \in Identifiers
      /\ \A i \in 1 .. Len(t) : t[i] \in Identifiers
  OBVIOUS
<1>1. CASE Differ(s, t) = {}
  <2>1. CompareIdentifiers(s, t) = IF Len(s) = Len(t) THEN 0 ELSE Sign(Len(s) < Len(t))
    BY <1>1 DEF CompareIdentifiers
  <2>2. Len(s) = Len(t) => s = t
    <3> SUFFICES ASSUME Len(s) = Len(t) PROVE s = t
      OBVIOUS
    <3>1. \A i \in 1 .. Len(s) : s[i] = t[i]
      BY <1>0, <1>1 DEF Differ
    <3>2. QED
      BY <3>1, SeqEqual
  <2>3. QED
    BY <2>1, <2>2 DEF Sign
<1>2. CASE Differ(s, t) # {}
  <2>1. PICK first \in Differ(s, t) :
          first = CHOOSE i \in Differ(s, t) : \A j \in Differ(s, t) : i <= j
    BY <1>2, FirstDifference
  <2>2. CompareIdentifiers(s, t) = ComparePart(s[first], t[first])
    BY <1>2, <2>1 DEF CompareIdentifiers
  <2>3. s # t
    BY <2>1 DEF Differ
  <2>4. ComparePart(s[first], t[first]) \in {-1, 1}
    BY DEF ComparePart, Sign
  <2>5. QED
    BY <2>2, <2>3, <2>4
<1>3. QED
  BY <1>1, <1>2

\* Precedence chains.
LEMMA PrecedenceChains ==
    ASSUME NEW u \in Proper, NEW v \in Proper, NEW w \in Proper,
           Precedes(u, v), Precedes(v, w)
    PROVE  Precedes(u, w)
<1>0. /\ u.major \in Nat /\ u.minor \in Nat /\ u.patch \in Nat
      /\ v.major \in Nat /\ v.minor \in Nat /\ v.patch \in Nat
      /\ w.major \in Nat /\ w.minor \in Nat /\ w.patch \in Nat
      /\ u.pre \in Seq(Identifiers) /\ v.pre \in Seq(Identifiers) /\ w.pre \in Seq(Identifiers)
  BY ProperParts
<1>1. /\ KeyBefore(u, v) \/ SameKey(u, v)
      /\ KeyBefore(v, w) \/ SameKey(v, w)
  BY DEF Precedes
<1>2. CASE KeyBefore(u, v) \/ KeyBefore(v, w)
  <2>1. CASE KeyBefore(u, v) /\ KeyBefore(v, w)
    <3>1. KeyBefore(u, w)
      <4>1. \A a, b, c \in Nat : a < b /\ b < c => a < c
        OBVIOUS
      <4>2. /\ u.major < v.major /\ v.major < w.major => u.major < w.major
            /\ u.minor < v.minor /\ v.minor < w.minor => u.minor < w.minor
            /\ u.patch < v.patch /\ v.patch < w.patch => u.patch < w.patch
        BY Zenon, <1>0, <4>1
      <4>3. QED
        BY Zenon, <2>1, <4>2 DEF KeyBefore
    <3>2. QED
      BY <3>1 DEF Precedes
  <2>2. CASE KeyBefore(u, v) /\ SameKey(v, w)
    <3>1. KeyBefore(u, w)
      BY <2>2 DEF KeyBefore, SameKey
    <3>2. QED
      BY <3>1 DEF Precedes
  <2>3. CASE SameKey(u, v) /\ KeyBefore(v, w)
    <3>1. KeyBefore(u, w)
      BY <2>3 DEF KeyBefore, SameKey
    <3>2. QED
      BY <3>1 DEF Precedes
  <2>4. QED
    BY <1>1, <1>2, <2>1, <2>2, <2>3
<1>3. CASE ~KeyBefore(u, v) /\ ~KeyBefore(v, w)
  <2>1. SameKey(u, w) /\ ~Stable(u) /\ ~Stable(v)
    BY <1>1, <1>3 DEF Precedes, SameKey
  <2>2. CASE Stable(w)
    BY <2>1, <2>2 DEF Precedes
  <2>3. CASE ~Stable(w)
    <3>1. PrePrecedes(u.pre, v.pre) /\ PrePrecedes(v.pre, w.pre)
      BY <1>3, <2>1, <2>3 DEF Precedes
    <3>2. PrePrecedes(u.pre, w.pre)
      BY <1>0, <3>1, PartListsChain
    <3>3. QED
      BY <2>1, <2>3, <3>2 DEF Precedes
  <2>4. QED
    BY <2>2, <2>3
<1>4. QED
  BY <1>2, <1>3

\* release.py's compare is a total order on the versions that semantic versioning
\* allows: one of two different versions is the newer, whichever way they are
\* compared, and newer than newer is newer (release.py:69-79).
THEOREM CompareIsTotalOrder ==
    \A u, v, w \in Proper :
        /\ Compare(u, v) \in {-1, 0, 1}
        /\ Compare(u, v) = 0 <=> u = v
        /\ Compare(u, v) = 1 <=> Compare(v, u) = -1
        /\ Compare(u, v) = -1 /\ Compare(v, w) = -1 => Compare(u, w) = -1
<1> SUFFICES ASSUME NEW u \in Proper, NEW v \in Proper, NEW w \in Proper
             PROVE  /\ Compare(u, v) \in {-1, 0, 1}
                    /\ Compare(u, v) = 0 <=> u = v
                    /\ Compare(u, v) = 1 <=> Compare(v, u) = -1
                    /\ Compare(u, v) = -1 /\ Compare(v, w) = -1 => Compare(u, w) = -1
  OBVIOUS
<1>1. Compare(u, v) \in {-1, 0, 1} /\ (Compare(u, v) = 0 <=> u = v)
  <2>0. u.pre \in Seq(Identifiers) /\ Unpadded(u.pre) /\ v.pre \in Seq(Identifiers) /\ Unpadded(v.pre)
    BY ProperParts DEF Unpadded
  <2>1. u = v <=> SameKey(u, v) /\ u.pre = v.pre
    <3>1. /\ u = [major |-> u.major, minor |-> u.minor, patch |-> u.patch, pre |-> u.pre]
          /\ v = [major |-> v.major, minor |-> v.minor, patch |-> v.patch, pre |-> v.pre]
      BY DEF Proper, Versions
    <3>2. QED
      BY <3>1 DEF SameKey
  <2>2. CASE ~SameKey(u, v)
    <3>1. Compare(u, v) = Sign(KeyBefore(u, v))
      BY <2>2 DEF Compare
    <3>2. QED
      BY <2>1, <2>2, <3>1 DEF Sign
  <2>3. CASE SameKey(u, v) /\ (Stable(u) \/ Stable(v))
    <3>1. CASE Stable(u) /\ Stable(v)
      BY <2>1, <2>3, <3>1 DEF Compare, Stable
    <3>2. CASE Stable(u) /\ ~Stable(v)
      BY <2>1, <2>3, <3>2 DEF Compare, Stable
    <3>3. CASE ~Stable(u) /\ Stable(v)
      BY <2>1, <2>3, <3>3 DEF Compare, Stable
    <3>4. QED
      BY <2>3, <3>1, <3>2, <3>3
  <2>4. CASE SameKey(u, v) /\ ~Stable(u) /\ ~Stable(v)
    <3>1. Compare(u, v) = CompareIdentifiers(u.pre, v.pre)
      BY <2>4 DEF Compare
    <3>2. QED
      BY <2>0, <2>1, <2>4, <3>1, IdentifiersDecided
  <2>5. QED
    BY <2>2, <2>3, <2>4
<1>2. Compare(u, v) = 1 <=> Compare(v, u) = -1
  BY CompareIsPrecedence
<1>3. Compare(u, v) = -1 /\ Compare(v, w) = -1 => Compare(u, w) = -1
  BY CompareIsPrecedence, PrecedenceChains
<1>4. QED
  BY <1>1, <1>2, <1>3

(***************************************************************************)
(* Bumps.                                                                  *)
(***************************************************************************)

\* A version built from proper pieces is proper, and is what was put in.
LEMMA BuiltVersion ==
    ASSUME NEW major \in Nat, NEW minor \in Nat, NEW patch \in Nat,
           NEW pre \in Seq(Identifiers), Unpadded(pre)
    PROVE  /\ Version(major, minor, patch, pre) \in Proper
           /\ Version(major, minor, patch, pre).major = major
           /\ Version(major, minor, patch, pre).minor = minor
           /\ Version(major, minor, patch, pre).patch = patch
           /\ Version(major, minor, patch, pre).pre = pre
BY DEF Version, Proper, Versions, WellFormed, Unpadded

\* The first prerelease of a channel.
LEMMA FirstPrerelease ==
    ASSUME NEW preid \in Channels
    PROVE  /\ <<preid, Number(1)>> \in Seq(Identifiers)
           /\ Unpadded(<<preid, Number(1)>>)
BY DEF Channels, Identifiers, Number, Unpadded

\* Any bump of one of the three numbers leads to a newer version.
LEMMA NextKeyIsNewer ==
    ASSUME NEW v \in Proper, NEW part \in {"major", "minor", "patch"},
           NEW pre \in Seq(Identifiers), Unpadded(pre)
    PROVE  NextKey(v, part, pre) \in Proper /\ Precedes(v, NextKey(v, part, pre))
<1>0. /\ v.major \in Nat /\ v.minor \in Nat /\ v.patch \in Nat
      /\ v.major + 1 \in Nat /\ v.minor + 1 \in Nat /\ v.patch + 1 \in Nat
  <2>1. v.major \in Nat /\ v.minor \in Nat /\ v.patch \in Nat
    BY ProperParts
  <2>2. QED
    BY <2>1
<1>1. CASE part = "major"
  <2>1. NextKey(v, part, pre) = Version(v.major + 1, 0, 0, pre)
    BY <1>1 DEF NextKey
  <2>2. /\ Version(v.major + 1, 0, 0, pre) \in Proper
        /\ Version(v.major + 1, 0, 0, pre).major = v.major + 1
    <3>1. Version(v.major + 1, 0, 0, pre) \in Proper
      BY <1>0, BuiltVersion
    <3>2. QED
      BY <3>1 DEF Version
  <2>3. QED
    BY <1>0, <2>1, <2>2 DEF Precedes, KeyBefore
<1>2. CASE part = "minor"
  <2>1. NextKey(v, part, pre) = Version(v.major, v.minor + 1, 0, pre)
    BY <1>2 DEF NextKey
  <2>2. /\ Version(v.major, v.minor + 1, 0, pre) \in Proper
        /\ Version(v.major, v.minor + 1, 0, pre).major = v.major
        /\ Version(v.major, v.minor + 1, 0, pre).minor = v.minor + 1
    <3>1. Version(v.major, v.minor + 1, 0, pre) \in Proper
      BY <1>0, BuiltVersion
    <3>2. QED
      BY <3>1 DEF Version
  <2>3. QED
    BY <1>0, <2>1, <2>2 DEF Precedes, KeyBefore
<1>3. CASE part = "patch"
  <2>1. NextKey(v, part, pre) = Version(v.major, v.minor, v.patch + 1, pre)
    BY <1>3 DEF NextKey
  <2>2. /\ Version(v.major, v.minor, v.patch + 1, pre) \in Proper
        /\ Version(v.major, v.minor, v.patch + 1, pre).major = v.major
        /\ Version(v.major, v.minor, v.patch + 1, pre).minor = v.minor
        /\ Version(v.major, v.minor, v.patch + 1, pre).patch = v.patch + 1
    <3>1. Version(v.major, v.minor, v.patch + 1, pre) \in Proper
      <4>1. v.major \in Nat /\ v.minor \in Nat /\ v.patch + 1 \in Nat
        BY <1>0
      <4>2. QED
        BY <4>1, BuiltVersion
    <3>2. QED
      BY <3>1 DEF Version
  <2>3. v.patch < v.patch + 1
    BY <1>0
  <2>4. KeyBefore(v, Version(v.major, v.minor, v.patch + 1, pre))
    BY <2>2, <2>3 DEF KeyBefore
  <2>5. QED
    BY <2>1, <2>2, <2>4 DEF Precedes
<1>4. QED
  BY <1>1, <1>2, <1>3

\* Another prerelease of the same three numbers.
LEMMA OtherPrerelease ==
    ASSUME NEW v \in Proper, NEW pre \in Seq(Identifiers), Unpadded(pre)
    PROVE  /\ WithPrerelease(v, pre) \in Proper
           /\ WithPrerelease(v, pre).pre = pre
           /\ SameKey(v, WithPrerelease(v, pre))
<1>1. v \in Versions
  BY DEF Proper
<1>2. /\ WithPrerelease(v, pre) \in Versions
      /\ WithPrerelease(v, pre).pre = pre
      /\ SameKey(v, WithPrerelease(v, pre))
  BY <1>1 DEF WithPrerelease, Versions, SameKey
<1>3. WellFormed(WithPrerelease(v, pre))
  <2>1. DOMAIN pre = 1 .. Len(pre)
    OBVIOUS
  <2>2. QED
    BY <1>2, <2>1 DEF WellFormed, Unpadded
<1>4. QED
  BY <1>2, <1>3 DEF Proper

\* It is newer when it is a prerelease whose parts come later.
LEMMA LaterPrerelease ==
    ASSUME NEW v \in Proper, ~Stable(v),
           NEW pre \in Seq(Identifiers), Unpadded(pre), pre # <<>>,
           PrePrecedes(v.pre, pre)
    PROVE  /\ WithPrerelease(v, pre) \in Proper
           /\ Precedes(v, WithPrerelease(v, pre))
BY OtherPrerelease DEF Precedes, Stable

\* A list of parts precedes itself with one more part.
LEMMA LongerIsLater ==
    ASSUME NEW s \in Seq(Identifiers), NEW part \in Identifiers,
           Unpadded(s), part.zeros = 0
    PROVE  /\ Append(s, part) \in Seq(Identifiers) /\ Append(s, part) # <<>>
           /\ Unpadded(Append(s, part))
           /\ PrePrecedes(s, Append(s, part))
<1>1. /\ Len(s) \in Nat
      /\ Append(s, part) \in Seq(Identifiers)
      /\ Len(Append(s, part)) = Len(s) + 1
      /\ \A i \in 1 .. Len(s) : Append(s, part)[i] = s[i]
      /\ Append(s, part)[Len(s) + 1] = part
  OBVIOUS
<1>2. Unpadded(Append(s, part))
  <2> SUFFICES ASSUME NEW i \in 1 .. Len(s) + 1 PROVE Append(s, part)[i].zeros = 0
    BY <1>1 DEF Unpadded
  <2>1. i \in 1 .. Len(s) \/ i = Len(s) + 1
    BY <1>1
  <2>2. QED
    BY <1>1, <2>1 DEF Unpadded
<1>3. PrePrecedes(s, Append(s, part))
  <2> HIDE <1>2
  <2>1. Len(s) \in 0 .. Len(s) /\ Len(s) < Len(Append(s, part)) /\ ~(Len(s) < Len(s))
    BY <1>1
  <2>2. \A i \in 1 .. Len(s) : SamePart(s[i], Append(s, part)[i])
    BY <1>1 DEF SamePart
  <2>3. QED
    BY <2>1, <2>2 DEF PrePrecedes
<1>4. Append(s, part) # <<>>
  BY <1>1
<1>5. QED
  BY <1>1, <1>2, <1>3, <1>4

\* A prerelease of a channel that does not come before the present one is newer.
LEMMA FirstOfLaterChannel ==
    ASSUME NEW v \in Proper, ~Stable(v), NEW preid \in Channels,
           ~PartPrecedes(preid, v.pre[1]),
           v.pre[1] # preid \/ Len(v.pre) = 1
    PROVE  PrePrecedes(v.pre, <<preid, Number(1)>>)
<1> DEFINE next == <<preid, Number(1)>>
<1>0. /\ Len(v.pre) \in Nat /\ Len(v.pre) # 0
      /\ v.pre[1] \in Identifiers /\ v.pre[1].zeros = 0
  BY ProperParts
<1>1. Len(next) = 2 /\ next[1] = preid
  OBVIOUS
<1> HIDE DEF next
<1>2. CASE v.pre[1] # preid
  <2>1. preid \in Identifiers /\ preid.zeros = 0
    BY DEF Channels
  <2>2. PartPrecedes(v.pre[1], preid)
    BY <1>0, <1>2, <2>1 DEF PartPrecedes, Identifiers
  <2>3. 0 \in 0 .. Len(v.pre) /\ 0 < Len(next) /\ 0 + 1 = 1
    BY <1>0, <1>1
  <2>4. \A i \in 1 .. 0 : SamePart(v.pre[i], next[i])
    OBVIOUS
  <2>5. PrePrecedes(v.pre, next)
    BY <1>1, <2>2, <2>3, <2>4 DEF PrePrecedes
  <2>6. QED
    BY <2>5 DEF next
<1>3. CASE v.pre[1] = preid /\ Len(v.pre) = 1
  <2>1. 1 \in 0 .. Len(v.pre) /\ 1 < Len(next) /\ ~(1 < Len(v.pre))
    BY <1>1, <1>3
  <2>2. \A i \in 1 .. 1 : SamePart(v.pre[i], next[i])
    BY <1>1, <1>3 DEF SamePart
  <2>3. PrePrecedes(v.pre, next)
    BY <2>1, <2>2 DEF PrePrecedes
  <2>4. QED
    BY <2>3 DEF next
<1>4. QED
  BY <1>2, <1>3

\* Counting the last number of a prerelease up leads to a later one.
LEMMA CountedUp ==
    ASSUME NEW s \in Seq(Identifiers), Unpadded(s), s # <<>>,
           s[Len(s)].numeric
    PROVE  LET next == Append(SubSeq(s, 1, Len(s) - 1), Number(s[Len(s)].rank + 1))
           IN  /\ next \in Seq(Identifiers) /\ Unpadded(next) /\ next # <<>>
               /\ PrePrecedes(s, next)
<1> DEFINE front == SubSeq(s, 1, Len(s) - 1)
           last == s[Len(s)]
           part == Number(last.rank + 1)
           next == Append(front, part)
<1>0. /\ Len(s) \in Nat /\ Len(s) >= 1 /\ Len(s) - 1 \in Nat
      /\ \A i \in 1 .. Len(s) : s[i] \in Identifiers
  BY EmptySeq
<1>1. /\ front \in Seq(Identifiers) /\ Len(front) = Len(s) - 1
      /\ \A i \in 1 .. Len(s) - 1 : front[i] = s[i]
  <2>1. \A i \in 1 .. Len(s) - 1 : s[i] \in Identifiers
    BY <1>0
  <2>2. /\ front \in Seq(Identifiers)
        /\ Len(front) = IF 1 <= Len(s) - 1 THEN Len(s) - 1 - 1 + 1 ELSE 0
        /\ \A i \in 1 .. Len(s) - 1 - 1 + 1 : front[i] = s[1 + i - 1]
    <3> HIDE DEF front
    <3>1. Len(s) - 1 \in Int /\ 1 \in Int
      BY <1>0
    <3>2. QED
      BY <2>1, <3>1, SubSeqProperties DEF front
  <2>3. Len(front) = Len(s) - 1
    <3> HIDE DEF front
    <3>1. \A n \in Nat : n >= 1 => (IF 1 <= n - 1 THEN n - 1 - 1 + 1 ELSE 0) = n - 1
      OBVIOUS
    <3>2. QED
      BY <1>0, <2>2, <3>1
  <2>4. \A i \in 1 .. Len(s) - 1 : front[i] = s[i]
    <3> SUFFICES ASSUME NEW i \in 1 .. Len(s) - 1 PROVE front[i] = s[i]
      OBVIOUS
    <3>1. i \in 1 .. Len(s) - 1 - 1 + 1 /\ 1 + i - 1 = i
      BY <1>0
    <3>2. QED
      BY <2>2, <3>1
  <2>5. QED
    BY <2>2, <2>3, <2>4
<1>2. last \in Identifiers /\ last.zeros = 0 /\ last.rank \in Nat
  BY <1>0 DEF Unpadded, Identifiers
<1>3. part \in Identifiers /\ part.zeros = 0 /\ PartPrecedes(last, part)
  BY <1>2 DEF Number, Identifiers, PartPrecedes
<1>4. Unpadded(front)
  BY <1>0, <1>1 DEF Unpadded
<1> HIDE DEF front, last, part
<1>5. /\ next \in Seq(Identifiers) /\ next # <<>> /\ Unpadded(next)
  BY <1>1, <1>3, <1>4, LongerIsLater
<1>6. /\ Len(next) = Len(s)
      /\ \A i \in 1 .. Len(s) - 1 : next[i] = s[i]
      /\ next[Len(s)] = part
  <2>1. /\ Len(next) = Len(front) + 1
        /\ \A i \in 1 .. Len(front) : next[i] = front[i]
        /\ next[Len(front) + 1] = part
    BY <1>1
  <2>2. QED
    BY <1>0, <1>1, <2>1
<1>7. PrePrecedes(s, next)
  <2> HIDE DEF next
  <2> DEFINE k == Len(s) - 1
  <2>1. k \in 0 .. Len(s) /\ k < Len(next) /\ k + 1 = Len(s)
    BY <1>0, <1>6
  <2>2. \A i \in 1 .. k : SamePart(s[i], next[i])
    BY <1>6 DEF SamePart
  <2>3. PartPrecedes(s[k + 1], next[k + 1])
    BY <1>3, <1>6, <2>1 DEF last
  <2> HIDE DEF k
  <2>4. QED
    BY <2>1, <2>2, <2>3 DEF PrePrecedes
<1>8. QED
  BY <1>5, <1>7 DEF front, last, part

\* A prerelease bump leads to a newer version, unless it goes back to an earlier
\* channel (rc to alpha).
LEMMA BumpPrereleaseIsNewer ==
    ASSUME NEW v \in Proper, NEW preid \in Channels,
           Stable(v) \/ ~PartPrecedes(preid, v.pre[1])
    PROVE  /\ BumpPrerelease(v, preid) \in Proper
           /\ Precedes(v, BumpPrerelease(v, preid))
<1>0. /\ v.pre \in Seq(Identifiers) /\ Unpadded(v.pre) /\ Len(v.pre) \in Nat
      /\ Stable(v) <=> Len(v.pre) = 0
  BY ProperParts DEF Unpadded
<1>1. CASE Stable(v)
  <2>1. BumpPrerelease(v, preid) = NextKey(v, "patch", <<preid, Number(1)>>)
    BY <1>1 DEF BumpPrerelease
  <2>2. QED
    BY <2>1, FirstPrerelease, NextKeyIsNewer
<1>2. CASE ~Stable(v) /\ (v.pre[1] # preid \/ Len(v.pre) = 1)
  <2>1. BumpPrerelease(v, preid) = WithPrerelease(v, <<preid, Number(1)>>)
    BY <1>2 DEF BumpPrerelease
  <2>2. PrePrecedes(v.pre, <<preid, Number(1)>>)
    BY <1>2, FirstOfLaterChannel
  <2>3. <<preid, Number(1)>> # <<>>
    OBVIOUS
  <2>4. QED
    BY <1>2, <2>1, <2>2, <2>3, FirstPrerelease, LaterPrerelease
<1>3. CASE ~Stable(v) /\ v.pre[1] = preid /\ Len(v.pre) > 1 /\ v.pre[Len(v.pre)].numeric
  <2> DEFINE next == Append(SubSeq(v.pre, 1, Len(v.pre) - 1),
                            Number(v.pre[Len(v.pre)].rank + 1))
  <2>1. BumpPrerelease(v, preid) = WithPrerelease(v, next)
    <3>1. ~(v.pre[1] # preid \/ Len(v.pre) = 1)
      BY <1>0, <1>3
    <3>2. QED
      BY <1>3, <3>1 DEF BumpPrerelease
  <2>2. next \in Seq(Identifiers) /\ Unpadded(next) /\ next # <<>> /\ PrePrecedes(v.pre, next)
    BY <1>0, <1>3, CountedUp DEF Stable
  <2> HIDE DEF next
  <2>3. QED
    BY <1>3, <2>1, <2>2, LaterPrerelease
<1>4. CASE ~Stable(v) /\ v.pre[1] = preid /\ Len(v.pre) > 1 /\ ~v.pre[Len(v.pre)].numeric
  <2>1. BumpPrerelease(v, preid) = WithPrerelease(v, Append(v.pre, Number(1)))
    <3>1. ~(v.pre[1] # preid \/ Len(v.pre) = 1)
      BY <1>0, <1>4
    <3>2. QED
      BY <1>4, <3>1 DEF BumpPrerelease
  <2>2. Number(1) \in Identifiers /\ Number(1).zeros = 0
    BY DEF Number, Identifiers
  <2>3. QED
    BY <1>0, <1>4, <2>1, <2>2, LongerIsLater, LaterPrerelease
<1>5. Stable(v) \/ Len(v.pre) = 1 \/ Len(v.pre) > 1
  <2>1. \A n \in Nat : n = 0 \/ n = 1 \/ n > 1
    OBVIOUS
  <2>2. QED
    BY <1>0, <2>1
<1>6. QED
  BY <1>1, <1>2, <1>3, <1>4, <1>5

\* Every bump of a version that semantic versioning allows leads to another such
\* version, and to a newer one unless it goes back to an earlier channel.
THEOREM BumpIsNewer ==
    ASSUME NEW v \in Proper, NEW bump \in Bumps, NEW preid \in Channels,
           CanBump(v, bump),
           bump = "prerelease" => Stable(v) \/ ~PartPrecedes(preid, v.pre[1])
    PROVE  /\ BumpVersion(v, bump, preid) \in Proper
           /\ Precedes(v, BumpVersion(v, bump, preid))
<1>0. <<>> \in Seq(Identifiers) /\ Unpadded(<<>>)
  BY EmptySeq DEF Unpadded
<1>1. CASE bump \in {"major", "minor", "patch"}
  <2>1. BumpVersion(v, bump, preid) = NextKey(v, bump, <<>>)
    BY <1>1 DEF BumpVersion
  <2>2. QED
    BY <1>0, <1>1, <2>1, NextKeyIsNewer
<1>2. CASE bump \in {"premajor", "preminor", "prepatch"}
  <2>1. \E part \in {"major", "minor", "patch"} :
           BumpVersion(v, bump, preid) = NextKey(v, part, <<preid, Number(1)>>)
    BY <1>2 DEF BumpVersion
  <2>2. QED
    BY <2>1, FirstPrerelease, NextKeyIsNewer
<1>3. CASE bump = "prerelease"
  <2>1. BumpVersion(v, bump, preid) = BumpPrerelease(v, preid)
    BY <1>3 DEF BumpVersion
  <2>2. QED
    BY <1>3, <2>1, BumpPrereleaseIsNewer
<1>4. CASE bump = "release"
  <2>1. BumpVersion(v, bump, preid) = WithPrerelease(v, <<>>)
    BY <1>4 DEF BumpVersion
  <2>2. ~Stable(v)
    BY <1>4 DEF CanBump
  <2>3. QED
    BY <1>0, <2>1, <2>2, OtherPrerelease DEF Precedes, Stable
<1>5. QED
  BY <1>1, <1>2, <1>3, <1>4 DEF Bumps
=============================================================================
