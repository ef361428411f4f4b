------------------------------- MODULE SemVer -------------------------------
(***************************************************************************)
(* The versions of scripts/release.py: their comparison and their bumps,   *)
(* beside the precedence that semantic versioning defines (semver.org,     *)
(* item 11).                                                               *)
(*                                                                         *)
(* An identifier of a prerelease is numeric or a word.  Its rank is its    *)
(* value, or the word's place in the alphabet; zeros are the leading zeros *)
(* that SEMVER_RE lets a number have.  Build metadata takes no part in the *)
(* comparison and is left out.                                             *)
(***************************************************************************)
EXTENDS Integers, Sequences

Identifiers == [numeric: BOOLEAN, rank: Nat, zeros: Nat]
Versions == [major: Nat, minor: Nat, patch: Nat, pre: Seq(Identifiers)]

Number(n) == [numeric |-> TRUE, rank |-> n, zeros |-> 0]
Word(rank) == [numeric |-> FALSE, rank |-> rank, zeros |-> 0]

\* The words a prerelease channel may be named by (release.py:33).
Channels == {i \in Identifiers : ~i.numeric /\ i.zeros = 0}

Version(major, minor, patch, pre) ==
    [major |-> major, minor |-> minor, patch |-> patch, pre |-> pre]

Stable(v) == v.pre = <<>>

----------------------------------------------------------------------------
(* Comparison.                                                             *)

Sign(smaller) == IF smaller THEN -1 ELSE 1

SameKey(v, w) == v.major = w.major /\ v.minor = w.minor /\ v.patch = w.patch

\* stable_key() < other.stable_key(), as Python compares tuples.
KeyBefore(v, w) ==
    \/ v.major < w.major
    \/ v.major = w.major /\ v.minor < w.minor
    \/ v.major = w.major /\ v.minor = w.minor /\ v.patch < w.patch

\* Two parts that differ as texts.
ComparePart(left, right) ==
    IF left.numeric # right.numeric THEN Sign(left.numeric)
                                    ELSE Sign(left.rank < right.rank)

Differ(left, right) ==
    {i \in DOMAIN left \cap DOMAIN right : left[i] # right[i]}

CompareIdentifiers(left, right) ==
    IF Differ(left, right) # {}
    THEN LET first == CHOOSE i \in Differ(left, right) :
                        \A j \in Differ(left, right) : i <= j
         IN  ComparePart(left[first], right[first])
    ELSE IF Len(left) = Len(right) THEN 0 ELSE Sign(Len(left) < Len(right))

Compare(v, w) ==
    CASE ~SameKey(v, w)            -> Sign(KeyBefore(v, w))
      [] SameKey(v, w) /\ Stable(v) /\ Stable(w)   -> 0
      [] SameKey(v, w) /\ Stable(v) /\ ~Stable(w)  -> 1
      [] SameKey(v, w) /\ ~Stable(v) /\ Stable(w)  -> -1
      [] OTHER                     -> CompareIdentifiers(v.pre, w.pre)

\* The comparison with the cases of the missing prerelease swapped.
ComparePrereleaseAfter(v, w) ==
    CASE ~SameKey(v, w)            -> Sign(KeyBefore(v, w))
      [] SameKey(v, w) /\ Stable(v) /\ Stable(w)   -> 0
      [] SameKey(v, w) /\ Stable(v) /\ ~Stable(w)  -> -1
      [] SameKey(v, w) /\ ~Stable(v) /\ Stable(w)  -> 1
      [] OTHER                     -> CompareIdentifiers(v.pre, w.pre)

----------------------------------------------------------------------------
(* Bumps.                                                                  *)

Bumps == {"major", "minor", "patch", "premajor", "preminor", "prepatch",
          "prerelease", "release"}

\* The key that a bump of one of the three numbers leads to.
NextKey(v, part, pre) ==
    CASE part = "major" -> Version(v.major + 1, 0, 0, pre)
      [] part = "minor" -> Version(v.major, v.minor + 1, 0, pre)
      [] part = "patch" -> Version(v.major, v.minor, v.patch + 1, pre)

WithPrerelease(v, pre) == [v EXCEPT !.pre = pre]

BumpPrerelease(v, preid) ==
    LET last == v.pre[Len(v.pre)]
        front == SubSeq(v.pre, 1, Len(v.pre) - 1)
    IN  CASE Stable(v) -> NextKey(v, "patch", <<preid, Number(1)>>)
          [] ~Stable(v) /\ (v.pre[1] # preid \/ Len(v.pre) = 1) ->
                WithPrerelease(v, <<preid, Number(1)>>)
          [] ~Stable(v) /\ v.pre[1] = preid /\ Len(v.pre) > 1 /\ last.numeric ->
                WithPrerelease(v, Append(front, Number(last.rank + 1)))
          [] OTHER -> WithPrerelease(v, Append(v.pre, Number(1)))

BumpVersion(v, bump, preid) ==
    CASE bump \in {"major", "minor", "patch"} -> NextKey(v, bump, <<>>)
      [] bump = "premajor"   -> NextKey(v, "major", <<preid, Number(1)>>)
      [] bump = "preminor"   -> NextKey(v, "minor", <<preid, Number(1)>>)
      [] bump = "prepatch"   -> NextKey(v, "patch", <<preid, Number(1)>>)
      [] bump = "prerelease" -> BumpPrerelease(v, preid)
      [] bump = "release"    -> WithPrerelease(v, <<>>)

\* Which versions can be bumped: only a prerelease can be promoted.
CanBump(v, bump) == bump = "release" => ~Stable(v)

----------------------------------------------------------------------------
(* The reference: precedence of semantic versioning.                       *)

PartPrecedes(a, b) ==
    \/ a.numeric /\ ~b.numeric
    \/ a.numeric = b.numeric /\ a.rank < b.rank

SamePart(a, b) == a.numeric = b.numeric /\ a.rank = b.rank

\* The first k parts are the same, and the next is smaller or missing.
PrePrecedes(s, t) ==
    \E k \in 0 .. Len(s) :
        /\ k < Len(t)
        /\ \A i \in 1 .. k : SamePart(s[i], t[i])
        /\ k < Len(s) => PartPrecedes(s[k + 1], t[k + 1])

Precedes(v, w) ==
    \/ KeyBefore(v, w)
    \/ SameKey(v, w) /\ ~Stable(v) /\ Stable(w)
    \/ SameKey(v, w) /\ ~Stable(v) /\ ~Stable(w) /\ PrePrecedes(v.pre, w.pre)

\* Semantic versioning allows numbers no leading zeros.
WellFormed(v) == \A i \in DOMAIN v.pre : v.pre[i].zeros = 0
=============================================================================
