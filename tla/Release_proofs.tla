--------------------------- MODULE Release_proofs ---------------------------
(***************************************************************************)
(* The release workflow, proved for every set of requests, every version   *)
(* maintainers may set and any number of revisions and failed runs.        *)
(***************************************************************************)
EXTENDS Release, SemVer_proofs

(***************************************************************************)
(* What a bump and a resolved version are, padded prereleases included.    *)
(***************************************************************************)

\* A version built from typed pieces.
LEMMA VersionTyped ==
    ASSUME NEW major \in Nat, NEW minor \in Nat, NEW patch \in Nat,
           NEW pre \in Seq(Identifiers)
    PROVE  Version(major, minor, patch, pre) \in Versions
BY DEF Version, Versions

\* Bumping a number leads to a version with later numbers.
LEMMA NextKeyTyped ==
    ASSUME NEW v \in Versions, NEW part \in {"major", "minor", "patch"},
           NEW pre \in Seq(Identifiers)
    PROVE  NextKey(v, part, pre) \in Versions /\ KeyBefore(v, NextKey(v, part, pre))
<1>0. /\ v.major \in Nat /\ v.minor \in Nat /\ v.patch \in Nat
      /\ v.major + 1 \in Nat /\ v.minor + 1 \in Nat /\ v.patch + 1 \in Nat
  <2>1. v.major \in Nat /\ v.minor \in Nat /\ v.patch \in Nat
    BY DEF Versions
  <2>2. QED
    BY <2>1
<1>1. CASE part = "major"
  <2>1. NextKey(v, part, pre) = Version(v.major + 1, 0, 0, pre)
    BY <1>1 DEF NextKey
  <2>2. KeyBefore(v, Version(v.major + 1, 0, 0, pre))
    BY <1>0 DEF KeyBefore, Version
  <2>3. QED
    BY <1>0, <2>1, <2>2, VersionTyped
<1>2. CASE part = "minor"
  <2>1. NextKey(v, part, pre) = Version(v.major, v.minor + 1, 0, pre)
    BY <1>2 DEF NextKey
  <2>2. KeyBefore(v, Version(v.major, v.minor + 1, 0, pre))
    BY <1>0 DEF KeyBefore, Version
  <2>3. QED
    BY <1>0, <2>1, <2>2, VersionTyped
<1>3. CASE part = "patch"
  <2>1. NextKey(v, part, pre) = Version(v.major, v.minor, v.patch + 1, pre)
    BY <1>3 DEF NextKey
  <2>2. KeyBefore(v, Version(v.major, v.minor, v.patch + 1, pre))
    BY <1>0 DEF KeyBefore, Version
  <2>3. QED
    BY <1>0, <2>1, <2>2, VersionTyped
<1>4. QED
  BY <1>1, <1>2, <1>3

\* Another prerelease keeps the numbers.
LEMMA WithPrereleaseTyped ==
    ASSUME NEW v \in Versions, NEW pre \in Seq(Identifiers)
    PROVE  WithPrerelease(v, pre) \in Versions /\ SameKey(v, WithPrerelease(v, pre))
BY DEF WithPrerelease, Versions, SameKey

\* A target has later numbers than what it was made from, or completes or goes on
\* with its prerelease.
Beyond(v, w) == KeyBefore(v, w) \/ (SameKey(v, w) /\ ~Stable(v))

\* A prerelease bump is typed and beyond what it was made from.
LEMMA BumpPrereleaseTyped ==
    ASSUME NEW v \in Versions, NEW preid \in Channels
    PROVE  /\ BumpPrerelease(v, preid) \in Versions
           /\ Beyond(v, BumpPrerelease(v, preid))
<1>0. /\ v.pre \in Seq(Identifiers) /\ Len(v.pre) \in Nat
      /\ \A i \in 1 .. Len(v.pre) : v.pre[i] \in Identifiers
      /\ Number(1) \in Identifiers
      /\ <<preid, Number(1)>> \in Seq(Identifiers)
  <2>1. /\ v.pre \in Seq(Identifiers) /\ Len(v.pre) \in Nat
        /\ \A i \in 1 .. Len(v.pre) : v.pre[i] \in Identifiers
    BY DEF Versions
  <2>2. Number(1) \in Identifiers
    BY DEF Number, Identifiers
  <2>3. <<preid, Number(1)>> \in Seq(Identifiers)
    BY FirstPrerelease
  <2>4. QED
    BY <2>1, <2>2, <2>3
<1>1. CASE Stable(v)
  <2>1. BumpPrerelease(v, preid) = NextKey(v, "patch", <<preid, Number(1)>>)
    BY <1>1 DEF BumpPrerelease
  <2>2. QED
    BY <1>0, <2>1, NextKeyTyped DEF Beyond
<1>2. CASE ~Stable(v)
  <2>1. \E pre \in Seq(Identifiers) : BumpPrerelease(v, preid) = WithPrerelease(v, pre)
    <3> DEFINE last == v.pre[Len(v.pre)]
               counted == Append(SubSeq(v.pre, 1, Len(v.pre) - 1), Number(last.rank + 1))
    <3>1. counted \in Seq(Identifiers)
      <4>1. Len(v.pre) >= 1 /\ Len(v.pre) - 1 \in Nat /\ last \in Identifiers
        BY <1>0, <1>2, EmptySeq DEF Stable
      <4>2. Number(last.rank + 1) \in Identifiers
        BY <4>1 DEF Number, Identifiers
      <4>3. SubSeq(v.pre, 1, Len(v.pre) - 1) \in Seq(Identifiers)
        <5>1. \A i \in 1 .. Len(v.pre) - 1 : v.pre[i] \in Identifiers
          BY <1>0, <4>1
        <5>2. Len(v.pre) - 1 \in Int /\ 1 \in Int
          BY <4>1
        <5>3. QED
          BY <5>1, <5>2, SubSeqProperties
      <4> HIDE DEF last
      <4>4. QED
        BY <4>2, <4>3
    <3>2. Append(v.pre, Number(1)) \in Seq(Identifiers)
      BY <1>0
    <3>3. \/ BumpPrerelease(v, preid) = WithPrerelease(v, <<preid, Number(1)>>)
          \/ BumpPrerelease(v, preid) = WithPrerelease(v, counted)
          \/ BumpPrerelease(v, preid) = WithPrerelease(v, Append(v.pre, Number(1)))
      BY <1>2 DEF BumpPrerelease
    <3> HIDE DEF counted
    <3>4. QED
      BY <1>0, <3>1, <3>2, <3>3
  <2>2. QED
    BY <1>2, <2>1, WithPrereleaseTyped DEF Beyond
<1>3. QED
  BY <1>1, <1>2

\* So is every bump.
LEMMA BumpTyped ==
    ASSUME NEW v \in Versions, NEW bump \in Bumps, NEW preid \in Channels,
           CanBump(v, bump)
    PROVE  /\ BumpVersion(v, bump, preid) \in Versions
           /\ Beyond(v, BumpVersion(v, bump, preid))
<1>0. <<>> \in Seq(Identifiers) /\ <<preid, Number(1)>> \in Seq(Identifiers)
  <2>1. <<>> \in Seq(Identifiers)
    BY EmptySeq
  <2>2. <<preid, Number(1)>> \in Seq(Identifiers)
    BY FirstPrerelease
  <2>3. QED
    BY <2>1, <2>2
<1>1. CASE bump \in {"major", "minor", "patch"}
  <2>1. BumpVersion(v, bump, preid) = NextKey(v, bump, <<>>)
    BY <1>1 DEF BumpVersion
  <2>2. QED
    BY <1>0, <1>1, <2>1, NextKeyTyped DEF Beyond
<1>2. CASE bump \in {"premajor", "preminor", "prepatch"}
  <2>1. \E part \in {"major", "minor", "patch"} :
           BumpVersion(v, bump, preid) = NextKey(v, part, <<preid, Number(1)>>)
    BY <1>2 DEF BumpVersion
  <2>2. QED
    BY <1>0, <2>1, NextKeyTyped DEF Beyond
<1>3. CASE bump = "prerelease"
  <2>1. BumpVersion(v, bump, preid) = BumpPrerelease(v, preid)
    BY <1>3 DEF BumpVersion
  <2>2. QED
    BY <2>1, BumpPrereleaseTyped
<1>4. CASE bump = "release"
  <2>1. BumpVersion(v, bump, preid) = WithPrerelease(v, <<>>) /\ ~Stable(v)
    BY <1>4 DEF BumpVersion, CanBump
  <2>2. QED
    BY <1>0, <2>1, WithPrereleaseTyped DEF Beyond
<1>5. QED
  BY <1>1, <1>2, <1>3, <1>4 DEF Bumps

\* Whatever compares as newer is beyond.
LEMMA NewerIsBeyond ==
    ASSUME NEW v \in Versions, NEW w \in Versions, Compare(w, v) = 1
    PROVE  Beyond(v, w)
<1>0. /\ v.major \in Nat /\ v.minor \in Nat /\ v.patch \in Nat
      /\ w.major \in Nat /\ w.minor \in Nat /\ w.patch \in Nat
  BY DEF Versions
<1>1. CASE ~SameKey(w, v)
  <2>1. ~KeyBefore(w, v)
    BY <1>1 DEF Compare, Sign
  <2>2. KeyBefore(v, w)
    BY <1>0, <1>1, <2>1 DEF SameKey, KeyBefore
  <2>3. QED
    BY <2>2 DEF Beyond
<1>2. CASE SameKey(w, v)
  <2>1. ~Stable(v)
    BY <1>2 DEF Compare
  <2>2. SameKey(v, w)
    BY <1>2 DEF SameKey
  <2>3. QED
    BY <2>1, <2>2 DEF Beyond
<1>3. QED
  BY <1>1, <1>2

\* A resolved version is a version, beyond the present one.
LEMMA ResolvedTyped ==
    ASSUME NEW r \in Requests, NEW v \in Versions, CanResolve(r, v)
    PROVE  Resolved(r, v) \in Versions /\ Beyond(v, Resolved(r, v))
<1>1. /\ r.type \in Bumps \cup {"custom"} /\ r.preid \in Channels
      /\ r.custom \in Versions \cup {None}
  BY ReleaseAssumption DEF ReleaseAssumption, Request
<1>2. CASE r.type = "custom"
  BY <1>1, <1>2, NewerIsBeyond DEF CanResolve, Resolved, IsNewer
<1>3. CASE r.type # "custom"
  BY <1>1, <1>3, BumpTyped DEF CanResolve, Resolved
<1>4. QED
  BY <1>2, <1>3

(***************************************************************************)
(* The inductive invariant.                                                *)
(***************************************************************************)

OnBranch(revision) == \E i \in DOMAIN branch : branch[i] = revision

Names(files, version) ==
    /\ files.manifest = version /\ files.pyproject = version
    /\ \A place \in Places : Ours(files.pins[place]) => files.pins[place] = version

\* A revision on the branch that comes after one whose other images it leaves alone.
Follows(revision) ==
    \E i \in 2 .. Len(branch) :
        branch[i] = revision /\ LeavesOthers(revisions[branch[i - 1]], revisions[revision])

\* How far the present run has got, and what it has left behind so far.
RunInStep ==
    /\ Len(branch) >= 1
    /\ pc # "idle" => request \in Requests /\ base \in DOMAIN revisions
    /\ target # None <=> pc \in Steps \ {"resolve"}
    /\ pc \in Steps \ {"resolve", "check"} =>
           commit \in DOMAIN revisions /\ Names(revisions[commit], target)
    /\ pc \in {"image", "latest", "branch"} => LeavesOthers(revisions[base], revisions[commit])
    /\ pc \in {"tag", "announce"} => Follows(commit)
    /\ pc \in Steps \ {"resolve", "check", "announce"} => target \notin DOMAIN tags
    /\ pc \in {"latest", "branch", "tag", "announce"} =>
           target \in DOMAIN images /\ images[target] = commit
    /\ pc \in {"tag", "announce"} => OnBranch(commit)
    /\ pc = "announce" => target \in DOMAIN tags

\* A tagged revision names its version everywhere and leaves other images alone.
Labelled == \A v \in DOMAIN tags : Names(revisions[tags[v]], v) /\ Follows(tags[v])

Tags == TagMatchesImage /\ Labelled /\ TagsOnBranch

\* A stable version that a version does not come before.
NotBefore(stable, v) == KeyBefore(stable, v) \/ (SameKey(stable, v) /\ Stable(v))

Branched(stable) == NotBefore(stable, revisions[Tip(branch)].manifest)

\* The branch, and a run from its checkout on, stay ahead of a tagged latest.
LatestBehind ==
    /\ latest # None => Stable(latest)
    /\ latest \in DOMAIN tags => Branched(latest)
    /\ latest \in DOMAIN tags /\ pc = "resolve" =>
           NotBefore(latest, revisions[base].manifest)
    /\ latest \in DOMAIN tags /\ pc \in {"check", "image", "latest", "branch"} =>
           KeyBefore(latest, target)
    /\ pc = "latest" => Stable(target)
    /\ pc = "tag" /\ Stable(target) => Branched(target)

IInv == TypeOK /\ RunInStep /\ Tags /\ ResolvedIsNewer /\ LatestBehind

\* The invariant holds before the first run.
LEMMA InitIInv == Init => IInv
<1> SUFFICES ASSUME Init PROVE IInv
  OBVIOUS
<1>1. Start \in Versions /\ None \notin Versions /\ None \notin Requests
  BY ReleaseAssumption DEF ReleaseAssumption
<1>2. /\ revisions \in Seq(Files) /\ DOMAIN revisions = {1}
      /\ branch \in Seq(DOMAIN revisions) /\ Len(branch) = 1
      /\ DOMAIN tags = {} /\ DOMAIN images = {}
  <2>1. <<[manifest |-> Start, pyproject |-> Start,
            pins |-> [place \in Places |-> Start]]>> \in Seq(Files)
    BY <1>1 DEF Files, Pins
  <2>2. DOMAIN revisions = {1}
    BY DEF Init
  <2>3. <<1>> \in Seq({1})
    OBVIOUS
  <2>4. QED
    BY <2>1, <2>2, <2>3 DEF Init
<1>3. TypeOK
  BY <1>1, <1>2 DEF TypeOK, Init
<1>4. RunInStep
  BY <1>2 DEF RunInStep, Init, Steps
<1>5. Tags
  BY <1>2 DEF Tags, TagMatchesImage, Labelled, TagsOnBranch, Init
<1>6. ResolvedIsNewer
  BY DEF ResolvedIsNewer, Init
<1>7. LatestBehind
  BY <1>2 DEF LatestBehind, Init
<1>8. QED
  BY <1>3, <1>4, <1>5, <1>6, <1>7 DEF IInv

(***************************************************************************)
(* Steps.                                                                  *)
(***************************************************************************)

\* What a new revision does to the list of revisions.
LEMMA NewRevision ==
    ASSUME TypeOK, NEW files \in Files, revisions' = Append(revisions, files)
    PROVE  /\ revisions' \in Seq(Files)
           /\ Len(revisions) \in Nat
           /\ DOMAIN revisions \subseteq DOMAIN revisions'
           /\ Len(revisions) + 1 \in DOMAIN revisions'
           /\ revisions'[Len(revisions) + 1] = files
           /\ \A i \in DOMAIN revisions : revisions'[i] = revisions[i]
BY DEF TypeOK

\* A revision appended to the branch becomes its tip and leaves the others on it.
LEMMA NewTip ==
    ASSUME NEW S, branch \in Seq(S), NEW revision \in S,
           branch' = Append(branch, revision)
    PROVE  /\ branch' \in Seq(S)
           /\ Len(branch') >= 1
           /\ Tip(branch') = revision
           /\ OnBranch(revision)'
           /\ \A r : OnBranch(r) => OnBranch(r)'
<1>1. /\ Len(branch) \in Nat /\ DOMAIN branch = 1 .. Len(branch)
      /\ branch' \in Seq(S) /\ Len(branch') = Len(branch) + 1
      /\ DOMAIN branch' = 1 .. Len(branch) + 1
      /\ \A i \in 1 .. Len(branch) : branch'[i] = branch[i]
      /\ branch'[Len(branch) + 1] = revision
  OBVIOUS
<1>2. OnBranch(revision)'
  BY <1>1 DEF OnBranch
<1>3. \A r : OnBranch(r) => OnBranch(r)'
  BY <1>1 DEF OnBranch
<1>4. QED
  BY <1>1, <1>2, <1>3 DEF Tip

\* The tip of the branch is a revision.
LEMMA TipTyped ==
    ASSUME TypeOK, Len(branch) >= 1
    PROVE  Tip(branch) \in DOMAIN revisions /\ revisions[Tip(branch)] \in Files
<1>1. Len(branch) \in 1 .. Len(branch)
  BY DEF TypeOK
<1>2. Tip(branch) \in DOMAIN revisions
  BY <1>1 DEF TypeOK, Tip
<1>3. QED
  BY <1>2 DEF TypeOK

\* Revisions and a branch that only grow leave a revision where it was.
Grown ==
    /\ branch' \in Seq(Nat)
    /\ \A i \in DOMAIN branch : i \in DOMAIN branch' /\ branch'[i] = branch[i]
    /\ \A i \in DOMAIN revisions : revisions'[i] = revisions[i]

LEMMA FollowsStays ==
    ASSUME TypeOK, Grown
    PROVE  \A r \in DOMAIN revisions : Follows(r) => Follows(r)'
<1> SUFFICES ASSUME NEW r \in DOMAIN revisions, Follows(r) PROVE Follows(r)'
  OBVIOUS
<1>1. PICK i \in 2 .. Len(branch) :
        branch[i] = r /\ LeavesOthers(revisions[branch[i - 1]], revisions[r])
  BY DEF Follows
<1>2. /\ i \in DOMAIN branch /\ i - 1 \in DOMAIN branch
      /\ branch[i - 1] \in DOMAIN revisions
  BY <1>1 DEF TypeOK
<1>3. /\ i \in 2 .. Len(branch') /\ branch'[i] = r /\ branch'[i - 1] = branch[i - 1]
  BY <1>1, <1>2 DEF Grown
<1>4. revisions'[branch'[i - 1]] = revisions[branch[i - 1]] /\ revisions'[r] = revisions[r]
  BY <1>2, <1>3 DEF Grown
<1>5. LeavesOthers(revisions'[branch'[i - 1]], revisions'[r])
  BY <1>1, <1>4
<1>6. QED
  BY <1>3, <1>5 DEF Follows

\* Tags that stay keep naming what they named.
LEMMA LabelledStays ==
    ASSUME TypeOK, Grown, Labelled, tags' = tags
    PROVE  Labelled'
<1> SUFFICES ASSUME NEW v \in DOMAIN tags PROVE Names(revisions'[tags[v]], v) /\ Follows(tags[v])'
  BY DEF Labelled
<1>1. tags[v] \in DOMAIN revisions /\ Names(revisions[tags[v]], v) /\ Follows(tags[v])
  BY DEF TypeOK, Labelled
<1>2. revisions'[tags[v]] = revisions[tags[v]]
  BY <1>1 DEF Grown
<1>3. QED
  BY <1>1, <1>2, FollowsStays

\* The files the script writes name the version, and leave other images alone.
LEMMA WrittenNames ==
    ASSUME NEW files \in Files, NEW version \in Versions
    PROVE  /\ Written(files, version) \in Files
           /\ Names(Written(files, version), version)
           /\ LeavesOthers(files, Written(files, version))
<1>1. files.pins \in [Places -> Pins]
  BY DEF Files
<1>2. Pinned(files.pins, version) \in [Places -> Pins]
  BY <1>1 DEF Pinned, Pins
<1>3. \A place \in Places :
        /\ Ours(files.pins[place]) => Pinned(files.pins, version)[place] = version
        /\ ~Ours(files.pins[place]) => Pinned(files.pins, version)[place] = files.pins[place]
  BY DEF Pinned
<1>4. QED
  BY <1>2, <1>3 DEF Written, Files, Names, LeavesOthers

\* At a tag every version file names the tag's version, the images it pins are that
\* version's and were built from it, and other images are as they were.
LEMMA LabelledAgree == TagMatchesImage /\ Labelled => TagsAgree
<1> SUFFICES ASSUME TagMatchesImage, Labelled, NEW v \in DOMAIN tags
             PROVE  LET files == revisions[tags[v]] IN
                    /\ files.manifest = v /\ files.pyproject = v
                    /\ \A place \in Places : Ours(files.pins[place]) =>
                           /\ files.pins[place] \in DOMAIN images
                           /\ images[files.pins[place]] = tags[v]
                    /\ \E i \in 2 .. Len(branch) :
                           branch[i] = tags[v] /\ LeavesOthers(revisions[branch[i - 1]], files)
  BY DEF TagsAgree
<1>1. Names(revisions[tags[v]], v) /\ Follows(tags[v])
  BY DEF Labelled
<1>2. v \in DOMAIN images /\ images[v] = tags[v]
  BY DEF TagMatchesImage
<1>3. QED
  BY <1>1, <1>2 DEF Names, Follows

\* What maintainers commit, and what it does to the manifest's version.
LEMMA MaintainDoes ==
    ASSUME IInv, Maintain
    PROVE  \E files \in Files :
             /\ revisions' = Append(revisions, files)
             /\ branch' = Append(branch, Len(revisions) + 1)
             /\ \/ files.manifest = revisions[Tip(branch)].manifest
                \/ Precedes(revisions[Tip(branch)].manifest, files.manifest)
             /\ UNCHANGED <<run, tags, published, releases>>
<1>1. revisions[Tip(branch)] \in Files
  BY TipTyped DEF IInv, RunInStep
<1> DEFINE old == revisions[Tip(branch)]
<1>2. CASE \E manifest \in {old.manifest} \cup {v \in Settable : Precedes(old.manifest, v)} :
           \E pyproject \in {old.pyproject, manifest} :
             revisions' = Append(revisions, [old EXCEPT !.manifest = manifest,
                                                        !.pyproject = pyproject])
  <2>0. PICK manifest \in {old.manifest} \cup {v \in Settable : Precedes(old.manifest, v)} :
          \E pyproject \in {old.pyproject, manifest} :
            revisions' = Append(revisions, [old EXCEPT !.manifest = manifest,
                                                       !.pyproject = pyproject])
    BY <1>2
  <2>1. PICK pyproject \in {old.pyproject, manifest} :
          revisions' = Append(revisions, [old EXCEPT !.manifest = manifest,
                                                     !.pyproject = pyproject])
    BY <2>0
  <2> DEFINE files == [old EXCEPT !.manifest = manifest, !.pyproject = pyproject]
  <2>2. manifest \in Versions /\ pyproject \in Versions
    BY <1>1, <2>0, <2>1, ReleaseAssumption DEF ReleaseAssumption, Files
  <2>3. files \in Files /\ files.manifest = manifest
    BY <1>1, <2>2 DEF Files
  <2> HIDE DEF files
  <2>4. revisions' = Append(revisions, files)
    BY <2>1 DEF files
  <2>5. QED
    BY <2>0, <2>3, <2>4 DEF Maintain
<1>3. CASE \E place \in Places, pin \in Pinnable :
             revisions' = Append(revisions, [old EXCEPT !.pins[place] = pin])
  <2>1. PICK place \in Places, pin \in Pinnable :
          revisions' = Append(revisions, [old EXCEPT !.pins[place] = pin])
    BY <1>3
  <2> DEFINE files == [old EXCEPT !.pins[place] = pin]
  <2>2. pin \in Pins /\ old.pins \in [Places -> Pins]
    BY <1>1, ReleaseAssumption DEF ReleaseAssumption, Pins, Files
  <2>3. files \in Files /\ files.manifest = old.manifest
    BY <1>1, <2>2 DEF Files
  <2> HIDE DEF files
  <2>4. revisions' = Append(revisions, files)
    BY <2>1 DEF files
  <2>5. QED
    BY <2>3, <2>4 DEF Maintain
<1>4. QED
  BY <1>2, <1>3 DEF Maintain

\* A run checks out a revision of the branch and resolves nothing yet.
LEMMA DispatchIInv == ASSUME IInv, Dispatch PROVE IInv'
<1> USE DEF Dispatch, published
<1>1. Tip(branch) \in DOMAIN revisions /\ Tip(branch) \in Nat
  <2>1. Tip(branch) \in DOMAIN revisions
    BY TipTyped DEF IInv, RunInStep
  <2>2. DOMAIN revisions \subseteq Nat
    BY DEF IInv, TypeOK
  <2>3. QED
    BY <2>1, <2>2
<1>2. TypeOK'
  BY <1>1 DEF IInv, TypeOK, Steps
<1>3. target = None /\ request' \in Requests /\ request' # None
  BY ReleaseAssumption DEF ReleaseAssumption, IInv, RunInStep, Steps
<1>4. RunInStep'
  BY <1>1, <1>3 DEF IInv, RunInStep, Steps, OnBranch, Follows
<1>5. Tags'
  BY DEF IInv, Tags, TagMatchesImage, Labelled, Follows, TagsOnBranch
<1>6. ResolvedIsNewer'
  BY <1>3 DEF ResolvedIsNewer
<1>7. LatestBehind'
  BY DEF IInv, LatestBehind, Branched, Tip
<1>8. QED
  BY <1>2, <1>4, <1>5, <1>6, <1>7 DEF IInv

\* From a version that is not before latest, what is beyond comes after latest.
LEMMA BeyondNotBefore ==
    ASSUME NEW l \in Versions, NEW v \in Versions, NEW w \in Versions,
           NotBefore(l, v), Beyond(v, w)
    PROVE  KeyBefore(l, w)
BY DEF Versions, NotBefore, Beyond, KeyBefore, SameKey

\* A version that is newer than one not before latest is not before it either.
LEMMA NewerNotBefore ==
    ASSUME NEW l \in Versions, NEW v \in Versions, NEW w \in Versions,
           NotBefore(l, v), Precedes(v, w)
    PROVE  NotBefore(l, w)
<1>1. Beyond(v, w)
  BY DEF Precedes, Beyond
<1>2. QED
  BY <1>1, BeyondNotBefore DEF NotBefore

\* The conditions on a resolved version make it newer, but for earlier channels
\* and for padded versions.
LEMMA ResolvedIsNewerThan ==
    ASSUME NEW r \in Requests, NEW v \in Versions, CanResolve(r, v)
    PROVE  \/ Precedes(v, Resolved(r, v))
           \/ r.type = "prerelease" /\ ~Stable(v) /\ PartPrecedes(r.preid, v.pre[1])
           \/ ~WellFormed(v)
           \/ ~WellFormed(Resolved(r, v))
<1> SUFFICES ASSUME WellFormed(v), WellFormed(Resolved(r, v)),
                    ~(r.type = "prerelease" /\ ~Stable(v) /\ PartPrecedes(r.preid, v.pre[1]))
             PROVE  Precedes(v, Resolved(r, v))
  OBVIOUS
<1>1. r.type \in Bumps \cup {"custom"} /\ r.preid \in Channels
  BY ReleaseAssumption DEF ReleaseAssumption, Request
<1>2. v \in Proper /\ Resolved(r, v) \in Proper
  BY ResolvedTyped DEF Proper
<1>3. CASE r.type = "custom"
  <2>1. Compare(Resolved(r, v), v) = 1
    BY <1>3 DEF CanResolve, Resolved, IsNewer
  <2>2. QED
    BY <1>2, <2>1, CompareIsPrecedence
<1>4. CASE r.type # "custom"
  <2>1. r.type \in Bumps /\ CanBump(v, r.type)
        /\ Resolved(r, v) = BumpVersion(v, r.type, r.preid)
    BY <1>1, <1>4 DEF CanResolve, Resolved
  <2>2. QED
    BY <1>1, <1>2, <2>1, BumpIsNewer
<1>5. QED
  BY <1>3, <1>4

\* The resolved version is typed, newer, and ahead of a tagged latest.
LEMMA ResolveIInv == ASSUME IInv, Resolve PROVE IInv'
<1> USE DEF Resolve, published
<1> DEFINE current == revisions[base].manifest
<1>1. /\ request \in Requests /\ base \in DOMAIN revisions
      /\ current \in Versions
  <2>1. request \in Requests /\ base \in DOMAIN revisions
    BY DEF IInv, RunInStep
  <2>2. revisions[base] \in Files
    BY <2>1 DEF IInv, TypeOK
  <2>3. QED
    BY <2>1, <2>2 DEF Files
<1>2. CanResolve(request, current) /\ target' = Resolved(request, current)
  OBVIOUS
<1>3. target' \in Versions /\ target' # None /\ Beyond(current, target')
  BY <1>1, <1>2, ResolvedTyped, ReleaseAssumption DEF ReleaseAssumption
<1>4. TypeOK'
  BY <1>3 DEF IInv, TypeOK, Steps
<1>5. RunInStep'
  BY <1>3 DEF IInv, RunInStep, Steps, OnBranch, Follows
<1>6. Tags'
  BY DEF IInv, Tags, TagMatchesImage, Labelled, Follows, TagsOnBranch
<1>7. ResolvedIsNewer'
  BY <1>1, <1>2, ResolvedIsNewerThan DEF ResolvedIsNewer
<1>8. LatestBehind'
  <2>1. latest \in DOMAIN tags => KeyBefore(latest, target')
    <3> SUFFICES ASSUME latest \in DOMAIN tags PROVE KeyBefore(latest, target')
      OBVIOUS
    <3>1. latest \in Versions /\ NotBefore(latest, current)
      BY DEF IInv, TypeOK, LatestBehind
    <3>2. QED
      BY <1>1, <1>3, <3>1, BeyondNotBefore
  <2>2. QED
    BY <2>1 DEF IInv, LatestBehind, Branched, Tip
<1>9. QED
  BY <1>4, <1>5, <1>6, <1>7, <1>8 DEF IInv

\* The new commit carries the files that were written; nothing is published yet.
LEMMA CommitIInv == ASSUME IInv, Commit PROVE IInv'
<1> USE DEF Commit, published
<1> DEFINE files == Written(revisions[base], target)
<1>0. /\ target \in Versions /\ request \in Requests
      /\ base \in DOMAIN revisions /\ revisions[base] \in Files
  BY DEF IInv, RunInStep, TypeOK, Steps
<1>1. files \in Files /\ Names(files, target) /\ LeavesOthers(revisions[base], files)
  BY <1>0, WrittenNames
<1> HIDE DEF files
<1>2. revisions' = Append(revisions, files)
  BY DEF files
<1>3. /\ revisions' \in Seq(Files)
      /\ Len(revisions) \in Nat
      /\ DOMAIN revisions \subseteq DOMAIN revisions'
      /\ commit' \in DOMAIN revisions' /\ revisions'[commit'] = files
      /\ \A i \in DOMAIN revisions : revisions'[i] = revisions[i]
  BY <1>1, <1>2, NewRevision DEF IInv
<1>4. TypeOK'
  <2>1. branch' \in Seq(DOMAIN revisions')
    BY <1>3, SeqMonotonic DEF IInv, TypeOK
  <2>2. commit' \in Nat
    BY <1>3
  <2>3. QED
    BY <1>3, <2>1, <2>2 DEF IInv, TypeOK, Steps
<1>a. Grown
  <2>1. branch \in Seq(Nat)
    BY DEF IInv, TypeOK
  <2>2. QED
    BY <1>3, <2>1 DEF Grown
<1>5. RunInStep'
  <2>1. revisions'[base] = revisions[base]
    BY <1>0, <1>3
  <2>2. LeavesOthers(revisions'[base], revisions'[commit']) /\ Names(revisions'[commit'], target)
    BY <1>1, <1>3, <2>1
  <2>3. QED
    BY <1>0, <1>3, <2>2 DEF IInv, RunInStep, Steps, Free
<1>6. Tags'
  <2>1. Labelled'
    BY <1>a, LabelledStays DEF IInv, Tags
  <2>2. QED
    BY <2>1 DEF IInv, Tags, TagMatchesImage, TagsOnBranch
<1>7. ResolvedIsNewer'
  BY <1>0, <1>3 DEF IInv, ResolvedIsNewer
<1>8. LatestBehind'
  <2>1. revisions'[Tip(branch)'] = revisions[Tip(branch)]
    BY <1>3, TipTyped DEF IInv, RunInStep, Tip
  <2>2. QED
    BY <2>1 DEF IInv, LatestBehind, Branched
<1>9. QED
  BY <1>4, <1>5, <1>6, <1>7, <1>8 DEF IInv

\* The image of the run's version may be replaced: the version is not tagged.
LEMMA PushImageIInv == ASSUME IInv, PushImage PROVE IInv'
<1> USE DEF PushImage, Goto
<1>1. /\ target \in Versions /\ commit \in DOMAIN revisions
      /\ target \notin DOMAIN tags
  BY DEF IInv, RunInStep, TypeOK, Steps
<1>2. /\ DOMAIN images' = DOMAIN images \cup {target}
      /\ images'[target] = commit
      /\ \A v \in DOMAIN images : v # target => images'[v] = images[v]
  BY DEF Put
<1>3. pc' \in {"latest", "branch"} /\ (pc' = "latest" => Stable(target))
  OBVIOUS
<1>4. TypeOK'
  <2>1. \A v \in DOMAIN images' : images'[v] \in DOMAIN revisions
    BY <1>1, <1>2 DEF IInv, TypeOK
  <2>2. QED
    BY <1>1, <1>2, <1>3, <2>1 DEF IInv, TypeOK, Steps
<1>5. RunInStep'
  BY <1>1, <1>2, <1>3 DEF IInv, RunInStep, Steps, OnBranch, Follows
<1>6. Tags'
  <2>1. TagMatchesImage'
    BY <1>1, <1>2 DEF IInv, Tags, TagMatchesImage
  <2>2. QED
    BY <2>1 DEF IInv, Tags, Labelled, Follows, TagsOnBranch
<1>7. ResolvedIsNewer'
  BY DEF IInv, ResolvedIsNewer
<1>8. LatestBehind'
  BY <1>3 DEF IInv, LatestBehind, Branched, Tip
<1>9. QED
  BY <1>4, <1>5, <1>6, <1>7, <1>8 DEF IInv

\* latest moves to a version that is not tagged yet.
LEMMA PushLatestIInv == ASSUME IInv, PushLatest PROVE IInv'
<1> USE DEF PushLatest, Goto
<1>1. /\ target \in Versions /\ target \notin DOMAIN tags /\ Stable(target)
  BY DEF IInv, RunInStep, LatestBehind, TypeOK, Steps
<1>2. TypeOK'
  BY <1>1 DEF IInv, TypeOK, Steps
<1>3. RunInStep'
  BY DEF IInv, RunInStep, Steps, OnBranch, Follows
<1>4. Tags'
  BY DEF IInv, Tags, TagMatchesImage, Labelled, Follows, TagsOnBranch
<1>5. ResolvedIsNewer'
  BY DEF IInv, ResolvedIsNewer
<1>6. LatestBehind'
  BY <1>1 DEF LatestBehind
<1>7. QED
  BY <1>2, <1>3, <1>4, <1>5, <1>6 DEF IInv

\* The commit becomes the tip; it names the run's version, which is ahead of latest.
LEMMA PushBranchIInv == ASSUME IInv, PushBranch PROVE IInv'
<1> USE DEF PushBranch, Goto, published
<1>1. /\ target \in Versions /\ commit \in DOMAIN revisions
      /\ revisions[commit].manifest = target
  BY DEF IInv, RunInStep, TypeOK, Steps, Names
<1>2. /\ branch' \in Seq(DOMAIN revisions) /\ Len(branch') >= 1
      /\ Tip(branch') = commit /\ OnBranch(commit)'
      /\ \A r : OnBranch(r) => OnBranch(r)'
  <2>1. branch \in Seq(DOMAIN revisions) /\ branch' = Append(branch, commit)
    BY DEF IInv, TypeOK
  <2>2. QED
    BY <1>1, <2>1, NewTip
<1>3. TypeOK'
  BY <1>2 DEF IInv, TypeOK, Steps
<1>a. Grown
  <2>1. \A i \in DOMAIN branch : i \in DOMAIN branch' /\ branch'[i] = branch[i]
    BY DEF IInv, TypeOK
  <2>2. branch' \in Seq(Nat)
    BY <1>2 DEF IInv, TypeOK
  <2>3. QED
    BY <2>1, <2>2 DEF Grown
<1>4. RunInStep'
  <2>1. Follows(commit)'
    <3>1. /\ Len(branch) \in Nat /\ Len(branch) >= 1 /\ Tip(branch) = base
          /\ LeavesOthers(revisions[base], revisions[commit])
      BY DEF IInv, RunInStep, TypeOK, FastForward
    <3>2. /\ Len(branch') = Len(branch) + 1 /\ branch'[Len(branch) + 1] = commit
          /\ branch'[Len(branch)] = base
      BY <3>1 DEF IInv, TypeOK, Tip
    <3>3. Len(branch) + 1 \in 2 .. Len(branch') /\ Len(branch) + 1 - 1 = Len(branch)
      BY <3>1, <3>2
    <3>4. QED
      BY <3>1, <3>2, <3>3 DEF Follows
  <2>2. QED
    BY <1>2, <2>1 DEF IInv, RunInStep, Steps
<1>5. Tags'
  <2>1. TagsOnBranch'
    BY <1>2 DEF IInv, Tags, TagsOnBranch, OnBranch
  <2>2. Labelled'
    BY <1>a, LabelledStays DEF IInv, Tags
  <2>3. QED
    BY <2>1, <2>2 DEF IInv, Tags, TagMatchesImage
<1>6. ResolvedIsNewer'
  BY DEF IInv, ResolvedIsNewer
<1>7. LatestBehind'
  <2>1. revisions'[Tip(branch)'].manifest = target
    BY <1>1, <1>2 DEF Tip
  <2>2. latest \in DOMAIN tags => NotBefore(latest, target)
    BY DEF IInv, LatestBehind, NotBefore
  <2>3. Stable(target) => NotBefore(target, target)
    BY DEF NotBefore, SameKey
  <2>4. QED
    BY <2>1, <2>2, <2>3 DEF IInv, LatestBehind, Branched
<1>8. QED
  BY <1>3, <1>4, <1>5, <1>6, <1>7 DEF IInv

\* The tag names the commit the image was built from, which is on the branch.
LEMMA PushTagIInv == ASSUME IInv, PushTag PROVE IInv'
<1> USE DEF PushTag, Goto, published
<1>1. /\ target \in Versions /\ commit \in DOMAIN revisions
      /\ Names(revisions[commit], target) /\ OnBranch(commit)
      /\ target \in DOMAIN images /\ images[target] = commit
  BY DEF IInv, RunInStep, TypeOK, Steps
<1>2. /\ DOMAIN tags' = DOMAIN tags \cup {target}
      /\ tags'[target] = commit
      /\ \A v \in DOMAIN tags : v # target => tags'[v] = tags[v]
  BY DEF Put
<1>3. TypeOK'
  <2>1. \A v \in DOMAIN tags' : tags'[v] \in DOMAIN revisions
    BY <1>1, <1>2 DEF IInv, TypeOK
  <2>2. QED
    BY <1>1, <1>2, <2>1 DEF IInv, TypeOK, Steps
<1>4. RunInStep'
  BY <1>2 DEF IInv, RunInStep, Steps, OnBranch, Follows
<1>5. Tags'
  <2>1. TagMatchesImage'
    BY <1>1, <1>2 DEF IInv, Tags, TagMatchesImage
  <2>2. Labelled'
    <3>1. Follows(commit)
      BY DEF IInv, RunInStep
    <3>2. \A r : Follows(r) => Follows(r)'
      BY DEF Follows
    <3>3. \A v \in DOMAIN tags' : Names(revisions[tags'[v]], v) /\ Follows(tags'[v])
      BY <1>1, <1>2, <3>1 DEF IInv, Tags, Labelled
    <3>4. QED
      BY <3>2, <3>3 DEF Labelled
  <2>3. TagsOnBranch'
    BY <1>1, <1>2 DEF IInv, Tags, TagsOnBranch, OnBranch
  <2>4. QED
    BY <2>1, <2>2, <2>3 DEF Tags
<1>6. ResolvedIsNewer'
  BY DEF IInv, ResolvedIsNewer
<1>7. LatestBehind'
  <2>1. latest \in DOMAIN tags' => Branched(latest)
    BY <1>1, <1>2, ReleaseAssumption DEF ReleaseAssumption, IInv, LatestBehind
  <2>2. QED
    BY <2>1 DEF IInv, LatestBehind, Branched, Tip
<1>8. QED
  BY <1>3, <1>4, <1>5, <1>6, <1>7 DEF IInv

\* A run that ends, announced or failed, leaves what it published.
LEMMA EndsIInv ==
    ASSUME IInv, Ends, UNCHANGED <<revisions, branch, tags, published>>,
           releases' = releases \/ (pc = "announce" /\ releases' = releases \cup {target})
    PROVE  IInv'
<1> USE DEF Ends, published
<1>1. TypeOK'
  <2>1. releases' \subseteq Versions
    BY DEF IInv, RunInStep, TypeOK
  <2>2. QED
    BY <2>1 DEF IInv, TypeOK
<1>2. RunInStep'
  BY DEF IInv, RunInStep, Steps
<1>3. Tags'
  <2>1. releases' \subseteq DOMAIN tags
    BY DEF IInv, RunInStep, Tags, TagMatchesImage
  <2>2. QED
    BY <2>1 DEF IInv, Tags, TagMatchesImage, Labelled, Follows, TagsOnBranch
<1>4. ResolvedIsNewer'
  BY DEF ResolvedIsNewer
<1>5. LatestBehind'
  BY DEF IInv, LatestBehind, Branched, Tip
<1>6. QED
  BY <1>1, <1>2, <1>3, <1>4, <1>5 DEF IInv

\* Maintainers move the tip, never to an older version.
LEMMA MaintainIInv == ASSUME IInv, Maintain PROVE IInv'
<1> USE DEF published, run
<1> DEFINE old == revisions[Tip(branch)].manifest
<1>1. PICK files \in Files :
        /\ revisions' = Append(revisions, files)
        /\ branch' = Append(branch, Len(revisions) + 1)
        /\ files.manifest = old \/ Precedes(old, files.manifest)
        /\ UNCHANGED <<run, tags, published, releases>>
  BY MaintainDoes
<1>2. /\ revisions' \in Seq(Files)
      /\ DOMAIN revisions \subseteq DOMAIN revisions'
      /\ Len(revisions) + 1 \in DOMAIN revisions'
      /\ revisions'[Len(revisions) + 1] = files
      /\ \A i \in DOMAIN revisions : revisions'[i] = revisions[i]
  BY <1>1, NewRevision DEF IInv
<1>3. /\ branch' \in Seq(DOMAIN revisions') /\ Len(branch') >= 1
      /\ Tip(branch') = Len(revisions) + 1
      /\ \A r : OnBranch(r) => OnBranch(r)'
  <2>1. branch \in Seq(DOMAIN revisions')
    BY <1>2, SeqMonotonic DEF IInv, TypeOK
  <2>2. QED
    BY <1>1, <1>2, <2>1, NewTip
<1>4. TypeOK'
  <2>1. /\ \A v \in DOMAIN tags : tags[v] \in DOMAIN revisions'
        /\ \A v \in DOMAIN images : images[v] \in DOMAIN revisions'
    BY <1>2 DEF IInv, TypeOK
  <2>2. QED
    BY <1>1, <1>2, <1>3, <2>1 DEF IInv, TypeOK
<1>a. Grown
  <2>1. \A i \in DOMAIN branch : i \in DOMAIN branch' /\ branch'[i] = branch[i]
    BY <1>1 DEF IInv, TypeOK
  <2>2. branch' \in Seq(Nat)
    BY <1>2, <1>3
  <2>3. QED
    BY <1>2, <2>1, <2>2 DEF Grown
<1>5. RunInStep'
  <2>1. pc \in Steps \ {"resolve", "check"} =>
           commit \in DOMAIN revisions' /\ Names(revisions'[commit], target)
    BY <1>2 DEF IInv, RunInStep
  <2>4. pc \in {"image", "latest", "branch"} =>
           LeavesOthers(revisions'[base], revisions'[commit])
    <3>1. pc \in {"image", "latest", "branch"} =>
            /\ base \in DOMAIN revisions /\ commit \in DOMAIN revisions
            /\ LeavesOthers(revisions[base], revisions[commit])
      BY DEF IInv, RunInStep, Steps
    <3>2. QED
      BY <1>2, <3>1
  <2>5. pc \in {"tag", "announce"} => Follows(commit)'
    <3>1. pc \in {"tag", "announce"} => commit \in DOMAIN revisions /\ Follows(commit)
      BY DEF IInv, RunInStep, Steps
    <3>2. \A r \in DOMAIN revisions : Follows(r) => Follows(r)'
      BY <1>a, FollowsStays DEF IInv
    <3>3. commit' = commit
      BY <1>1
    <3>4. QED
      BY <3>1, <3>2, <3>3 DEF Follows
  <2>2. pc # "idle" => base \in DOMAIN revisions'
    BY <1>2 DEF IInv, RunInStep
  <2>3. pc \in {"tag", "announce"} => OnBranch(commit)'
    BY <1>1, <1>3 DEF IInv, RunInStep
  <2>6. QED
    BY <1>1, <1>3, <2>1, <2>2, <2>3, <2>4, <2>5 DEF IInv, RunInStep
<1>6. Tags'
  <2>1. Labelled'
    BY <1>1, <1>a, LabelledStays DEF IInv, Tags
  <2>2. TagsOnBranch'
    BY <1>1, <1>3 DEF IInv, Tags, TagsOnBranch, OnBranch
  <2>3. QED
    BY <1>1, <2>1, <2>2 DEF IInv, Tags, TagMatchesImage
<1>7. ResolvedIsNewer'
  <2>1. target # None => revisions'[base] = revisions[base]
    BY <1>2 DEF IInv, RunInStep, Steps
  <2>2. QED
    BY <1>1, <2>1 DEF IInv, ResolvedIsNewer
<1>8. LatestBehind'
  <2>1. old \in Versions /\ files.manifest \in Versions
    <3>1. revisions[Tip(branch)] \in Files
      BY TipTyped DEF IInv, RunInStep
    <3>2. QED
      BY <3>1 DEF Files
  <2>2. ASSUME NEW v \in Versions, Branched(v) PROVE NotBefore(v, files.manifest)
    BY <1>1, <2>1, <2>2, NewerNotBefore DEF Branched
  <2>3. revisions'[Tip(branch)'].manifest = files.manifest
    BY <1>2, <1>3 DEF Tip
  <2>4. pc = "resolve" => revisions'[base] = revisions[base]
    BY <1>2 DEF IInv, RunInStep
  <2>5. latest \in DOMAIN tags => NotBefore(latest, files.manifest)
    <3>1. latest \in DOMAIN tags => latest \in Versions /\ Branched(latest)
      BY DEF IInv, TypeOK, LatestBehind
    <3>2. QED
      BY <2>2, <3>1
  <2>6. pc = "tag" /\ Stable(target) => NotBefore(target, files.manifest)
    <3>1. pc = "tag" /\ Stable(target) => target \in Versions /\ Branched(target)
      BY DEF IInv, TypeOK, RunInStep, LatestBehind, Steps
    <3>2. QED
      BY <2>2, <3>1
  <2>7. QED
    BY <1>1, <2>3, <2>4, <2>5, <2>6 DEF IInv, LatestBehind, Branched
<1>9. QED
  BY <1>4, <1>5, <1>6, <1>7, <1>8 DEF IInv

(***************************************************************************)
(* The theorems.                                                           *)
(***************************************************************************)

\* Every step keeps the invariant.
LEMMA StepIInv == IInv /\ [Next]_vars => IInv'
<1> SUFFICES ASSUME IInv, [Next]_vars PROVE IInv'
  OBVIOUS
<1>1. CASE Dispatch
  BY <1>1, DispatchIInv
<1>2. CASE Resolve
  BY <1>2, ResolveIInv
<1>3. CASE Commit
  BY <1>3, CommitIInv
<1>4. CASE PushImage
  BY <1>4, PushImageIInv
<1>5. CASE PushLatest
  BY <1>5, PushLatestIInv
<1>6. CASE PushBranch
  BY <1>6, PushBranchIInv
<1>7. CASE PushTag
  BY <1>7, PushTagIInv
<1>8. CASE CreateRelease
  BY <1>8, EndsIInv DEF CreateRelease
<1>9. CASE StepFails
  BY <1>9, EndsIInv DEF StepFails
<1>10. CASE Maintain
  BY <1>10, MaintainIInv
<1>11. CASE UNCHANGED vars
  BY <1>11 DEF vars, run, published, IInv, TypeOK, RunInStep, Tags, TagMatchesImage,
               Labelled, Follows, TagsOnBranch, OnBranch, ResolvedIsNewer, LatestBehind,
               Branched, Tip
<1>12. QED
  BY <1>1, <1>2, <1>3, <1>4, <1>5, <1>6, <1>7, <1>8, <1>9, <1>10, <1>11 DEF Next

\* The invariant holds throughout.
THEOREM Invariance == Spec => []IInv
<1>1. QED
  BY InitIInv, StepIInv, PTL DEF Spec

\* Every variable of the workflow keeps its type.
THEOREM TypeCorrect == Spec => []TypeOK
<1>1. IInv => TypeOK
  BY DEF IInv
<1>2. QED
  BY <1>1, Invariance, PTL

\* The image of a tagged version is always the one built from the tagged revision.
THEOREM ImagesAreTagged == Spec => []TagMatchesImage
<1>1. IInv => TagMatchesImage
  BY DEF IInv, Tags
<1>2. QED
  BY <1>1, Invariance, PTL

\* Whoever checks out a tag finds its version in both version files; an image its
\* manifest pins from the workflow's repository was built from that revision, and the
\* release has changed no other (release.py:225-290, release.yml:106-110, 208-239).
THEOREM FilesAgreeAtTags == Spec => []TagsAgree
<1>1. IInv => TagsAgree
  BY LabelledAgree DEF IInv, Tags
<1>2. QED
  BY <1>1, Invariance, PTL

\* Tagged revisions are on the default branch.
THEOREM TagsAreOnBranch == Spec => []TagsOnBranch
<1>1. IInv => TagsOnBranch
  BY DEF IInv, Tags
<1>2. QED
  BY <1>1, Invariance, PTL

\* A resolved version is newer, but for earlier channels and padded versions.
THEOREM ResolvedVersionsAreNewer == Spec => []ResolvedIsNewer
<1>1. IInv => ResolvedIsNewer
  BY DEF IInv
<1>2. QED
  BY <1>1, Invariance, PTL

\* latest never moves from a tagged version to an older one.
THEOREM LatestOnlyAdvances == Spec => LatestNeverGoesBack
<1>1. IInv /\ [Next]_vars =>
        [latest' # latest /\ latest \in DOMAIN tags => Precedes(latest, latest')]_latest
  <2> SUFFICES ASSUME IInv, [Next]_vars, latest' # latest, latest \in DOMAIN tags
               PROVE  Precedes(latest, latest')
    OBVIOUS
  <2>1. PushLatest
    BY DEF Next, vars, run, published, Dispatch, Resolve, Commit, PushImage, PushBranch,
           PushTag, CreateRelease, StepFails, Maintain
  <2>2. QED
    BY <2>1 DEF PushLatest, IInv, LatestBehind, Precedes
<1>2. QED
  BY <1>1, Invariance, PTL DEF Spec, LatestNeverGoesBack

(***************************************************************************)
(* What is published under a version stays what it is.                     *)
(***************************************************************************)

\* A version that is tagged keeps its tag, the revision the tag names with all its
\* files, and its image; history and releases only grow.
Unchanged ==
    /\ \A v \in DOMAIN tags :
          /\ v \in DOMAIN tags' /\ tags'[v] = tags[v]
          /\ v \in DOMAIN images' /\ images'[v] = images[v]
    /\ \A i \in DOMAIN revisions : i \in DOMAIN revisions' /\ revisions'[i] = revisions[i]
    /\ \A i \in DOMAIN branch : i \in DOMAIN branch' /\ branch'[i] = branch[i]
    /\ releases \subseteq releases'

\* What is put at one key leaves the others as they are.
LEMMA PutKeeps ==
    ASSUME NEW f, NEW k, NEW x, NEW y \in DOMAIN f, y # k
    PROVE  y \in DOMAIN Put(f, k, x) /\ Put(f, k, x)[y] = f[y]
BY DEF Put

\* What is appended to a list leaves its entries as they are.
LEMMA AppendKeeps ==
    ASSUME NEW S, NEW s \in Seq(S), NEW x, NEW i \in DOMAIN s
    PROVE  i \in DOMAIN Append(s, x) /\ Append(s, x)[i] = s[i]
OBVIOUS

\* A run only pushes under a version that was not tagged, whatever earlier runs that
\* failed have left of it.
LEMMA StepUnchanged == ASSUME IInv, [Next]_vars PROVE Unchanged
<1> USE DEF Unchanged, published
<1>a. /\ DOMAIN tags \subseteq DOMAIN images
      /\ revisions \in Seq(Files) /\ branch \in Seq(DOMAIN revisions)
  BY DEF IInv, Tags, TagMatchesImage, TypeOK
<1>1. CASE UNCHANGED <<tags, images, revisions, branch, releases>>
  BY <1>1, <1>a
<1>2. CASE Commit
  <2>1. revisions' = Append(revisions, Written(revisions[base], target))
        /\ UNCHANGED <<tags, images, branch, releases>>
    BY <1>2 DEF Commit
  <2>2. QED
    BY <1>a, <2>1, AppendKeeps
<1>3. CASE PushImage
  <2>1. target \notin DOMAIN tags
    BY <1>3 DEF PushImage, IInv, RunInStep, Steps
  <2>2. images' = Put(images, target, commit) /\ UNCHANGED <<tags, revisions, branch, releases>>
    BY <1>3 DEF PushImage
  <2>3. QED
    BY <1>a, <2>1, <2>2, PutKeeps
<1>4. CASE PushBranch
  <2>1. branch' = Append(branch, commit) /\ UNCHANGED <<tags, images, revisions, releases>>
    BY <1>4 DEF PushBranch
  <2>2. QED
    BY <1>a, <2>1, AppendKeeps
<1>5. CASE PushTag
  <2>1. target \notin DOMAIN tags
    BY <1>5 DEF PushTag, IInv, RunInStep, Steps
  <2>2. tags' = Put(tags, target, commit) /\ UNCHANGED <<images, revisions, branch, releases>>
    BY <1>5 DEF PushTag
  <2>3. QED
    BY <1>a, <2>1, <2>2, PutKeeps
<1>6. CASE CreateRelease
  BY <1>6, <1>a DEF CreateRelease
<1>7. CASE Maintain
  <2>1. PICK files \in Files :
          /\ revisions' = Append(revisions, files)
          /\ branch' = Append(branch, Len(revisions) + 1)
    BY <1>7, MaintainDoes
  <2>2. UNCHANGED <<tags, images, releases>>
    BY <1>7 DEF Maintain
  <2>3. QED
    BY <1>a, <2>1, <2>2, AppendKeeps
<1>8. CASE Dispatch \/ Resolve \/ PushLatest \/ StepFails \/ UNCHANGED vars
  BY <1>1, <1>8 DEF Dispatch, Resolve, PushLatest, StepFails, vars
<1>9. QED
  BY <1>2, <1>3, <1>4, <1>5, <1>6, <1>7, <1>8 DEF Next

\* A tag, the revision it names and the image under its version never change, whatever
\* failed before and however often a version is tried again; nothing is taken off the
\* branch, and no release disappears (release.yml:128-247).
THEOREM PublishedIsFinal == Spec => [][Unchanged]_vars
<1>1. IInv /\ [Next]_vars => [Unchanged]_vars
  BY StepUnchanged
<1>2. QED
  BY <1>1, Invariance, PTL DEF Spec
=============================================================================
