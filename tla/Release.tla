------------------------------ MODULE Release ------------------------------
(***************************************************************************)
(* The release workflow (.github/workflows/release.yml) around             *)
(* scripts/release.py.  A run checks out the head of the default branch,   *)
(* lets the script resolve a version and write it into the version files,  *)
(* commits and tags in its own clone, pushes the image, and only then      *)
(* pushes the branch and the tag.  Any step may fail; the clone is lost    *)
(* and what was published stays.  The concurrency group lets one run at a  *)
(* time; maintainers push to the branch whenever they like.                *)
(*                                                                         *)
(* A revision is its number; revisions keeps the version files of each,    *)
(* those that were never pushed too.                                       *)
(***************************************************************************)
EXTENDS SemVer, FiniteSets

CONSTANTS
    Start,         \* the version of the first revision
    Requests,      \* what a run may be dispatched with
    Settable,      \* versions maintainers may set by hand
    Pinnable,      \* images maintainers may pin by hand
    Foreign,       \* an image of another repository than the workflow's
    Unversioned,   \* one of the workflow's, by digest or without a tag
    MaxRevisions,  \* bound: revisions ever made
    None

Request == [type: Bumps \cup {"custom"}, preid: Channels,
            custom: Versions \cup {None}, latest: BOOLEAN]

ASSUME ReleaseAssumption ==
    /\ Start \in Versions
    /\ Requests \subseteq Request
    /\ Settable \subseteq Versions
    /\ MaxRevisions \in Nat
    /\ None \notin Versions /\ Foreign \notin Versions /\ Unversioned \notin Versions
    /\ None # Foreign /\ Unversioned \notin {None, Foreign}
    /\ Pinnable \subseteq Versions \cup {None, Foreign, Unversioned}
    /\ None \notin Requests

VARIABLES
    pc,         \* the step the run comes to next; idle without one
    request,    \* what it was dispatched with
    base,       \* the revision it checked out
    target,     \* the version it resolved
    commit,     \* the revision it committed, in its clone
    revisions,  \* the version files of every revision
    branch,     \* the default branch: its revisions, oldest first
    tags,       \* tagged version -> revision, on origin
    images,     \* image tag -> the revision it was built from
    latest,     \* the version behind the image tag latest
    releases    \* versions with a GitHub release

run == <<pc, request, base, target, commit>>
published == <<images, latest>>
vars == <<run, revisions, branch, tags, published, releases>>

\* The images a manifest names: its own, and its container's.  A version stands for
\* that tag of RELEASE_IMAGE, None for an image left out.
Places == {"image", "container"}
Pins == Versions \cup {None, Foreign, Unversioned}
Files == [manifest: Versions, pyproject: Versions, pins: [Places -> Pins]]
Steps == {"resolve", "check", "image", "latest", "branch", "tag", "announce"}

TypeOK ==
    /\ pc \in {"idle"} \cup Steps
    /\ request \in Requests \cup {None}
    /\ base \in Nat
    /\ target \in Versions \cup {None}
    /\ commit \in Nat
    /\ revisions \in Seq(Files)
    /\ branch \in Seq(DOMAIN revisions)
    /\ DOMAIN tags \subseteq Versions /\ \A v \in DOMAIN tags : tags[v] \in DOMAIN revisions
    /\ DOMAIN images \subseteq Versions /\ \A v \in DOMAIN images : images[v] \in DOMAIN revisions
    /\ latest \in Versions \cup {None}
    /\ releases \subseteq Versions

Tip(b) == b[Len(b)]

\* f with x at k.
Put(f, k, x) == [y \in DOMAIN f \cup {k} |-> IF y = k THEN x ELSE f[y]]

Init ==
    /\ pc = "idle" /\ request = None /\ base = 0 /\ target = None /\ commit = 0
    /\ revisions = <<[manifest |-> Start, pyproject |-> Start,
                    pins |-> [place \in Places |-> Start]]>>
    /\ branch = <<1>>
    /\ tags = [v \in {} |-> 0]
    /\ images = [v \in {} |-> 0]
    /\ latest = None
    /\ releases = {}

----------------------------------------------------------------------------
(* scripts/release.py.                                                     *)

\* The script refuses files that name different versions.
FilesAgree(files) == Compare(files.pyproject, files.manifest) = 0

\* resolve_target_version's conditions.
IsNewerUnchecked(version, current) == TRUE
IsNewerSwapped(version, current) == ComparePrereleaseAfter(version, current) = 1
IsNewer(version, current) == Compare(version, current) = 1

CanResolve(r, current) ==
    IF r.type = "custom" THEN r.custom # None /\ IsNewer(r.custom, current)
                         ELSE CanBump(current, r.type)

Resolved(r, current) ==
    IF r.type = "custom" THEN r.custom ELSE BumpVersion(current, r.type, r.preid)

\* image_repository(image) == docker_image, which the workflow sets to RELEASE_IMAGE.
Ours(pin) == pin \notin {None, Foreign}

Pinned(pins, version) == [place \in Places |-> IF Ours(pins[place]) THEN version ELSE pins[place]]

\* Mutants: pyproject.toml given what was only asked for; every image replaced,
\* whoever's it is.
WrittenAsAsked(files, version) ==
    [manifest |-> version, pyproject |-> request.custom, pins |-> Pinned(files.pins, version)]
WrittenPinningAll(files, version) ==
    [manifest |-> version, pyproject |-> version, pins |-> [place \in Places |-> version]]

\* What main writes: the manifest with the images it pins, and pyproject.toml.
Written(files, version) ==
    [manifest |-> version, pyproject |-> version, pins |-> Pinned(files.pins, version)]

----------------------------------------------------------------------------
(* The workflow.                                                           *)

Goto(step) == pc' = step /\ UNCHANGED <<request, base, target, commit>>
Ends == pc' = "idle" /\ request' = None /\ base' = 0 /\ target' = None /\ commit' = 0

Dispatch ==
    /\ pc = "idle"
    /\ request' \in Requests
    /\ pc' = "resolve"
    /\ base' = Tip(branch)
    /\ UNCHANGED <<target, commit, revisions, branch, tags, published, releases>>

\* "Resolve release version" and "Reject latest on prereleases".
Resolve ==
    /\ pc = "resolve"
    /\ LET files == revisions[base] IN
        /\ FilesAgree(files)
        /\ CanResolve(request, files.manifest)
        /\ target' = Resolved(request, files.manifest)
    /\ request.latest => Stable(target')
    /\ pc' = "check"
    /\ UNCHANGED <<request, base, commit, revisions, branch, tags, published, releases>>

\* "Fail if release tag already exists".
FreeUnchecked(version) == TRUE
Free(version) == version \notin DOMAIN tags

\* The tag is free: commit the written files and tag the commit, in the clone.
Commit ==
    /\ pc = "check"
    /\ Free(target)
    /\ Len(revisions) < MaxRevisions
    /\ revisions' = Append(revisions, Written(revisions[base], target))
    /\ commit' = Len(revisions) + 1
    /\ pc' = "image"
    /\ UNCHANGED <<request, base, target, branch, tags, published, releases>>

\* The image of the commit, under the version and then under latest.
PushImage ==
    /\ pc = "image"
    /\ images' = Put(images, target, commit)
    /\ Goto(IF request.latest /\ Stable(target) THEN "latest" ELSE "branch")
    /\ UNCHANGED <<revisions, branch, tags, latest, releases>>

PushLatest ==
    /\ pc = "latest"
    /\ latest' = target
    /\ Goto("branch")
    /\ UNCHANGED <<revisions, branch, tags, images, releases>>

\* A push that is not a fast-forward is refused, which fails the step.
FastForward == Tip(branch) = base

\* The step without "set -e": the tag is pushed although the branch was refused.
PushBranchUnchecked ==
    /\ pc = "branch"
    /\ branch' = IF FastForward THEN Append(branch, commit) ELSE branch
    /\ Goto("tag")
    /\ UNCHANGED <<revisions, tags, published, releases>>

PushBranch ==
    /\ pc = "branch"
    /\ FastForward
    /\ branch' = Append(branch, commit)
    /\ Goto("tag")
    /\ UNCHANGED <<revisions, tags, published, releases>>

PushTag ==
    /\ pc = "tag"
    /\ tags' = Put(tags, target, commit)
    /\ Goto("announce")
    /\ UNCHANGED <<revisions, branch, published, releases>>

CreateRelease ==
    /\ pc = "announce"
    /\ releases' = releases \cup {target}
    /\ Ends
    /\ UNCHANGED <<revisions, branch, tags, published>>

\* A step fails, on a condition of its own or for want of network, registry or
\* token: the steps after it do not run.
StepFails ==
    /\ pc # "idle"
    /\ Ends
    /\ UNCHANGED <<revisions, branch, tags, published, releases>>

\* Maintainers push a commit: one that leaves the version files alone, one that sets
\* a newer version in the manifest, in pyproject.toml too or not yet, or one that
\* pins another image (docs/release.md:8).
Maintain ==
    /\ Len(revisions) < MaxRevisions
    /\ LET files == revisions[Tip(branch)] IN
        \/ \E manifest \in {files.manifest} \cup {v \in Settable : Precedes(files.manifest, v)} :
           \E pyproject \in {files.pyproject, manifest} :
               revisions' = Append(revisions, [files EXCEPT !.manifest = manifest,
                                                            !.pyproject = pyproject])
        \/ \E place \in Places, pin \in Pinnable :
               revisions' = Append(revisions, [files EXCEPT !.pins[place] = pin])
    /\ branch' = Append(branch, Len(revisions) + 1)
    /\ UNCHANGED <<run, tags, published, releases>>

Next == \/ Dispatch \/ Resolve \/ Commit
        \/ PushImage \/ PushLatest \/ PushBranch \/ PushTag \/ CreateRelease
        \/ StepFails \/ Maintain

Spec == Init /\ [][Next]_vars

----------------------------------------------------------------------------
(* Properties.                                                             *)

\* The image of a tagged version is the one built from the tagged revision, and
\* stays so: runs that failed after pushing their image, and what later runs
\* make of the same version, never leave an image that the tag does not name.
\* The same holds of what a GitHub release announces.
TagMatchesImage ==
    /\ DOMAIN tags \subseteq DOMAIN images
    /\ \A v \in DOMAIN tags : images[v] = tags[v]
    /\ releases \subseteq DOMAIN tags

\* A release leaves the images of other repositories to the maintainers.
LeavesOthers(before, after) ==
    \A place \in Places : ~Ours(before.pins[place]) => after.pins[place] = before.pins[place]

\* Who checks out a tag runs what it says: both version files name its version, and
\* an image the manifest pins from the workflow's repository is in the registry and
\* was built from this very revision, whatever version, digest or repository was
\* pinned by hand before and whichever runs failed.  Against the revision before it
\* on the branch the release has changed no image of another repository.
TagsAgree ==
    \A v \in DOMAIN tags :
        LET files == revisions[tags[v]] IN
        /\ files.manifest = v /\ files.pyproject = v
        /\ \A place \in Places : Ours(files.pins[place]) =>
               files.pins[place] \in DOMAIN images /\ images[files.pins[place]] = tags[v]
        /\ \E i \in 2 .. Len(branch) :
               branch[i] = tags[v] /\ LeavesOthers(revisions[branch[i - 1]], files)

\* A tagged revision is on the default branch, although maintainers may have
\* pushed since the run checked it out.
TagsOnBranch ==
    \A v \in DOMAIN tags : \E i \in DOMAIN branch : branch[i] = tags[v]

\* latest never moves from a tagged version to an older one, whatever failed
\* between, whatever newer versions were set by hand, and whichever kind of
\* release was asked for.
LatestNeverGoesBack ==
    [][latest' # latest /\ latest \in DOMAIN tags => Precedes(latest, latest')]_latest

\* What a run resolves is newer, as semantic versioning orders versions, than
\* what it starts from: but for a prerelease of an earlier channel and for
\* versions that semantic versioning does not allow.
ResolvedIsNewer ==
    target # None =>
        LET current == revisions[base].manifest IN
        \/ Precedes(current, target)
        \/ request.type = "prerelease" /\ ~Stable(current) /\ PartPrecedes(request.preid, current.pre[1])
        \/ ~WellFormed(current)
        \/ ~WellFormed(target)

\* "Increment the current version" (release.py:84): a bump leads to a newer version.
BumpIncrements ==
    target # None /\ request.type # "custom" =>
        Precedes(revisions[base].manifest, target)
=============================================================================
