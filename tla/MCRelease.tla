----------------------------- MODULE MCRelease -----------------------------
(* A history of few revisions with every kind of release: the workflow's  *)
(* choices for a version 0.1.0, its prereleases and its neighbours.        *)
EXTENDS Release

Alpha == Word(1)
Beta == Word(2)
Rc == Word(3)

Bump(type, preid, latestToo) ==
    [type |-> type, preid |-> preid, custom |-> None, latest |-> latestToo]
Custom(version, latestToo) ==
    [type |-> "custom", preid |-> Alpha, custom |-> version, latest |-> latestToo]

FirstVersion == Version(0, 1, 0, <<>>)

AllRequests ==
    {Bump(type, Alpha, TRUE) : type \in {"patch", "minor", "release"}}
    \cup {Bump(type, Alpha, FALSE) : type \in {"patch", "prepatch", "preminor"}}
    \cup {Bump("prerelease", preid, FALSE) : preid \in {Alpha, Rc}}
    \cup {Bump("prerelease", Alpha, TRUE)}
    \cup {Custom(Version(0, 1, 1, <<>>), TRUE),
          Custom(Version(0, 1, 1, <<Beta, Number(2)>>), FALSE)}

\* A prerelease published with its dot-separated numbers padded.
Padded == Version(0, 1, 1, <<Alpha, [Number(1) EXCEPT !.zeros = 1]>>)

ByHand == {Version(0, 2, 0, <<>>), Padded}
PinnedByHand == {Foreign, Unversioned, FirstVersion}
=============================================================================
