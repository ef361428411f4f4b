------------------------------ MODULE MCBridge ------------------------------
(* Sets of requests for TLC: each run takes one of them.                   *)
EXTENDS Bridge, TLC

CONSTANTS c1, c2, p1, p2

O(op, config, path, policy, sup, chk) ==
    [op |-> op, config |-> config, path |-> path, policy |-> policy,
     sup |-> sup, chk |-> chk]

\* Overlapping applies of two configurations, with the supervisor's own routes.
ApplyOrders ==
    {O("apply", c1, p1, pol, "live", "none") : pol \in Policies}
    \cup {O("apply", c2, p1, "changed", "live", "none"),
          O("apply", c1, p1, "changed", "live", "live"),
          O("restart", c1, NoPath, "never", "live", "none"),
          O("start", c1, NoPath, "never", "live", "none"),
          O("stop", c1, NoPath, "never", "live", "none")}

\* Every route, two files, supervisors and checks of every kind.
RouteOrders ==
    {O("render", c2, NoPath, "never", "none", "none"),
     O("write", c2, p2, "never", "none", "none"),
     O("configure", c1, p1, "never", "none", "none"),
     O("check", c1, NoPath, "never", "none", "none"),
     O("check", c1, NoPath, "never", "none", "dry"),
     O("status", c1, NoPath, "never", "live", "none"),
     O("status", c1, NoPath, "never", "dry", "none"),
     O("logs", c1, NoPath, "never", "live", "none"),
     O("logs", c1, NoPath, "never", "invalid", "none"),
     O("restart", c1, NoPath, "never", "live", "none"),
     O("start", c1, NoPath, "never", "live", "none"),
     O("stop", c1, NoPath, "never", "live", "none")}
    \cup {O("apply", c1, p1, "changed", sup, chk) :
            sup \in {"none", "dry"}, chk \in {"live", "bad", "dry"}}
    \cup {O("apply", c2, p1, "always", "live", chk) : chk \in {"live", "bad"}}

\* What the snapshot finding needs: applies that restart and probe.
SnapshotOrders ==
    {O("apply", c, p1, "changed", "live", "live") : c \in {c1, c2}}

Symmetry == Permutations(Requests)
=============================================================================
