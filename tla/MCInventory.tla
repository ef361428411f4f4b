---------------------------- MODULE MCInventory ----------------------------
(* Reports of two nodes under either spelling and one or two links, device  *)
(* lists of two devices under every shape, and reports beyond the limits.   *)
EXTENDS Inventory

CONSTANTS i1, i2, a1, n1

MCTexts == {i1, i2, a1, Zero, n1}
MCAddresses == {a1, Zero}

\* The nodes of RawNodes, of fewer texts.
Nodes ==
    {n \in [ieee: {i1, i2, None}, camel: {a1, Zero, OutOfRange, None},
            snake: {a1, Zero, None}, name: {n1, a1, None}] : n \in RawNodes}

Ends == [text: {i1, n1, Zero, None}, address: {a1, Zero, None}]
TooMany == {<<Junk, Junk, Junk>>}

MCNodeLists == {<<m, n>> : m \in Nodes, n \in Nodes} \cup {<<Junk, n>> : n \in Nodes} \cup TooMany
MCLinkLists ==
    {<<[source |-> e, target |-> [text |-> i2, address |-> None]]>> : e \in Ends}
        \cup {<<Junk, [source |-> [text |-> None, address |-> a1], target |-> e]>> : e \in Ends}
        \cup TooMany

Ready(d) == ~d.coordinator /\ d.supported = TRUE /\ d.interview = "successful"
MCDeviceLists ==
    {<<d, e>> : d \in RawDevices \cup {Junk}, e \in {f \in RawDevices : Ready(f)} \cup {Junk}}
=============================================================================
