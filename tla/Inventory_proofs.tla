-------------------------- MODULE Inventory_proofs --------------------------
(***************************************************************************)
(* Every network map, of any size and any texts: the links of an answer    *)
(* join the nodes the report means, and an answer has its type.  Every     *)
(* device list: it is told whole or not at all.                            *)
(***************************************************************************)
EXTENDS Inventory, FiniteSetTheorems, WellFoundedInduction, TLAPS

\* A set of positions that is not empty has a last one.
LEMMA LastPosition ==
    ASSUME NEW n \in Nat, NEW S \in SUBSET (1 .. n), S # {}
    PROVE  /\ Last(S) \in S
           /\ \A k \in S : k <= Last(S)
<1> DEFINE Tails == {i .. n : i \in S}
<1>1. IsWellFoundedOn(StrictSubsetOrdering(Nat), FiniteSubsetsOf(Nat))
  BY FS_StrictSubsetOrderingWellFounded
<1>2. Tails \subseteq FiniteSubsetsOf(Nat) /\ Tails # {}
  <2>1. \A i \in S : IsFiniteSet(i .. n) /\ i .. n \subseteq Nat
    BY FS_Interval
  <2>2. QED
    BY <2>1 DEF FiniteSubsetsOf
<1>3. \E x \in Tails : \A y \in Tails : <<y, x>> \notin StrictSubsetOrdering(Nat)
  <2> HIDE DEF Tails
  <2> QED
    BY <1>1, <1>2, WFMin
<1>4. PICK m \in S : \A k \in S : <<k .. n, m .. n>> \notin StrictSubsetOrdering(Nat)
  BY <1>3
<1>5. ASSUME NEW k \in S PROVE k <= m
  <2> SUFFICES ASSUME m < k PROVE FALSE
    OBVIOUS
  <2>1. k .. n \subseteq m .. n /\ m \in m .. n /\ m \notin k .. n
    OBVIOUS
  <2>2. k .. n \in SUBSET Nat /\ m .. n \in SUBSET Nat /\ k .. n # m .. n
    BY <2>1
  <2>3. <<k .. n, m .. n>> \in StrictSubsetOrdering(Nat)
    BY <2>1, <2>2 DEF StrictSubsetOrdering
  <2>4. QED
    BY <1>4, <2>3
<1>6. QED
  BY <1>5 DEF Last

\* The report of an answered network map: its nodes and links are those of a
\* sequence, and the answer is NetworkMap's.
MapInv ==
    /\ response \in Reports \cup Listings
    /\ outcome \in {"pending", "answered", "refused"}
    /\ Shown => answer = NetworkMap(response) /\ response \in Reports

\* An answered map is the one the code makes of the report.
LEMMA MapInvariance == Spec => []MapInv
<1>1. Init => MapInv
  BY DEF Init, MapInv, Shown
<1>2. MapInv /\ [Next]_vars => MapInv'
  <2> SUFFICES ASSUME MapInv, [Next]_vars PROVE MapInv'
    OBVIOUS
  <2>1. CASE ExtractNetworkMap
    BY <2>1 DEF ExtractNetworkMap, Give, Refuse, MapInv, Shown, MapTopic, Listings
  <2>2. CASE ExtractDevices
    BY <2>2 DEF ExtractDevices, Give, Refuse, MapInv, Shown, MapTopic, Listings
  <2>3. CASE UNCHANGED vars
    BY <2>3 DEF vars, MapInv, Shown, MapTopic
  <2>4. QED
    BY <2>1, <2>2, <2>3 DEF Next
<1>3. QED
  BY <1>1, <1>2, PTL DEF Spec

\* What is read of a node has its type.
LEMMA NodeParts ==
    ASSUME NEW nodes \in Seq(RawNodes \cup {Junk}), NEW i \in Objects(nodes)
    PROVE  /\ nodes[i] \in RawNodes
           /\ i \in 1 .. Len(nodes)
           /\ Address(nodes[i]) \in Maybe(Addresses)
           /\ Id(nodes, i) # None
           /\ Id(nodes, i) \in Texts \cup Made
BY InventoryAssumption
   DEF Objects, RawNodes, Address, Id, Made, Maybe, Numbers, InventoryAssumption

\* A node answers to all that the report knows it by, and to its own id only
\* beside that.
LEMMA KnownByAlias ==
    ASSUME NEW nodes \in Seq(RawNodes \cup {Junk}), NEW i \in Objects(nodes)
    PROVE  /\ KnownBy(nodes[i]) \subseteq Aliases(nodes, i)
           /\ Aliases(nodes, i) \cap Texts \subseteq KnownBy(nodes[i])
BY NodeParts, InventoryAssumption
   DEF KnownBy, Aliases, Id, Name, Address, Read, Reported, ZeroLost, RawNodes, Maybe, Numbers,
       Objects, Made, InventoryAssumption

\* A token that some node is known by is resolved to the id of such a node.
LEMMA ResolvesToKnown ==
    ASSUME NEW nodes \in Seq(RawNodes \cup {Junk}), NEW token \in Texts,
           \E i \in Objects(nodes) : token \in KnownBy(nodes[i])
    PROVE  \E i \in Objects(nodes) :
               token \in KnownBy(nodes[i]) /\ Resolve(nodes, token) = Id(nodes, i)
<1> DEFINE H == Holders(nodes, token)
<1>1. H # {} /\ H \subseteq Objects(nodes)
  BY KnownByAlias DEF Holders
<1>2. Len(nodes) \in Nat /\ H \subseteq 1 .. Len(nodes)
  BY <1>1 DEF Objects
<1>3. Last(H) \in H
  BY <1>1, <1>2, LastPosition
<1>4. token \in KnownBy(nodes[Last(H)])
  BY <1>1, <1>3, KnownByAlias DEF Holders
<1>5. QED
  BY <1>1, <1>3, <1>4 DEF Resolve

\* What an answered map says, spelt out.
LEMMA AnswerParts ==
    ASSUME MapInv, Shown
    PROVE  /\ response.nodes \in Seq(RawNodes \cup {Junk})
           /\ response.links \in Seq(RawLinks \cup {Junk})
           /\ answer.nodes = [i \in Objects(response.nodes) |-> Node(response.nodes, i)]
           /\ DOMAIN answer.links = Drawn(response.links)
           /\ \A j \in DOMAIN answer.links : \A side \in {"source", "target"} :
                  /\ response.links[j] \in RawLinks
                  /\ Token(response.links[j][side]) # None
                  /\ answer.links[j][side] = Resolve(response.nodes, Token(response.links[j][side]))
<1>1. response \in Reports /\ answer = NetworkMap(response)
  BY DEF MapInv
<1>2. /\ response.nodes \in Seq(RawNodes \cup {Junk})
      /\ response.links \in Seq(RawLinks \cup {Junk})
  BY <1>1, InventoryAssumption DEF Reports, InventoryAssumption
<1>3. /\ answer.nodes = [i \in Objects(response.nodes) |-> Node(response.nodes, i)]
      /\ answer.links = [j \in Drawn(response.links) |->
             [source |-> Resolve(response.nodes, Token(response.links[j].source)),
              target |-> Resolve(response.nodes, Token(response.links[j].target))]]
  BY <1>1 DEF NetworkMap
<1>4. \A j \in Drawn(response.links) :
        /\ response.links[j] \in RawLinks
        /\ Token(response.links[j].source) # None /\ Token(response.links[j].target) # None
  BY <1>2 DEF Drawn, Objects
<1>5. QED
  BY <1>2, <1>3, <1>4

\* Whatever a report holds, a link end that says what a listed node is known by is
\* drawn to such a node (zigbee2mqtt_mqtt.py:400-404, 435-439).
THEOREM LinksAreJoined == Spec => []LinksJoinTheirNodes
<1>1. MapInv => LinksJoinTheirNodes
  <2> SUFFICES ASSUME MapInv, Shown,
                      NEW j \in DOMAIN answer.links, NEW side \in {"source", "target"},
                      NEW i \in DOMAIN answer.nodes,
                      Token(response.links[j][side]) \in KnownBy(response.nodes[i])
               PROVE  \E k \in DOMAIN answer.nodes :
                          /\ Token(response.links[j][side]) \in KnownBy(response.nodes[k])
                          /\ answer.links[j][side] = answer.nodes[k].id
    BY DEF LinksJoinTheirNodes
  <2> DEFINE token == Token(response.links[j][side])
  <2>1. i \in Objects(response.nodes) /\ response.nodes[i] \in RawNodes
    BY AnswerParts, NodeParts
  <2>2. token \in Texts
    BY <2>1, InventoryAssumption
       DEF KnownBy, Reported, ZeroLost, RawNodes, Maybe, InventoryAssumption
  <2>3. PICK k \in Objects(response.nodes) :
            token \in KnownBy(response.nodes[k]) /\ Resolve(response.nodes, token) = Id(response.nodes, k)
    <3>1. token \in KnownBy(response.nodes[i]) /\ response.nodes \in Seq(RawNodes \cup {Junk})
      BY AnswerParts
    <3> HIDE DEF token
    <3> QED
      BY <2>1, <2>2, <3>1, ResolvesToKnown
  <2>4. answer.nodes[k].id = Id(response.nodes, k) /\ k \in DOMAIN answer.nodes
    BY AnswerParts DEF Node
  <2>5. QED
    BY <2>3, <2>4, AnswerParts
<1>2. QED
  BY <1>1, MapInvariance, PTL

\* Whatever a report holds, exactly the links both of whose ends say something
\* are drawn (zigbee2mqtt_mqtt.py:408-415).
THEOREM LinksAreDrawn == Spec => []EveryLinkIsDrawn
<1>1. MapInv => EveryLinkIsDrawn
  <2> SUFFICES ASSUME MapInv, Shown
               PROVE  Drawn(response.links) =
                          {j \in Objects(response.links) :
                              \A side \in {"source", "target"} :
                                  \E key \in {"text", "address"} : response.links[j][side][key] # None}
    BY AnswerParts DEF EveryLinkIsDrawn
  <2>1. ASSUME NEW j \in Objects(response.links), NEW side \in {"source", "target"}
        PROVE  Token(response.links[j][side]) # None
                 <=> \E key \in {"text", "address"} : response.links[j][side][key] # None
    BY DEF Token
  <2>2. QED
    BY <2>1 DEF Drawn
<1>2. QED
  BY <1>1, MapInvariance, PTL

\* A list that is answered named all its devices by texts, and the answer is made
\* of the candidates found in it; one that is refused named some other way.
ListInv ==
    /\ response \in Reports \cup Listings
    /\ Listed => /\ response \in Listings
                 /\ answer = Devices(Candidate(response))
                 /\ \A i \in Named(Candidate(response)) : Candidate(response)[i].name = "text"
    /\ outcome = "refused" /\ response.topic = "devices" =>
        \E i \in Named(Candidate(response)) : Candidate(response)[i].name # "text"

\* An answered device list is the one the code makes of the payload.
LEMMA ListInvariance == Spec => []ListInv
<1>1. Init => ListInv
  BY DEF Init, ListInv, Listed
<1>2. ListInv /\ [Next]_vars => ListInv'
  <2> SUFFICES ASSUME ListInv, [Next]_vars PROVE ListInv'
    OBVIOUS
  <2>1. CASE ExtractNetworkMap
    BY <2>1 DEF ExtractNetworkMap, ListInv, Listed
  <2>2. CASE ExtractDevices
    BY <2>2 DEF ExtractDevices, Give, Refuse, ListInv, Listed, Reports
  <2>3. CASE UNCHANGED vars
    BY <2>3 DEF vars, ListInv, Listed
  <2>4. QED
    BY <2>1, <2>2, <2>3 DEF Next
<1>3. QED
  BY <1>1, <1>2, PTL DEF Spec

\* The candidates are those of the payload, or none.
LEMMA CandidateParts ==
    ASSUME NEW l \in Listings
    PROVE  /\ Candidate(l) \in Seq(RawDevices \cup {Junk})
           /\ Candidate(l) = IF InSight(l) THEN l.devices ELSE <<>>
<1>1. l.devices \in Seq(RawDevices \cup {Junk})
  BY InventoryAssumption DEF Listings, InventoryAssumption
<1>2. <<>> \in Seq(RawDevices \cup {Junk})
  OBVIOUS
<1>3. l.place \in Places /\ l.dataIsObject \in BOOLEAN
  BY DEF Listings
<1>4. QED
  BY <1>1, <1>2, <1>3 DEF Candidate, Places, InSight

\* Whatever a payload holds: its devices are told all as they are, or the list is
\* refused for a device the model does not expect (zigbee2mqtt_mqtt.py:346-362).
THEOREM ListsAreWhole == Spec => []DeviceListsAreWhole
<1>1. ListInv => DeviceListsAreWhole
  <2> SUFFICES ASSUME ListInv, response.topic = "devices", InSight(response)
               PROVE  LET named == Named(response.devices)
                      IN  /\ outcome = "answered" =>
                              /\ DOMAIN answer = named
                              /\ \A i \in named : /\ answer[i].device = response.devices[i]
                                                  /\ answer[i].device.name = "text"
                          /\ outcome = "refused" =>
                              \E i \in named : response.devices[i].name = "malformed"
    BY DEF DeviceListsAreWhole, Named
  <2>1. response \in Listings
    BY DEF ListInv, Reports
  <2>2. Candidate(response) = response.devices
    BY <2>1, CandidateParts
  <2>3. ASSUME outcome = "answered"
        PROVE  /\ DOMAIN answer = Named(response.devices)
               /\ \A i \in Named(response.devices) :
                      /\ answer[i].device = response.devices[i]
                      /\ answer[i].device.name = "text"
    <3>1. /\ answer = [i \in Named(response.devices) |->
                          [device |-> response.devices[i], blocked |-> Blocked(response.devices[i])]]
          /\ \A i \in Named(response.devices) : response.devices[i].name = "text"
      BY <2>2, <2>3 DEF ListInv, Listed, Devices
    <3>2. QED
      BY <3>1
  <2>4. ASSUME outcome = "refused"
        PROVE  \E i \in Named(response.devices) : response.devices[i].name = "malformed"
    <3>1. PICK i \in Named(response.devices) : response.devices[i].name # "text"
      BY <2>2, <2>4 DEF ListInv
    <3>2. response.devices[i] \in RawDevices /\ response.devices[i].name # "missing"
      BY <2>1, <2>2, <3>1, CandidateParts DEF Named, Objects
    <3>3. QED
      BY <3>1, <3>2 DEF RawDevices
  <2>5. QED
    BY <2>3, <2>4
<1>2. QED
  BY <1>1, ListInvariance, PTL

\* An answered map has its type for any reports: every node an id, every position
\* one of the report's (bridge_models.py:285-300), and every device that is kept from
\* import a reason.
THEOREM TypeCorrect == Spec => []TypeOK
<1>1. MapInv /\ ListInv => TypeOK
  <2> SUFFICES ASSUME MapInv, ListInv PROVE TypeOK
    OBVIOUS
  <2>1. ASSUME Shown
        PROVE  /\ DOMAIN answer.nodes \subseteq DOMAIN response.nodes
               /\ \A i \in DOMAIN answer.nodes : answer.nodes[i] \in NodeType
               /\ DOMAIN answer.links \subseteq DOMAIN response.links
    <3>1. ASSUME NEW i \in Objects(response.nodes)
          PROVE  Node(response.nodes, i) \in NodeType
      <4>1. response.nodes[i] \in RawNodes
        BY <2>1, AnswerParts, NodeParts
      <4>2. Address(response.nodes[i]) \in Maybe(Addresses) /\ Id(response.nodes, i) \in Texts \cup Made
        BY <2>1, AnswerParts, NodeParts
      <4>3. Name(response.nodes, i) \in Texts \cup Made
        BY <4>1, <4>2 DEF Name, RawNodes, Maybe
      <4>4. QED
        BY <4>1, <4>2, <4>3 DEF Node, NodeType, RawNodes
    <3>2. QED
      BY <2>1, <3>1, AnswerParts DEF Objects, Drawn
  <2>2. ASSUME Listed
        PROVE  /\ DOMAIN answer \subseteq DOMAIN response.devices
               /\ \A i \in DOMAIN answer : answer[i].blocked \in Maybe(Reasons)
    <3> DEFINE found == Candidate(response)
    <3>1. /\ answer = [i \in Named(found) |-> [device |-> found[i], blocked |-> Blocked(found[i])]]
          /\ response \in Listings
      BY <2>2 DEF ListInv, Devices
    <3>2. found = IF InSight(response) THEN response.devices ELSE <<>>
      BY <3>1, CandidateParts
    <3>3. Named(found) \subseteq DOMAIN response.devices
      <4>1. Named(found) \subseteq DOMAIN found
        BY DEF Named, Objects
      <4>2. DOMAIN found \subseteq DOMAIN response.devices
        BY <3>2
      <4>3. QED
        BY <4>1, <4>2
    <3>4. \A i \in Named(found) : Blocked(found[i]) \in Maybe(Reasons)
      BY DEF Blocked, Maybe, Reasons
    <3>5. QED
      BY <3>1, <3>3, <3>4
  <2>3. QED
    BY <2>1, <2>2 DEF MapInv, TypeOK
<1>2. QED
  BY <1>1, MapInvariance, ListInvariance, PTL

=============================================================================
