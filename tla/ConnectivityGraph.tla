-------------------------- MODULE ConnectivityGraph --------------------------
(***************************************************************************)
(* How the interface merging turns a list of scanned interfaces into       *)
(* devices.  Heuristics run one after the other over a graph of            *)
(* interfaces; each classifies the pairs it supports and then applies its  *)
(* classifications in the order of a HashMap, that is, in any.  LIKELY     *)
(* links a pair, the FLATTEN classes make one interface of two.  At the    *)
(* end a depth-first search collects the groups of linked interfaces, and  *)
(* each becomes a device.                                                  *)
(*                                                                         *)
(* An interface is its place in the list.  MACs are numbers, IEEE          *)
(* addresses all, so no ZigBee interface is among them.  Names within the  *)
(* tolerated distance are the same name.  The weights of the graph, which  *)
(* nothing reads, are left out.                                            *)
(***************************************************************************)
EXTENDS Integers, Sequences, FiniteSets

CONSTANTS
    N,           \* number of interfaces scanned
    MACs,        \* their addresses
    Names,       \* their names
    HomeMAC,     \* the address of the home access point, a setting
    PhoneWifi,   \* the phone's Wifi address
    PhoneBt      \* the phone's Bluetooth address

ASSUME NAssumption == N \in Nat
ASSUME MACsAssumption == MACs \subseteq Nat
ASSUME OwnAddressesAssumption == HomeMAC # PhoneWifi /\ HomeMAC # PhoneBt /\ PhoneWifi # PhoneBt

Ifaces == 1..N
Types == {"Wifi", "LAN", "Bluetooth"}
NoName == "none"
NoGateway == 0
Strengths == {"LIKELY", "FLATTEN_LEFT", "FLATTEN_RIGHT", "UNDETERMINED"}

\* The stack's order: what is pushed last runs first.
Heuristics == <<"APGatewayInterface", "ThisPhone", "SameMAC", "AdjacentMACs",
                "SimilarInterfaceNames">>

VARIABLES
    type, mac, \* what the scan says of each interface
    gateway,   \* the wired interface with the gateway's IP
    name,      \* the names, which merging two interfaces may fill in
    nodes,     \* the interfaces in the graph
    links,     \* the pairs that are connected
    queue,     \* the heuristics that have not started
    classes,   \* pairs classified and not applied
    groups,    \* the groups collected so far
    visited,   \* _visitedNodes, of the group that is being collected
    calls,     \* the calls of populateNodesConnectedTo that have not returned
    devices    \* the devices of the finished graph

scanVars == <<type, mac, gateway>>
graphVars == <<name, nodes, links>>
searchVars == <<groups, visited, calls>>
vars == <<scanVars, graphVars, queue, classes, searchVars, devices>>

-----------------------------------------------------------------------------
(* The heuristics' classifications of a pair of interfaces l < r           *)

Likely(test) == IF test THEN "LIKELY" ELSE "UNDETERMINED"

\* The gateway's wired interface and the access point's wireless one.
IsAPGateway(g, w) == g = gateway /\ type[w] = "Wifi" /\ mac[w] = HomeMAC
APGatewayInterface(l, r) == Likely(IsAPGateway(l, r) \/ IsAPGateway(r, l))

ThisPhone(l, r) == Likely(<<mac[l], mac[r]>> \in {<<PhoneBt, PhoneWifi>>, <<PhoneWifi, PhoneBt>>})

\* Mutation: the wireless interface is flattened into the wired one.
SameMACSwapped(l, r) ==
    CASE mac[l] # mac[r] -> "UNDETERMINED"
      [] mac[l] = mac[r] /\ type[l] = "LAN" /\ type[r] = "Wifi" -> "FLATTEN_LEFT"
      [] mac[l] = mac[r] /\ type[l] = "Wifi" /\ type[r] = "LAN" -> "FLATTEN_RIGHT"
      [] mac[l] = mac[r] /\ type[l] = type[r] /\ type[l] # "LAN" -> "FLATTEN_LEFT"
      [] OTHER -> "UNDETERMINED"

SameMAC(l, r) ==
    CASE mac[l] # mac[r] -> "UNDETERMINED"
      [] mac[l] = mac[r] /\ type[l] = "Wifi" /\ type[r] = "LAN" -> "FLATTEN_LEFT"
      [] mac[l] = mac[r] /\ type[l] = "LAN" /\ type[r] = "Wifi" -> "FLATTEN_RIGHT"
      [] mac[l] = mac[r] /\ type[l] = type[r] /\ type[l] # "LAN" -> "FLATTEN_LEFT"
      [] OTHER -> "UNDETERMINED"

\* Mutation: equal addresses are not taken to be adjacent.
AdjacentMACsStrict(l, r) == Likely(mac[l] - mac[r] \in {-1, 1})

AdjacentMACs(l, r) == Likely(mac[l] - mac[r] \in -1..1)

SimilarInterfaceNames(l, r) == Likely(name[l] # NoName /\ name[l] = name[r])

\* The types a heuristic supports.
Supported(heuristic) ==
    CASE heuristic = "APGatewayInterface" -> {"Wifi", "LAN"}
      [] heuristic = "ThisPhone" -> {"Wifi", "Bluetooth"}
      [] OTHER -> Types

Classify(heuristic, l, r) ==
    CASE heuristic = "APGatewayInterface" -> APGatewayInterface(l, r)
      [] heuristic = "ThisPhone" -> ThisPhone(l, r)
      [] heuristic = "SameMAC" -> SameMAC(l, r)
      [] heuristic = "AdjacentMACs" -> AdjacentMACs(l, r)
      [] heuristic = "SimilarInterfaceNames" -> SimilarInterfaceNames(l, r)

-----------------------------------------------------------------------------
(* Running a heuristic                                                     *)

\* The pairs of supported interfaces; of each only one order, that of the list.
Pairs(heuristic) ==
    {p \in nodes \X nodes : p[1] < p[2] /\ {type[p[1]], type[p[2]]} \subseteq Supported(heuristic)}

\* The classifications of a heuristic, those that say nothing left out.
StartHeuristic ==
    /\ queue # <<>> /\ classes = {}
    /\ queue' = Tail(queue)
    /\ classes' = {c \in {<<p[1], p[2], Classify(Head(queue), p[1], p[2])>> : p \in Pairs(Head(queue))} :
                     c[3] # "UNDETERMINED"}
    /\ UNCHANGED <<scanVars, graphVars, searchVars, devices>>

\* connect, which does nothing if an interface has left the graph.
Connect(l, r) ==
    /\ links' = IF {l, r} \subseteq nodes THEN links \cup {{l, r}} ELSE links
    /\ UNCHANGED <<name, nodes>>

\* Mutation: what the other knows is not merged in.
FlattenForgets(keep, drop) ==
    /\ nodes' = nodes \ {drop}
    /\ links' = {e \in links : drop \notin e}
    /\ UNCHANGED name

\* Mutation: the interface leaves the graph and its links stay.
FlattenKeepsLinks(keep, drop) ==
    /\ name' = IF name[keep] = NoName THEN [name EXCEPT ![keep] = name[drop]] ELSE name
    /\ nodes' = nodes \ {drop}
    /\ UNCHANGED links

\* keep.merge(drop) and removeInterface(drop), which removes its links, too.
Flatten(keep, drop) ==
    /\ name' = IF name[keep] = NoName THEN [name EXCEPT ![keep] = name[drop]] ELSE name
    /\ nodes' = nodes \ {drop}
    /\ links' = {e \in links : drop \notin e}

\* applyHeuristicClassification for one pair.
ApplyClassification ==
    \E c \in classes :
       /\ classes' = classes \ {c}
       /\ \/ c[3] = "LIKELY" /\ Connect(c[1], c[2])
          \/ c[3] = "FLATTEN_LEFT" /\ Flatten(c[1], c[2])
          \/ c[3] = "FLATTEN_RIGHT" /\ Flatten(c[2], c[1])
       /\ UNCHANGED <<scanVars, queue, searchVars, devices>>

-----------------------------------------------------------------------------
(* The devices of the finished graph                                       *)

\* Mutation: a link is only followed from its first interface.
ConnectedLater(i) == {j \in nodes : {i, j} \in links /\ i < j}

GetDirectlyConnected(i) == {j \in nodes : {i, j} \in links}

\* Lists are in the order of the nodes.
IsFirst(i, S) == i \in S /\ \A j \in S : i <= j

\* The interface whose neighbours are being visited.
Caller == calls[Len(calls)]

Visit(i) ==
    /\ visited' = visited \cup {i}
    /\ calls' = Append(calls, i)
    /\ UNCHANGED <<scanVars, graphVars, queue, classes, groups, devices>>

\* getInterfaceGroups: a group for every node that no group contains.
StartGroup ==
    /\ queue = <<>> /\ classes = {} /\ devices = {}
    /\ calls = <<>>
    /\ \E i \in nodes : IsFirst(i, nodes \ UNION groups) /\ Visit(i)

\* populateNodesConnectedTo goes on with the next interface connected to this one;
\* the call returns at once where it has been before.
VisitNext ==
    /\ calls # <<>>
    /\ \E i \in nodes : IsFirst(i, GetDirectlyConnected(Caller) \ visited) /\ Visit(i)

\* It has been everywhere: it returns, the first call with the group.
Return ==
    /\ calls # <<>>
    /\ GetDirectlyConnected(Caller) \subseteq visited
    /\ calls' = SubSeq(calls, 1, Len(calls) - 1)
    /\ IF Len(calls) = 1
       THEN groups' = groups \cup {visited} /\ visited' = {}
       ELSE UNCHANGED <<groups, visited>>
    /\ UNCHANGED <<scanVars, graphVars, queue, classes, devices>>

\* devicesFromConnectivityGraph makes a device of every group.
FinishMerging ==
    /\ queue = <<>> /\ classes = {} /\ devices = {}
    /\ calls = <<>>
    /\ nodes \subseteq UNION groups
    /\ devices' = groups
    /\ UNCHANGED <<scanVars, graphVars, queue, classes, searchVars>>

\* What the parsers deliver.  Each keeps one interface for a MAC, but the LAN
\* scan one for an IP, and it adds the phone's Wifi, which the Wifi scan may
\* have seen, too.  The phone's own addresses are nobody else's.  No two of
\* these interfaces, and no two after a merge, are equal to Interface.equals.
IsScanResult ==
    /\ \A i, j \in Ifaces : (i # j /\ type[i] = type[j] /\ mac[i] = mac[j]) =>
                            type[i] = "LAN" \/ mac[i] = PhoneWifi
    /\ Cardinality({i \in Ifaces : mac[i] = PhoneWifi}) <= 2
    /\ \A i \in Ifaces : (mac[i] = PhoneWifi => type[i] = "Wifi")
                          /\ (mac[i] = PhoneBt => type[i] = "Bluetooth")

\* At most one wired interface has the gateway's IP.
Init ==
    /\ type \in [Ifaces -> Types]
    /\ mac \in [Ifaces -> MACs]
    /\ IsScanResult
    /\ name \in [Ifaces -> Names \cup {NoName}]
    /\ gateway \in {i \in Ifaces : type[i] = "LAN"} \cup {NoGateway}
    /\ nodes = Ifaces
    /\ links = {}
    /\ queue = Heuristics
    /\ classes = {}
    /\ groups = {} /\ visited = {} /\ calls = <<>>
    /\ devices = {}

Next ==
    \/ StartHeuristic \/ ApplyClassification
    \/ StartGroup \/ VisitNext \/ Return \/ FinishMerging

Spec == Init /\ [][Next]_vars

-----------------------------------------------------------------------------
(* Properties                                                              *)

TypeOK ==
    /\ type \in [Ifaces -> Types]
    /\ mac \in [Ifaces -> MACs]
    /\ gateway \in Ifaces \cup {NoGateway}
    /\ name \in [Ifaces -> Names \cup {NoName}]
    /\ nodes \subseteq Ifaces
    /\ \A e \in links : e \subseteq nodes /\ Cardinality(e) = 2
    /\ Len(queue) <= Len(Heuristics)
    /\ classes \subseteq Ifaces \X Ifaces \X Strengths
    /\ groups \subseteq SUBSET nodes
    /\ visited \subseteq nodes
    /\ calls \in Seq(visited)
    /\ devices \subseteq SUBSET nodes

Merged == devices # {}

\* Closed under links and not empty.
Closed(S) == S # {} /\ \A e \in links : e \cap S # {} => e \subseteq S

\* The devices are the connected components of the graph, whatever the order of
\* the links: every interface is on one device, with all those it is linked to
\* over any chain and no others (InterfaceConnectivityGraph.java:539-606).
DevicesAreComponents ==
    Merged => devices = {S \in SUBSET nodes : Closed(S) /\ \A T \in SUBSET S : Closed(T) => T = S}

\* No address is on two devices.  updateDevices relies on it
\* (AdjacentMACs.java:33-54 and SameMAC.java:35-67 together).
OneDevicePerMAC ==
    Merged => \A i, j \in nodes : mac[i] = mac[j] => \E d \in devices : {i, j} \subseteq d

\* Whatever pairs are flattened in whatever order, at every moment every address has
\* an interface in the graph, every wireless one a wireless one, and every name that
\* was known for an address is still known for it (SameMAC.java:15-22,
\* Interface.java:149-157).
FlatteningLosesNothing ==
    \A i \in Ifaces : \E j \in nodes :
        /\ mac[j] = mac[i]
        /\ type[i] = "Wifi" => type[j] = "Wifi"
        /\ name[i] # NoName => \E k \in nodes : mac[k] = mac[i] /\ name[k] # NoName

=============================================================================
