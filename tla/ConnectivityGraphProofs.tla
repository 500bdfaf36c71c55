----------------------- MODULE ConnectivityGraphProofs -----------------------
(***************************************************************************)
(* Proofs about ConnectivityGraph, for any number of interfaces and any    *)
(* addresses and names.  Three invariants carry them: what is known of the *)
(* pairs that are to be flattened, which is all about SameMAC; that pairs  *)
(* of one address are linked or about to be, from AdjacentMACs on; and     *)
(* what the depth-first search has visited.                                *)
(***************************************************************************)
EXTENDS ConnectivityGraph, FiniteSetTheorems, SequenceTheorems, TLAPS

-----------------------------------------------------------------------------
(* The inductive invariant                                                 *)

\* Types, with links as pairs and classes in the order of the list.
Kinds == {"APGatewayInterface", "ThisPhone", "SameMAC", "AdjacentMACs",
          "SimilarInterfaceNames"}
QueueOK ==
    /\ queue \in Seq(Kinds)
    /\ Len(queue) <= 5
    /\ \A i \in 1..Len(queue) : queue[i] = Heuristics[(5 - Len(queue)) + i]
LinksOK == \A e \in links : \E i, j \in nodes : i # j /\ e = {i, j}
ClassesOK ==
    \A c \in classes : /\ c \in Ifaces \X Ifaces \X (Strengths \ {"UNDETERMINED"})
                       /\ c[1] < c[2]
GraphOK ==
    /\ type \in [Ifaces -> Types]
    /\ mac \in [Ifaces -> MACs]
    /\ gateway \in Ifaces \cup {NoGateway}
    /\ name \in [Ifaces -> Names \cup {NoName}]
    /\ nodes \subseteq Ifaces
    /\ QueueOK /\ LinksOK /\ ClassesOK

\* The pairs that are to be flattened.
Flattened == {c \in classes : c[3] # "LIKELY"}
Kept(c) == IF c[3] = "FLATTEN_LEFT" THEN c[1] ELSE c[2]
Dropped(c) == IF c[3] = "FLATTEN_LEFT" THEN c[2] ELSE c[1]

\* Only SameMAC flattens, when all interfaces are still there, and an interface that
\* one pair keeps is dropped by none.
FlattenInv ==
    /\ IsScanResult
    /\ Len(queue) >= 3 => nodes = Ifaces
    /\ Len(queue) # 2 => Flattened = {}
    /\ \A c \in Flattened :
           /\ Kept(c) \in nodes /\ type[Kept(c)] = "Wifi"
           /\ mac[Kept(c)] = mac[Dropped(c)]
           /\ \A d \in Flattened : Kept(c) # Dropped(d)

\* An interface that has left the graph has left what is known of it to a wireless
\* one that stays.
HeirInv ==
    \A i \in Ifaces \ nodes : \E k \in nodes :
        /\ mac[k] = mac[i] /\ type[k] = "Wifi"
        /\ name[i] # NoName => name[k] # NoName
        /\ \A c \in Flattened : Dropped(c) # k

\* Once AdjacentMACs has run, interfaces of one address are linked or about to be.
LinkedInv ==
    Len(queue) <= 1 =>
        \A i, j \in nodes : i < j /\ mac[i] = mac[j] =>
            {i, j} \in links \/ <<i, j, "LIKELY">> \in classes

\* What is closed under links and has one of these interfaces has them all.
Together(S) == \A T \in SUBSET nodes : Closed(T) /\ T \cap S # {} => S \subseteq T

\* The search: an interface whose call has returned has no neighbour that was not
\* visited.
Calling(i) == \E n \in 1..Len(calls) : calls[n] = i
SearchInv ==
    /\ calls \in Seq(visited) /\ visited \subseteq nodes
    /\ calls = <<>> <=> visited = {}
    /\ visited # {} \/ groups # {} => queue = <<>> /\ classes = {}
    /\ \A i \in visited : Calling(i) \/ GetDirectlyConnected(i) \subseteq visited
    /\ Together(visited)
    /\ \A g \in groups : g \subseteq nodes /\ Closed(g) /\ Together(g)
    /\ devices # {} => /\ devices = groups /\ nodes \subseteq UNION groups
                       /\ visited = {}

IInv == GraphOK /\ FlattenInv /\ HeirInv /\ LinkedInv /\ SearchInv

-----------------------------------------------------------------------------
(* The heuristics                                                          *)

\* The heuristics by their numbers.
LEMMA HeuristicNames ==
    /\ Heuristics[1] = "APGatewayInterface" /\ Heuristics[2] = "ThisPhone"
    /\ Heuristics[3] = "SameMAC" /\ Heuristics[4] = "AdjacentMACs"
    /\ Heuristics[5] = "SimilarInterfaceNames"
  BY DEF Heuristics

\* The heuristic that starts is known from how many have not.
LEMMA NextHeuristic ==
    ASSUME QueueOK, queue # <<>>, queue' = Tail(queue)
    PROVE  /\ QueueOK'
           /\ Len(queue) \in Nat /\ 1 <= Len(queue) /\ Len(queue) <= 5
           /\ Len(queue') = Len(queue) - 1
           /\ Head(queue) = Heuristics[6 - Len(queue)]
<1>1. /\ queue \in Seq(Kinds) /\ Len(queue) \in Nat
      /\ 1 <= Len(queue) /\ Len(queue) <= 5 /\ Head(queue) = queue[1]
      /\ queue' \in Seq(Kinds) /\ Len(queue') = Len(queue) - 1
      /\ \A i \in 1..Len(queue') : queue'[i] = queue[i + 1]
  <2>1. queue \in Seq(Kinds) /\ Len(queue) \in Nat /\ Len(queue) <= 5
    BY DEF QueueOK
  <2>2. Len(queue) # 0
    BY <2>1
  <2> QED
    BY <2>1, <2>2
<1>2. queue[1] = Heuristics[(5 - Len(queue)) + 1]
  BY <1>1 DEF QueueOK
<1>3. ASSUME NEW i \in 1..Len(queue') PROVE queue'[i] = Heuristics[(5 - Len(queue')) + i]
  <2>1. i + 1 \in 1..Len(queue) /\ (5 - Len(queue)) + (i + 1) = (5 - Len(queue')) + i
    BY <1>1
  <2> QED
    BY <1>1, <2>1 DEF QueueOK
<1> QED
  BY <1>1, <1>2, <1>3 DEF QueueOK

\* SameMAC alone flattens.
LEMMA Classified ==
    ASSUME NEW h \in Kinds, NEW l, NEW r
    PROVE  /\ Classify(h, l, r) \in Strengths
           /\ h # "SameMAC" => Classify(h, l, r) \in {"LIKELY", "UNDETERMINED"}
           /\ h = "SameMAC" => Classify(h, l, r) = SameMAC(l, r)
           /\ h = "AdjacentMACs" => Classify(h, l, r) = AdjacentMACs(l, r)
  BY DEF Classify, APGatewayInterface, ThisPhone, SameMAC, AdjacentMACs, SimilarInterfaceNames,
     Likely, Strengths, Kinds

\* What a heuristic that starts has classified.
LEMMA NewClasses ==
    ASSUME GraphOK, StartHeuristic
    PROVE  /\ Head(queue) \in Kinds
           /\ \A c \in classes' :
                  /\ c[1] \in nodes /\ c[2] \in nodes /\ c[1] < c[2]
                  /\ c = <<c[1], c[2], c[3]>>
                  /\ c[3] = Classify(Head(queue), c[1], c[2])
                  /\ c[3] \in Strengths \ {"UNDETERMINED"}
           /\ \A p \in Pairs(Head(queue)) :
                  Classify(Head(queue), p[1], p[2]) # "UNDETERMINED" =>
                      <<p[1], p[2], Classify(Head(queue), p[1], p[2])>> \in classes'
<1>1. QueueOK /\ queue # <<>> /\ queue' = Tail(queue)
  BY DEF GraphOK, StartHeuristic
<1>2. /\ Len(queue) \in Nat /\ 1 <= Len(queue) /\ Len(queue) <= 5
      /\ Head(queue) = Heuristics[6 - Len(queue)]
  BY <1>1, NextHeuristic
<1>3. Head(queue) \in Kinds
  <2>1. 6 - Len(queue) \in {1, 2, 3, 4, 5}
    BY <1>2
  <2> QED
    BY <1>2, <2>1, HeuristicNames DEF Kinds
<1> DEFINE h == Head(queue)
<1>4. classes' = {c \in {<<p[1], p[2], Classify(h, p[1], p[2])>> : p \in Pairs(h)} :
                      c[3] # "UNDETERMINED"}
  BY DEF StartHeuristic
<1> HIDE DEF h
<1>5. ASSUME NEW c \in classes'
      PROVE  /\ c[1] \in nodes /\ c[2] \in nodes /\ c[1] < c[2]
             /\ c = <<c[1], c[2], c[3]>>
             /\ c[3] = Classify(h, c[1], c[2])
             /\ c[3] # "UNDETERMINED"
  <2>1. PICK p \in Pairs(h) : c = <<p[1], p[2], Classify(h, p[1], p[2])>>
    BY <1>4
  <2>2. p[1] \in nodes /\ p[2] \in nodes /\ p[1] < p[2]
    BY DEF Pairs
  <2> QED
    BY <1>4, <2>1, <2>2
<1>6. ASSUME NEW p \in Pairs(h), Classify(h, p[1], p[2]) # "UNDETERMINED"
      PROVE  <<p[1], p[2], Classify(h, p[1], p[2])>> \in classes'
  BY <1>4, <1>6
<1>7. \A c \in classes' : c[3] \in Strengths
  BY <1>3, <1>5, Classified DEF h
<1> QED
  BY <1>3, <1>5, <1>6, <1>7 DEF h

\* The steps of the search leave the graph alone.
Search == StartGroup \/ VisitNext \/ Return \/ FinishMerging
LEMMA SearchLeaves ==
    ASSUME Search \/ UNCHANGED vars
    PROVE  UNCHANGED <<type, mac, gateway, name, nodes, links, queue, classes>>
  BY DEF Search, StartGroup, VisitNext, Return, FinishMerging, Visit, vars, scanVars, graphVars

\* A step that applies a classification links a pair or flattens it.
Links(c) == c[3] = "LIKELY" /\ Connect(c[1], c[2])
Flattens(c) == c \in Flattened /\ Flatten(Kept(c), Dropped(c))
LEMMA Applied ==
    ASSUME GraphOK, ApplyClassification
    PROVE  \E c \in classes :
              /\ classes' = classes \ {c}
              /\ UNCHANGED <<type, mac, gateway, queue, searchVars, devices>>
              /\ Links(c) \/ Flattens(c)
  BY DEF ApplyClassification, scanVars, Links, Flattens, Flattened, Kept, Dropped

\* What a class names.
LEMMA ClassNames ==
    ASSUME GraphOK, NEW c \in classes
    PROVE  /\ c[1] \in Ifaces /\ c[2] \in Ifaces /\ c[1] < c[2]
           /\ c = <<c[1], c[2], c[3]>>
           /\ c[3] \in {"LIKELY", "FLATTEN_LEFT", "FLATTEN_RIGHT"}
           /\ Kept(c) \in Ifaces /\ Dropped(c) \in Ifaces /\ Kept(c) # Dropped(c)
           /\ {Kept(c), Dropped(c)} = {c[1], c[2]}
<1>1. c \in Ifaces \X Ifaces \X (Strengths \ {"UNDETERMINED"}) /\ c[1] < c[2]
  BY DEF GraphOK, ClassesOK
<1>2. c[1] \in Ifaces /\ c[2] \in Ifaces /\ c[1] # c[2]
  BY <1>1, NAssumption DEF NAssumption, Ifaces
<1> QED
  BY <1>1, <1>2 DEF Strengths, Kept, Dropped

LEMMA GraphStep == GraphOK /\ [Next]_vars => GraphOK'
<1> SUFFICES ASSUME GraphOK, [Next]_vars PROVE GraphOK'
  OBVIOUS
<1>1. CASE StartHeuristic
  <2>1. UNCHANGED <<type, mac, gateway, name, nodes, links>> /\ queue # <<>> /\ queue' = Tail(queue)
    BY <1>1 DEF StartHeuristic, scanVars, graphVars
  <2>2. QueueOK'
    BY <2>1, NextHeuristic DEF GraphOK
  <2>3. ClassesOK'
    BY <1>1, NewClasses DEF ClassesOK, GraphOK
  <2> QED
    BY <2>1, <2>2, <2>3 DEF GraphOK, LinksOK
<1>2. CASE ApplyClassification
  <2>1. PICK c \in classes :
              /\ classes' = classes \ {c}
              /\ UNCHANGED <<type, mac, gateway, queue, searchVars, devices>>
              /\ Links(c) \/ Flattens(c)
    BY <1>2, Applied
  <2>2. ClassesOK' /\ QueueOK'
    BY <2>1 DEF GraphOK, ClassesOK, QueueOK
  <2>3. CASE Links(c)
    <3>1. UNCHANGED <<name, nodes>>
      BY <2>3 DEF Links, Connect
    <3>2. c[1] # c[2]
      BY ClassNames, NAssumption DEF NAssumption, Ifaces
    <3>3. LinksOK'
      BY <2>3, <3>1, <3>2 DEF Links, Connect, LinksOK, GraphOK
    <3> QED
      BY <2>1, <2>2, <3>1, <3>3 DEF GraphOK
  <2>4. CASE Flattens(c)
    <3>1. Kept(c) \in Ifaces /\ Dropped(c) \in Ifaces
      BY ClassNames
    <3>2. name' \in [Ifaces -> Names \cup {NoName}] /\ nodes' \subseteq Ifaces
      BY <2>4, <3>1 DEF Flattens, Flatten, GraphOK
    <3>3. ASSUME NEW e \in links' PROVE \E i, j \in nodes' : i # j /\ e = {i, j}
      <4>1. e \in links /\ Dropped(c) \notin e /\ nodes' = nodes \ {Dropped(c)}
        BY <2>4 DEF Flattens, Flatten
      <4>2. PICK i, j \in nodes : i # j /\ e = {i, j}
        BY <4>1 DEF GraphOK, LinksOK
      <4> QED
        BY <4>1, <4>2
    <3> QED
      BY <2>1, <2>2, <3>2, <3>3 DEF GraphOK, LinksOK
  <2> QED
    BY <2>1, <2>3, <2>4
<1>3. CASE Search \/ UNCHANGED vars
  BY <1>3, SearchLeaves DEF GraphOK, QueueOK, LinksOK, ClassesOK
<1> QED
  BY <1>1, <1>2, <1>3 DEF Next, Search

-----------------------------------------------------------------------------
(* Flattening                                                              *)

\* The phone's Wifi is scanned at most twice.
LEMMA PhoneTwice ==
    ASSUME IsScanResult, NEW i \in Ifaces, NEW j \in Ifaces, NEW k \in Ifaces,
           mac[i] = PhoneWifi, mac[j] = PhoneWifi, mac[k] = PhoneWifi,
           i # j, j # k, i # k
    PROVE  FALSE
<1> DEFINE S == {n \in Ifaces : mac[n] = PhoneWifi}
<1>1. IsFiniteSet(Ifaces)
  BY FS_Interval, NAssumption DEF NAssumption, Ifaces
<1>2. IsFiniteSet(S) /\ {i, j, k} \subseteq S
  BY <1>1, FS_Subset
<1>3. Cardinality({i, j, k}) <= Cardinality(S)
  BY <1>2, FS_Subset
<1>4. Cardinality({i, j, k}) = 3
  <2>1. IsFiniteSet({i}) /\ Cardinality({i}) = 1
    BY FS_Singleton
  <2>2. IsFiniteSet({i} \cup {j}) /\ Cardinality({i} \cup {j}) = 2
    BY <2>1, FS_AddElement
  <2>3. Cardinality(({i} \cup {j}) \cup {k}) = 3
    BY <2>2, FS_AddElement
  <2>4. ({i} \cup {j}) \cup {k} = {i, j, k}
    OBVIOUS
  <2> QED
    BY <2>3, <2>4
<1>5. Cardinality(S) <= 2
  BY DEF IsScanResult
<1>6. Cardinality(S) \in Nat
  BY <1>2, FS_CardinalityType
<1> QED
  BY <1>3, <1>4, <1>5, <1>6

\* SameMAC keeps a wireless interface, and flattens two wireless ones only if they
\* are the phone's.
LEMMA SameMACKeeps ==
    ASSUME GraphOK, IsScanResult, NEW c, c[1] \in Ifaces, c[2] \in Ifaces, c[1] # c[2],
           c[3] = SameMAC(c[1], c[2]), c[3] \in {"FLATTEN_LEFT", "FLATTEN_RIGHT"}
    PROVE  /\ mac[c[1]] = mac[c[2]]
           /\ type[Kept(c)] = "Wifi"
           /\ type[Dropped(c)] = "Wifi" => c[3] = "FLATTEN_LEFT" /\ mac[Kept(c)] = PhoneWifi
<1> DEFINE l == c[1]
           r == c[2]
<1>1. mac[l] = mac[r]
  BY DEF SameMAC
<1>2. \/ type[l] = "Wifi" /\ type[r] = "LAN" /\ c[3] = "FLATTEN_LEFT"
      \/ type[l] = "LAN" /\ type[r] = "Wifi" /\ c[3] = "FLATTEN_RIGHT"
      \/ type[l] = type[r] /\ type[l] # "LAN" /\ c[3] = "FLATTEN_LEFT"
  BY <1>1 DEF SameMAC
<1>3. type[l] = type[r] /\ type[l] # "LAN" => mac[l] = PhoneWifi /\ type[l] = "Wifi"
  BY <1>1 DEF IsScanResult
<1> QED
  BY <1>1, <1>2, <1>3 DEF Kept, Dropped

\* No interface is kept by one pair and dropped by another.
LEMMA KeptStays ==
    ASSUME GraphOK, FlattenInv, StartHeuristic, Head(queue) = "SameMAC",
           NEW c \in Flattened', NEW d \in Flattened'
    PROVE  /\ Kept(c) \in nodes /\ type[Kept(c)] = "Wifi" /\ mac[Kept(c)] = mac[Dropped(c)]
           /\ Kept(c) # Dropped(d)
<1>1. /\ c[1] \in Ifaces /\ c[2] \in Ifaces /\ c[1] < c[2] /\ {c[1], c[2]} \subseteq nodes
      /\ d[1] \in Ifaces /\ d[2] \in Ifaces /\ d[1] < d[2]
      /\ c[3] = SameMAC(c[1], c[2]) /\ c[3] \in {"FLATTEN_LEFT", "FLATTEN_RIGHT"}
      /\ d[3] = SameMAC(d[1], d[2]) /\ d[3] \in {"FLATTEN_LEFT", "FLATTEN_RIGHT"}
  BY NewClasses, Classified DEF Flattened, GraphOK, Strengths
<1>2. c[1] # c[2] /\ d[1] # d[2] /\ ~(c[1] < c[2] /\ c[2] < c[1])
  BY <1>1, NAssumption DEF NAssumption, Ifaces
<1>3. IsScanResult
  BY DEF FlattenInv
<1>4. /\ mac[c[1]] = mac[c[2]] /\ type[Kept(c)] = "Wifi"
      /\ type[Dropped(c)] = "Wifi" => c[3] = "FLATTEN_LEFT" /\ mac[Kept(c)] = PhoneWifi
  BY <1>1, <1>2, <1>3, SameMACKeeps
<1>5. /\ mac[d[1]] = mac[d[2]] /\ type[Kept(d)] = "Wifi"
      /\ type[Dropped(d)] = "Wifi" => d[3] = "FLATTEN_LEFT" /\ mac[Kept(d)] = PhoneWifi
  BY <1>1, <1>2, <1>3, SameMACKeeps
<1>6. Kept(c) \in nodes /\ mac[Kept(c)] = mac[Dropped(c)]
  BY <1>1, <1>4 DEF Kept, Dropped
<1>7. ASSUME Kept(c) = Dropped(d) PROVE FALSE
  <2>1. d[3] = "FLATTEN_LEFT" /\ Kept(d) = d[1] /\ Dropped(d) = d[2]
    BY <1>4, <1>5, <1>7 DEF Kept, Dropped
  <2>2. mac[d[1]] = PhoneWifi /\ mac[d[2]] = PhoneWifi
    BY <1>4, <1>5, <1>7, <2>1
  <2>3. mac[c[1]] = PhoneWifi /\ mac[c[2]] = PhoneWifi /\ d[2] \in {c[1], c[2]}
    BY <1>1, <1>4, <1>7, <2>1, <2>2 DEF Kept
  <2>4. d[1] \in {c[1], c[2]}
    BY <1>1, <1>2, <1>3, <2>2, <2>3, PhoneTwice
  <2>5. c[1] = d[1] /\ c[2] = d[2]
    BY <1>1, <1>2, <2>3, <2>4, NAssumption DEF NAssumption, Ifaces
  <2>6. c[3] = "FLATTEN_LEFT" /\ Kept(c) = c[1]
    BY <1>1, <2>1, <2>5 DEF Kept
  <2> QED
    BY <1>2, <1>7, <2>1, <2>5, <2>6
<1> QED
  BY <1>4, <1>6, <1>7

LEMMA FlattenStep == GraphOK /\ FlattenInv /\ [Next]_vars => FlattenInv'
<1> SUFFICES ASSUME GraphOK, FlattenInv, [Next]_vars PROVE FlattenInv'
  OBVIOUS
<1>1. CASE StartHeuristic
  <2>1. UNCHANGED <<type, mac, nodes>> /\ QueueOK /\ queue # <<>> /\ queue' = Tail(queue)
    BY <1>1 DEF StartHeuristic, scanVars, graphVars, GraphOK
  <2>2. /\ Len(queue) \in Nat /\ 1 <= Len(queue) /\ Len(queue) <= 5
        /\ Len(queue') = Len(queue) - 1
        /\ Head(queue) = Heuristics[6 - Len(queue)]
    BY <2>1, NextHeuristic
  <2>3. IsScanResult' /\ (Len(queue') >= 3 => nodes' = Ifaces)
    BY <2>1, <2>2 DEF FlattenInv, IsScanResult
  <2>4. CASE Head(queue) = "SameMAC"
    <3>1. Len(queue') = 2
      <4>1. 6 - Len(queue) \in {1, 2, 3, 4, 5} /\ (Len(queue') # 2 => 6 - Len(queue) # 3)
        BY <2>2
      <4> QED
        BY <2>2, <2>4, <4>1, HeuristicNames
    <3>2. \A c \in Flattened' :
             /\ Kept(c) \in nodes' /\ type'[Kept(c)] = "Wifi"
             /\ mac'[Kept(c)] = mac'[Dropped(c)]
             /\ \A d \in Flattened' : Kept(c) # Dropped(d)
      BY <1>1, <2>1, <2>4, KeptStays
    <3> QED
      BY <2>3, <3>1, <3>2 DEF FlattenInv, Kept, Dropped
  <2>5. CASE Head(queue) # "SameMAC"
    <3>1. Flattened' = {}
      BY <1>1, <2>5, NewClasses, Classified DEF Flattened
    <3> QED
      BY <2>3, <3>1 DEF FlattenInv
  <2> QED
    BY <2>4, <2>5
<1>2. CASE ApplyClassification
  <2>1. PICK c \in classes :
              /\ classes' = classes \ {c}
              /\ UNCHANGED <<type, mac, gateway, queue, searchVars, devices>>
              /\ Links(c) \/ Flattens(c)
    BY <1>2, Applied
  <2>2. Flattened' \subseteq Flattened /\ IsScanResult'
    BY <2>1 DEF Flattened, FlattenInv, IsScanResult
  <2>3. CASE Links(c)
    <3>1. nodes' = nodes
      BY <2>3 DEF Links, Connect
    <3> QED
      BY <2>1, <2>2, <3>1 DEF FlattenInv, Kept, Dropped
  <2>4. CASE Flattens(c)
    <3>1. c \in Flattened /\ nodes' = nodes \ {Dropped(c)}
      BY <2>4 DEF Flattens, Flatten
    <3>2. Len(queue') = 2
      BY <2>1, <3>1 DEF FlattenInv
    <3>3. \A d \in Flattened' : Kept(d) \in nodes'
      BY <2>2, <3>1 DEF FlattenInv
    <3> QED
      BY <2>1, <2>2, <3>2, <3>3 DEF FlattenInv, Kept, Dropped
  <2> QED
    BY <2>1, <2>3, <2>4
<1>3. CASE Search \/ UNCHANGED vars
  <2>1. UNCHANGED <<type, mac, nodes, queue, classes>>
    BY <1>3, SearchLeaves
  <2>2. IsScanResult' /\ Flattened' = Flattened
    BY <2>1 DEF FlattenInv, IsScanResult, Flattened
  <2> QED
    BY <2>1, <2>2 DEF FlattenInv, Kept, Dropped
<1> QED
  BY <1>1, <1>2, <1>3 DEF Next, Search

\* What an interface knew, its heir knows.
LEMMA HeirStep == GraphOK /\ FlattenInv /\ HeirInv /\ [Next]_vars => HeirInv'
<1> SUFFICES ASSUME GraphOK, FlattenInv, HeirInv, [Next]_vars,
                    NEW i \in Ifaces \ nodes'
             PROVE  \E k \in nodes' :
                       /\ mac'[k] = mac'[i] /\ type'[k] = "Wifi"
                       /\ name'[i] # NoName => name'[k] # NoName
                       /\ \A c \in Flattened' : Dropped(c) # k
  BY DEF HeirInv, Dropped
<1>1. CASE StartHeuristic
  <2>1. UNCHANGED <<type, mac, name, nodes>> /\ QueueOK /\ queue # <<>> /\ queue' = Tail(queue)
    BY <1>1 DEF StartHeuristic, scanVars, graphVars, GraphOK
  <2>2. Len(queue) \in Nat /\ Len(queue') = Len(queue) - 1
    BY <2>1, NextHeuristic
  <2>3. Len(queue') # 2
    BY <2>1, <2>2 DEF FlattenInv
  <2>4. Flattened' = {}
    BY <2>3, FlattenStep DEF FlattenInv
  <2> QED
    BY <2>1, <2>4 DEF HeirInv
<1>2. CASE ApplyClassification
  <2>1. PICK c \in classes :
              /\ classes' = classes \ {c}
              /\ UNCHANGED <<type, mac, gateway, queue, searchVars, devices>>
              /\ Links(c) \/ Flattens(c)
    BY <1>2, Applied
  <2>2. Flattened' \subseteq Flattened
    BY <2>1 DEF Flattened
  <2>3. CASE Links(c)
    <3>1. UNCHANGED <<name, nodes>>
      BY <2>3 DEF Links, Connect
    <3> QED
      BY <2>1, <2>2, <3>1 DEF HeirInv
  <2>4. CASE Flattens(c)
    <3> DEFINE keep == Kept(c)
               drop == Dropped(c)
    <3>1. /\ c \in Flattened /\ nodes' = nodes \ {drop}
          /\ name' = IF name[keep] = NoName THEN [name EXCEPT ![keep] = name[drop]] ELSE name
      BY <2>4 DEF Flattens, Flatten
    <3>2. /\ keep \in nodes /\ keep \in Ifaces /\ drop \in Ifaces /\ keep # drop
          /\ type[keep] = "Wifi" /\ mac[keep] = mac[drop]
          /\ \A d \in Flattened : keep # Dropped(d)
      BY <3>1, ClassNames DEF FlattenInv, Flattened
    <3> HIDE DEF keep, drop
    <3>3. /\ \A n \in Ifaces : n # keep => name'[n] = name[n]
          /\ name[keep] # NoName => name'[keep] = name[keep]
          /\ name[keep] = NoName => name'[keep] = name[drop]
      BY <3>1, <3>2 DEF GraphOK
    <3>4. CASE i = drop
      BY <2>1, <2>2, <3>1, <3>2, <3>3, <3>4
    <3>5. CASE i # drop
      <4>1. i \in Ifaces \ nodes /\ i # keep
        BY <3>1, <3>2, <3>5
      <4>2. PICK k \in nodes :
               /\ mac[k] = mac[i] /\ type[k] = "Wifi"
               /\ name[i] # NoName => name[k] # NoName
               /\ \A d \in Flattened : Dropped(d) # k
        BY <4>1 DEF HeirInv
      <4>3. k \in nodes' /\ k \in Ifaces
        BY <3>1, <4>2 DEF GraphOK, drop
      <4>4. name'[i] # NoName => name'[k] # NoName
        BY <3>3, <4>1, <4>2, <4>3
      <4> QED
        BY <2>1, <2>2, <4>2, <4>3, <4>4
    <3> QED
      BY <3>4, <3>5
  <2> QED
    BY <2>1, <2>3, <2>4
<1>3. CASE Search \/ UNCHANGED vars
  <2>1. UNCHANGED <<type, mac, name, nodes, classes>>
    BY <1>3, SearchLeaves
  <2> QED
    BY <2>1 DEF HeirInv, Flattened
<1> QED
  BY <1>1, <1>2, <1>3 DEF Next, Search

-----------------------------------------------------------------------------
(* Links                                                                   *)

\* Equal addresses are adjacent, and AdjacentMACs supports every type.
LEMMA EqualAreAdjacent ==
    ASSUME GraphOK, StartHeuristic, Head(queue) = "AdjacentMACs",
           NEW i \in nodes, NEW j \in nodes, i < j, mac[i] = mac[j]
    PROVE  <<i, j, "LIKELY">> \in classes'
<1>1. i \in Ifaces /\ j \in Ifaces /\ type[i] \in Types /\ type[j] \in Types
  BY DEF GraphOK
<1>2. <<i, j>> \in Pairs(Head(queue))
  BY <1>1 DEF Pairs, Supported
<1>3. Classify(Head(queue), i, j) = AdjacentMACs(i, j)
  BY Classified DEF Kinds
<1>4. AdjacentMACs(i, j) = "LIKELY"
  <2>1. mac[i] \in Nat
    BY <1>1, MACsAssumption DEF MACsAssumption, GraphOK
  <2>2. mac[i] - mac[j] \in -1..1
    BY <2>1
  <2> QED
    BY <2>2 DEF AdjacentMACs, Likely
<1> QED
  BY <1>2, <1>3, <1>4, NewClasses

LEMMA LinkedStep == GraphOK /\ FlattenInv /\ LinkedInv /\ [Next]_vars => LinkedInv'
<1> SUFFICES ASSUME GraphOK, FlattenInv, LinkedInv, [Next]_vars, Len(queue') <= 1,
                    NEW i \in nodes', NEW j \in nodes', i < j, mac'[i] = mac'[j]
             PROVE  {i, j} \in links' \/ <<i, j, "LIKELY">> \in classes'
  BY DEF LinkedInv
<1>1. CASE StartHeuristic
  <2>1. /\ UNCHANGED <<mac, nodes, links>> /\ QueueOK
        /\ queue # <<>> /\ queue' = Tail(queue) /\ classes = {}
    BY <1>1 DEF StartHeuristic, scanVars, graphVars, GraphOK
  <2>2. /\ Len(queue) \in Nat /\ 1 <= Len(queue) /\ Len(queue') = Len(queue) - 1
        /\ Head(queue) = Heuristics[6 - Len(queue)]
    BY <2>1, NextHeuristic
  <2>3. CASE Len(queue) <= 1
    BY <2>1, <2>3 DEF LinkedInv
  <2>4. CASE Len(queue) > 1
    <3>1. 6 - Len(queue) = 4
      BY <2>2, <2>4
    <3>2. Head(queue) = "AdjacentMACs"
      BY <2>2, <3>1, HeuristicNames
    <3> QED
      BY <1>1, <2>1, <3>2, EqualAreAdjacent
  <2> QED
    BY <2>2, <2>3, <2>4
<1>2. CASE ApplyClassification
  <2>1. PICK c \in classes :
              /\ classes' = classes \ {c}
              /\ UNCHANGED <<type, mac, gateway, queue, searchVars, devices>>
              /\ Links(c) \/ Flattens(c)
    BY <1>2, Applied
  <2>2. Len(queue) <= 1 /\ Len(queue) # 2
    <3>1. Len(queue) \in Nat /\ queue' = queue
      BY <2>1 DEF GraphOK, QueueOK
    <3> QED
      BY <3>1
  <2>3. Links(c)
    BY <2>1, <2>2 DEF FlattenInv, Flattens
  <2>4. nodes' = nodes /\ links \subseteq links'
        /\ ({c[1], c[2]} \subseteq nodes => {c[1], c[2]} \in links')
    BY <2>3 DEF Links, Connect
  <2>5. {i, j} \in links \/ <<i, j, "LIKELY">> \in classes
    BY <2>1, <2>2, <2>4 DEF LinkedInv
  <2>6. CASE c = <<i, j, "LIKELY">>
    BY <2>4, <2>6
  <2>7. CASE c # <<i, j, "LIKELY">>
    BY <2>1, <2>4, <2>5, <2>7
  <2> QED
    BY <2>6, <2>7
<1>3. CASE Search \/ UNCHANGED vars
  BY <1>3, SearchLeaves DEF LinkedInv
<1> QED
  BY <1>1, <1>2, <1>3 DEF Next, Search

-----------------------------------------------------------------------------
(* The search                                                              *)

\* The length of what is left.
LEMMA LessOne ==
    ASSUME NEW n \in Nat, n # 0
    PROVE  n - 1 \in Nat /\ n - 1 \in Int
  OBVIOUS

\* One element more, one element less.
LEMMA CallAdded ==
    ASSUME NEW S, NEW s \in Seq(S), NEW e
    PROVE  /\ Append(s, e) \in Seq(S \cup {e})
           /\ Append(s, e) # <<>>
           /\ Len(Append(s, e)) = Len(s) + 1 /\ Len(s) \in Nat
           /\ Append(s, e)[Len(s) + 1] = e
           /\ \A n \in 1..Len(s) : Append(s, e)[n] = s[n]
  OBVIOUS
LEMMA CallReturned ==
    ASSUME NEW S, NEW s \in Seq(S), s # <<>>, NEW t, t = SubSeq(s, 1, Len(s) - 1)
    PROVE  /\ Len(s) \in Nat \ {0} /\ s[Len(s)] \in S
           /\ t \in Seq(S)
           /\ Len(t) = Len(s) - 1
           /\ t = <<>> <=> Len(s) = 1
           /\ \A n \in 1..Len(t) : t[n] = s[n]
<1>1. Len(s) \in Nat /\ Len(s) # 0
  BY EmptySeq
<1>2. t \in Seq(S) /\ Len(t) = Len(s) - 1 /\ \A n \in 1..Len(t) : t[n] = s[n]
  <2> DEFINE m == Len(s) - 1
  <2>1. m \in Int /\ 1 \in Int /\ m \in Nat
    BY <1>1, LessOne
  <2>2. \A n \in 1..m : s[n] \in S
    BY <1>1
  <2> HIDE DEF m
  <2>3. /\ SubSeq(s, 1, m) \in Seq(S)
        /\ Len(SubSeq(s, 1, m)) = IF 1 <= m THEN (m - 1) + 1 ELSE 0
        /\ \A n \in 1..((m - 1) + 1) : SubSeq(s, 1, m)[n] = s[(1 + n) - 1]
    BY <2>1, <2>2, SubSeqProperties
  <2>4. (m - 1) + 1 = m /\ (~(1 <= m) => m = 0) /\ \A n \in 1..m : (1 + n) - 1 = n
    BY <2>1
  <2>5. t = SubSeq(s, 1, m)
    BY DEF m
  <2>6. Len(t) = m
    BY <2>3, <2>4, <2>5
  <2>7. ASSUME NEW n \in 1..m PROVE t[n] = s[n]
    BY <2>3, <2>4, <2>5
  <2> QED
    BY <2>3, <2>5, <2>6, <2>7 DEF m
<1>3. t = <<>> <=> Len(t) = 0
  BY <1>2, EmptySeq
<1> QED
  BY <1>1, <1>2, <1>3

\* A visit takes the neighbour of an interface that is being visited.
LEMMA VisitStep ==
    ASSUME GraphOK, SearchInv, devices = {}, queue = <<>>, classes = {},
           NEW i \in nodes, Visit(i),
           \/ calls = <<>>
           \/ calls # <<>> /\ {Caller, i} \in links
    PROVE  SearchInv'
<1>1. /\ UNCHANGED <<nodes, links, queue, classes, groups, devices>>
      /\ visited' = visited \cup {i} /\ calls' = Append(calls, i)
  BY DEF Visit, graphVars
<1>2. calls \in Seq(visited) /\ visited \subseteq nodes
  BY DEF SearchInv
<1>3. /\ calls' \in Seq(visited') /\ calls' # <<>>
      /\ Len(calls') = Len(calls) + 1 /\ Len(calls) \in Nat
      /\ calls'[Len(calls) + 1] = i
      /\ \A n \in 1..Len(calls) : calls'[n] = calls[n]
  BY <1>1, <1>2, CallAdded
<1>4. ASSUME NEW j \in visited' PROVE Calling(j)' \/ GetDirectlyConnected(j)' \subseteq visited'
  <2>1. CASE j = i
    BY <1>3, <2>1 DEF Calling
  <2>2. CASE j \in visited /\ Calling(j)
    BY <1>3, <2>2 DEF Calling
  <2>3. CASE j \in visited /\ GetDirectlyConnected(j) \subseteq visited
    BY <1>1, <2>3 DEF GetDirectlyConnected
  <2> QED
    BY <1>1, <2>1, <2>2, <2>3 DEF SearchInv
<1>5. Together(visited')
  <2> SUFFICES ASSUME NEW T \in SUBSET nodes, Closed(T), T \cap visited' # {}
               PROVE  visited' \subseteq T
    BY DEF Together
  <2>1. CASE calls = <<>>
    BY <1>1, <2>1 DEF SearchInv
  <2>2. CASE calls # <<>> /\ {Caller, i} \in links
    <3>1. Caller \in visited
      BY <1>2, <2>2, CallReturned DEF Caller
    <3>2. T \cap {Caller, i} # {} => {Caller, i} \subseteq T
      BY <2>2 DEF Closed
    <3>3. T \cap visited # {} => visited \subseteq T
      BY DEF SearchInv, Together
    <3> QED
      BY <1>1, <3>1, <3>2, <3>3
  <2> QED
    BY <2>1, <2>2
<1>6. /\ Together(visited)'
      /\ \A g \in groups' : g \subseteq nodes' /\ Closed(g)' /\ Together(g)'
  BY <1>1, <1>5 DEF SearchInv, Together, Closed
<1>7. visited' \subseteq nodes' /\ (calls' = <<>> <=> visited' = {})
  BY <1>1, <1>2, <1>3
<1> QED
  BY <1>1, <1>3, <1>4, <1>6, <1>7 DEF SearchInv

LEMMA SearchStep == GraphOK /\ SearchInv /\ [Next]_vars => SearchInv'
<1> SUFFICES ASSUME GraphOK, SearchInv, [Next]_vars PROVE SearchInv'
  OBVIOUS
<1>1. CASE StartHeuristic \/ ApplyClassification
  <2>1. queue # <<>> \/ classes # {}
    BY <1>1 DEF StartHeuristic, ApplyClassification
  <2>2. visited = {} /\ groups = {} /\ calls = <<>> /\ devices = {}
    BY <2>1 DEF SearchInv
  <2>3. UNCHANGED <<visited, groups, calls, devices>>
    BY <1>1 DEF StartHeuristic, ApplyClassification, searchVars
  <2> QED
    BY <2>2, <2>3 DEF SearchInv, Together
<1>2. CASE StartGroup
  <2>1. PICK i \in nodes : Visit(i)
    BY <1>2 DEF StartGroup
  <2> QED
    BY <1>2, <2>1, VisitStep DEF StartGroup
<1>3. CASE VisitNext
  <2>1. PICK i \in nodes : IsFirst(i, GetDirectlyConnected(Caller) \ visited) /\ Visit(i)
    BY <1>3 DEF VisitNext
  <2>2. {Caller, i} \in links
    BY <2>1 DEF IsFirst, GetDirectlyConnected
  <2>3. calls # <<>> /\ visited # {} /\ queue = <<>> /\ classes = {} /\ devices = {}
    BY <1>3 DEF VisitNext, SearchInv
  <2> QED
    BY <2>1, <2>2, <2>3, VisitStep
<1>4. CASE Return
  <2>1. /\ UNCHANGED <<nodes, links, queue, classes, devices>>
        /\ calls # <<>> /\ calls' = SubSeq(calls, 1, Len(calls) - 1)
        /\ GetDirectlyConnected(Caller) \subseteq visited
    BY <1>4 DEF Return, graphVars
  <2>2. /\ calls \in Seq(visited) /\ visited \subseteq nodes
        /\ visited # {} /\ queue = <<>> /\ classes = {} /\ devices = {}
    BY <2>1 DEF SearchInv
  <2>3. /\ Len(calls) \in Nat \ {0} /\ Caller \in visited
        /\ calls' \in Seq(visited) /\ Len(calls') = Len(calls) - 1
        /\ calls' = <<>> <=> Len(calls) = 1
        /\ \A n \in 1..Len(calls') : calls'[n] = calls[n]
    BY <2>1, <2>2, CallReturned DEF Caller
  <2>4. ASSUME NEW i \in visited
        PROVE  Calling(i)' \/ GetDirectlyConnected(i) \subseteq visited
    <3>1. CASE GetDirectlyConnected(i) \subseteq visited
      BY <3>1
    <3>2. CASE Calling(i)
      <4>1. PICK n \in 1..Len(calls) : calls[n] = i
        BY <3>2 DEF Calling
      <4>2. CASE n = Len(calls)
        BY <2>1, <4>1, <4>2 DEF Caller
      <4>3. CASE n # Len(calls)
        <5>1. n \in 1..Len(calls')
          BY <2>3, <4>3
        <5> QED
          BY <2>3, <4>1, <5>1 DEF Calling
      <4> QED
        BY <4>2, <4>3
    <3> QED
      BY <3>1, <3>2 DEF SearchInv
  <2>5. CASE Len(calls) # 1
    <3>1. UNCHANGED <<groups, visited>>
      BY <1>4, <2>5 DEF Return
    <3>2. calls' # <<>>
      BY <2>3, <2>5
    <3>3. \A i \in visited' : Calling(i)' \/ GetDirectlyConnected(i)' \subseteq visited'
      BY <2>1, <2>4, <3>1 DEF GetDirectlyConnected
    <3> QED
      BY <2>1, <2>2, <2>3, <3>1, <3>2, <3>3 DEF SearchInv, Together, Closed
  <2>6. CASE Len(calls) = 1
    <3>1. groups' = groups \cup {visited} /\ visited' = {} /\ calls' = <<>>
      BY <1>4, <2>3, <2>6 DEF Return
    <3>2. \A i \in visited : GetDirectlyConnected(i) \subseteq visited
      <4>1. Len(calls') = 0
        BY <2>3, <2>6
      <4>2. \A i : ~Calling(i)'
        BY <4>1 DEF Calling
      <4> QED
        BY <2>4, <4>2
    <3>3. Closed(visited)
      <4> SUFFICES ASSUME NEW e \in links, e \cap visited # {} PROVE e \subseteq visited
        BY <2>2 DEF Closed
      <4>1. PICK i, j \in nodes : i # j /\ e = {i, j}
        BY DEF GraphOK, LinksOK
      <4>2. e = {j, i}
        BY <4>1
      <4> QED
        BY <3>2, <4>1, <4>2 DEF GetDirectlyConnected
    <3>4. \A g \in groups' : g \subseteq nodes' /\ Closed(g)' /\ Together(g)'
      BY <2>1, <2>2, <3>1, <3>3 DEF SearchInv, Together, Closed
    <3>5. calls' \in Seq(visited') /\ visited' \subseteq nodes'
      BY <3>1
    <3>6. Together(visited)'
      BY <3>1 DEF Together
    <3> QED
      BY <2>1, <2>2, <3>1, <3>4, <3>5, <3>6 DEF SearchInv
  <2> QED
    BY <2>5, <2>6
<1>5. CASE FinishMerging
  <2>1. /\ UNCHANGED <<nodes, links, queue, classes, groups, visited, calls>>
        /\ calls = <<>> /\ nodes \subseteq UNION groups /\ devices' = groups
    BY <1>5 DEF FinishMerging, graphVars, searchVars
  <2> QED
    BY <2>1 DEF SearchInv, Together, Closed, Calling, GetDirectlyConnected
<1>6. CASE UNCHANGED vars
  BY <1>6 DEF vars, graphVars, searchVars, SearchInv, Together, Closed, Calling,
     GetDirectlyConnected
<1> QED
  BY <1>1, <1>2, <1>3, <1>4, <1>5, <1>6 DEF Next

-----------------------------------------------------------------------------
(* The properties                                                          *)

LEMMA InitInv == Init => IInv
<1> SUFFICES ASSUME Init PROVE IInv
  OBVIOUS
<1>1. QueueOK
  <2>1. Heuristics \in Seq(Kinds) /\ Len(Heuristics) = 5
    <3>1. Len(Heuristics) = 5
      BY DEF Heuristics
    <3>2. Heuristics \in Seq(Kinds)
      BY DEF Heuristics, Kinds
    <3> QED
      BY <3>1, <3>2
  <2>2. \A i \in 1..Len(Heuristics) : (5 - Len(Heuristics)) + i = i
    BY <2>1
  <2> QED
    BY <2>1, <2>2 DEF Init, QueueOK
<1>2. GraphOK
  BY <1>1 DEF Init, GraphOK, LinksOK, ClassesOK
<1>3. FlattenInv /\ HeirInv
  BY DEF Init, FlattenInv, HeirInv, Flattened
<1>4. LinkedInv
  BY DEF Init, LinkedInv, Heuristics
<1>5. SearchInv
  BY DEF Init, SearchInv, Together
<1> QED
  BY <1>2, <1>3, <1>4, <1>5 DEF IInv

THEOREM Invariance == Spec => []IInv
<1>1. IInv /\ [Next]_vars => IInv'
  BY GraphStep, FlattenStep, HeirStep, LinkedStep, SearchStep DEF IInv
<1> QED
  BY <1>1, InitInv, PTL DEF Spec

\* The graph, the search and the devices keep their types.
THEOREM TypeCorrect == Spec => []TypeOK
<1>1. IInv => TypeOK
  <2> SUFFICES ASSUME IInv PROVE TypeOK
    OBVIOUS
  <2>1. ASSUME NEW e \in links PROVE e \subseteq nodes /\ Cardinality(e) = 2
    <3>1. PICK i, j \in nodes : i # j /\ e = {i, j}
      BY DEF IInv, GraphOK, LinksOK
    <3>2. IsFiniteSet({i}) /\ Cardinality({i}) = 1
      BY FS_Singleton
    <3>3. Cardinality({i} \cup {j}) = 2
      <4>1. j \notin {i}
        BY <3>1
      <4>2. Cardinality({i} \cup {j}) = Cardinality({i}) + 1
        BY <3>2, <4>1, FS_AddElement
      <4> QED
        BY <3>2, <4>2
    <3>4. {i} \cup {j} = e
      BY <3>1
    <3> QED
      BY <3>1, <3>3, <3>4
  <2>2. Len(queue) <= Len(Heuristics)
    <3>1. Len(Heuristics) = 5
      BY DEF Heuristics
    <3> QED
      BY <3>1 DEF IInv, GraphOK, QueueOK
  <2>3. classes \subseteq Ifaces \X Ifaces \X Strengths
    BY DEF IInv, GraphOK, ClassesOK
  <2>4. /\ groups \subseteq SUBSET nodes /\ devices \subseteq SUBSET nodes
        /\ visited \subseteq nodes /\ calls \in Seq(visited)
    BY DEF IInv, SearchInv
  <2> QED
    BY <2>1, <2>2, <2>3, <2>4 DEF TypeOK, IInv, GraphOK
<1> QED
  BY <1>1, Invariance, PTL

\* The devices are the connected components of the graph
\* (InterfaceConnectivityGraph.devicesFromConnectivityGraph): the search leaves no
\* neighbour of a group outside it and brings in none that a closed set does not have.
THEOREM AreComponents == Spec => []DevicesAreComponents
<1>1. IInv => DevicesAreComponents
  <2> SUFFICES ASSUME IInv, Merged
               PROVE  devices = {S \in SUBSET nodes :
                                   Closed(S) /\ \A T \in SUBSET S : Closed(T) => T = S}
    BY DEF DevicesAreComponents
  <2>1. /\ devices = groups /\ nodes \subseteq UNION groups
        /\ \A g \in groups : g \subseteq nodes /\ Closed(g) /\ Together(g)
    BY DEF IInv, SearchInv, Merged
  <2>2. ASSUME NEW S \in devices, NEW T \in SUBSET S, Closed(T) PROVE T = S
    <3>1. T \in SUBSET nodes /\ T \cap S # {}
      BY <2>1, <2>2 DEF Closed
    <3> QED
      BY <2>1, <2>2, <3>1 DEF Together
  <2>3. ASSUME NEW S \in SUBSET nodes, Closed(S), \A T \in SUBSET S : Closed(T) => T = S
        PROVE  S \in devices
    <3>1. PICK i \in S : i \in nodes
      BY <2>3 DEF Closed
    <3>2. PICK g \in groups : i \in g
      BY <2>1, <3>1
    <3>3. g \subseteq S
      BY <2>1, <2>3, <3>1, <3>2 DEF Together
    <3> QED
      BY <2>1, <2>3, <3>3
  <2> QED
    BY <2>1, <2>2, <2>3
<1> QED
  BY <1>1, Invariance, PTL

\* No address is on two devices (AdjacentMACs.classifyInterfacePair after
\* SameMAC.classifyInterfacePair): equal addresses were linked, and a device has
\* whatever it is linked to.
THEOREM AddressOnOneDevice == Spec => []OneDevicePerMAC
<1>1. IInv => OneDevicePerMAC
  <2> SUFFICES ASSUME IInv, Merged, NEW i \in nodes, NEW j \in nodes, mac[i] = mac[j]
               PROVE  \E d \in devices : {i, j} \subseteq d
    BY DEF OneDevicePerMAC
  <2>1. /\ devices = groups /\ nodes \subseteq UNION groups
        /\ \A g \in groups : Closed(g)
    BY DEF IInv, SearchInv, Merged
  <2>2. PICK g \in groups : i \in g
    BY <2>1
  <2>3. queue = <<>> /\ classes = {}
    BY <2>2 DEF IInv, SearchInv
  <2>4. i \in Nat /\ j \in Nat /\ (i = j \/ i < j \/ j < i)
    BY NAssumption DEF NAssumption, Ifaces, IInv, GraphOK
  <2>5. i # j => {i, j} \in links
    <3>1. Len(queue) <= 1
      BY <2>3
    <3>2. i < j => {i, j} \in links
      BY <2>3, <3>1 DEF IInv, LinkedInv
    <3>3. j < i => {j, i} \in links
      BY <2>3, <3>1 DEF IInv, LinkedInv
    <3>4. {j, i} = {i, j}
      OBVIOUS
    <3> QED
      BY <2>4, <3>2, <3>3, <3>4
  <2>6. j \in g
    BY <2>1, <2>2, <2>5 DEF Closed
  <2> QED
    BY <2>1, <2>2, <2>6
<1> QED
  BY <1>1, Invariance, PTL

\* Flattening loses no address, no wireless interface and no name
\* (SameMAC.classifyInterfacePair, Interface.merge,
\* InterfaceConnectivityGraph.removeInterface): an interface that leaves the graph has
\* an heir that never leaves it.
THEOREM NothingLost == Spec => []FlatteningLosesNothing
<1>1. IInv => FlatteningLosesNothing
  <2> SUFFICES ASSUME IInv, NEW i \in Ifaces
               PROVE  \E j \in nodes :
                         /\ mac[j] = mac[i]
                         /\ type[i] = "Wifi" => type[j] = "Wifi"
                         /\ name[i] # NoName => \E k \in nodes : mac[k] = mac[i] /\ name[k] # NoName
    BY DEF FlatteningLosesNothing
  <2>1. CASE i \in nodes
    BY <2>1
  <2>2. CASE i \notin nodes
    BY <2>2 DEF IInv, HeirInv
  <2> QED
    BY <2>1, <2>2
<1> QED
  BY <1>1, Invariance, PTL

=============================================================================
