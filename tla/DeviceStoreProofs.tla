-------------------------- MODULE DeviceStoreProofs --------------------------
(***************************************************************************)
(* Theorems about DeviceStore for every set of interfaces, any number of   *)
(* scans and of stored lists, and every way in which the scans split the   *)
(* interfaces into devices.                                                *)
(***************************************************************************)
EXTENDS DeviceStore, FiniteSetTheorems, SequenceTheorems, WellFoundedInduction,
        TLAPS

-----------------------------------------------------------------------------
(* The operators the model is built from                                   *)

LEMMA ScannedDeviceType ==
    ASSUME NEW d \in ScannedDevices
    PROVE  d \in Seq(MACs) /\ Elements(d) \subseteq MACs
<1>1. Cardinality(MACs) \in Nat
  BY MACsAssumption, FS_CardinalityType
<1>2. PICK n \in 1..Cardinality(MACs) : d \in [1..n -> MACs]
  BY DEF ScannedDevices
<1>3. n \in Nat
  BY <1>1, <1>2
<1>4. d \in Seq(MACs)
  BY <1>2, <1>3
<1>5. QED BY <1>4, ElementOfSeq DEF Elements

LEMMA ScanType ==
    ASSUME NEW s \in Scans
    PROVE  s \in Seq(ScannedDevices)
<1>1. Cardinality(MACs) \in Nat
  BY MACsAssumption, FS_CardinalityType
<1>2. PICK n \in 0..Cardinality(MACs) : s \in [1..n -> ScannedDevices]
  BY DEF Scans
<1>3. QED BY <1>1, <1>2

\* Every finite set can be listed.
LEMMA SomeOrderLists ==
    ASSUME NEW S, IsFiniteSet(S)
    PROVE  SomeOrder(S) \in Seq(S) /\ Elements(SomeOrder(S)) = S
<1>1. Cardinality(S) \in Nat /\ \E f : f \in [1..Cardinality(S) -> S] /\ \A e \in S : \E i \in 1..Cardinality(S) : f[i] = e
  BY FS_CardinalityType DEF ExistsBijection, Bijection, Injection, Surjection
<1>2. PICK f \in [1..Cardinality(S) -> S] : \A e \in S : \E i \in 1..Cardinality(S) : f[i] = e
  BY <1>1
<1>3. Len(f) = Cardinality(S)
  BY <1>1
<1>4. Elements(f) = S
  BY <1>2, <1>3 DEF Elements
<1>5. SomeOrder(S) \in [1..Cardinality(S) -> S] /\ Elements(SomeOrder(S)) = S
  BY <1>2, <1>4 DEF SomeOrder
<1>6. QED BY <1>1, <1>5

\* A non-empty set of positions has a last one: the sets of later positions are
\* well ordered by inclusion, and the last position is the one with the least.
LEMMA LastPosition ==
    ASSUME NEW n \in Nat, NEW S, S \subseteq 1..n, S # {}
    PROVE  \E i \in S : \A j \in S : j <= i
<1> DEFINE Later(i) == {j \in S : j > i}
           T == {Later(i) : i \in S}
<1>1. IsFiniteSet(S)
  <2>1. IsFiniteSet(1..n)
    BY FS_Interval
  <2>2. QED BY <2>1, FS_Subset
<1>2. T \subseteq FiniteSubsetsOf(S) /\ T # {}
  <2>1. \A i \in S : Later(i) \in SUBSET S
    OBVIOUS
  <2>2. FiniteSubsetsOf(S) = SUBSET S
    BY <1>1, FS_FiniteSubsetsOfFinite
  <2>3. T # {}
    OBVIOUS
  <2>4. T \subseteq SUBSET S
    BY <2>1
  <2>5. QED BY <2>2, <2>3, <2>4
<1>3. PICK least \in T : \A U \in T : <<U, least>> \notin StrictSubsetOrdering(S)
  <2> HIDE DEF T
  <2>1. QED BY <1>2, FS_StrictSubsetOrderingWellFounded, WFMin
<1>4. PICK i \in S : least = Later(i)
  BY <1>3
<1>5. ASSUME NEW j \in S, j > i PROVE FALSE
  <2>1. Later(j) \subseteq Later(i) /\ j \in Later(i) /\ j \notin Later(j)
    <3>1. i \in Nat /\ j \in Nat /\ \A k \in S : k \in Nat
      OBVIOUS
    <3>2. \A k \in S : k > j => k > i
      BY <1>5, <3>1
    <3>3. ~(j > j)
      BY <3>1
    <3>4. QED BY <1>5, <3>2, <3>3
  <2>2. <<Later(j), Later(i)>> \in StrictSubsetOrdering(S)
    BY <2>1 DEF StrictSubsetOrdering
  <2>3. QED BY <1>3, <1>4, <2>2
<1>6. QED BY <1>4, <1>5


\* A merged device knows its mobility when one of its parts does.
LEMMA MergedMobilityKnown ==
    ASSUME ReadOK
    PROVE  /\ MergedMobility \in Mobility
           /\ (\E i \in 1..Len(devsInDB) : devsInDB[i].row.mobile # "UNKNOWN")
                => MergedMobility # "UNKNOWN"
<1> DEFINE says == {i \in 1..Len(devsInDB) : devsInDB[i].row.mobile # "UNKNOWN"}
<1>1. Len(devsInDB) \in Nat /\ \A i \in 1..Len(devsInDB) : devsInDB[i].row.mobile \in Mobility
  <2>1. \A i \in 1..Len(devsInDB) : devsInDB[i] \in Objects
    BY ElementOfSeq DEF ReadOK
  <2>2. QED BY <2>1 DEF ReadOK, Objects, Row
<1>2. MergedMobility = IF says = {} THEN "UNKNOWN"
                       ELSE devsInDB[CHOOSE i \in says : \A j \in says : j <= i].row.mobile
  BY DEF MergedMobility
<1>3. CASE says = {}
  BY <1>2, <1>3 DEF Mobility
<1>4. CASE says # {}
  <2>1. \E i \in says : \A j \in says : j <= i
    BY <1>1, <1>4, LastPosition
  <2> DEFINE last == CHOOSE i \in says : \A j \in says : j <= i
  <2>2. last \in says
    BY <2>1
  <2>3. MergedMobility = devsInDB[last].row.mobile
    BY <1>2, <1>4
  <2>4. QED BY <1>1, <2>2, <2>3
<1>5. QED BY <1>3, <1>4

LEMMA MergedType ==
    ASSUME ReadOK
    PROVE  MergedRow \in Row /\ MergedIfaces \subseteq MACs
<1>1. \A i \in 1..Len(devsInDB) : devsInDB[i] \in Objects
  BY ElementOfSeq DEF ReadOK
<1>2. QED BY <1>1, MergedMobilityKnown DEF MergedRow, MergedIfaces, Row, Objects

-----------------------------------------------------------------------------
(* Type correctness                                                        *)

LEMMA HeadOfTodo ==
    ASSUME ReadOK, todo # <<>>
    PROVE  Head(todo) \in Seq(MACs) /\ Elements(Head(todo)) \subseteq MACs
<1>1. Head(todo) \in ScannedDevices
  BY HeadTailProperties DEF ReadOK
<1>2. QED BY <1>1, ScannedDeviceType

LEMMA NothingType == Nothing \in AnyObject
BY DEF Nothing, Device, AnyObject, None, NewRow, Row, Mobility

LEMMA TypeInit == Init => TypeOK
<1> SUFFICES ASSUME Init PROVE TypeOK
  OBVIOUS
<1>1. \A S : <<>> \in Seq(S)
  OBVIOUS
<1>2. NewRow \in Row
  BY DEF NewRow, Row, Mobility
<1>3. Nothing \in AnyObject
  BY <1>2 DEF Nothing, Device, AnyObject, None
<1>4. TablesOK
  BY DEF Init, TablesOK, Keys, None
<1>5. StoreOK
  BY <1>3 DEF Init, StoreOK, Threads, Fresh
<1>6. ReadOK
  BY <1>1, <1>3 DEF Init, ReadOK, Handling, Updating, Threads
<1>7. ListsOK
  <2>1. /\ newDevices = <<>> /\ response = <<>> /\ shown = <<>> /\ toList = <<>> /\ saving = <<>>
        /\ screen \in Screens /\ scanning = FALSE /\ rescan = FALSE /\ scans = 0 /\ saves = 0
    BY DEF Init, Screens
  <2>2. scans \in 0..MaxScans /\ saves \in 0..MaxSaves
    BY <2>1, BoundsAssumption
  <2>3. QED BY <1>1, <2>1, <2>2 DEF ListsOK
<1>8. HistoryOK
  BY DEF Init, HistoryOK, Blank
<1>9. QED BY <1>4, <1>5, <1>6, <1>7, <1>8 DEF TypeOK

\* Only the end of a device's handling uses a key up.
LEMMA SameKeys ==
    ASSUME UNCHANGED nextKey
    PROVE  UsedKeys' = UsedKeys /\ Objects' = Objects
BY DEF UsedKeys, Objects

\* A generated key stays one; the next key may be among them afterwards.
LEMMA KeysGrow ==
    ASSUME nextKey \in Keys, nextKey' \in {nextKey, nextKey + 1}
    PROVE  /\ nextKey' \in Keys
           /\ UsedKeys \subseteq UsedKeys' /\ (nextKey' = nextKey + 1 => nextKey \in UsedKeys')
           /\ Objects \subseteq Objects'
           /\ Seq(Objects) \subseteq Seq(Objects') /\ Seq(Seq(Objects)) \subseteq Seq(Seq(Objects'))
           /\ Seq(UsedKeys) \subseteq Seq(UsedKeys')
<1>1. nextKey \in Nat /\ nextKey > 0
  BY DEF Keys, None
<1>2. UsedKeys \subseteq UsedKeys' /\ (nextKey' = nextKey + 1 => nextKey \in UsedKeys')
  <2>1. CASE nextKey' = nextKey
    BY <1>1, <2>1 DEF UsedKeys
  <2>2. CASE nextKey' = nextKey + 1
    <3>1. UsedKeys = 1..(nextKey - 1) /\ UsedKeys' = 1..nextKey
      BY <1>1, <2>2 DEF UsedKeys
    <3>2. QED BY <1>1, <3>1
  <2>3. QED BY <2>1, <2>2
<1>3. Objects \subseteq Objects'
  BY <1>2 DEF Objects
<1>4. QED BY <1>1, <1>2, <1>3, SeqMonotonic DEF Keys, None

\* The frame of each part of the type invariant.
LEMMA TablesFrame ==
    ASSUME TablesOK, UNCHANGED tables, FreshKeys \subseteq FreshKeys'
    PROVE  TablesOK'
BY SameKeys DEF TablesOK, tables

LEMMA ListsFrame ==
    ASSUME ListsOK, UNCHANGED <<nextKey, newDevices, response, screenVars, scanVars, threadVars>>
    PROVE  ListsOK'
BY SameKeys DEF ListsOK, screenVars, scanVars, threadVars

LEMMA HistoryFrame ==
    ASSUME HistoryOK, UNCHANGED <<nextKey, history>>
    PROVE  HistoryOK'
BY SameKeys DEF HistoryOK, history

LEMMA TargetType ==
    ASSUME StoreOK, NEW t \in Threads
    PROVE  /\ target[t] \in AnyObject /\ left[t] \subseteq MACs
           /\ target[t].key \in Nat /\ target[t].row \in Row /\ target[t].ifaces \subseteq MACs
BY DEF StoreOK, AnyObject

\* What a thread stores has a key that was generated, or the next one.
LEMMA TargetKey ==
    ASSUME StoreOK, NEW t \in Threads, at[t] \in {"insert", "update", "associate"}
    PROVE  target[t].key \in UsedKeys \/ (t = "main" /\ Fresh /\ target[t].key = nextKey)
BY DEF StoreOK, Threads, Fresh

LEMMA StillToAssociateType ==
    ASSUME StoreOK, NEW t \in Threads, NEW ifaces, ifaces \subseteq MACs,
           at[t] \in {"insert", "update", "associate"}, StillToAssociate(t, ifaces), UNCHANGED nextKey
    PROVE  StoreOK' /\ FreshKeys' = FreshKeys
<1>2. UsedKeys' = UsedKeys /\ Len(devsInDB') = Len(devsInDB)
  BY SameKeys DEF StillToAssociate, readVars
<1>3. left' \in [Threads -> SUBSET MACs]
  BY DEF StillToAssociate, StoreOK
<1>4. CASE t = "saver" /\ ifaces = {}
  <2>1. /\ at' = [at EXCEPT ![t] = "idle"] /\ target' = [target EXCEPT ![t] = Nothing]
    BY <1>4 DEF StillToAssociate, Goto
  <2>2. at'["saver"] = "idle" /\ at'["main"] = at["main"] /\ target'["main"] = target["main"]
    BY <1>4, <2>1 DEF StoreOK, Threads
  <2>3. target' \in [Threads -> AnyObject] /\ at' \in [Threads -> {"idle", "list", "listIfaces", "next",
                                 "key", "row", "ifaces", "delete", "insert", "update", "associate"}]
    BY NothingType, <2>1 DEF StoreOK
  <2>4. Fresh' = Fresh
    BY <1>2, <2>2 DEF Fresh
  <2>5. QED BY <1>2, <1>3, <2>2, <2>3, <2>4 DEF StoreOK, FreshKeys
<1>5. CASE ~(t = "saver" /\ ifaces = {})
  <2>1. /\ at' = [at EXCEPT ![t] = "associate"] /\ target' = target
    BY <1>5 DEF StillToAssociate, Goto
  <2>2. at' \in [Threads -> {"idle", "list", "listIfaces", "next",
                                 "key", "row", "ifaces", "delete", "insert", "update", "associate"}]
    BY <2>1 DEF StoreOK
  <2>3. CASE t = "saver"
    <3>1. at'["saver"] = "associate" /\ at'["main"] = at["main"] /\ at["saver"] # "idle"
      BY <2>1, <2>3 DEF StoreOK, Threads
    <3>2. Fresh' = Fresh
      BY <1>2, <3>1 DEF Fresh
    <3>3. QED BY <1>2, <1>3, <2>1, <2>2, <3>1, <3>2 DEF StoreOK, FreshKeys
  <2>4. CASE t = "main"
    <3>1. at'["main"] = "associate" /\ at'["saver"] = at["saver"]
      BY <2>1, <2>4 DEF StoreOK, Threads
    <3>2. Fresh' = Fresh
      BY <1>2, <2>4, <3>1 DEF Fresh, StoreOK
    <3>3. QED BY <1>2, <1>3, <2>1, <2>2, <3>1, <3>2, <2>4 DEF StoreOK, FreshKeys, Fresh
  <2>5. QED BY <2>3, <2>4 DEF Threads
<1>6. QED BY <1>4, <1>5

LEMMA TypeInsertRow == ASSUME TypeOK, NEW t \in Threads, InsertRow(t) PROVE TypeOK'
<1> USE DEF TypeOK
<1>1. TablesOK'
  <2>1. /\ devices' = [k \in DOMAIN devices \cup {target[t].key} |->
                          IF k = target[t].key THEN target[t].row ELSE devices[k]]
        /\ owner' = owner /\ nextKey' = nextKey
    BY DEF InsertRow
  <2>2. target[t].key \in UsedKeys \cup FreshKeys
    BY TargetKey DEF InsertRow, FreshKeys
  <2>3. target[t].row \in Row
    BY TargetType
  <2>4. FreshKeys' = FreshKeys /\ UsedKeys' = UsedKeys
    BY <2>1, SameKeys, TargetType, StillToAssociateType DEF InsertRow
  <2>5. QED BY <2>1, <2>2, <2>3, <2>4 DEF TablesOK
<1>2. StoreOK' /\ FreshKeys' = FreshKeys
  BY TargetType, StillToAssociateType DEF InsertRow
<1>3. ReadOK'
  BY SameKeys DEF InsertRow, StillToAssociate, TablesOK, StoreOK, ReadOK, Goto, Handling, Updating, readVars, storeVars, loopVars, screenVars, tables, Threads
<1>4. ListsOK'
  BY SameKeys, ListsFrame DEF InsertRow, StillToAssociate, screenVars, scanVars, threadVars, loopVars, tables
<1>5. HistoryOK'
  <2>1. stranded' \subseteq stranded /\ UNCHANGED <<nextKey, before, met>>
    BY DEF InsertRow
  <2>2. QED BY <2>1, SameKeys DEF HistoryOK
<1>6. QED BY <1>1, <1>2, <1>3, <1>4, <1>5

LEMMA TypeUpdateRow == ASSUME TypeOK, NEW t \in Threads, UpdateRow(t) PROVE TypeOK'
<1> USE DEF TypeOK
<1>1. TablesOK'
  <2>1. /\ devices' = [k \in DOMAIN devices |->
                          IF k = target[t].key THEN target[t].row ELSE devices[k]]
        /\ owner' = owner /\ nextKey' = nextKey
    BY DEF UpdateRow
  <2>2. target[t].row \in Row
    BY TargetType
  <2>3. FreshKeys' = FreshKeys /\ UsedKeys' = UsedKeys
    BY <2>1, SameKeys, TargetType, StillToAssociateType DEF UpdateRow
  <2>4. QED BY <2>1, <2>2, <2>3 DEF TablesOK
<1>2. StoreOK' /\ FreshKeys' = FreshKeys
  BY TargetType, StillToAssociateType DEF UpdateRow
<1>3. ReadOK'
  BY SameKeys DEF UpdateRow, StillToAssociate, TablesOK, StoreOK, ReadOK, Goto, Handling, Updating, readVars, storeVars, loopVars, screenVars, tables, Threads
<1>4. ListsOK'
  BY SameKeys, ListsFrame DEF UpdateRow, StillToAssociate, screenVars, scanVars, threadVars, loopVars, tables
<1>5. HistoryOK'
  BY SameKeys, HistoryFrame DEF UpdateRow, StillToAssociate, history, tables
<1>6. QED BY <1>1, <1>2, <1>3, <1>4, <1>5

LEMMA TypeAssociateInterface == ASSUME TypeOK, NEW t \in Threads, AssociateInterface(t) PROVE TypeOK'
<1> USE DEF TypeOK
<1>1. TablesOK'
  <2>1. PICK m \in left[t] : /\ owner' = [owner EXCEPT ![m] = target[t].key]
                             /\ StillToAssociate(t, left[t] \ {m})
    BY DEF AssociateInterface
  <2>2. target[t].key \in UsedKeys \cup FreshKeys
    BY TargetKey DEF AssociateInterface, FreshKeys
  <2>3. left[t] \ {m} \subseteq MACs
    BY TargetType
  <2>4. FreshKeys' = FreshKeys /\ UsedKeys' = UsedKeys
    BY <2>1, <2>3, SameKeys, StillToAssociateType DEF AssociateInterface
  <2>5. UNCHANGED <<devices, nextKey>>
    BY DEF AssociateInterface
  <2>6. QED BY <2>1, <2>2, <2>4, <2>5 DEF TablesOK
<1>2. StoreOK' /\ FreshKeys' = FreshKeys
  <2>1. PICK m \in left[t] : StillToAssociate(t, left[t] \ {m})
    BY DEF AssociateInterface
  <2>2. left[t] \ {m} \subseteq MACs
    BY TargetType
  <2>3. QED BY <2>1, <2>2, StillToAssociateType DEF AssociateInterface
<1>3. ReadOK'
  BY SameKeys DEF AssociateInterface, StillToAssociate, TablesOK, StoreOK, ReadOK, Goto, Handling, Updating, readVars, storeVars, loopVars, screenVars, tables, Threads
<1>4. ListsOK'
  BY SameKeys, ListsFrame DEF AssociateInterface, StillToAssociate, screenVars, scanVars, threadVars, loopVars, tables
<1>5. HistoryOK'
  BY SameKeys, HistoryFrame DEF AssociateInterface, StillToAssociate, history, tables
<1>6. QED BY <1>1, <1>2, <1>3, <1>4, <1>5

LEMMA TypeScanFiltered == ASSUME TypeOK, NEW scan \in Scans, ScanFiltered(scan) PROVE TypeOK'
<1> USE DEF TypeOK
<1>1. TablesOK'
  BY SameKeys DEF ScanFiltered, TablesOK, StoreOK, ReadOK, Fresh, FreshKeys, Goto, tables, Threads
<1>2. StoreOK'
  BY SameKeys DEF ScanFiltered, TablesOK, StoreOK, ReadOK, ListsOK, Fresh, Goto, readVars, storeVars, tables, Threads
<1>3. ReadOK'
  <2>1. todo' \in Seq(ScannedDevices)
    BY ScanType DEF ScanFiltered
  <2>2. at'["main"] = "next"
    BY DEF ScanFiltered, Goto, StoreOK, Threads
  <2>3. QED BY <2>1, <2>2, SameKeys DEF ScanFiltered, ReadOK, Handling, Updating, readVars, tables
<1>4. ListsOK'
  <2>1. UNCHANGED <<nextKey, response, screenVars, scanVars, threadVars>>
    BY DEF ScanFiltered, tables
  <2>2. newDevices' \in Seq(Objects)
    BY DEF ScanFiltered
  <2>3. QED BY <2>1, <2>2, SameKeys DEF ListsOK, screenVars, scanVars, threadVars
<1>5. HistoryOK'
  BY SameKeys, HistoryFrame DEF ScanFiltered, history, tables
<1>6. QED BY <1>1, <1>2, <1>3, <1>4, <1>5

LEMMA TypeBeginDevice == ASSUME TypeOK, BeginDevice PROVE TypeOK'
<1> USE DEF TypeOK
<1>1. TablesOK'
  BY SameKeys DEF BeginDevice, TablesOK, StoreOK, ReadOK, Fresh, FreshKeys, Goto, tables, Threads
<1>2. StoreOK'
  BY SameKeys DEF BeginDevice, TablesOK, StoreOK, ReadOK, ListsOK, Fresh, Goto, readVars, storeVars, tables, Threads
<1>3. ReadOK'
  BY SameKeys DEF BeginDevice, TablesOK, StoreOK, ReadOK, Goto, Handling, Updating, readVars, storeVars, loopVars, screenVars, tables, Threads
<1>4. ListsOK'
  BY SameKeys, ListsFrame DEF BeginDevice, screenVars, scanVars, threadVars, loopVars, tables
<1>5. HistoryOK'
  <2>1. before' = [devices |-> devices, owner |-> owner] /\ UNCHANGED <<nextKey, stranded>>
    BY DEF BeginDevice, tables
  <2>2. met' \subseteq Objects
    BY TargetType DEF BeginDevice, StoreOK, Objects, AnyObject, Threads
  <2>3. FreshKeys = {}
    BY DEF BeginDevice, FreshKeys, Fresh
  <2>4. QED BY <2>1, <2>2, <2>3, SameKeys DEF HistoryOK, TablesOK
<1>6. QED BY <1>1, <1>2, <1>3, <1>4, <1>5

LEMMA TypeReadKey == ASSUME TypeOK, ReadKey PROVE TypeOK'
<1> USE DEF TypeOK
<1>1. TablesOK'
  BY SameKeys DEF ReadKey, TablesOK, StoreOK, ReadOK, Fresh, FreshKeys, Goto, tables, Threads
<1>2. StoreOK'
  BY SameKeys DEF ReadKey, TablesOK, StoreOK, ReadOK, ListsOK, Fresh, Goto, readVars, storeVars, tables, Threads
<1>3. ReadOK'
  <2>1. /\ todo # <<>> /\ index \in Nat \ {0} /\ index <= Len(Head(todo))
        /\ UNCHANGED <<todo, devsInDB, toList, devices, nextKey>>
    BY DEF ReadKey, ReadOK, Handling, Updating, loopVars, screenVars, tables
  <2>2. Head(todo)[index] \in MACs
    BY <2>1, HeadOfTodo, ElementOfSeq
  <2>3. CASE owner[Head(todo)[index]] = None
    <3>1. index' = index + 1 /\ UNCHANGED <<at, found>>
      BY <2>3 DEF ReadKey
    <3>2. QED BY <2>1, <3>1, SameKeys DEF ReadOK, ReadKey, Handling, Updating
  <2>4. CASE owner[Head(todo)[index]] # None
    <3>1. /\ found' = Device(owner[Head(todo)[index]], NewRow, {})
          /\ at'["main"] = "row" /\ index' = index
      BY <2>4 DEF ReadKey, Goto, StoreOK, Threads
    <3>2. owner[Head(todo)[index]] \in UsedKeys
      BY <2>2, <2>4 DEF TablesOK, FreshKeys, Fresh, ReadKey
    <3>3. found' \in AnyObject /\ found'.key \in UsedKeys
      BY <3>1, <3>2 DEF Device, AnyObject, UsedKeys, NewRow, Row, Mobility, TablesOK, Keys
    <3>4. QED BY <2>1, <3>1, <3>3, SameKeys DEF ReadOK, Handling, Updating
  <2>5. QED BY <2>3, <2>4
<1>4. ListsOK'
  BY SameKeys, ListsFrame DEF ReadKey, screenVars, scanVars, threadVars, loopVars, tables
<1>5. HistoryOK'
  BY SameKeys, HistoryFrame DEF ReadKey, history, tables
<1>6. QED BY <1>1, <1>2, <1>3, <1>4, <1>5

LEMMA TypeReadRow == ASSUME TypeOK, ReadRow PROVE TypeOK'
<1> USE DEF TypeOK
<1>1. TablesOK'
  BY SameKeys DEF ReadRow, TablesOK, StoreOK, ReadOK, Fresh, FreshKeys, Goto, tables, Threads
<1>2. StoreOK'
  BY SameKeys DEF ReadRow, TablesOK, StoreOK, ReadOK, ListsOK, Fresh, Goto, readVars, storeVars, tables, Threads
<1>3. ReadOK'
  <2>1. /\ todo # <<>> /\ index \in Nat \ {0} /\ index <= Len(Head(todo)) /\ found.key \in UsedKeys
        /\ UNCHANGED <<todo, devsInDB, toList, devices, nextKey>>
    BY DEF ReadRow, ReadOK, Handling, Updating, loopVars, screenVars, tables
  <2>2. CASE found.key \in DOMAIN devices
    <3>1. /\ found' = [found EXCEPT !.row = devices[found.key]]
          /\ at'["main"] = "ifaces" /\ index' = index
      BY <2>2 DEF ReadRow, Goto, StoreOK, Threads
    <3>2. found' \in AnyObject /\ found'.key = found.key
      BY <2>2, <3>1 DEF AnyObject, TablesOK, ReadOK
    <3>3. QED BY <2>1, <3>1, <3>2, SameKeys DEF ReadOK, Handling, Updating
  <2>3. CASE found.key \notin DOMAIN devices
    <3>1. index' = index + 1 /\ at'["main"] = "key" /\ found' = Nothing
      BY <2>3 DEF ReadRow, Goto, StoreOK, Threads
    <3>2. QED BY <2>1, <3>1, NothingType, SameKeys DEF ReadOK, Handling, Updating
  <2>4. QED BY <2>2, <2>3
<1>4. ListsOK'
  BY SameKeys, ListsFrame DEF ReadRow, screenVars, scanVars, threadVars, loopVars, tables
<1>5. HistoryOK'
  BY SameKeys, HistoryFrame DEF ReadRow, history, tables
<1>6. QED BY <1>1, <1>2, <1>3, <1>4, <1>5

LEMMA TypeReadIfaces == ASSUME TypeOK, ReadIfaces PROVE TypeOK'
<1> USE DEF TypeOK
<1>1. TablesOK'
  BY SameKeys DEF ReadIfaces, TablesOK, StoreOK, ReadOK, Fresh, FreshKeys, Goto, tables, Threads
<1>2. StoreOK'
  BY SameKeys DEF ReadIfaces, TablesOK, StoreOK, ReadOK, ListsOK, Fresh, Goto, readVars, storeVars, tables, Threads
<1>3. ReadOK'
  <2>1. /\ todo # <<>> /\ index \in Nat \ {0} /\ found.key \in UsedKeys /\ found \in AnyObject
        /\ UNCHANGED <<todo, toList, devices, nextKey>>
    BY DEF ReadIfaces, ReadOK, Handling, Updating, loopVars, screenVars, tables
  <2>2. [found EXCEPT !.ifaces = Interfaces(found.key)] \in Objects
    BY <2>1 DEF AnyObject, Objects, Interfaces
  <2>3. devsInDB' \in Seq(Objects)
    BY <2>2, AppendProperties DEF ReadIfaces, ReadOK
  <2>4. index' = index + 1 /\ at'["main"] = "key" /\ found' = Nothing
    BY DEF ReadIfaces, Goto, StoreOK, Threads
  <2>5. QED BY <2>1, <2>3, <2>4, NothingType, SameKeys DEF ReadOK, Handling, Updating
<1>4. ListsOK'
  BY SameKeys, ListsFrame DEF ReadIfaces, screenVars, scanVars, threadVars, loopVars, tables
<1>5. HistoryOK'
  BY SameKeys, HistoryFrame DEF ReadIfaces, history, tables
<1>6. QED BY <1>1, <1>2, <1>3, <1>4, <1>5

LEMMA TypeInsertDevice == ASSUME TypeOK, InsertDevice PROVE TypeOK'
<1> USE DEF TypeOK
<1>1. TablesOK'
  BY SameKeys DEF InsertDevice, Decide, TablesOK, StoreOK, ReadOK, Fresh, FreshKeys, Goto, tables, Threads
<1>2. StoreOK'
  <2>1. Device(nextKey, NewRow, Elements(Head(todo))) \in AnyObject
    BY HeadOfTodo DEF InsertDevice, Decide, ReadOK, Handling, Updating, Device, AnyObject, NewRow, Row, Mobility, TablesOK, Keys
  <2>2. /\ target' = [target EXCEPT !["main"] = Device(nextKey, NewRow, Elements(Head(todo)))]
        /\ left' = [left EXCEPT !["main"] = {}]
        /\ at' = [at EXCEPT !["main"] = "insert"]
        /\ UNCHANGED <<nextKey, devsInDB>>
    BY DEF InsertDevice, Decide, Goto, tables
  <2>3. /\ at'["main"] = "insert" /\ at'["saver"] = at["saver"]
        /\ target'["main"] = Device(nextKey, NewRow, Elements(Head(todo))) /\ target'["saver"] = target["saver"]
    BY <2>2 DEF StoreOK, Threads
  <2>4. /\ target' \in [Threads -> AnyObject] /\ left' \in [Threads -> SUBSET MACs]
        /\ at' \in [Threads -> {"idle", "list", "listIfaces", "next", "key", "row", "ifaces", "delete",
                               "insert", "update", "associate"}]
    BY <2>1, <2>2 DEF StoreOK
  <2>5. Len(devsInDB') # 1 /\ Fresh'
    BY <2>2, <2>3 DEF InsertDevice, Fresh
  <2>6. QED BY <2>1, <2>2, <2>3, <2>4, <2>5, SameKeys DEF StoreOK, Device, Fresh
<1>3. ReadOK'
  BY SameKeys DEF InsertDevice, Decide, TablesOK, StoreOK, ReadOK, Goto, Handling, Updating, readVars, storeVars, loopVars, screenVars, tables, Threads
<1>4. ListsOK'
  BY SameKeys, ListsFrame DEF InsertDevice, Decide, screenVars, scanVars, threadVars, loopVars, tables
<1>5. HistoryOK'
  BY SameKeys, HistoryFrame DEF InsertDevice, Decide, history, tables
<1>6. QED BY <1>1, <1>2, <1>3, <1>4, <1>5

LEMMA TypeExtendDevice == ASSUME TypeOK, ExtendDevice PROVE TypeOK'
<1> USE DEF TypeOK
<1>1. TablesOK'
  BY SameKeys DEF ExtendDevice, Decide, TablesOK, StoreOK, ReadOK, Fresh, FreshKeys, Goto, tables, Threads
<1>2. StoreOK'
  <2>0. devsInDB \in Seq(Objects) /\ Len(devsInDB) = 1 /\ at["main"] = "key" /\ todo # <<>>
    BY DEF ExtendDevice, Decide, ReadOK, Handling, Updating
  <2>1. devsInDB[1] \in Objects /\ devsInDB[1] \in AnyObject /\ Elements(Head(todo)) \subseteq MACs
    <3>1. devsInDB[1] \in Objects
      BY <2>0, ElementOfSeq
    <3>2. devsInDB[1] \in AnyObject
      BY <3>1 DEF Objects, AnyObject, UsedKeys
    <3>3. QED BY <2>0, <3>1, <3>2, HeadOfTodo
  <2>2. /\ target' = [target EXCEPT !["main"] = devsInDB[1]]
        /\ left' = [left EXCEPT !["main"] = Elements(Head(todo))]
        /\ at' = [at EXCEPT !["main"] = "associate"]
        /\ UNCHANGED <<nextKey, devsInDB>>
    BY DEF ExtendDevice, Decide, Goto, tables
  <2>3. /\ at'["main"] = "associate" /\ at'["saver"] = at["saver"]
        /\ target'["main"] = devsInDB[1] /\ target'["saver"] = target["saver"]
    BY <2>2 DEF StoreOK, Threads
  <2>4. /\ target' \in [Threads -> AnyObject] /\ left' \in [Threads -> SUBSET MACs]
        /\ at' \in [Threads -> {"idle", "list", "listIfaces", "next", "key", "row", "ifaces", "delete",
                               "insert", "update", "associate"}]
    BY <2>1, <2>2 DEF StoreOK
  <2>5. ~Fresh'
    BY <2>2, <2>3 DEF ExtendDevice, Fresh
  <2>6. QED BY <2>1, <2>2, <2>3, <2>4, <2>5, SameKeys DEF StoreOK, Objects
<1>3. ReadOK'
  BY SameKeys DEF ExtendDevice, Decide, TablesOK, StoreOK, ReadOK, Goto, Handling, Updating, readVars, storeVars, loopVars, screenVars, tables, Threads
<1>4. ListsOK'
  BY SameKeys, ListsFrame DEF ExtendDevice, Decide, screenVars, scanVars, threadVars, loopVars, tables
<1>5. HistoryOK'
  BY SameKeys, HistoryFrame DEF ExtendDevice, Decide, history, tables
<1>6. QED BY <1>1, <1>2, <1>3, <1>4, <1>5

LEMMA TypeMergeDevices == ASSUME TypeOK, MergeDevices PROVE TypeOK'
<1> USE DEF TypeOK
<1>1. TablesOK'
  BY SameKeys DEF MergeDevices, Decide, TablesOK, StoreOK, ReadOK, Fresh, FreshKeys, Goto, tables, Threads
<1>2. StoreOK'
  <2>1. Device(nextKey, MergedRow, MergedIfaces) \in AnyObject
    BY MergedType DEF Device, AnyObject, TablesOK, Keys
  <2>2. /\ target' = [target EXCEPT !["main"] = Device(nextKey, MergedRow, MergedIfaces)]
        /\ left' = [left EXCEPT !["main"] = {}]
        /\ at' = [at EXCEPT !["main"] = "delete"]
        /\ UNCHANGED <<nextKey, devsInDB>>
    BY DEF MergeDevices, Decide, Goto, tables
  <2>3. /\ at'["main"] = "delete" /\ at'["saver"] = at["saver"]
        /\ target'["main"] = Device(nextKey, MergedRow, MergedIfaces) /\ target'["saver"] = target["saver"]
    BY <2>2 DEF StoreOK, Threads
  <2>4. /\ target' \in [Threads -> AnyObject] /\ left' \in [Threads -> SUBSET MACs]
        /\ at' \in [Threads -> {"idle", "list", "listIfaces", "next", "key", "row", "ifaces", "delete",
                               "insert", "update", "associate"}]
    BY <2>1, <2>2 DEF StoreOK
  <2>5. Len(devsInDB') # 1 /\ Fresh'
    <3>1. Len(devsInDB) > 1 /\ Len(devsInDB) \in Nat
      BY LenProperties DEF MergeDevices, ReadOK
    <3>2. Len(devsInDB) # 1
      <4>1. \A n \in Nat : n > 1 => n # 1
        OBVIOUS
      <4>2. QED BY <3>1, <4>1, Zenon
    <3>3. devsInDB' = devsInDB
      BY <2>2
    <3>4. QED BY <2>3, <3>2, <3>3 DEF Fresh
  <2>6. QED BY <2>1, <2>2, <2>3, <2>4, <2>5, SameKeys DEF StoreOK, Device, Fresh
<1>3. ReadOK'
  BY SameKeys DEF MergeDevices, Decide, TablesOK, StoreOK, ReadOK, Goto, Handling, Updating, readVars, storeVars, loopVars, screenVars, tables, Threads
<1>4. ListsOK'
  BY SameKeys, ListsFrame DEF MergeDevices, Decide, screenVars, scanVars, threadVars, loopVars, tables
<1>5. HistoryOK'
  BY SameKeys, HistoryFrame DEF MergeDevices, Decide, history, tables
<1>6. QED BY <1>1, <1>2, <1>3, <1>4, <1>5

LEMMA TypeDeleteRow == ASSUME TypeOK, DeleteRow PROVE TypeOK'
<1> USE DEF TypeOK
<1>1. TablesOK'
  BY SameKeys DEF DeleteRow, TablesOK, StoreOK, ReadOK, Fresh, FreshKeys, Goto, tables, Threads
<1>2. StoreOK'
  <2>1. UNCHANGED <<nextKey, target, devsInDB>> /\ at["main"] = "delete" /\ Elements(Head(todo)) \subseteq MACs
    BY HeadOfTodo DEF DeleteRow, ReadOK, Handling, Updating
  <2>2. CASE index = Len(devsInDB)
    <3>1. at' = [at EXCEPT !["main"] = "insert"] /\ left' = [left EXCEPT !["main"] = Elements(Head(todo))]
      BY <2>2 DEF DeleteRow, Goto
    <3>2. at'["main"] = "insert" /\ at'["saver"] = at["saver"]
      BY <3>1 DEF StoreOK, Threads
    <3>3. at' \in [Threads -> {"idle", "list", "listIfaces", "next", "key", "row", "ifaces", "delete",
                               "insert", "update", "associate"}] /\ left' \in [Threads -> SUBSET MACs]
      BY <2>1, <3>1 DEF StoreOK
    <3>4. QED BY <2>1, <3>2, <3>3, SameKeys DEF StoreOK, Fresh
  <2>3. CASE index # Len(devsInDB)
    <3>1. UNCHANGED <<at, left>>
      BY <2>3 DEF DeleteRow
    <3>2. QED BY <2>1, <3>1, SameKeys DEF StoreOK, Fresh
  <2>4. QED BY <2>2, <2>3
<1>3. ReadOK'
  BY SameKeys DEF DeleteRow, TablesOK, StoreOK, ReadOK, Goto, Handling, Updating, readVars, storeVars, loopVars, screenVars, tables, Threads
<1>4. ListsOK'
  BY SameKeys, ListsFrame DEF DeleteRow, screenVars, scanVars, threadVars, loopVars, tables
<1>5. HistoryOK'
  <2>1. devsInDB[index].key \in UsedKeys
    <3>1. devsInDB \in Seq(Objects) /\ index \in 1..Len(devsInDB)
      BY DEF DeleteRow, ReadOK
    <3>2. devsInDB[index] \in Objects
      BY <3>1, ElementOfSeq
    <3>3. QED BY <3>2 DEF Objects
  <2>2. stranded' \subseteq UsedKeys
    BY <2>1 DEF DeleteRow, HistoryOK
  <2>3. UNCHANGED <<nextKey, before, met>>
    BY DEF DeleteRow
  <2>4. QED BY <2>2, <2>3, SameKeys DEF HistoryOK
<1>6. QED BY <1>1, <1>2, <1>3, <1>4, <1>5

LEMMA TypeClaimInterface == ASSUME TypeOK, ClaimInterface PROVE TypeOK'
<1> USE DEF TypeOK
<1>1. TablesOK'
  BY SameKeys DEF ClaimInterface, TablesOK, StoreOK, ReadOK, Fresh, FreshKeys, Goto, tables, Threads
<1>2. StoreOK'
  BY SameKeys DEF ClaimInterface, TablesOK, StoreOK, ReadOK, ListsOK, Fresh, Goto, readVars, storeVars, tables, Threads
<1>3. ReadOK'
  BY SameKeys DEF ClaimInterface, TablesOK, StoreOK, ReadOK, Goto, Handling, Updating, readVars, storeVars, loopVars, screenVars, tables, Threads
<1>4. ListsOK'
  BY SameKeys, ListsFrame DEF ClaimInterface, screenVars, scanVars, threadVars, loopVars, tables
<1>5. HistoryOK'
  BY SameKeys, HistoryFrame DEF ClaimInterface, history, tables
<1>6. QED BY <1>1, <1>2, <1>3, <1>4, <1>5

LEMMA TypeFinishDevice == ASSUME TypeOK, FinishDevice PROVE TypeOK'
<1> USE DEF TypeOK
<1>0. /\ nextKey' = IF target["main"].key = nextKey THEN nextKey + 1 ELSE nextKey
      /\ nextKey' \in {nextKey, nextKey + 1} /\ nextKey \in Keys
  BY DEF FinishDevice, TablesOK
<1>1. target["main"].key \in UsedKeys' /\ (Fresh => nextKey' = nextKey + 1)
  BY <1>0, KeysGrow, TargetKey DEF FinishDevice, Threads, StoreOK
<1>2. /\ at' = [at EXCEPT !["main"] = "next"] /\ at'["main"] = "next" /\ at'["saver"] = at["saver"]
      /\ target' = [target EXCEPT !["main"] = Nothing] /\ target'["saver"] = target["saver"]
      /\ UNCHANGED left
  BY DEF FinishDevice, Goto, StoreOK, Threads
<1>3. TablesOK'
  <2>1. UNCHANGED <<devices, owner>>
    BY DEF FinishDevice
  <2>2. FreshKeys' = {} /\ FreshKeys \subseteq UsedKeys'
    BY <1>0, <1>1, <1>2, KeysGrow DEF FreshKeys, Fresh
  <2>3. QED BY <1>0, <2>1, <2>2, KeysGrow DEF TablesOK
<1>4. StoreOK'
  <2>1. ~Fresh' /\ at'["main"] \notin {"associate", "delete", "insert", "update"}
    BY <1>2 DEF Fresh
  <2>2. /\ at' \in [Threads -> {"idle", "list", "listIfaces", "next", "key", "row", "ifaces", "delete",
                               "insert", "update", "associate"}]
        /\ target' \in [Threads -> AnyObject]
    BY <1>2, NothingType DEF StoreOK
  <2>3. at'["saver"] # "idle" => target'["saver"].key \in UsedKeys'
    BY <1>0, <1>2, KeysGrow DEF StoreOK
  <2>4. QED BY <1>2, <2>1, <2>2, <2>3 DEF StoreOK
<1>5. ReadOK'
  <2>1. todo' \in Seq(ScannedDevices)
    BY HeadTailProperties DEF FinishDevice, ReadOK, Handling, Updating
  <2>2. index' = 1 /\ devsInDB' = <<>> /\ found' = found
    BY DEF FinishDevice
  <2>3. QED BY <1>2, <2>1, <2>2 DEF ReadOK, Handling, Updating
<1>6. ListsOK'
  <2>1. target["main"] \in Objects'
    BY <1>1, TargetType DEF Objects, AnyObject, Threads
  <2>2. newDevices' \in Seq(Objects')
    BY <1>0, <2>1, KeysGrow, AppendProperties DEF FinishDevice, ListsOK
  <2>3. UNCHANGED <<response, screenVars, scanVars, threadVars>>
    BY DEF FinishDevice
  <2>4. /\ response' \in Seq(Seq(Objects')) /\ shown' \in Seq(Objects') /\ saving' \in Seq(Objects')
        /\ toList' \in Seq(UsedKeys')
    BY <1>0, <2>3, KeysGrow DEF ListsOK, screenVars, threadVars
  <2>5. QED BY <2>2, <2>3, <2>4 DEF ListsOK, screenVars, scanVars, threadVars
<1>7. HistoryOK'
  <2>1. before' = Blank /\ met' = {} /\ stranded' = stranded
    BY DEF FinishDevice
  <2>2. QED BY <1>0, <2>1, KeysGrow DEF HistoryOK, Blank
<1>8. QED BY <1>3, <1>4, <1>5, <1>6, <1>7

LEMMA TypeBroadcastResults == ASSUME TypeOK, BroadcastResults PROVE TypeOK'
<1> USE DEF TypeOK
<1>1. TablesOK'
  BY SameKeys DEF BroadcastResults, TablesOK, StoreOK, ReadOK, Fresh, FreshKeys, Goto, tables, Threads
<1>2. StoreOK'
  BY SameKeys DEF BroadcastResults, TablesOK, StoreOK, ReadOK, ListsOK, Fresh, Goto, readVars, storeVars, tables, Threads
<1>3. ReadOK'
  BY SameKeys DEF BroadcastResults, TablesOK, StoreOK, ReadOK, Goto, Handling, Updating, readVars, storeVars, loopVars, screenVars, tables, Threads
<1>4. ListsOK'
  <2>1. UNCHANGED <<nextKey, screenVars, scans, threadVars>>
    BY DEF BroadcastResults, tables
  <2>2. /\ newDevices' \in Seq(Objects) /\ scanning' = FALSE
        /\ response' \in Seq(Seq(Objects))
    BY AppendProperties DEF BroadcastResults, ListsOK
  <2>3. QED BY <2>1, <2>2, SameKeys DEF ListsOK, screenVars, scanVars, threadVars
<1>5. HistoryOK'
  BY SameKeys, HistoryFrame DEF BroadcastResults, history, tables
<1>6. QED BY <1>1, <1>2, <1>3, <1>4, <1>5

\* What the screens do to the list and to the place of the main thread.
LEMMA ListDevicesType ==
    ASSUME TypeOK, UNCHANGED <<nextKey, devices>>, NEW have \in Seq(Objects), ListDevices(have), at["main"] = "idle"
    PROVE  /\ shown' \in Seq(Objects) /\ toList' \in Seq(UsedKeys)
           /\ at'["main"] \in {"idle", "list"}
           /\ at'["main"] = "list" => toList' # <<>> /\ \A i \in 1..Len(toList') : toList'[i] \in DOMAIN devices
<1> DEFINE keys == InternalKeys \ {have[i].key : i \in 1..Len(have)}
<1>1. keys \subseteq DOMAIN devices /\ keys \subseteq UsedKeys
  BY DEF InternalKeys, TypeOK, TablesOK, FreshKeys, Fresh
<1>2. IsFiniteSet(keys)
  <2>1. IsFiniteSet(UsedKeys)
    <3>1. nextKey - 1 \in Int
      BY DEF TypeOK, TablesOK, Keys
    <3>2. QED BY <3>1, FS_Interval DEF UsedKeys
  <2>2. QED BY <1>1, <2>1, FS_Subset
<1>3. toList' = SomeOrder(keys) /\ shown' = have
      /\ (IF keys = {} THEN UNCHANGED at ELSE Goto("main", "list"))
  BY DEF ListDevices
<1> HIDE DEF keys
<1>4. toList' \in Seq(keys) /\ Elements(toList') = keys
  BY <1>2, <1>3, SomeOrderLists
<1>5. toList' \in Seq(UsedKeys)
  BY <1>1, <1>4, SeqMonotonic
<1>6. at'["main"] = IF keys = {} THEN "idle" ELSE "list"
  BY <1>3 DEF Goto, TypeOK, StoreOK, Threads
<1>7. keys # {} => toList' # <<>>
  BY <1>4 DEF Elements
<1>8. \A i \in 1..Len(toList') : toList'[i] \in DOMAIN devices
  BY <1>1, <1>4, ElementOfSeq
<1>9. QED BY <1>3, <1>5, <1>6, <1>7, <1>8

LEMMA StartScanType ==
    ASSUME ListsOK, StartScan \/ UNCHANGED scanVars
    PROVE  scanning' \in BOOLEAN /\ scans' \in 0..MaxScans
<1>1. scanning \in BOOLEAN /\ scans \in 0..MaxScans
  BY DEF ListsOK
<1>2. CASE UNCHANGED scanVars
  BY <1>1, <1>2 DEF scanVars
<1>3. CASE scanning' = TRUE /\ scans' = scans + 1 /\ scans # MaxScans
  BY <1>1, <1>3, BoundsAssumption
<1>4. QED BY <1>2, <1>3 DEF StartScan

LEMMA TypeOpenScreen == ASSUME TypeOK, NEW s \in Screens, OpenScreen(s) PROVE TypeOK'
<1> USE DEF TypeOK
<1>1. TablesOK'
  BY SameKeys DEF OpenScreen, ListDevices, StartScan, TablesOK, StoreOK, ReadOK, Fresh, FreshKeys, Goto, tables, Threads
<1>2. StoreOK'
  BY SameKeys DEF OpenScreen, ListDevices, StartScan, TablesOK, StoreOK, ReadOK, ListsOK, Fresh, Goto, readVars, storeVars, tables, Threads
<1>3. ReadOK'
  <2>0. <<>> \in Seq(Objects) /\ UNCHANGED <<nextKey, devices>> /\ ListDevices(<<>>) /\ at["main"] = "idle"
    BY DEF OpenScreen, tables
  <2>1. /\ at'["main"] \in {"idle", "list"}
        /\ at'["main"] = "list" => toList' # <<>> /\ \A i \in 1..Len(toList') : toList'[i] \in DOMAIN devices
    BY <2>0, ListDevicesType
  <2>2. UNCHANGED <<devices, nextKey, todo, index, found, devsInDB>>
    BY DEF OpenScreen, tables, loopVars, readVars
  <2>3. QED BY <2>1, <2>2, SameKeys DEF ReadOK, Handling, Updating
<1>4. ListsOK'
  <2>0. <<>> \in Seq(Objects) /\ UNCHANGED <<nextKey, devices>> /\ ListDevices(<<>>) /\ at["main"] = "idle"
    BY DEF OpenScreen, tables
  <2>1. shown' \in Seq(Objects) /\ toList' \in Seq(UsedKeys)
    BY <2>0, ListDevicesType
  <2>2. scanning' \in BOOLEAN /\ scans' \in 0..MaxScans /\ screen' \in Screens
    BY StartScanType DEF OpenScreen
  <2>3. UNCHANGED <<nextKey, newDevices, response, threadVars>>
    BY DEF OpenScreen, tables, loopVars
  <2>4. QED BY <2>1, <2>2, <2>3, SameKeys DEF ListsOK, threadVars
<1>5. HistoryOK'
  BY SameKeys, HistoryFrame DEF OpenScreen, ListDevices, StartScan, history, tables
<1>6. QED BY <1>1, <1>2, <1>3, <1>4, <1>5

LEMMA TypeListRow == ASSUME TypeOK, ListRow PROVE TypeOK'
<1> USE DEF TypeOK
<1>1. TablesOK'
  BY SameKeys DEF ListRow, TablesOK, StoreOK, ReadOK, Fresh, FreshKeys, Goto, tables, Threads
<1>2. StoreOK'
  BY SameKeys DEF ListRow, TablesOK, StoreOK, ReadOK, ListsOK, Fresh, Goto, readVars, storeVars, tables, Threads
<1>3. ReadOK'
  <2>1. /\ toList # <<>> /\ (\A i \in 1..Len(toList) : toList[i] \in DOMAIN devices)
        /\ UNCHANGED <<toList, devices, nextKey, todo, index, devsInDB>>
    BY DEF ListRow, ReadOK, screenVars, tables, loopVars
  <2>2. Head(toList) \in DOMAIN devices /\ Head(toList) \in UsedKeys
    BY <2>1, HeadTailProperties DEF ListsOK
  <2>3. found' = Device(Head(toList), devices[Head(toList)], {}) /\ at'["main"] = "listIfaces"
    BY DEF ListRow, Goto, StoreOK, Threads
  <2>4. found' \in AnyObject /\ found'.key \in UsedKeys
    BY <2>2, <2>3 DEF Device, AnyObject, TablesOK, UsedKeys
  <2>5. QED BY <2>1, <2>3, <2>4, SameKeys DEF ReadOK, Handling, Updating
<1>4. ListsOK'
  BY SameKeys, ListsFrame DEF ListRow, screenVars, scanVars, threadVars, loopVars, tables
<1>5. HistoryOK'
  BY SameKeys, HistoryFrame DEF ListRow, history, tables
<1>6. QED BY <1>1, <1>2, <1>3, <1>4, <1>5

LEMMA TypeListIfaces == ASSUME TypeOK, ListIfaces PROVE TypeOK'
<1> USE DEF TypeOK
<1>1. TablesOK'
  BY SameKeys DEF ListIfaces, TablesOK, StoreOK, ReadOK, Fresh, FreshKeys, Goto, tables, Threads
<1>2. StoreOK'
  BY SameKeys DEF ListIfaces, TablesOK, StoreOK, ReadOK, ListsOK, Fresh, Goto, readVars, storeVars, tables, Threads
<1>3. ReadOK'
  <2>1. /\ toList # <<>> /\ (\A i \in 1..Len(toList) : toList[i] \in DOMAIN devices) /\ toList \in Seq(UsedKeys)
        /\ toList' = Tail(toList) /\ found' = Nothing
        /\ UNCHANGED <<devices, nextKey, todo, index, devsInDB>>
    BY DEF ListIfaces, ReadOK, ListsOK, tables, loopVars
  <2>2. at'["main"] = IF Len(toList) > 1 THEN "list" ELSE "idle"
    BY DEF ListIfaces, Goto, StoreOK, Threads
  <2>3. /\ Len(toList') = Len(toList) - 1 /\ Len(toList) \in Nat
        /\ \A i \in 1..Len(toList') : toList'[i] = toList[i + 1]
    BY <2>1, HeadTailProperties
  <2>4. /\ Len(toList) > 1 => toList' # <<>>
        /\ \A i \in 1..Len(toList') : toList'[i] \in DOMAIN devices
    <3>1. Len(toList) > 1 => Len(toList') # 0
      BY <2>3
    <3>2. \A i \in 1..Len(toList') : i + 1 \in 1..Len(toList)
      BY <2>3
    <3>3. Len(<<>>) = 0
      OBVIOUS
    <3>4. QED BY <2>1, <2>3, <3>1, <3>2, <3>3
  <2>5. QED BY <2>1, <2>2, <2>3, <2>4, NothingType, SameKeys DEF ReadOK, Handling, Updating
<1>4. ListsOK'
  <2>1. [found EXCEPT !.ifaces = Interfaces(found.key)] \in Objects
    BY DEF ListIfaces, ReadOK, AnyObject, Objects, Interfaces
  <2>2. shown' \in Seq(Objects)
    BY <2>1, AppendProperties DEF ListIfaces, ListsOK
  <2>3. toList' \in Seq(UsedKeys)
    BY HeadTailProperties DEF ListIfaces, ListsOK, ReadOK
  <2>4. UNCHANGED <<nextKey, newDevices, response, screen, scanVars, threadVars>>
    BY DEF ListIfaces, tables, loopVars
  <2>5. QED BY <2>2, <2>3, <2>4, SameKeys DEF ListsOK, scanVars, threadVars
<1>5. HistoryOK'
  BY SameKeys, HistoryFrame DEF ListIfaces, history, tables
<1>6. QED BY <1>1, <1>2, <1>3, <1>4, <1>5

LEMMA TypeReceiveResponse == ASSUME TypeOK, ReceiveResponse PROVE TypeOK'
<1> USE DEF TypeOK
<1>1. TablesOK'
  BY SameKeys DEF ReceiveResponse, ListDevices, StartScan, TablesOK, StoreOK, ReadOK, Fresh, FreshKeys, Goto, tables, Threads
<1>2. StoreOK'
  BY SameKeys DEF ReceiveResponse, ListDevices, StartScan, TablesOK, StoreOK, ReadOK, ListsOK, Fresh, Goto, readVars, storeVars, tables, Threads
<1>3. ReadOK'
  <2>1. Head(response) \in Seq(Objects)
    BY HeadTailProperties DEF ReceiveResponse, ListsOK
  <2>2. UNCHANGED <<devices, nextKey, todo, index, found, devsInDB>> /\ at["main"] = "idle"
    BY DEF ReceiveResponse, tables, loopVars, readVars
  <2>3. CASE screen = "MissingDevices"
    <3>1. ListDevices(Head(response))
      BY <2>3 DEF ReceiveResponse
    <3>2. at'["main"] \in {"idle", "list"}
        /\ (at'["main"] = "list" => toList' # <<>> /\ \A i \in 1..Len(toList') : toList'[i] \in DOMAIN devices)
      BY <2>1, <2>2, <3>1, ListDevicesType
    <3>3. QED BY <2>2, <3>2, SameKeys DEF ReadOK, Handling, Updating
  <2>4. CASE screen # "MissingDevices"
    <3>1. UNCHANGED <<toList, at>>
      BY <2>4 DEF ReceiveResponse
    <3>2. QED BY <2>2, <3>1, SameKeys DEF ReadOK, Handling, Updating
  <2>5. QED BY <2>3, <2>4
<1>4. ListsOK'
  <2>1. Head(response) \in Seq(Objects) /\ response' \in Seq(Seq(Objects))
    BY HeadTailProperties DEF ReceiveResponse, ListsOK
  <2>2. UNCHANGED <<devices, nextKey, newDevices, screen, scanVars, threadVars>> /\ at["main"] = "idle"
    BY DEF ReceiveResponse, tables, loopVars
  <2>3. shown' \in Seq(Objects) /\ toList' \in Seq(UsedKeys)
    <3>1. CASE screen = "MissingDevices"
      <4>1. ListDevices(Head(response))
        BY <3>1 DEF ReceiveResponse
      <4>2. QED BY <2>1, <2>2, <4>1, ListDevicesType
    <3>2. CASE screen = "YourDevices"
      BY <2>1, <3>2 DEF ReceiveResponse, ListsOK
    <3>3. CASE screen \notin {"MissingDevices", "YourDevices"}
      BY <3>3 DEF ReceiveResponse, ListsOK
    <3>4. QED BY <3>1, <3>2, <3>3
  <2>4. QED BY <2>1, <2>2, <2>3, SameKeys DEF ListsOK, scanVars, threadVars
<1>5. HistoryOK'
  BY SameKeys, HistoryFrame DEF ReceiveResponse, ListDevices, StartScan, history, tables
<1>6. QED BY <1>1, <1>2, <1>3, <1>4, <1>5

LEMMA TypeMissResponse == ASSUME TypeOK, MissResponse PROVE TypeOK'
<1> USE DEF TypeOK
<1>1. TablesOK'
  BY SameKeys DEF MissResponse, TablesOK, StoreOK, ReadOK, Fresh, FreshKeys, Goto, tables, Threads
<1>2. StoreOK'
  BY SameKeys DEF MissResponse, TablesOK, StoreOK, ReadOK, ListsOK, Fresh, Goto, readVars, storeVars, tables, Threads
<1>3. ReadOK'
  BY SameKeys DEF MissResponse, TablesOK, StoreOK, ReadOK, Goto, Handling, Updating, readVars, storeVars, loopVars, screenVars, tables, Threads
<1>4. ListsOK'
  <2>1. UNCHANGED <<nextKey, newDevices, screenVars, scanVars, threadVars>>
    BY DEF MissResponse, tables, loopVars
  <2>2. response' \in Seq(Seq(Objects))
    BY HeadTailProperties DEF MissResponse, ListsOK
  <2>3. QED BY <2>1, <2>2, SameKeys DEF ListsOK, screenVars, scanVars, threadVars
<1>5. HistoryOK'
  BY SameKeys, HistoryFrame DEF MissResponse, history, tables
<1>6. QED BY <1>1, <1>2, <1>3, <1>4, <1>5

LEMMA TypeSaveSelections == ASSUME TypeOK, NEW ticked, NEW again \in BOOLEAN, SaveSelections(ticked, again) PROVE TypeOK'
<1> USE DEF TypeOK
<1>1. TablesOK'
  BY SameKeys DEF SaveSelections, TablesOK, StoreOK, ReadOK, Fresh, FreshKeys, Goto, tables, Threads
<1>2. StoreOK'
  BY SameKeys DEF SaveSelections, TablesOK, StoreOK, ReadOK, ListsOK, Fresh, Goto, readVars, storeVars, tables, Threads
<1>3. ReadOK'
  BY SameKeys DEF SaveSelections, TablesOK, StoreOK, ReadOK, Goto, Handling, Updating, readVars, storeVars, loopVars, screenVars, tables, Threads
<1>4. ListsOK'
  <2>1. PICK answer \in Answers : saving' = [i \in 1..Len(shown) |-> Said(i, ticked, answer)]
    BY DEF SaveSelections
  <2>2. ASSUME NEW i \in 1..Len(shown) PROVE Said(i, ticked, answer) \in Objects
    <3>1. shown[i] \in Objects
      BY ElementOfSeq DEF ListsOK
    <3>2. shown[i].key \in UsedKeys /\ shown[i].row.mobile \in Mobility /\ shown[i].ifaces \subseteq MACs
      BY <3>1 DEF Objects, Row
    <3>3. answer \in Mobility
      BY <2>1, AnswersAssumption
    <3>4. QED BY <3>2, <3>3 DEF Said, Device, Objects, Row
  <2>3. saving' \in Seq(Objects)
    <3>1. Len(shown) \in Nat
      BY DEF ListsOK
    <3>2. saving' \in [1..Len(shown) -> Objects]
      BY <2>1, <2>2, Zenon
    <3>3. QED BY <3>1, <3>2
  <2>4. /\ shown' = saving' /\ rescan' = again /\ saves' = saves + 1 /\ saves < MaxSaves
        /\ UNCHANGED <<nextKey, newDevices, response, screen, toList, scanVars>>
    BY DEF SaveSelections, tables, loopVars
  <2>5. saves' \in 0..MaxSaves
    BY <2>4, BoundsAssumption DEF ListsOK
  <2>6. QED BY <2>3, <2>4, <2>5, SameKeys DEF ListsOK, scanVars
<1>5. HistoryOK'
  BY SameKeys, HistoryFrame DEF SaveSelections, history, tables
<1>6. QED BY <1>1, <1>2, <1>3, <1>4, <1>5

LEMMA TypeSaveDevice == ASSUME TypeOK, SaveDevice PROVE TypeOK'
<1> USE DEF TypeOK
<1>1. Head(saving) \in Objects /\ saving' \in Seq(Objects) /\ Head(saving) \in AnyObject
  <2>1. Head(saving) \in Objects /\ saving' \in Seq(Objects)
    BY HeadTailProperties DEF SaveDevice, ListsOK
  <2>2. QED BY <2>1 DEF Objects, AnyObject, UsedKeys
<1>2. PICK place \in {"update", "insert"} : at' = [at EXCEPT !["saver"] = place]
  BY DEF SaveDevice, Goto
<1>3. /\ at'["saver"] = place /\ at'["main"] = at["main"]
      /\ target' = [target EXCEPT !["saver"] = Head(saving)]
      /\ target'["saver"] = Head(saving) /\ target'["main"] = target["main"]
      /\ UNCHANGED <<tables, left, readVars, todo, toList>>
  BY <1>2 DEF SaveDevice, StoreOK, Threads, loopVars, screenVars
<1>4. Fresh' = Fresh /\ FreshKeys' = FreshKeys
  BY <1>3 DEF Fresh, FreshKeys, readVars, tables
<1>5. TablesOK'
  BY <1>3, <1>4, TablesFrame
<1>6. StoreOK'
  <2>1. /\ at' \in [Threads -> {"idle", "list", "listIfaces", "next", "key", "row", "ifaces", "delete",
                               "insert", "update", "associate"}]
        /\ target' \in [Threads -> AnyObject]
    BY <1>1, <1>2, <1>3 DEF StoreOK
  <2>2. target'["saver"].key \in UsedKeys
    BY <1>1, <1>3 DEF Objects
  <2>3. QED BY <1>3, <1>4, <2>1, <2>2, SameKeys DEF StoreOK, tables, readVars
<1>7. ReadOK'
  BY <1>3, SameKeys DEF ReadOK, Handling, Updating, tables, readVars
<1>8. ListsOK'
  <2>1. UNCHANGED <<nextKey, newDevices, response, screenVars, scanVars, rescan, saves>>
    BY DEF SaveDevice, tables, loopVars
  <2>2. QED BY <1>1, <2>1, SameKeys DEF ListsOK, screenVars, scanVars
<1>9. HistoryOK'
  <2>1. met' \subseteq Objects /\ UNCHANGED <<nextKey, before, stranded>>
    BY <1>1 DEF SaveDevice, HistoryOK, tables
  <2>2. QED BY <2>1, SameKeys DEF HistoryOK
<1>10. QED BY <1>5, <1>6, <1>7, <1>8, <1>9

LEMMA TypeRescan == ASSUME TypeOK, Rescan PROVE TypeOK'
<1> USE DEF TypeOK
<1>1. TablesOK'
  BY SameKeys DEF Rescan, StartScan, TablesOK, StoreOK, ReadOK, Fresh, FreshKeys, Goto, tables, Threads
<1>2. StoreOK'
  BY SameKeys DEF Rescan, StartScan, TablesOK, StoreOK, ReadOK, ListsOK, Fresh, Goto, readVars, storeVars, tables, Threads
<1>3. ReadOK'
  BY SameKeys DEF Rescan, StartScan, TablesOK, StoreOK, ReadOK, Goto, Handling, Updating, readVars, storeVars, loopVars, screenVars, tables, Threads
<1>4. ListsOK'
  <2>1. scanning' \in BOOLEAN /\ scans' \in 0..MaxScans
    BY StartScanType DEF Rescan
  <2>2. rescan' = FALSE /\ UNCHANGED <<nextKey, newDevices, response, screenVars, saving, saves>>
    BY DEF Rescan, tables, loopVars
  <2>3. QED BY <2>1, <2>2, SameKeys DEF ListsOK, screenVars
<1>5. HistoryOK'
  BY SameKeys, HistoryFrame DEF Rescan, StartScan, history, tables
<1>6. QED BY <1>1, <1>2, <1>3, <1>4, <1>5

LEMMA TypeNext == ASSUME TypeOK, [Next]_vars PROVE TypeOK'
<1>1. ASSUME NEW t \in Threads, StoreStep(t) PROVE TypeOK'
  BY <1>1, TypeInsertRow, TypeUpdateRow, TypeAssociateInterface DEF StoreStep
<1>2. ASSUME NEW scan \in Scans, ScanFiltered(scan) PROVE TypeOK'
  BY <1>2, TypeScanFiltered
<1>3. CASE UpdateStep
  BY <1>3, TypeBeginDevice, TypeReadKey, TypeReadRow, TypeReadIfaces, TypeInsertDevice, TypeExtendDevice,
     TypeMergeDevices, TypeDeleteRow, TypeClaimInterface, TypeFinishDevice DEF UpdateStep
<1>4. CASE BroadcastResults
  BY <1>4, TypeBroadcastResults
<1>5. ASSUME NEW s \in Screens, OpenScreen(s) PROVE TypeOK'
  BY <1>5, TypeOpenScreen
<1>6. CASE ListRow \/ ListIfaces \/ ReceiveResponse \/ MissResponse
  BY <1>6, TypeListRow, TypeListIfaces, TypeReceiveResponse, TypeMissResponse
<1>7. ASSUME NEW ticked, NEW again \in BOOLEAN, SaveSelections(ticked, again) PROVE TypeOK'
  BY <1>7, TypeSaveSelections
<1>8. CASE SaveDevice \/ Rescan
  BY <1>8, TypeSaveDevice, TypeRescan
<1>9. CASE UNCHANGED vars
  <2>1. UsedKeys' = UsedKeys /\ Objects' = Objects /\ Fresh' = Fresh /\ FreshKeys' = FreshKeys
    BY <1>9, SameKeys DEF vars, tables, storeVars, readVars, Fresh, FreshKeys
  <2>2. TablesOK' /\ ListsOK' /\ HistoryOK'
    BY <1>9, <2>1, TablesFrame, ListsFrame, HistoryFrame DEF vars, TypeOK, tables, loopVars
  <2>3. StoreOK' /\ ReadOK'
    BY <1>9, <2>1 DEF vars, TypeOK, StoreOK, ReadOK, storeVars, readVars, loopVars, screenVars, tables,
                      Handling, Updating
  <2>4. QED BY <2>2, <2>3 DEF TypeOK
<1>10. QED BY <1>1, <1>2, <1>3, <1>4, <1>5, <1>6, <1>7, <1>8, <1>9 DEF Next

\* Every variable of the device database, of updateDevices and of the screens
\* keeps its type, and no Device object that is shown, stored or broadcast
\* carries a key that was not generated.
THEOREM TypeCorrect == Spec => []TypeOK
<1>1. Init => TypeOK
  BY TypeInit
<1>2. TypeOK /\ [Next]_vars => TypeOK'
  BY TypeNext
<1>3. QED BY <1>1, <1>2, PTL DEF Spec

-----------------------------------------------------------------------------
(* The devices of interfaces are stored                                    *)

\* The keys of the devices that UpdateDevicesThread has been storing, and of
\* those that updateDevices has found.
Thread == {d.key : d \in met}
Known == {devsInDB[i].key : i \in 1..Len(devsInDB)}
Reading == at["main"] \in {"key", "row", "ifaces"}

\* UpdateDevicesThread stores a device that is in the database, or has been
\* deleted since; updateDevices knows of it, and associates interfaces with a
\* device that is in the database.
StoreInv ==
    /\ at["saver"] \in {"update", "associate"} => target["saver"].key \in DOMAIN devices \cup stranded
    /\ at["saver"] = "associate" => left["saver"] \subseteq target["saver"].ifaces
    /\ Handling /\ at["saver"] # "idle" => target["saver"] \in met
    /\ at["main"] = "associate" => target["main"].key \in DOMAIN devices

\* What updateDevices has found is stored, and it has read all interfaces of it
\* that UpdateDevicesThread leaves alone.
ReadInv ==
    /\ Reading => Known \subseteq DOMAIN devices
    /\ at["main"] = "ifaces" => found.key \in DOMAIN devices
    /\ at["main"] = "delete" => target["main"].ifaces = MergedIfaces
    /\ Reading \/ at["main"] = "delete" =>
          \A i \in 1..Len(devsInDB) :
             devsInDB[i].key \notin Thread => Interfaces(devsInDB[i].key) \subseteq devsInDB[i].ifaces
    /\ ~Handling => devsInDB = <<>> /\ index = 1

OwnersInv == TypeOK /\ StoreInv /\ ReadInv /\ OwnersExist

LEMMA GotoMoves ==
    ASSUME StoreOK, NEW t \in Threads, NEW place, Goto(t, place)
    PROVE  at'[t] = place /\ \A u \in Threads : u # t => at'[u] = at[u]
BY DEF Goto, StoreOK

\* The other work of the main thread, aside from handling a device.
Aside == {"idle", "list", "listIfaces", "next"}

LEMMA HandlingPlaces ==
    ASSUME StoreOK
    PROVE  /\ Handling <=> at["main"] \in {"key", "row", "ifaces", "delete", "insert", "associate"}
           /\ ~Handling <=> at["main"] \in Aside
BY DEF StoreOK, Handling, Updating, Threads, Aside

LEMMA OwnersAside ==
    ASSUME OwnersInv, at["main"] \in Aside, at'["main"] \in Aside, at'["saver"] = at["saver"],
           UNCHANGED <<devices, owner, target, left, index, devsInDB, stranded>>
    PROVE  StoreInv' /\ ReadInv' /\ OwnersExist'
<1>1. ~Handling /\ ~Handling'
  BY DEF Aside, Handling, Updating
<1>2. StoreInv'
  BY <1>1 DEF OwnersInv, StoreInv, Aside
<1>3. ReadInv'
  BY <1>1 DEF OwnersInv, ReadInv, Aside, Reading
<1>4. Pending = {} /\ Pending' = {} /\ Claimed = {} /\ Claimed' = {}
  BY DEF Pending, Claimed, Aside
<1>5. OwnersExist'
  BY <1>4 DEF OwnersInv, OwnersExist
<1>6. QED BY <1>2, <1>3, <1>5

\* What the steps of UpdateDevicesThread leave of the main thread's state.
mainVars == <<at["main"], target["main"], left["main"], todo, index, found, devsInDB, before, nextKey>>

LEMMA MainFrame ==
    ASSUME UNCHANGED mainVars
    PROVE  /\ Handling' = Handling /\ Reading' = Reading /\ Known' = Known
           /\ MergedIfaces' = MergedIfaces /\ MergedRow' = MergedRow
           /\ Pending' = Pending /\ Claimed' = Claimed
<1>1. /\ at'["main"] = at["main"] /\ target'["main"] = target["main"] /\ left'["main"] = left["main"]
      /\ todo' = todo /\ devsInDB' = devsInDB
  BY DEF mainVars
<1>2. MergedMobility' = MergedMobility
  BY <1>1 DEF MergedMobility
<1>3. Pending' = Pending /\ Claimed' = Claimed
  BY <1>1 DEF Pending, Claimed
<1>4. QED BY <1>1, <1>2, <1>3 DEF Handling, Updating, Reading, Known, MergedIfaces, MergedRow

\* UpdateDevicesThread's steps leave updateDevices' variables alone.
LEMMA SaverSteps ==
    ASSUME TypeOK
    PROVE  /\ StoreStep("saver") => UNCHANGED mainVars /\ UNCHANGED <<before, met>>
           /\ SaveDevice => UNCHANGED mainVars
<1>1. ASSUME NEW ifaces, StillToAssociate("saver", ifaces)
      PROVE  at'["main"] = at["main"] /\ target'["main"] = target["main"] /\ left'["main"] = left["main"]
  BY <1>1 DEF StillToAssociate, Goto, TypeOK, StoreOK, Threads
<1>2. ASSUME StoreStep("saver") PROVE UNCHANGED mainVars /\ UNCHANGED <<before, met>>
  <2>1. PICK ifaces : StillToAssociate("saver", ifaces)
    BY <1>2 DEF StoreStep, InsertRow, UpdateRow, AssociateInterface
  <2>2. UNCHANGED <<todo, index, found, devsInDB>>
    BY <2>1 DEF StillToAssociate, loopVars, readVars
  <2>3. UNCHANGED <<before, met, nextKey>>
    BY <1>2 DEF StoreStep, InsertRow, UpdateRow, AssociateInterface, history
  <2>4. QED BY <1>1, <2>1, <2>2, <2>3 DEF mainVars
<1>3. ASSUME SaveDevice PROVE UNCHANGED mainVars
  BY <1>3 DEF SaveDevice, Goto, TypeOK, StoreOK, Threads, mainVars, loopVars, readVars, tables
<1>4. QED BY <1>2, <1>3

LEMMA OwnersInsertRowSaver ==
    ASSUME OwnersInv, InsertRow("saver")
    PROVE  StoreInv' /\ ReadInv' /\ OwnersExist'
<1>1. /\ DOMAIN devices' = DOMAIN devices \cup {target["saver"].key} /\ stranded' = stranded \ {target["saver"].key}
      /\ owner' = owner /\ UNCHANGED <<before, met>>
  BY DEF InsertRow
<1>2. UNCHANGED mainVars /\ at'["main"] = at["main"] /\ target'["main"] = target["main"] /\ devsInDB' = devsInDB
      /\ index' = index /\ found' = found
  BY SaverSteps DEF OwnersInv, StoreStep, mainVars
<1>3. /\ at["saver"] = "insert"
      /\ \/ at'["saver"] = "idle" /\ left'["saver"] = {}
         \/ at'["saver"] = "associate" /\ target' = target /\ left'["saver"] = target["saver"].ifaces
  BY GotoMoves DEF InsertRow, StillToAssociate, OwnersInv, TypeOK, StoreOK, Threads
<1>4. StoreInv'
  BY <1>1, <1>2, <1>3, MainFrame DEF OwnersInv, StoreInv
<1>5. ReadInv'
  BY <1>1, <1>2, MainFrame DEF OwnersInv, ReadInv, Thread, Interfaces
<1>6. OwnersExist'
  BY <1>1, <1>2, MainFrame DEF OwnersInv, OwnersExist
<1>7. QED BY <1>4, <1>5, <1>6

LEMMA OwnersUpdateRowSaver ==
    ASSUME OwnersInv, UpdateRow("saver")
    PROVE  StoreInv' /\ ReadInv' /\ OwnersExist'
<1>1. DOMAIN devices' = DOMAIN devices /\ owner' = owner /\ UNCHANGED <<before, met, stranded>>
  BY DEF UpdateRow, history
<1>2. UNCHANGED mainVars /\ at'["main"] = at["main"] /\ target'["main"] = target["main"] /\ devsInDB' = devsInDB
      /\ index' = index /\ found' = found
  BY SaverSteps DEF OwnersInv, StoreStep, mainVars
<1>3. /\ at["saver"] = "update"
      /\ \/ at'["saver"] = "idle" /\ left'["saver"] = {}
         \/ at'["saver"] = "associate" /\ target' = target /\ left'["saver"] = target["saver"].ifaces
  BY GotoMoves DEF UpdateRow, StillToAssociate, OwnersInv, TypeOK, StoreOK, Threads
<1>4. StoreInv'
  BY <1>1, <1>2, <1>3, MainFrame DEF OwnersInv, StoreInv
<1>5. ReadInv'
  BY <1>1, <1>2, MainFrame DEF OwnersInv, ReadInv, Thread, Interfaces
<1>6. OwnersExist'
  BY <1>1, <1>2, MainFrame DEF OwnersInv, OwnersExist
<1>7. QED BY <1>4, <1>5, <1>6

LEMMA OwnersAssociateSaver ==
    ASSUME OwnersInv, AssociateInterface("saver")
    PROVE  StoreInv' /\ ReadInv' /\ OwnersExist'
<1>0. PICK m \in left["saver"] : /\ owner' = [owner EXCEPT ![m] = target["saver"].key]
                                 /\ StillToAssociate("saver", left["saver"] \ {m})
  BY DEF AssociateInterface
<1>1. devices' = devices /\ UNCHANGED <<before, met, stranded>> /\ at["saver"] = "associate"
  BY DEF AssociateInterface, history
<1>2. UNCHANGED mainVars /\ at'["main"] = at["main"] /\ target'["main"] = target["main"] /\ devsInDB' = devsInDB
      /\ index' = index /\ found' = found
  BY SaverSteps DEF OwnersInv, StoreStep, mainVars
<1>3. \/ at'["saver"] = "idle" /\ left'["saver"] = {}
      \/ at'["saver"] = "associate" /\ target' = target /\ left'["saver"] = left["saver"] \ {m}
  BY <1>0, GotoMoves DEF StillToAssociate, OwnersInv, TypeOK, StoreOK, Threads
<1>4. StoreInv'
  BY <1>1, <1>2, <1>3, MainFrame DEF OwnersInv, StoreInv
<1>5. m \in MACs /\ \A n \in MACs : owner'[n] = IF n = m THEN target["saver"].key ELSE owner[n]
  BY <1>0, TargetType DEF OwnersInv, TypeOK, TablesOK, Threads
<1>6. ReadInv'
  <2>1. Handling => target["saver"].key \in Thread
    BY <1>1 DEF OwnersInv, StoreInv, Thread
  <2>2. Reading \/ at["main"] = "delete" => Handling
    BY DEF Reading, Handling, Updating
  <2>3. ASSUME NEW i \in 1..Len(devsInDB), devsInDB[i].key \notin Thread, Handling
        PROVE  Interfaces(devsInDB[i].key)' \subseteq Interfaces(devsInDB[i].key)
    BY <1>2, <1>5, <2>1, <2>3 DEF Interfaces
  <2>4. QED BY <1>1, <1>2, <2>2, <2>3, MainFrame DEF OwnersInv, ReadInv, Thread
<1>7. OwnersExist'
  <2>1. target["saver"].key \in DOMAIN devices \cup stranded
    BY <1>1 DEF OwnersInv, StoreInv
  <2>2. QED BY <1>1, <1>2, <1>5, <2>1, MainFrame DEF OwnersInv, OwnersExist
<1>8. QED BY <1>4, <1>6, <1>7

LEMMA OwnersSaveDevice ==
    ASSUME OwnersInv, SaveDevice
    PROVE  StoreInv' /\ ReadInv' /\ OwnersExist'
<1>1. UNCHANGED <<devices, owner, left, stranded>> /\ met' = (IF Handling THEN met \cup {Head(saving)} ELSE met)
      /\ target' = [target EXCEPT !["saver"] = Head(saving)]
  BY DEF SaveDevice, tables
<1>2. UNCHANGED mainVars /\ at'["main"] = at["main"] /\ target'["main"] = target["main"] /\ devsInDB' = devsInDB
      /\ index' = index /\ found' = found
  BY SaverSteps DEF OwnersInv, mainVars
<1>3. at'["saver"] = IF Head(saving).key \in DOMAIN devices THEN "update" ELSE "insert"
  BY GotoMoves DEF SaveDevice, OwnersInv, TypeOK, Threads
<1>4. target'["saver"] = Head(saving)
  BY <1>1 DEF OwnersInv, TypeOK, StoreOK, Threads
<1>5. StoreInv'
  BY <1>1, <1>2, <1>3, <1>4, MainFrame DEF OwnersInv, StoreInv
<1>6. ReadInv'
  BY <1>1, <1>2, MainFrame DEF OwnersInv, ReadInv, Thread, Interfaces
<1>7. OwnersExist'
  BY <1>1, <1>2, MainFrame DEF OwnersInv, OwnersExist
<1>8. QED BY <1>5, <1>6, <1>7

\* Steps of the main thread that change no table.
LEMMA OwnersBeginDevice ==
    ASSUME OwnersInv, BeginDevice
    PROVE  StoreInv' /\ ReadInv' /\ OwnersExist'
<1>1. /\ UNCHANGED <<devices, owner, target, left, index, devsInDB, stranded>> /\ at["main"] = "next"
      /\ met' = (IF at["saver"] = "idle" THEN {} ELSE {target["saver"]})
  BY DEF BeginDevice, tables, readVars
<1>2. at'["main"] = "key" /\ at'["saver"] = at["saver"]
  BY GotoMoves DEF BeginDevice, OwnersInv, TypeOK, Threads
<1>3. devsInDB = <<>>
  BY <1>1 DEF OwnersInv, ReadInv, Handling
<1>4. StoreInv'
  BY <1>1, <1>2 DEF OwnersInv, StoreInv
<1>5. ReadInv'
  BY <1>1, <1>2, <1>3 DEF ReadInv, Reading, Handling, Updating, Known
<1>6. OwnersExist'
  BY <1>1, <1>2 DEF OwnersInv, OwnersExist, Pending, Claimed
<1>7. QED BY <1>4, <1>5, <1>6

LEMMA OwnersReadKeyOrRow ==
    ASSUME OwnersInv, ReadKey \/ ReadRow
    PROVE  StoreInv' /\ ReadInv' /\ OwnersExist'
<1>1. /\ UNCHANGED <<devices, owner, target, left, devsInDB, stranded, met>>
      /\ at["main"] \in {"key", "row"} /\ at'["main"] \in {"key", "row", "ifaces"} /\ at'["saver"] = at["saver"]
  BY GotoMoves DEF ReadKey, ReadRow, OwnersInv, TypeOK, Threads, tables, history
<1>2. at'["main"] = "ifaces" => found'.key \in DOMAIN devices
  <2>1. CASE ReadKey
    BY <1>1, <2>1, GotoMoves DEF ReadKey, OwnersInv, TypeOK, Threads
  <2>2. CASE ReadRow /\ found.key \in DOMAIN devices
    <3>1. found' = [found EXCEPT !.row = devices[found.key]]
      BY <2>2 DEF ReadRow
    <3>2. found'.key = found.key
      BY <3>1 DEF OwnersInv, TypeOK, ReadOK, AnyObject
    <3>3. QED BY <2>2, <3>2
  <2>3. CASE ReadRow /\ found.key \notin DOMAIN devices
    BY <2>3, GotoMoves DEF ReadRow, OwnersInv, TypeOK, Threads
  <2>4. QED BY <2>1, <2>2, <2>3
<1>3. StoreInv'
  BY <1>1 DEF OwnersInv, StoreInv, Handling, Updating
<1>4. ReadInv'
  BY <1>1, <1>2 DEF OwnersInv, ReadInv, Reading, Handling, Updating, Known, Thread, Interfaces
<1>5. OwnersExist'
  BY <1>1 DEF OwnersInv, OwnersExist, Pending, Claimed
<1>6. QED BY <1>3, <1>4, <1>5

LEMMA Appended ==
    ASSUME NEW S, NEW s \in Seq(S), NEW e
    PROVE  /\ Len(Append(s, e)) = Len(s) + 1 /\ Len(s) \in Nat
           /\ \A i \in 1..(Len(s) + 1) : Append(s, e)[i] = IF i = Len(s) + 1 THEN e ELSE s[i]
OBVIOUS

LEMMA OwnersReadIfaces ==
    ASSUME OwnersInv, ReadIfaces
    PROVE  StoreInv' /\ ReadInv' /\ OwnersExist'
<1>1. /\ UNCHANGED <<devices, owner, target, left, stranded, met>> /\ at["main"] = "ifaces"
      /\ at'["main"] = "key" /\ at'["saver"] = at["saver"]
      /\ devsInDB' = Append(devsInDB, [found EXCEPT !.ifaces = Interfaces(found.key)])
  BY GotoMoves DEF ReadIfaces, OwnersInv, TypeOK, Threads, tables, history
<1> DEFINE e == [found EXCEPT !.ifaces = Interfaces(found.key)]
<1>2. e.key = found.key /\ e.ifaces = Interfaces(found.key)
  BY DEF OwnersInv, TypeOK, ReadOK, AnyObject
<1>3. /\ Len(devsInDB') = Len(devsInDB) + 1 /\ Len(devsInDB) \in Nat
      /\ \A i \in 1..(Len(devsInDB) + 1) : devsInDB'[i] = IF i = Len(devsInDB) + 1 THEN e ELSE devsInDB[i]
  BY <1>1, Appended DEF OwnersInv, TypeOK, ReadOK
<1> HIDE DEF e
<1>4. StoreInv'
  BY <1>1 DEF OwnersInv, StoreInv, Handling, Updating
<1>5. ReadInv'
  <2>1. found.key \in DOMAIN devices /\ Known \subseteq DOMAIN devices
    BY <1>1 DEF OwnersInv, ReadInv, Reading
  <2>2. \A i \in 1..Len(devsInDB') : devsInDB'[i].key \in DOMAIN devices
    BY <1>2, <1>3, <2>1 DEF Known
  <2>3. \A k : Interfaces(k)' = Interfaces(k)
    BY <1>1 DEF Interfaces
  <2>4. \A i \in 1..Len(devsInDB') :
           devsInDB'[i].key \notin Thread => Interfaces(devsInDB'[i].key) \subseteq devsInDB'[i].ifaces
    BY <1>1, <1>2, <1>3 DEF OwnersInv, ReadInv, Reading
  <2>5. QED BY <1>1, <2>2, <2>3, <2>4 DEF ReadInv, Reading, Handling, Updating, Known, Thread
<1>6. OwnersExist'
  BY <1>1 DEF OwnersInv, OwnersExist, Pending, Claimed
<1>7. QED BY <1>4, <1>5, <1>6

LEMMA DecideMoves ==
    ASSUME StoreOK, NEW place, NEW device, NEW ifaces, Decide(place, device, ifaces)
    PROVE  /\ at["main"] = "key" /\ at'["main"] = place /\ at'["saver"] = at["saver"]
           /\ target'["main"] = device /\ target'["saver"] = target["saver"]
           /\ left'["main"] = ifaces /\ left'["saver"] = left["saver"]
           /\ UNCHANGED <<devices, owner, nextKey, todo, found, devsInDB, before, met, stranded>>
<1>1. at["main"] = "key" /\ at'["main"] = place /\ at'["saver"] = at["saver"]
  BY GotoMoves DEF Decide, Threads
<1>2. QED BY <1>1 DEF Decide, StoreOK, Threads, tables, loopVars, history

LEMMA OwnersDecide ==
    ASSUME OwnersInv, InsertDevice \/ ExtendDevice \/ MergeDevices
    PROVE  StoreInv' /\ ReadInv' /\ OwnersExist'
<1> StoreOK
  BY DEF OwnersInv, TypeOK
<1>1. PICK place, device, ifaces :
         /\ place \in {"insert", "associate", "delete"} /\ Decide(place, device, ifaces)
         /\ place = "associate" => device = devsInDB[1] /\ Len(devsInDB) = 1
         /\ place = "delete" => device.ifaces = MergedIfaces
  <2>1. CASE InsertDevice
    BY <2>1 DEF InsertDevice
  <2>2. CASE ExtendDevice
    BY <2>2 DEF ExtendDevice
  <2>3. CASE MergeDevices
    BY <2>3 DEF MergeDevices, Device
  <2>4. QED BY <2>1, <2>2, <2>3
<1>2. /\ at["main"] = "key" /\ at'["main"] = place /\ at'["saver"] = at["saver"]
      /\ target'["main"] = device /\ target'["saver"] = target["saver"] /\ left'["saver"] = left["saver"]
      /\ UNCHANGED <<devices, owner, devsInDB, met, stranded>>
  BY <1>1, DecideMoves
<1>3. Handling /\ Handling' /\ Reading /\ ~Reading'
  BY <1>1, <1>2 DEF Handling, Updating, Reading
<1>4. StoreInv'
  <2>1. place = "associate" => device.key \in Known
    BY <1>1 DEF Known
  <2>2. Known \subseteq DOMAIN devices
    BY <1>3 DEF OwnersInv, ReadInv
  <2>3. QED BY <1>2, <1>3, <2>1, <2>2 DEF OwnersInv, StoreInv
<1>5. ReadInv'
  <2>1. MergedIfaces' = MergedIfaces
    BY <1>2 DEF MergedIfaces
  <2>2. at'["main"] # "ifaces"
    BY <1>1, <1>2
  <2>3. QED BY <1>1, <1>2, <1>3, <2>1, <2>2 DEF OwnersInv, ReadInv, Thread, Interfaces
<1>6. OwnersExist'
  <2>1. Pending = {} /\ Claimed = {}
    BY <1>2 DEF Pending, Claimed
  <2>2. QED BY <1>2, <2>1 DEF OwnersInv, OwnersExist
<1>7. QED BY <1>4, <1>5, <1>6

\* A deleted device's interfaces are those it was read with, which the merged
\* device is about to get, unless UpdateDevicesThread was storing it.
LEMMA OwnersDeleteRow ==
    ASSUME OwnersInv, DeleteRow
    PROVE  StoreInv' /\ ReadInv' /\ OwnersExist'
<1> DEFINE key == devsInDB[index].key
<1>1. /\ UNCHANGED <<owner, target, todo, devsInDB, met>> /\ at["main"] = "delete"
      /\ DOMAIN devices' = DOMAIN devices \ {key}
      /\ stranded' = IF key \in Thread THEN stranded \cup {key} ELSE stranded \ {key}
  BY DEF DeleteRow, loopVars, Thread
<1>2. /\ at'["saver"] = at["saver"] /\ left'["saver"] = left["saver"]
      /\ \/ at'["main"] = "delete"
         \/ at'["main"] = "insert" /\ left'["main"] = Elements(Head(todo))
  BY GotoMoves DEF DeleteRow, OwnersInv, TypeOK, StoreOK, Threads
<1>3. index \in 1..Len(devsInDB)
  BY <1>1 DEF OwnersInv, TypeOK, ReadOK
<1>4. Handling /\ Handling' /\ ~Reading /\ ~Reading'
  BY <1>1, <1>2 DEF Handling, Updating, Reading
<1> HIDE DEF key
<1>5. StoreInv'
  <2>1. at["saver"] # "idle" => target["saver"].key \in Thread
    BY <1>4 DEF OwnersInv, StoreInv, Thread
  <2>2. QED BY <1>1, <1>2, <1>4, <2>1 DEF OwnersInv, StoreInv
<1>6. ReadInv'
  BY <1>1, <1>2, <1>4 DEF OwnersInv, ReadInv, Thread, Interfaces, MergedIfaces
<1>7. OwnersExist'
  <2>1. Pending' = Pending /\ Pending = MergedIfaces \cup Elements(Head(todo))
    BY <1>1, <1>2 DEF Pending, OwnersInv, ReadInv
  <2>2. key \notin Thread => Interfaces(key) \subseteq MergedIfaces
    BY <1>1, <1>3 DEF OwnersInv, ReadInv, MergedIfaces, key
  <2>3. Claimed = {}
    BY <1>1 DEF Claimed
  <2>4. QED BY <1>1, <2>1, <2>2, <2>3 DEF OwnersInv, OwnersExist, Interfaces
<1>8. QED BY <1>5, <1>6, <1>7

LEMMA OwnersClaimInterface ==
    ASSUME OwnersInv, ClaimInterface
    PROVE  StoreInv' /\ ReadInv' /\ OwnersExist'
<1>0. PICK m \in left["main"] : /\ owner' = [owner EXCEPT ![m] = target["main"].key]
                                /\ left' = [left EXCEPT !["main"] = @ \ {m}]
  BY DEF ClaimInterface
<1>1. /\ UNCHANGED <<devices, at, target, todo, index, devsInDB, met, stranded>> /\ at["main"] = "insert"
  BY DEF ClaimInterface, loopVars, readVars, history
<1>2. left'["main"] = left["main"] \ {m} /\ left'["saver"] = left["saver"]
  BY <1>0 DEF OwnersInv, TypeOK, StoreOK, Threads
<1>3. \A n \in MACs : owner'[n] = IF n = m THEN target["main"].key ELSE owner[n]
  BY <1>0 DEF OwnersInv, TypeOK, TablesOK
<1>4. StoreInv'
  BY <1>1, <1>2 DEF OwnersInv, StoreInv, Handling, Updating
<1>5. ReadInv'
  BY <1>1 DEF OwnersInv, ReadInv, Reading, Handling, Updating
<1>6. OwnersExist'
  <2>1. Claimed = {target["main"].key} /\ Claimed' = Claimed
    BY <1>1 DEF Claimed
  <2>2. Pending = target["main"].ifaces \cup left["main"] /\ Pending' = target["main"].ifaces \cup left'["main"]
    BY <1>1 DEF Pending
  <2>3. QED BY <1>1, <1>2, <1>3, <2>1, <2>2 DEF OwnersInv, OwnersExist
<1>7. QED BY <1>4, <1>5, <1>6

LEMMA OwnersInsertRowMain ==
    ASSUME OwnersInv, InsertRow("main")
    PROVE  StoreInv' /\ ReadInv' /\ OwnersExist'
<1>1. /\ DOMAIN devices' = DOMAIN devices \cup {target["main"].key} /\ stranded' = stranded \ {target["main"].key}
      /\ UNCHANGED <<owner, met, target, index, devsInDB, todo>> /\ at["main"] = "insert" /\ left["main"] = {}
  BY DEF InsertRow, StillToAssociate, readVars, loopVars
<1>2. /\ at'["main"] = "associate" /\ at'["saver"] = at["saver"]
      /\ left'["main"] = target["main"].ifaces /\ left'["saver"] = left["saver"]
  BY GotoMoves DEF InsertRow, StillToAssociate, OwnersInv, TypeOK, StoreOK, Threads
<1>3. Handling /\ Handling' /\ ~Reading'
  BY <1>1, <1>2 DEF Handling, Updating, Reading
<1>4. StoreInv'
  BY <1>1, <1>2, <1>3 DEF OwnersInv, StoreInv
<1>5. ReadInv'
  BY <1>1, <1>2, <1>3 DEF OwnersInv, ReadInv
<1>6. OwnersExist'
  <2>1. Claimed = {target["main"].key} /\ Claimed' = {}
    BY <1>1, <1>2 DEF Claimed
  <2>2. Pending = target["main"].ifaces /\ Pending' = target["main"].ifaces
    BY <1>1, <1>2 DEF Pending
  <2>3. QED BY <1>1, <2>1, <2>2 DEF OwnersInv, OwnersExist
<1>7. QED BY <1>4, <1>5, <1>6

LEMMA OwnersAssociateMain ==
    ASSUME OwnersInv, AssociateInterface("main")
    PROVE  StoreInv' /\ ReadInv' /\ OwnersExist'
<1>0. PICK m \in left["main"] : /\ owner' = [owner EXCEPT ![m] = target["main"].key]
                                /\ StillToAssociate("main", left["main"] \ {m})
  BY DEF AssociateInterface
<1>1. UNCHANGED <<devices, met, stranded, target, index, devsInDB, todo>> /\ at["main"] = "associate"
  BY <1>0 DEF AssociateInterface, StillToAssociate, history, readVars, loopVars
<1>2. /\ at'["main"] = "associate" /\ at'["saver"] = at["saver"]
      /\ left'["main"] = left["main"] \ {m} /\ left'["saver"] = left["saver"]
  BY <1>0, GotoMoves DEF StillToAssociate, OwnersInv, TypeOK, StoreOK, Threads
<1>3. Handling /\ Handling' /\ ~Reading'
  BY <1>1, <1>2 DEF Handling, Updating, Reading
<1>4. StoreInv'
  BY <1>1, <1>2, <1>3 DEF OwnersInv, StoreInv
<1>5. ReadInv'
  BY <1>1, <1>2, <1>3 DEF OwnersInv, ReadInv
<1>6. OwnersExist'
  <2>1. \A n \in MACs : owner'[n] = IF n = m THEN target["main"].key ELSE owner[n]
    BY <1>0 DEF OwnersInv, TypeOK, TablesOK
  <2>2. Claimed = {} /\ Claimed' = {} /\ Pending = left["main"] /\ Pending' = left'["main"]
    BY <1>1, <1>2 DEF Claimed, Pending
  <2>3. target["main"].key \in DOMAIN devices
    BY <1>1 DEF OwnersInv, StoreInv
  <2>4. QED BY <1>1, <1>2, <2>1, <2>2, <2>3 DEF OwnersInv, OwnersExist
<1>7. QED BY <1>4, <1>5, <1>6

LEMMA OwnersFinishDevice ==
    ASSUME OwnersInv, FinishDevice
    PROVE  StoreInv' /\ ReadInv' /\ OwnersExist'
<1>1. /\ UNCHANGED <<devices, owner, left, stranded>> /\ at["main"] = "associate" /\ left["main"] = {}
      /\ target' = [target EXCEPT !["main"] = Nothing] /\ index' = 1 /\ devsInDB' = <<>>
  BY DEF FinishDevice
<1>2. at'["main"] = "next" /\ at'["saver"] = at["saver"] /\ target'["saver"] = target["saver"]
  BY <1>1, GotoMoves DEF FinishDevice, OwnersInv, TypeOK, StoreOK, Threads
<1>3. StoreInv'
  BY <1>1, <1>2 DEF OwnersInv, StoreInv, Handling, Updating
<1>4. ReadInv'
  BY <1>1, <1>2 DEF ReadInv, Reading, Handling, Updating
<1>5. OwnersExist'
  <2>1. Claimed = {} /\ Claimed' = {} /\ Pending = {} /\ Pending' = {}
    BY <1>1, <1>2 DEF Claimed, Pending
  <2>2. QED BY <1>1, <2>1 DEF OwnersInv, OwnersExist
<1>6. QED BY <1>3, <1>4, <1>5

\* The screens, and the beginning and the end of updateDevices.
LEMMA AsideSteps ==
    ASSUME TypeOK,
           \/ \E scan \in Scans : ScanFiltered(scan)
           \/ BroadcastResults \/ ListRow \/ ListIfaces \/ ReceiveResponse \/ MissResponse \/ Rescan
           \/ \E s \in Screens : OpenScreen(s)
           \/ \E ticked, again : SaveSelections(ticked, again)
    PROVE  /\ at["main"] \in Aside /\ at'["main"] \in Aside /\ at'["saver"] = at["saver"]
           /\ UNCHANGED <<devices, owner, target, left, index, devsInDB, stranded>>
<1>1. at' = at \/ \E place \in Aside : Goto("main", place)
  BY DEF ScanFiltered, BroadcastResults, ListRow, ListIfaces, ReceiveResponse, MissResponse, Rescan, OpenScreen,
         SaveSelections, ListDevices, Aside, storeVars
<1>2. at["main"] \in Aside
  BY DEF ScanFiltered, BroadcastResults, ListRow, ListIfaces, ReceiveResponse, MissResponse, Rescan, OpenScreen,
         SaveSelections, Aside
<1>3. at'["main"] \in Aside /\ at'["saver"] = at["saver"]
  BY <1>1, <1>2, GotoMoves DEF TypeOK, Threads
<1>4. UNCHANGED <<devices, owner, target, left, index, devsInDB, stranded>>
  BY DEF ScanFiltered, BroadcastResults, ListRow, ListIfaces, ReceiveResponse, MissResponse, Rescan, OpenScreen,
         SaveSelections, tables, storeVars, readVars, history
<1>5. QED BY <1>2, <1>3, <1>4

LEMMA OwnersNext ==
    ASSUME OwnersInv, [Next]_vars
    PROVE  StoreInv' /\ ReadInv' /\ OwnersExist'
<1>1. ASSUME NEW t \in Threads, StoreStep(t) PROVE StoreInv' /\ ReadInv' /\ OwnersExist'
  <2>1. CASE t = "saver"
    BY <1>1, <2>1, OwnersInsertRowSaver, OwnersUpdateRowSaver, OwnersAssociateSaver DEF StoreStep
  <2>2. CASE t = "main"
    <3>1. ~UpdateRow("main")
      BY DEF UpdateRow, OwnersInv, TypeOK, StoreOK
    <3>2. QED BY <1>1, <2>2, <3>1, OwnersInsertRowMain, OwnersAssociateMain DEF StoreStep
  <2>3. QED BY <2>1, <2>2 DEF Threads
<1>2. CASE UpdateStep
  BY <1>2, OwnersBeginDevice, OwnersReadKeyOrRow, OwnersReadIfaces, OwnersDecide, OwnersDeleteRow,
     OwnersClaimInterface, OwnersFinishDevice DEF UpdateStep
<1>3. CASE SaveDevice
  BY <1>3, OwnersSaveDevice
<1>4. CASE \/ \E scan \in Scans : ScanFiltered(scan)
           \/ BroadcastResults \/ ListRow \/ ListIfaces \/ ReceiveResponse \/ MissResponse \/ Rescan
           \/ \E s \in Screens : OpenScreen(s)
           \/ \E ticked, again : SaveSelections(ticked, again)
  <2>1. TypeOK
    BY DEF OwnersInv
  <2>2. QED BY <1>4, <2>1, AsideSteps, OwnersAside
<1>5. CASE UNCHANGED vars
  <2>1. UNCHANGED <<devices, owner, at, target, left, todo, index, found, devsInDB, met, stranded>>
    BY <1>5 DEF vars, tables, storeVars, loopVars, readVars, history
  <2>2. QED BY <2>1 DEF OwnersInv, StoreInv, ReadInv, OwnersExist, Pending, Claimed, Handling, Updating,
                        Reading, Known, Thread, Interfaces, MergedIfaces
<1>6. QED BY <1>1, <1>2, <1>3, <1>4, <1>5 DEF Next

LEMMA OwnersInvariant == Spec => []OwnersInv
<1>1. Init => OwnersInv
  <2>1. ASSUME Init PROVE StoreInv /\ ReadInv /\ OwnersExist
    BY <2>1 DEF Init, StoreInv, ReadInv, OwnersExist, Handling, Updating, Reading, Threads
  <2>2. QED BY <2>1, TypeInit DEF OwnersInv
<1>2. OwnersInv /\ [Next]_vars => OwnersInv'
  BY OwnersNext, TypeNext DEF OwnersInv
<1>3. QED BY <1>1, <1>2, PTL DEF Spec

\* Every interface's device is stored, whatever UpdateDevicesThread stores while
\* a scan merges the devices: unless a merge is about to give the interface a
\* new one, or deleted the device while that thread was storing it.
THEOREM OwnersAreStored == Spec => []OwnersExist
<1>1. OwnersInv => OwnersExist
  BY DEF OwnersInv
<1>2. QED BY <1>1, OwnersInvariant, PTL

-----------------------------------------------------------------------------
(* The handling of a scanned device                                        *)

Scanned == Elements(Head(todo))
Deciding == at["main"] \in {"delete", "insert", "associate"}

\* The devices a merge deletes, and the interfaces that have their new device.
Gone == IF Deciding /\ Len(devsInDB) > 1 THEN Known ELSE {}
Moved ==
    {m \in MACs :
       \/ at["main"] = "insert" /\ Len(devsInDB) > 1 /\ m \in Scanned \ left["main"]
       \/ at["main"] = "associate" /\ Len(devsInDB) > 1 /\ m \in Scanned \cup (MergedIfaces \ left["main"])
       \/ at["main"] = "associate" /\ ~(Len(devsInDB) > 1) /\ m \in Scanned \ left["main"]}

\* What is to be stored.
Decided ==
    /\ at["main"] = "delete" => Len(devsInDB) > 1
    /\ Deciding => /\ Len(devsInDB) = 0 => target["main"].ifaces = Scanned
                   /\ Len(devsInDB) = 1 => target["main"].key = devsInDB[1].key
                   /\ Len(devsInDB) > 1 => /\ target["main"].row = MergedRow
                                           /\ target["main"].ifaces = MergedIfaces
    /\ at["main"] = "insert" => left["main"] \subseteq IF Len(devsInDB) > 1 THEN Scanned ELSE {}
    /\ at["main"] = "associate" => left["main"] \subseteq IF Len(devsInDB) > 1 THEN MergedIfaces ELSE Scanned

\* Interfaces and rows are as they were, but for those the main thread has moved
\* or deleted and those that met UpdateDevicesThread.
OwnersKept ==
    \A m \in MACs : Undisturbed(m) => owner[m] = IF m \in Moved THEN target["main"].key ELSE before.owner[m]

RowKept(k) ==
    /\ k \in DOMAIN devices <=> k \in DOMAIN before.devices
    /\ k \in DOMAIN devices => devices[k] = before.devices[k]
RowsKept == \A k \in UsedKeys \cup {None} : k \notin Thread \cup Gone => RowKept(k)

\* So is what was read.
FoundAsBefore ==
    /\ at["main"] \in {"row", "ifaces"} =>
          (Undisturbed(Head(todo)[index]) => found.key = before.owner[Head(todo)[index]])
    /\ at["main"] = "ifaces" /\ found.key \notin Thread =>
          found.key \in DOMAIN before.devices /\ found.row = before.devices[found.key]

EntryAsBefore(d) ==
    /\ \E x \in Scanned : Undisturbed(x) => d.key = before.owner[x]
    /\ \A m \in MACs : Undisturbed(m) => (m \in d.ifaces <=> before.owner[m] = d.key)
    /\ d.key \notin Thread => d.key \in DOMAIN before.devices /\ d.row = before.devices[d.key]
EntriesAsBefore == \A i \in 1..Len(devsInDB) : EntryAsBefore(devsInDB[i])

\* The devices of the interfaces looked up have been found.
AllFound ==
    \A j \in 1..Len(Head(todo)) :
       ~Reading \/ j < index =>
          LET x == Head(todo)[j]
          IN  Undisturbed(x) /\ before.owner[x] \in DOMAIN before.devices => before.owner[x] \in Known

\* The new device is stored as decided.
NewStored == at["main"] = "associate" /\ Len(devsInDB) # 1 => devices[nextKey] = target["main"].row

HandleInv ==
    Handling => /\ Decided /\ OwnersKept /\ RowsKept
                /\ FoundAsBefore /\ EntriesAsBefore /\ AllFound /\ NewStored

\* What UpdateDevicesThread does to the devices it stores is outside.
LEMMA HandleBesides ==
    ASSUME HandleInv, OwnersInv, UNCHANGED mainVars, Thread \subseteq Thread',
           \A m \in MACs : Undisturbed(m)' => Undisturbed(m) /\ owner'[m] = owner[m],
           \A k \in UsedKeys \cup {None} : k \notin Thread' =>
              (k \in DOMAIN devices' <=> k \in DOMAIN devices) /\ (k \in DOMAIN devices => devices'[k] = devices[k]),
           Handling /\ nextKey \in DOMAIN devices => devices'[nextKey] = devices[nextKey]
    PROVE  HandleInv'
<1> TypeOK
  BY DEF OwnersInv
<1>1. /\ at'["main"] = at["main"] /\ target'["main"] = target["main"] /\ left'["main"] = left["main"]
      /\ UNCHANGED <<todo, index, found, devsInDB, before, nextKey>>
  BY DEF mainVars
<1>2. /\ Handling' = Handling /\ Reading' = Reading /\ Known' = Known
      /\ MergedIfaces' = MergedIfaces /\ MergedRow' = MergedRow
  BY MainFrame
<1>3. Scanned' = Scanned /\ Deciding' = Deciding /\ Gone' = Gone /\ Moved' = Moved /\ UsedKeys' = UsedKeys
  BY <1>1, <1>2 DEF Scanned, Deciding, Gone, Moved, UsedKeys
<1> SUFFICES ASSUME Handling PROVE HandleInv'
  BY <1>2 DEF HandleInv
<1>4. Decided'
  BY <1>1, <1>2, <1>3 DEF HandleInv, Decided
<1>5. OwnersKept'
  BY <1>1, <1>2, <1>3 DEF HandleInv, OwnersKept
<1>6. RowsKept'
  BY <1>1, <1>2, <1>3 DEF HandleInv, RowsKept, RowKept
<1>7. todo # <<>> /\ Head(todo) \in Seq(MACs) /\ Scanned \subseteq MACs
  BY HeadOfTodo DEF TypeOK, ReadOK, Scanned
<1>8. FoundAsBefore'
  <2>1. at["main"] \in {"row", "ifaces"} => Head(todo)[index] \in MACs
    BY <1>7, ElementOfSeq DEF TypeOK, ReadOK
  <2>2. QED BY <1>1, <2>1 DEF HandleInv, FoundAsBefore
<1>9. EntriesAsBefore'
  <2>1. ASSUME NEW i \in 1..Len(devsInDB) PROVE EntryAsBefore(devsInDB[i])'
    <3>1. EntryAsBefore(devsInDB[i])
      BY DEF HandleInv, EntriesAsBefore
    <3>2. QED BY <1>1, <1>3, <1>7, <3>1 DEF EntryAsBefore
  <2>2. QED BY <1>1, <2>1 DEF EntriesAsBefore
<1>10. AllFound'
  <2>1. \A j \in 1..Len(Head(todo)) : Head(todo)[j] \in MACs
    BY <1>7, ElementOfSeq
  <2>2. QED BY <1>1, <1>2, <2>1 DEF HandleInv, AllFound
<1>11. NewStored'
  <2>1. at["main"] = "associate" /\ Len(devsInDB) # 1 => nextKey \in DOMAIN devices
    BY DEF TypeOK, StoreOK, Fresh, OwnersInv, StoreInv
  <2>2. QED BY <1>1, <2>1 DEF HandleInv, NewStored
<1>12. QED BY <1>4, <1>5, <1>6, <1>8, <1>9, <1>10, <1>11 DEF HandleInv

LEMMA HandleSaver ==
    ASSUME OwnersInv, HandleInv, StoreStep("saver") \/ SaveDevice
    PROVE  HandleInv'
<1> TypeOK
  BY DEF OwnersInv
<1>1. UNCHANGED mainVars /\ at'["main"] = at["main"] /\ before' = before /\ Handling' = Handling
  BY SaverSteps, MainFrame DEF mainVars
<1> SUFFICES ASSUME Handling PROVE HandleInv'
  BY <1>1 DEF HandleInv
<1>2. met \subseteq met'
  BY SaverSteps DEF SaveDevice
<1>3. Thread \subseteq Thread' /\ \A m \in MACs : Undisturbed(m)' => Undisturbed(m)
  BY <1>1, <1>2 DEF Thread, Undisturbed
<1>4. at["saver"] # "idle" => target["saver"] \in met /\ target["saver"].key \in Thread
  BY DEF OwnersInv, StoreInv, Thread
<1>5. StoreStep("saver") => at["saver"] # "idle"
  BY DEF StoreStep, InsertRow, UpdateRow, AssociateInterface
<1>6. at["saver"] # "idle" => target["saver"].key # nextKey
  BY DEF TypeOK, StoreOK, UsedKeys, TablesOK, Keys
<1>7. ASSUME NEW m \in MACs, Undisturbed(m)' PROVE owner'[m] = owner[m]
  <2>1. CASE AssociateInterface("saver")
    <3>1. PICK x \in left["saver"] : owner' = [owner EXCEPT ![x] = target["saver"].key]
      BY <2>1 DEF AssociateInterface
    <3>2. x \in target["saver"].ifaces
      BY <2>1, <3>1 DEF AssociateInterface, OwnersInv, StoreInv
    <3>3. m # x
      BY <1>3, <1>4, <1>5, <1>7, <2>1, <3>2 DEF Undisturbed, StoreStep
    <3>4. QED BY <3>1, <3>3 DEF TypeOK, TablesOK
  <2>2. CASE ~AssociateInterface("saver")
    BY <2>2 DEF StoreStep, InsertRow, UpdateRow, SaveDevice, tables
  <2>3. QED BY <2>1, <2>2
<1>8. ASSUME NEW k, k \notin Thread \/ k = nextKey
      PROVE  (k \in DOMAIN devices' <=> k \in DOMAIN devices) /\ (k \in DOMAIN devices => devices'[k] = devices[k])
  <2>1. CASE StoreStep("saver")
    <3>1. k # target["saver"].key
      BY <1>4, <1>5, <1>6, <1>8, <2>1
    <3>2. CASE InsertRow("saver")
      <4>1. devices' = [j \in DOMAIN devices \cup {target["saver"].key} |->
                          IF j = target["saver"].key THEN target["saver"].row ELSE devices[j]]
        BY <3>2 DEF InsertRow
      <4>2. QED BY <3>1, <4>1
    <3>3. CASE UpdateRow("saver")
      BY <3>1, <3>3 DEF UpdateRow
    <3>4. CASE AssociateInterface("saver")
      BY <3>4 DEF AssociateInterface
    <3>5. QED BY <2>1, <3>2, <3>3, <3>4 DEF StoreStep
  <2>2. CASE SaveDevice
    BY <2>2 DEF SaveDevice, tables
  <2>3. QED BY <2>1, <2>2
<1>9. QED BY <1>1, <1>3, <1>7, <1>8, HandleBesides

LEMMA HandleBegin ==
    ASSUME OwnersInv, BeginDevice
    PROVE  HandleInv'
<1> TypeOK
  BY DEF OwnersInv
<1>1. /\ UNCHANGED <<devices, owner, nextKey, todo, index, devsInDB>> /\ at["main"] = "next"
      /\ before' = [devices |-> devices, owner |-> owner]
  BY DEF BeginDevice, tables, loopVars, readVars
<1>2. at'["main"] = "key"
  BY GotoMoves DEF BeginDevice, TypeOK, Threads
<1>3. devsInDB = <<>> /\ index = 1 /\ Len(<<>>) = 0
  BY <1>1 DEF OwnersInv, ReadInv, Handling
<1>4. Deciding' = FALSE /\ Moved' = {} /\ Gone' = {} /\ Reading' = TRUE
  BY <1>2 DEF Deciding, Moved, Gone, Reading
<1>5. Decided' /\ FoundAsBefore' /\ NewStored'
  BY <1>2, <1>4 DEF Decided, FoundAsBefore, NewStored, Deciding
<1>6. OwnersKept' /\ RowsKept'
  BY <1>1, <1>4 DEF OwnersKept, RowsKept, RowKept
<1>7. EntriesAsBefore'
  BY <1>1, <1>3 DEF EntriesAsBefore
<1>8. AllFound'
  BY <1>1, <1>3, <1>4 DEF AllFound
<1>9. QED BY <1>5, <1>6, <1>7, <1>8 DEF HandleInv

\* While a device is being looked for, nothing moves.
LEMMA ReadingKeeps ==
    ASSUME OwnersInv, HandleInv, ReadKey \/ ReadRow \/ ReadIfaces
    PROVE  /\ Reading /\ Reading' /\ Handling /\ Handling'
           /\ UNCHANGED <<devices, owner, nextKey, todo, target, left, before, met>>
           /\ Decided' /\ OwnersKept' /\ RowsKept' /\ NewStored'
           /\ Moved = {} /\ Gone = {}
<1> TypeOK
  BY DEF OwnersInv
<1>1. /\ UNCHANGED <<devices, owner, nextKey, todo, target, left, before, met>>
      /\ at["main"] \in {"key", "row", "ifaces"} /\ at'["main"] \in {"key", "row", "ifaces"}
  BY GotoMoves DEF ReadKey, ReadRow, ReadIfaces, TypeOK, Threads, tables, history, loopVars
<1>2. Reading /\ Reading' /\ Handling /\ Handling'
  BY <1>1 DEF Reading, Handling, Updating
<1>3. Deciding = FALSE /\ Moved = {} /\ Gone = {} /\ Deciding' = FALSE /\ Moved' = {} /\ Gone' = {}
  BY <1>1 DEF Deciding, Moved, Gone
<1>4. Decided' /\ NewStored'
  BY <1>1, <1>3 DEF Decided, NewStored
<1>5. OwnersKept' /\ RowsKept'
  BY <1>1, <1>2, <1>3 DEF HandleInv, OwnersKept, RowsKept, RowKept, UsedKeys, Thread, Undisturbed
<1>6. QED BY <1>1, <1>2, <1>3, <1>4, <1>5

LEMMA HandleReadKey ==
    ASSUME OwnersInv, HandleInv, ReadKey
    PROVE  HandleInv'
<1> TypeOK
  BY DEF OwnersInv
<1>1. /\ Reading /\ Reading' /\ Handling
      /\ UNCHANGED <<devices, owner, nextKey, todo, target, left, before, met>>
      /\ Decided' /\ OwnersKept' /\ RowsKept' /\ NewStored' /\ Moved = {} /\ Gone = {}
  BY ReadingKeeps
<1>2. UNCHANGED devsInDB /\ index \in 1..Len(Head(todo)) /\ index \in Nat
  BY DEF ReadKey, TypeOK, ReadOK
<1>3. EntriesAsBefore'
  BY <1>1, <1>2 DEF HandleInv, EntriesAsBefore, EntryAsBefore, Scanned, Undisturbed, Thread
<1>4. Head(todo)[index] \in MACs /\ Len(Head(todo)) \in Nat
  BY <1>1, <1>2, HeadOfTodo, ElementOfSeq DEF TypeOK, ReadOK
<1>5. Undisturbed(Head(todo)[index]) => owner[Head(todo)[index]] = before.owner[Head(todo)[index]]
  BY <1>1, <1>4 DEF HandleInv, OwnersKept
<1>6. AllFound
  BY <1>1 DEF HandleInv
<1>7. CASE owner[Head(todo)[index]] = None
  <2>1. index' = index + 1 /\ at' = at /\ at["main"] = "key"
    BY <1>7 DEF ReadKey
  <2>2. FoundAsBefore'
    BY <2>1 DEF FoundAsBefore
  <2>3. None \notin DOMAIN before.devices
    BY DEF TypeOK, HistoryOK, UsedKeys, None
  <2>4. ASSUME NEW j \in 1..Len(Head(todo)), j < index + 1, Undisturbed(Head(todo)[j]),
               before.owner[Head(todo)[j]] \in DOMAIN before.devices
        PROVE  before.owner[Head(todo)[j]] \in Known
    <3>1. CASE j < index
      BY <1>1, <1>6, <2>4, <3>1 DEF AllFound
    <3>2. CASE j = index
      BY <1>5, <1>7, <2>3, <2>4, <3>2
    <3>3. QED BY <1>2, <2>4, <3>1, <3>2
  <2>5. AllFound'
    BY <1>1, <1>2, <2>1, <2>4 DEF AllFound, Undisturbed, Known
  <2>6. QED BY <1>1, <1>3, <2>2, <2>5 DEF HandleInv
<1>8. CASE owner[Head(todo)[index]] # None
  <2>1. /\ found' = Device(owner[Head(todo)[index]], NewRow, {}) /\ at'["main"] = "row" /\ index' = index
    BY <1>8, GotoMoves DEF ReadKey, TypeOK, Threads
  <2>2. found'.key = owner[Head(todo)[index]]
    BY <2>1 DEF Device
  <2>3. FoundAsBefore'
    BY <1>1, <1>5, <2>1, <2>2 DEF FoundAsBefore, Undisturbed
  <2>4. AllFound'
    BY <1>1, <1>2, <1>6, <2>1 DEF AllFound, Undisturbed, Known
  <2>5. QED BY <1>1, <1>3, <2>3, <2>4 DEF HandleInv
<1>9. QED BY <1>7, <1>8

LEMMA HandleReadRow ==
    ASSUME OwnersInv, HandleInv, ReadRow
    PROVE  HandleInv'
<1> TypeOK
  BY DEF OwnersInv
<1>1. /\ Reading /\ Reading' /\ Handling
      /\ UNCHANGED <<devices, owner, nextKey, todo, target, left, before, met>>
      /\ Decided' /\ OwnersKept' /\ RowsKept' /\ NewStored' /\ Moved = {} /\ Gone = {}
  BY ReadingKeeps
<1>2. UNCHANGED devsInDB /\ index \in 1..Len(Head(todo)) /\ index \in Nat /\ at["main"] = "row" /\ found.key \in UsedKeys
  BY DEF ReadRow, TypeOK, ReadOK
<1>3. EntriesAsBefore'
  BY <1>1, <1>2 DEF HandleInv, EntriesAsBefore, EntryAsBefore, Scanned, Undisturbed, Thread
<1>4. Undisturbed(Head(todo)[index]) => found.key = before.owner[Head(todo)[index]]
  BY <1>1, <1>2 DEF HandleInv, FoundAsBefore
<1>5. found.key \notin Thread => RowKept(found.key)
  BY <1>1, <1>2 DEF HandleInv, RowsKept
<1>6. AllFound
  BY <1>1 DEF HandleInv
<1>7. CASE found.key \in DOMAIN devices
  <2>1. found' = [found EXCEPT !.row = devices[found.key]] /\ at'["main"] = "ifaces" /\ index' = index
    BY <1>7, GotoMoves DEF ReadRow, TypeOK, Threads
  <2>2. found'.key = found.key /\ found'.row = devices[found.key]
    BY <2>1 DEF TypeOK, ReadOK, AnyObject
  <2>3. FoundAsBefore'
    BY <1>1, <1>4, <1>5, <1>7, <2>1, <2>2 DEF FoundAsBefore, Undisturbed, RowKept, Thread
  <2>4. AllFound'
    BY <1>1, <1>2, <1>6, <2>1 DEF AllFound, Undisturbed, Known
  <2>5. QED BY <1>1, <1>3, <2>3, <2>4 DEF HandleInv
<1>8. CASE found.key \notin DOMAIN devices
  <2>1. index' = index + 1 /\ at'["main"] = "key"
    BY <1>8, GotoMoves DEF ReadRow, TypeOK, Threads
  <2>2. FoundAsBefore'
    BY <2>1 DEF FoundAsBefore
  <2>3. Undisturbed(Head(todo)[index]) => before.owner[Head(todo)[index]] \notin DOMAIN before.devices
    BY <1>4, <1>5, <1>8 DEF Undisturbed, Thread, RowKept
  <2>4. ASSUME NEW j \in 1..Len(Head(todo)), j < index + 1, Undisturbed(Head(todo)[j]),
               before.owner[Head(todo)[j]] \in DOMAIN before.devices
        PROVE  before.owner[Head(todo)[j]] \in Known
    <3>1. CASE j < index
      BY <1>1, <1>6, <2>4, <3>1 DEF AllFound
    <3>2. CASE j = index
      BY <2>3, <2>4, <3>2
    <3>3. Len(Head(todo)) \in Nat
      BY <1>1, HeadOfTodo DEF TypeOK, ReadOK
    <3>4. QED BY <1>2, <2>4, <3>1, <3>2, <3>3
  <2>5. AllFound'
    BY <1>1, <1>2, <2>1, <2>4 DEF AllFound, Undisturbed, Known
  <2>6. QED BY <1>1, <1>3, <2>2, <2>5 DEF HandleInv
<1>9. QED BY <1>7, <1>8

LEMMA HandleReadIfaces ==
    ASSUME OwnersInv, HandleInv, ReadIfaces
    PROVE  HandleInv'
<1> TypeOK
  BY DEF OwnersInv
<1>1. /\ Reading /\ Reading' /\ Handling
      /\ UNCHANGED <<devices, owner, nextKey, todo, target, left, before, met>>
      /\ Decided' /\ OwnersKept' /\ RowsKept' /\ NewStored' /\ Moved = {} /\ Gone = {}
  BY ReadingKeeps
<1> DEFINE e == [found EXCEPT !.ifaces = Interfaces(found.key)]
           x == Head(todo)[index]
<1>2. /\ at["main"] = "ifaces" /\ at'["main"] = "key" /\ index' = index + 1 /\ devsInDB' = Append(devsInDB, e)
      /\ index \in 1..Len(Head(todo)) /\ index \in Nat
  BY GotoMoves DEF ReadIfaces, TypeOK, ReadOK, Threads
<1>3. e.key = found.key /\ e.ifaces = Interfaces(found.key) /\ e.row = found.row
  BY DEF TypeOK, ReadOK, AnyObject
<1>4. /\ Len(devsInDB') = Len(devsInDB) + 1 /\ Len(devsInDB) \in Nat
      /\ \A i \in 1..(Len(devsInDB) + 1) : devsInDB'[i] = IF i = Len(devsInDB) + 1 THEN e ELSE devsInDB[i]
  BY <1>2, Appended DEF TypeOK, ReadOK
<1>5. x \in Scanned /\ (Undisturbed(x) => found.key = before.owner[x])
  BY <1>1, <1>2 DEF HandleInv, FoundAsBefore, Scanned, Elements
<1>6. found.key \notin Thread => found.key \in DOMAIN before.devices /\ found.row = before.devices[found.key]
  BY <1>1, <1>2 DEF HandleInv, FoundAsBefore
<1> HIDE DEF e, x
<1>7. FoundAsBefore'
  BY <1>2 DEF FoundAsBefore
<1>8. EntriesAsBefore'
  <2>1. \A m \in MACs : Undisturbed(m) => (m \in e.ifaces <=> before.owner[m] = e.key)
    BY <1>1, <1>3 DEF HandleInv, OwnersKept, Interfaces
  <2>2. EntryAsBefore(e)
    BY <1>3, <1>5, <1>6, <2>1 DEF EntryAsBefore
  <2>3. \A i \in 1..Len(devsInDB') : EntryAsBefore(devsInDB'[i])
    BY <1>1, <1>4, <2>2 DEF HandleInv, EntriesAsBefore
  <2>4. QED BY <1>1, <2>3 DEF EntriesAsBefore, EntryAsBefore, Scanned, Undisturbed, Thread
<1>9. AllFound'
  <2>1. Known \subseteq Known' /\ found.key \in Known'
    BY <1>3, <1>4 DEF Known
  <2>2. ASSUME NEW j \in 1..Len(Head(todo)), j < index + 1, Undisturbed(Head(todo)[j]),
               before.owner[Head(todo)[j]] \in DOMAIN before.devices
        PROVE  before.owner[Head(todo)[j]] \in Known'
    <3>1. CASE j < index
      BY <1>1, <2>1, <2>2, <3>1 DEF HandleInv, AllFound
    <3>2. CASE j = index
      BY <1>5, <2>1, <2>2, <3>2 DEF x
    <3>3. Len(Head(todo)) \in Nat
      BY <1>1, HeadOfTodo DEF TypeOK, ReadOK
    <3>4. QED BY <1>2, <2>2, <3>1, <3>2, <3>3
  <2>3. QED BY <1>1, <1>2, <2>2 DEF AllFound, Undisturbed
<1>10. QED BY <1>1, <1>7, <1>8, <1>9 DEF HandleInv

\* Nothing has been moved when the decision is taken.
LEMMA HandleDecide ==
    ASSUME OwnersInv, HandleInv, InsertDevice \/ ExtendDevice \/ MergeDevices
    PROVE  HandleInv'
<1> TypeOK /\ StoreOK
  BY DEF OwnersInv, TypeOK
<1>1. PICK place, device, ifaces :
         /\ place \in {"insert", "associate", "delete"} /\ Decide(place, device, ifaces)
         /\ \/ place = "insert" /\ Len(devsInDB) = 0 /\ device.ifaces = Scanned /\ ifaces = {}
            \/ place = "associate" /\ Len(devsInDB) = 1 /\ device = devsInDB[1] /\ ifaces = Scanned
            \/ /\ place = "delete" /\ Len(devsInDB) > 1 /\ ifaces = {}
               /\ device.row = MergedRow /\ device.ifaces = MergedIfaces
  <2>1. CASE InsertDevice
    BY <2>1 DEF InsertDevice, Device, Scanned
  <2>2. CASE ExtendDevice
    BY <2>2 DEF ExtendDevice, Scanned
  <2>3. CASE MergeDevices
    BY <2>3 DEF MergeDevices, Device
  <2>4. QED BY <2>1, <2>2, <2>3
<1>2. /\ at["main"] = "key" /\ at'["main"] = place
      /\ target'["main"] = device /\ left'["main"] = ifaces
      /\ UNCHANGED <<devices, owner, nextKey, todo, found, devsInDB, before, met>>
  BY <1>1, DecideMoves
<1>3. /\ Handling /\ Reading /\ ~Reading' /\ Moved = {} /\ Gone = {}
      /\ MergedIfaces' = MergedIfaces /\ MergedRow' = MergedRow /\ Known' = Known /\ Scanned' = Scanned
  <2>1. MergedMobility' = MergedMobility
    BY <1>2 DEF MergedMobility
  <2>2. QED BY <1>1, <1>2, <2>1 DEF Handling, Updating, Reading, Deciding, Moved, Gone, MergedIfaces, MergedRow, Known,
                               Scanned
<1>4. Moved' = {}
  <2>1. \A n : (n = 0 \/ n = 1) => ~(n > 1)
    OBVIOUS
  <2>2. at'["main"] = "associate" => ~(Len(devsInDB') > 1) /\ left'["main"] = Scanned'
    BY <1>1, <1>2, <1>3, <2>1
  <2>3. at'["main"] = "insert" => ~(Len(devsInDB') > 1)
    BY <1>1, <1>2, <2>1
  <2>4. QED BY <2>2, <2>3 DEF Moved
<1>5. Decided'
  <2>1. \A n : ~(n = 0 /\ n = 1) /\ ~(n = 0 /\ n > 1) /\ ~(n = 1 /\ n > 1)
    OBVIOUS
  <2>2. QED BY <1>1, <1>2, <1>3, <2>1 DEF Decided, Deciding
<1>6. OwnersKept'
  BY <1>2, <1>3, <1>4 DEF HandleInv, OwnersKept, Undisturbed
<1>7. RowsKept'
  BY <1>2, <1>3 DEF HandleInv, RowsKept, RowKept, UsedKeys, Thread
<1>8. FoundAsBefore'
  BY <1>1, <1>2 DEF FoundAsBefore
<1>9. EntriesAsBefore'
  BY <1>2, <1>3 DEF HandleInv, EntriesAsBefore, EntryAsBefore, Undisturbed, Thread
<1>10. AllFound'
  <2>1. ASSUME NEW j \in 1..Len(Head(todo)) PROVE j < index
    <3>1. index > Len(Head(todo)) /\ index \in Nat /\ Len(Head(todo)) \in Nat
      BY <1>1, <1>2, HeadOfTodo DEF Decide, TypeOK, ReadOK, Handling, Updating
    <3>2. QED BY <3>1
  <2>2. QED BY <1>2, <1>3, <2>1 DEF HandleInv, AllFound, Undisturbed
<1>11. NewStored'
  BY <1>1, <1>2 DEF NewStored
<1>12. QED BY <1>5, <1>6, <1>7, <1>8, <1>9, <1>10, <1>11 DEF HandleInv

\* The steps that store what was decided read nothing.
LEMMA DecidedKeeps ==
    ASSUME HandleInv, Deciding, Deciding', UNCHANGED <<todo, devsInDB, before, met>>
    PROVE  /\ Handling /\ Handling' /\ Known' = Known /\ MergedIfaces' = MergedIfaces /\ MergedRow' = MergedRow
           /\ Scanned' = Scanned /\ Gone' = Gone
           /\ FoundAsBefore' /\ EntriesAsBefore' /\ AllFound'
<1>1. Handling /\ Handling' /\ ~Reading /\ ~Reading'
  BY DEF Deciding, Handling, Updating, Reading
<1>2. MergedMobility' = MergedMobility
  BY DEF MergedMobility
<1>3. Known' = Known /\ MergedIfaces' = MergedIfaces /\ MergedRow' = MergedRow /\ Scanned' = Scanned
  BY <1>2 DEF Known, MergedIfaces, MergedRow, Scanned
<1>4. FoundAsBefore' /\ Gone' = Gone
  BY <1>3 DEF FoundAsBefore, Deciding, Gone
<1>5. EntriesAsBefore' /\ AllFound'
  BY <1>1, <1>3 DEF HandleInv, EntriesAsBefore, EntryAsBefore, AllFound, Undisturbed, Thread
<1>6. QED BY <1>1, <1>3, <1>4, <1>5

LEMMA HandleDeleteRow ==
    ASSUME OwnersInv, HandleInv, DeleteRow
    PROVE  HandleInv'
<1> TypeOK
  BY DEF OwnersInv
<1>1. /\ UNCHANGED <<owner, nextKey, target, todo, devsInDB, before, met>> /\ at["main"] = "delete"
      /\ devices' = [k \in DOMAIN devices \ {devsInDB[index].key} |-> devices[k]]
      /\ index \in 1..Len(devsInDB)
  BY DEF DeleteRow, loopVars, TypeOK, ReadOK
<1>2. \/ at'["main"] = "delete" /\ left' = left
      \/ at'["main"] = "insert" /\ left'["main"] = Scanned
  BY GotoMoves DEF DeleteRow, TypeOK, StoreOK, Threads, Scanned
<1>3. /\ Handling /\ Handling' /\ Known' = Known /\ MergedIfaces' = MergedIfaces /\ MergedRow' = MergedRow
      /\ Scanned' = Scanned /\ Gone' = Gone
      /\ FoundAsBefore' /\ EntriesAsBefore' /\ AllFound' /\ Decided
  BY <1>1, <1>2, DecidedKeeps DEF Deciding, HandleInv
<1>4. Deciding /\ Deciding' /\ Len(devsInDB) > 1 /\ Gone = Known /\ Moved = {} /\ Moved' = {}
  BY <1>1, <1>2, <1>3 DEF Deciding, Decided, Gone, Moved
<1>5. Decided'
  BY <1>1, <1>2, <1>3, <1>4 DEF Decided
<1>6. OwnersKept'
  BY <1>1, <1>3, <1>4 DEF HandleInv, OwnersKept, Undisturbed
<1>7. RowsKept'
  <2>1. devsInDB[index].key \in Known
    BY <1>1 DEF Known
  <2>2. QED BY <1>1, <1>3, <1>4, <2>1 DEF HandleInv, RowsKept, RowKept, UsedKeys, Thread
<1>8. NewStored'
  BY <1>2 DEF NewStored
<1>9. QED BY <1>3, <1>5, <1>6, <1>7, <1>8 DEF HandleInv

LEMMA HandleClaimInterface ==
    ASSUME OwnersInv, HandleInv, ClaimInterface
    PROVE  HandleInv'
<1> TypeOK
  BY DEF OwnersInv
<1>0. PICK m \in left["main"] : /\ owner' = [owner EXCEPT ![m] = target["main"].key]
                                /\ left' = [left EXCEPT !["main"] = @ \ {m}]
  BY DEF ClaimInterface
<1>1. UNCHANGED <<devices, nextKey, at, target, todo, devsInDB, before, met>> /\ at["main"] = "insert"
  BY DEF ClaimInterface, loopVars, readVars, history
<1>2. left'["main"] = left["main"] \ {m}
  BY <1>0 DEF TypeOK, StoreOK, Threads
<1>3. /\ Handling /\ Handling' /\ Known' = Known /\ MergedIfaces' = MergedIfaces /\ MergedRow' = MergedRow
      /\ Scanned' = Scanned /\ Gone' = Gone
      /\ FoundAsBefore' /\ EntriesAsBefore' /\ AllFound' /\ Decided
  BY <1>1, DecidedKeeps DEF Deciding, HandleInv
<1>4. Len(devsInDB) > 1 /\ m \in Scanned /\ m \in MACs
  BY <1>0, <1>1, <1>3, TargetType DEF Decided, TypeOK, Threads
<1>5. Moved = {n \in MACs : n \in Scanned \ left["main"]} /\ Moved' = {n \in MACs : n \in Scanned \ left'["main"]}
  BY <1>1, <1>3, <1>4 DEF Moved
<1>6. Moved' = Moved \cup {m}
  BY <1>2, <1>4, <1>5
<1>7. OwnersKept'
  <2>1. \A n \in MACs : owner'[n] = IF n = m THEN target["main"].key ELSE owner[n]
    BY <1>0, <1>4 DEF TypeOK, TablesOK
  <2>2. QED BY <1>1, <1>3, <1>6, <2>1 DEF HandleInv, OwnersKept, Undisturbed
<1>8. Decided'
  BY <1>1, <1>2, <1>3 DEF Decided, Deciding
<1>9. RowsKept' /\ NewStored'
  BY <1>1, <1>3 DEF HandleInv, RowsKept, RowKept, UsedKeys, Thread, NewStored
<1>10. QED BY <1>3, <1>7, <1>8, <1>9 DEF HandleInv

LEMMA HandleInsertRow ==
    ASSUME OwnersInv, HandleInv, InsertRow("main")
    PROVE  HandleInv'
<1> TypeOK
  BY DEF OwnersInv
<1>1. /\ devices' = [k \in DOMAIN devices \cup {target["main"].key} |->
                       IF k = target["main"].key THEN target["main"].row ELSE devices[k]]
      /\ UNCHANGED <<owner, nextKey, target, todo, devsInDB, before, met>>
      /\ at["main"] = "insert" /\ left["main"] = {}
  BY DEF InsertRow, StillToAssociate, readVars, loopVars
<1>2. at'["main"] = "associate" /\ left'["main"] = target["main"].ifaces
  BY GotoMoves DEF InsertRow, StillToAssociate, TypeOK, StoreOK, Threads
<1>3. /\ Handling /\ Handling' /\ Known' = Known /\ MergedIfaces' = MergedIfaces /\ MergedRow' = MergedRow
      /\ Scanned' = Scanned /\ Gone' = Gone
      /\ FoundAsBefore' /\ EntriesAsBefore' /\ AllFound' /\ Decided
  BY <1>1, <1>2, DecidedKeeps DEF Deciding, HandleInv
<1>4. Deciding /\ Deciding' /\ Len(devsInDB) # 1 /\ target["main"].key = nextKey /\ Len(devsInDB) \in Nat
  <2>1. Len(devsInDB) \in Nat
    BY LenProperties DEF TypeOK, ReadOK
  <2>2. QED BY <1>1, <1>2, <2>1 DEF Deciding, TypeOK, StoreOK, Fresh
<1>5. /\ Len(devsInDB) > 1 => target["main"].ifaces = MergedIfaces
      /\ ~(Len(devsInDB) > 1) => target["main"].ifaces = Scanned
  <2>1. \A n \in Nat : n # 1 /\ ~(n > 1) => n = 0
    OBVIOUS
  <2>2. ~(Len(devsInDB) > 1) => Len(devsInDB) = 0
    BY <1>4, <2>1
  <2>3. QED BY <1>3, <1>4, <2>2 DEF Decided
<1>6. Decided'
  BY <1>1, <1>2, <1>3, <1>4, <1>5 DEF Decided
<1>7. Moved' = Moved
  <2>1. CASE Len(devsInDB) > 1
    BY <1>1, <1>2, <1>3, <1>5, <2>1 DEF Moved
  <2>2. CASE ~(Len(devsInDB) > 1)
    BY <1>1, <1>2, <1>3, <1>5, <2>2 DEF Moved
  <2>3. QED BY <2>1, <2>2
<1>8. OwnersKept'
  BY <1>1, <1>3, <1>7 DEF HandleInv, OwnersKept, Undisturbed
<1>9. RowsKept'
  <2>1. nextKey \notin UsedKeys \cup {None}
    BY DEF UsedKeys, TypeOK, TablesOK, Keys
  <2>2. QED BY <1>1, <1>3, <1>4, <2>1 DEF HandleInv, RowsKept, RowKept, UsedKeys, Thread
<1>10. NewStored'
  BY <1>1, <1>4 DEF NewStored
<1>11. QED BY <1>3, <1>6, <1>8, <1>9, <1>10 DEF HandleInv

LEMMA HandleAssociate ==
    ASSUME OwnersInv, HandleInv, AssociateInterface("main")
    PROVE  HandleInv'
<1> TypeOK
  BY DEF OwnersInv
<1>0. PICK m \in left["main"] : /\ owner' = [owner EXCEPT ![m] = target["main"].key]
                                /\ StillToAssociate("main", left["main"] \ {m})
  BY DEF AssociateInterface
<1>1. UNCHANGED <<devices, nextKey, target, todo, devsInDB, before, met>> /\ at["main"] = "associate"
  BY <1>0 DEF AssociateInterface, StillToAssociate, readVars, loopVars, history
<1>2. at'["main"] = "associate" /\ left'["main"] = left["main"] \ {m}
  BY <1>0, GotoMoves DEF StillToAssociate, TypeOK, StoreOK, Threads
<1>3. /\ Handling /\ Handling' /\ Known' = Known /\ MergedIfaces' = MergedIfaces /\ MergedRow' = MergedRow
      /\ Scanned' = Scanned /\ Gone' = Gone
      /\ FoundAsBefore' /\ EntriesAsBefore' /\ AllFound' /\ Decided
  BY <1>1, <1>2, DecidedKeeps DEF Deciding, HandleInv
<1>4. m \in MACs /\ m \in IF Len(devsInDB) > 1 THEN MergedIfaces ELSE Scanned
  BY <1>0, <1>1, <1>3, TargetType DEF Decided, TypeOK, Threads
<1>5. Moved' = Moved \cup {m}
  <2>1. CASE Len(devsInDB) > 1
    BY <1>1, <1>2, <1>3, <1>4, <2>1 DEF Moved
  <2>2. CASE ~(Len(devsInDB) > 1)
    BY <1>1, <1>2, <1>3, <1>4, <2>2 DEF Moved
  <2>3. QED BY <2>1, <2>2
<1>6. OwnersKept'
  <2>1. \A n \in MACs : owner'[n] = IF n = m THEN target["main"].key ELSE owner[n]
    BY <1>0, <1>4 DEF TypeOK, TablesOK
  <2>2. QED BY <1>1, <1>3, <1>5, <2>1 DEF HandleInv, OwnersKept, Undisturbed
<1>7. Decided'
  BY <1>1, <1>2, <1>3 DEF Decided, Deciding
<1>8. RowsKept' /\ NewStored'
  BY <1>1, <1>2, <1>3 DEF HandleInv, RowsKept, RowKept, UsedKeys, Thread, NewStored
<1>9. QED BY <1>3, <1>6, <1>7, <1>8 DEF HandleInv

LEMMA HandleNext ==
    ASSUME OwnersInv, HandleInv, [Next]_vars
    PROVE  HandleInv'
<1> TypeOK
  BY DEF OwnersInv
<1>1. ASSUME NEW t \in Threads, StoreStep(t) PROVE HandleInv'
  <2>1. CASE t = "saver"
    BY <1>1, <2>1, HandleSaver
  <2>2. CASE t = "main"
    <3>1. ~UpdateRow("main")
      BY DEF UpdateRow, TypeOK, StoreOK
    <3>2. QED BY <1>1, <2>2, <3>1, HandleInsertRow, HandleAssociate DEF StoreStep
  <2>3. QED BY <2>1, <2>2 DEF Threads
<1>2. CASE FinishDevice
  <2>1. at'["main"] = "next"
    BY <1>2, GotoMoves DEF FinishDevice, TypeOK, Threads
  <2>2. QED BY <2>1 DEF HandleInv, Handling
<1>3. CASE UpdateStep
  BY <1>2, <1>3, HandleBegin, HandleReadKey, HandleReadRow, HandleReadIfaces, HandleDecide, HandleDeleteRow,
     HandleClaimInterface DEF UpdateStep
<1>4. CASE SaveDevice
  BY <1>4, HandleSaver
<1>5. CASE \/ \E scan \in Scans : ScanFiltered(scan)
           \/ BroadcastResults \/ ListRow \/ ListIfaces \/ ReceiveResponse \/ MissResponse \/ Rescan
           \/ \E s \in Screens : OpenScreen(s)
           \/ \E ticked, again : SaveSelections(ticked, again)
  <2>1. at'["main"] \in Aside
    BY <1>5, AsideSteps
  <2>2. QED BY <2>1 DEF HandleInv, Handling, Updating, Aside
<1>6. CASE UNCHANGED vars
  <2>1. UNCHANGED <<devices, owner, met>> /\ UNCHANGED mainVars
    BY <1>6 DEF vars, tables, storeVars, loopVars, readVars, history, mainVars
  <2>2. Thread' = Thread /\ \A m \in MACs : Undisturbed(m)' = Undisturbed(m)
    BY <2>1 DEF Thread, Undisturbed, mainVars
  <2>3. QED BY <2>1, <2>2, HandleBesides
<1>7. QED BY <1>1, <1>3, <1>4, <1>5, <1>6 DEF Next

StoringInv == OwnersInv /\ HandleInv

LEMMA StoringInvariant == Spec => []StoringInv
<1>1. Init => HandleInv
  BY DEF Init, HandleInv, Handling, Updating, Threads
<1>2. OwnersInv /\ HandleInv /\ [Next]_vars => HandleInv'
  BY HandleNext
<1>3. QED BY <1>1, <1>2, OwnersInvariant, PTL DEF Spec, StoringInv

-----------------------------------------------------------------------------
(* What handling a scanned device does                                     *)

\* What holds at its end.
LEMMA AtFinish ==
    ASSUME StoringInv, FinishDevice
    PROVE  /\ Decided /\ OwnersKept /\ RowsKept /\ EntriesAsBefore /\ NewStored
           /\ TypeOK /\ ~Reading /\ target["main"].key \in DOMAIN devices
           /\ Moved = {m \in MACs : m \in Scanned \cup IF Len(devsInDB) > 1 THEN MergedIfaces ELSE {}}
           /\ Gone = IF Len(devsInDB) > 1 THEN Known ELSE {}
           /\ Len(devsInDB) = 1 => target["main"].key = devsInDB[1].key /\ Known = {devsInDB[1].key}
           /\ Len(devsInDB) # 1 => target["main"].key = nextKey
           /\ Len(devsInDB) \in Nat /\ (Len(devsInDB) = 0 => Known = {})
           /\ \A x \in Scanned : Undisturbed(x) /\ before.owner[x] \in DOMAIN before.devices => before.owner[x] \in Known
           /\ Scanned \subseteq MACs
           /\ \A m \in MACs : before.owner[m] \in UsedKeys \cup {None}
           /\ nextKey \notin UsedKeys \cup {None}
<1>1. at["main"] = "associate" /\ left["main"] = {} /\ TypeOK /\ HandleInv /\ OwnersInv
  BY DEF FinishDevice, StoringInv, OwnersInv
<1>2. Handling /\ ~Reading /\ Deciding
  BY <1>1 DEF Handling, Updating, Reading, Deciding
<1>3. Decided /\ OwnersKept /\ RowsKept /\ EntriesAsBefore /\ NewStored /\ AllFound
  BY <1>1, <1>2 DEF HandleInv
<1>4. Moved = {m \in MACs : m \in Scanned \cup IF Len(devsInDB) > 1 THEN MergedIfaces ELSE {}}
  BY <1>1 DEF Moved
<1>5. Gone = IF Len(devsInDB) > 1 THEN Known ELSE {}
  BY <1>2 DEF Gone
<1>6. Len(devsInDB) \in Nat /\ (Len(devsInDB) = 0 => Known = {}) /\ (Len(devsInDB) = 1 => Known = {devsInDB[1].key})
  <2>1. Len(devsInDB) \in Nat
    BY <1>1, LenProperties DEF TypeOK, ReadOK
  <2>2. 1..0 = {} /\ 1..1 = {1}
    OBVIOUS
  <2>3. QED BY <2>1, <2>2 DEF Known
<1>7. Len(devsInDB) = 1 => target["main"].key = devsInDB[1].key
  BY <1>2, <1>3 DEF Decided
<1>8. Len(devsInDB) # 1 => target["main"].key = nextKey
  BY <1>1 DEF TypeOK, StoreOK, Fresh
<1>9. \A x \in Scanned : Undisturbed(x) /\ before.owner[x] \in DOMAIN before.devices => before.owner[x] \in Known
  BY <1>2, <1>3 DEF AllFound, Scanned, Elements
<1>10. Scanned \subseteq MACs
  BY <1>1, <1>2, HeadOfTodo DEF TypeOK, ReadOK, Scanned
<1>11. \A m \in MACs : before.owner[m] \in UsedKeys \cup {None}
  BY <1>1 DEF TypeOK, HistoryOK
<1>12. nextKey \notin UsedKeys \cup {None}
  BY <1>1 DEF UsedKeys, TypeOK, TablesOK, Keys
<1>13. target["main"].key \in DOMAIN devices
  BY <1>1 DEF OwnersInv, StoreInv
<1>14. QED BY <1>1, <1>2, <1>3, <1>4, <1>5, <1>6, <1>7, <1>8, <1>9, <1>10, <1>11, <1>12, <1>13

\* An interface was on a device that was found exactly when it was together with
\* one that was scanned.
LEMMA FoundTogether ==
    ASSUME StoringInv, FinishDevice, \A x \in Scanned : Undisturbed(x),
           NEW m \in MACs, Undisturbed(m)
    PROVE  /\ before.owner[m] \in Known <=> \E x \in Scanned : WereTogether(m, x)
           /\ m \in MergedIfaces <=> before.owner[m] \in Known
           /\ \A k \in Known : k \notin Thread
<1>1. EntriesAsBefore
  BY AtFinish
<1>2. ASSUME NEW i \in 1..Len(devsInDB)
      PROVE  /\ devsInDB[i].key \in DOMAIN before.devices /\ devsInDB[i].key \notin Thread
             /\ \E x \in Scanned : devsInDB[i].key = before.owner[x]
             /\ m \in devsInDB[i].ifaces <=> before.owner[m] = devsInDB[i].key
  <2>1. EntryAsBefore(devsInDB[i])
    BY <1>1 DEF EntriesAsBefore
  <2>2. PICK x \in Scanned : devsInDB[i].key = before.owner[x]
    BY <2>1 DEF EntryAsBefore
  <2>3. devsInDB[i].key \notin Thread
    BY <2>2 DEF Undisturbed, Thread
  <2>4. QED BY <2>1, <2>2, <2>3 DEF EntryAsBefore
<1>3. \A x \in Scanned : before.owner[x] \in DOMAIN before.devices => before.owner[x] \in Known
  BY AtFinish
<1>4. before.owner[m] \in Known <=> \E x \in Scanned : WereTogether(m, x)
  BY <1>2, <1>3 DEF Known, WereTogether
<1>5. m \in MergedIfaces <=> before.owner[m] \in Known
  BY <1>2 DEF MergedIfaces, Known
<1>6. QED BY <1>2, <1>4, <1>5 DEF Known

\* Exactly the interfaces concerned are on the device that was stored.
LEMMA TouchedMove ==
    ASSUME StoringInv, FinishDevice, \A x \in Scanned : Undisturbed(x),
           NEW m \in MACs, Undisturbed(m)
    PROVE  /\ Touched(m) <=> owner[m] = target["main"].key
           /\ ~Touched(m) => /\ owner[m] = before.owner[m]
                             /\ owner[m] \in DOMAIN devices <=> owner[m] \in DOMAIN before.devices
<1>1. owner[m] = IF m \in Moved THEN target["main"].key ELSE before.owner[m]
  BY AtFinish DEF OwnersKept
<1>2. Touched(m) <=> m \in Scanned \/ before.owner[m] \in Known
  BY FoundTogether DEF Touched, Scanned
<1>3. m \in Moved <=> m \in Scanned \/ (Len(devsInDB) > 1 /\ before.owner[m] \in Known)
  BY AtFinish, FoundTogether
<1>4. ~(Len(devsInDB) > 1) /\ before.owner[m] \in Known => before.owner[m] = target["main"].key
  <2>1. \A n \in Nat : ~(n > 1) => n = 0 \/ n = 1
    OBVIOUS
  <2>2. QED BY <2>1, AtFinish
<1>5. before.owner[m] = target["main"].key => before.owner[m] \in Known
  BY AtFinish
<1>6. Touched(m) <=> owner[m] = target["main"].key
  BY <1>1, <1>2, <1>3, <1>4, <1>5
<1>7. ASSUME ~Touched(m)
      PROVE  owner[m] = before.owner[m] /\ (owner[m] \in DOMAIN devices <=> owner[m] \in DOMAIN before.devices)
  <2>1. m \notin Moved /\ owner[m] = before.owner[m]
    BY <1>1, <1>2, <1>3, <1>7
  <2>2. before.owner[m] \notin Thread \cup Gone
    BY <1>2, <1>7, AtFinish DEF Undisturbed, Thread
  <2>3. RowKept(before.owner[m])
    BY <2>2, AtFinish DEF RowsKept
  <2>4. QED BY <2>1, <2>3 DEF RowKept
<1>8. QED BY <1>6, <1>7

\* Handling a scanned device puts its interfaces, and those they were together
\* with, on one device, and moves no other: whatever is stored meanwhile of other
\* devices.
THEOREM UpdatesJoin == Spec => UpdateJoins
<1>1. ASSUME StoringInv, FinishDevice, \A x \in Elements(Head(todo)) : Undisturbed(x),
             NEW m \in MACs, NEW n \in MACs, Undisturbed(m), Undisturbed(n)
      PROVE  Together(m, n) <=> WereTogether(m, n) \/ (Touched(m) /\ Touched(n))
  <2>1. \A x \in Scanned : Undisturbed(x)
    BY <1>1 DEF Scanned
  <2>2. target["main"].key \in DOMAIN devices
    BY <1>1, AtFinish
  <2>3. /\ Touched(m) <=> owner[m] = target["main"].key
        /\ ~Touched(m) => /\ owner[m] = before.owner[m]
                          /\ owner[m] \in DOMAIN devices <=> owner[m] \in DOMAIN before.devices
    BY <1>1, <2>1, TouchedMove
  <2>4. /\ Touched(n) <=> owner[n] = target["main"].key
        /\ ~Touched(n) => /\ owner[n] = before.owner[n]
                          /\ owner[n] \in DOMAIN devices <=> owner[n] \in DOMAIN before.devices
    BY <1>1, <2>1, TouchedMove
  <2>5. WereTogether(m, n) => (Touched(m) <=> Touched(n))
    BY DEF WereTogether, Touched
  <2>6. CASE Touched(m) /\ Touched(n)
    BY <2>2, <2>3, <2>4, <2>6 DEF Together
  <2>7. CASE ~(Touched(m) <=> Touched(n))
    BY <2>3, <2>4, <2>5, <2>7 DEF Together
  <2>8. CASE ~Touched(m) /\ ~Touched(n)
    BY <2>3, <2>4, <2>8 DEF Together, WereTogether
  <2>9. QED BY <2>6, <2>7, <2>8
<1>2. StoringInv /\ [Next]_vars =>
        (FinishDevice /\ (\A x \in Elements(Head(todo)) : Undisturbed(x)) =>
           \A m, n \in MACs : Undisturbed(m) /\ Undisturbed(n) =>
              (Together(m, n) <=> WereTogether(m, n) \/ (Touched(m) /\ Touched(n))))
  BY <1>1
<1>3. QED BY <1>2, StoringInvariant, PTL DEF Spec, UpdateJoins

\* A scan takes back neither that a device is the user's nor that its mobility
\* is known, when several devices are merged, when one gets more interfaces, and
\* when a new one is added: unless the device was being stored meanwhile.
THEOREM ScansKeepSelections == Spec => SelectionsSurviveScans
<1>1. ASSUME StoringInv, FinishDevice, NEW m \in MACs, Undisturbed(m), before.owner[m] \in DOMAIN before.devices
      PROVE  LET was == before.devices[before.owner[m]]
                 is  == devices[owner[m]]
             IN  /\ owner[m] \in DOMAIN devices
                 /\ was.internal => is.internal
                 /\ was.mobile # "UNKNOWN" => is.mobile # "UNKNOWN"
  <2> DEFINE k == before.owner[m]
  <2>1. owner[m] = IF m \in Moved THEN target["main"].key ELSE k
    BY <1>1, AtFinish DEF OwnersKept
  <2>2. k \in UsedKeys \cup {None} /\ k \notin Thread
    BY <1>1, AtFinish DEF Undisturbed, Thread
  <2>3. k \notin Gone => k \in DOMAIN devices /\ devices[k] = before.devices[k]
    BY <1>1, <2>2, AtFinish DEF RowsKept, RowKept
  <2>4. \A i \in 1..Len(devsInDB) : EntryAsBefore(devsInDB[i])
    BY <1>1, AtFinish DEF EntriesAsBefore
  <2>5. k \in Known <=> m \in MergedIfaces
    BY <1>1, <2>4 DEF Known, MergedIfaces, EntryAsBefore
  <2>6. m \in Scanned => k \in Known
    BY <1>1, AtFinish
  <2>7. CASE Len(devsInDB) > 1 /\ k \in Known
    <3>1. m \in Moved /\ owner[m] = target["main"].key /\ target["main"].key = nextKey /\ nextKey \in DOMAIN devices
      <4>1. \A n : n > 1 => n # 1
        OBVIOUS
      <4>2. QED BY <1>1, <2>1, <2>5, <2>7, <4>1, AtFinish
    <3>2. devices[nextKey] = MergedRow
      <4>1. \A n : n > 1 => n # 1
        OBVIOUS
      <4>2. at["main"] = "associate"
        BY <1>1 DEF FinishDevice
      <4>3. QED BY <1>1, <2>7, <4>1, <4>2, AtFinish DEF NewStored, Decided, Deciding
    <3>3. PICK i \in 1..Len(devsInDB) : k = devsInDB[i].key
      BY <2>7 DEF Known
    <3>4. devsInDB[i].row = before.devices[k]
      BY <2>2, <2>4, <3>3 DEF EntryAsBefore
    <3>5. ReadOK
      BY <1>1, AtFinish DEF TypeOK
    <3>6. before.devices[k].mobile # "UNKNOWN" => MergedMobility # "UNKNOWN"
      BY <3>4, <3>5, MergedMobilityKnown
    <3>7. before.devices[k].internal => MergedRow.internal
      BY <3>4 DEF MergedRow
    <3>8. MergedRow.mobile = MergedMobility
      BY DEF MergedRow
    <3>9. QED BY <3>1, <3>2, <3>6, <3>7, <3>8
  <2>8. CASE ~(Len(devsInDB) > 1 /\ k \in Known)
    <3>1. owner[m] = k
      <4>1. CASE Len(devsInDB) > 1
        BY <1>1, <2>1, <2>5, <2>6, <2>8, <4>1, AtFinish
      <4>2. CASE ~(Len(devsInDB) > 1)
        <5>1. \A n \in Nat : ~(n > 1) => n = 0 \/ n = 1
          OBVIOUS
        <5>2. m \in Moved => m \in Scanned /\ k \in Known
          BY <1>1, <2>6, <4>2, AtFinish
        <5>3. k \in Known => k = target["main"].key
          BY <1>1, <4>2, <5>1, AtFinish
        <5>4. QED BY <2>1, <5>2, <5>3
      <4>3. QED BY <4>1, <4>2
    <3>2. k \notin Gone
      BY <1>1, <2>8, AtFinish
    <3>3. QED BY <2>3, <3>1, <3>2
  <2>9. QED BY <2>7, <2>8
<1>2. StoringInv /\ [Next]_vars =>
        (FinishDevice =>
           \A m \in MACs : Undisturbed(m) /\ before.owner[m] \in DOMAIN before.devices =>
             LET was == before.devices[before.owner[m]]
                 is  == devices[owner[m]]
             IN  /\ owner[m] \in DOMAIN devices
                 /\ was.internal => is.internal
                 /\ was.mobile # "UNKNOWN" => is.mobile # "UNKNOWN")
  BY <1>1
<1>3. QED BY <1>2, StoringInvariant, PTL DEF Spec, SelectionsSurviveScans

=============================================================================
