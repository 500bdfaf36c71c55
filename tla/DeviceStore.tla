----------------------------- MODULE DeviceStore -----------------------------
(***************************************************************************)
(* The device database and its two writers.  ScanManager.updateDevices     *)
(* runs on the main thread at the end of a filtering scan and folds the    *)
(* scanned devices into the DEVICES and INTERFACES tables.  The screens    *)
(* show devices, let the user tick those that are his, and store the list  *)
(* back from an UpdateDevicesThread, at most one at a time.                *)
(*                                                                         *)
(* A step is one database statement: nothing holds the database from one   *)
(* to the next.  DEVICES is the function devices, the deviceKey column of  *)
(* INTERFACES is owner (None stands for a null as well as for a missing    *)
(* row).  The other columns and the user's device name, which no code      *)
(* sets, are left out.  Device keys are random numbers, here fresh ones.   *)
(* A list whose elements are treated alike is a set, in any order.         *)
(***************************************************************************)
EXTENDS Integers, Sequences, FiniteSets

CONSTANTS
    MACs,       \* the interfaces in range
    MaxScans,   \* bound on the filtering scans
    MaxSaves,   \* bound on the lists the user stores
    Answers     \* what the user says of a device's mobility

Mobility == {"UNKNOWN", "MOBILE", "FIXED"}

ASSUME MACsAssumption == IsFiniteSet(MACs)
ASSUME BoundsAssumption == MaxScans \in Nat /\ MaxSaves \in Nat
ASSUME AnswersAssumption == Answers \subseteq Mobility \ {"UNKNOWN"}

None == 0
Keys == Nat \ {None}
Screens == {"YourDevices", "MissingDevices", "FinalTraining"}
Threads == {"main", "saver"}

VARIABLES
    devices,    \* DEVICES: what is stored under each key
    owner,      \* INTERFACES: the device of each interface
    nextKey,    \* the key of the next new device
    scanning,   \* a request with filtering is under way
    scans,      \* number of scans so far
    at,         \* the statement each thread is about to execute
    target,     \* the device it stores
    left,       \* the interfaces it has still to associate with target
    todo,       \* the scanned devices updateDevices has still to handle
    newDevices, \* the result it has put together
    index,      \* the place in the list it is going through
    found,      \* the device it is reading
    devsInDB,   \* the devices it has read
    response,   \* results broadcast and not yet received
    screen,     \* the screen in the foreground
    shown,      \* the Device objects it lists
    toList,     \* the keys of the devices it has still to read
    saving,     \* the objects UpdateDevicesThread has still to store
    rescan,     \* its screen asks for a scan when it is done
    saves,      \* number of lists stored so far
    (* History. *)
    before,     \* devices and owner when the main thread began with Head(todo)
    met,        \* the objects the thread has been storing since
    stranded    \* keys deleted while the thread was storing their device

tables     == <<devices, owner, nextKey>>
scanVars   == <<scanning, scans>>
storeVars  == <<at, target, left>>
loopVars   == <<todo, newDevices>>
readVars   == <<index, found, devsInDB>>
screenVars == <<screen, shown, toList>>
threadVars == <<saving, rescan, saves>>
history    == <<before, met, stranded>>
vars == <<tables, scanVars, storeVars, loopVars, readVars, response, screenVars, threadVars, history>>

-----------------------------------------------------------------------------
Elements(s) == {s[i] : i \in 1..Len(s)}

Row == [internal : BOOLEAN, mobile : Mobility]
NewRow == [internal |-> FALSE, mobile |-> "UNKNOWN"]

\* The keys of the devices there have been.
UsedKeys == 1..(nextKey - 1)

\* A Device object: its key, its row and the MACs of its interfaces.
Device(key, row, ifaces) == [key |-> key, row |-> row, ifaces |-> ifaces]
Objects == [key : UsedKeys, row : Row, ifaces : SUBSET MACs]

Interfaces(key) == {m \in MACs : owner[m] = key}

\* What a scan can deliver: lists of interfaces, none in two of them.
ScannedDevices == {d \in UNION {[1..n -> MACs] : n \in 1..Cardinality(MACs)} :
                     Cardinality(Elements(d)) = Len(d)}
Scans == {s \in UNION {[1..n -> ScannedDevices] : n \in 0..Cardinality(MACs)} :
            \A i, j \in 1..Len(s) : i # j => Elements(s[i]) \cap Elements(s[j]) = {}}

\* The keys getInternalDevices begins with; what is done with its list does not
\* depend on the order.
InternalKeys == {k \in DOMAIN devices : devices[k].internal}
SomeOrder(S) == CHOOSE s \in [1..Cardinality(S) -> S] : Elements(s) = S

\* The main thread is in updateDevices, at the end of the chain of a scan.
Updating == at["main"] \notin {"idle", "list", "listIfaces"}

\* It handles a scanned device.
Handling == Updating /\ at["main"] # "next"

\* The thread stores, or has still something to store.
Saving == at["saver"] # "idle" \/ saving # <<>>

\* The values of variables that are not in use.
Nothing == Device(None, NewRow, {})
Blank == [devices |-> <<>>, owner |-> [m \in MACs |-> None]]

Goto(t, place) == at' = [at EXCEPT ![t] = place]

-----------------------------------------------------------------------------
(* DBAdapter.updateDevice(target[t]), on either thread                     *)

\* The interfaces are stored one by one; with the last one, the thread is done
\* with the device.
StillToAssociate(t, ifaces) ==
    /\ left' = [left EXCEPT ![t] = ifaces]
    /\ IF t = "saver" /\ ifaces = {}
       THEN Goto(t, "idle") /\ target' = [target EXCEPT ![t] = Nothing]
       ELSE Goto(t, "associate") /\ UNCHANGED target
    /\ UNCHANGED <<scanVars, loopVars, readVars, response, screenVars, threadVars>>

\* The device has no row; what the main thread inserts has a new key.
InsertRow(t) ==
    /\ at[t] = "insert" /\ left[t] = {}
    /\ LET d == target[t]
       IN  /\ devices' = [k \in DOMAIN devices \cup {d.key} |->
                            IF k = d.key THEN d.row ELSE devices[k]]
           /\ stranded' = stranded \ {d.key}
    /\ StillToAssociate(t, target[t].ifaces)
    /\ UNCHANGED <<owner, nextKey, before, met>>

\* UPDATE ... WHERE deviceKey: it changes nothing when the row has gone.
UpdateRow(t) ==
    /\ at[t] = "update"
    /\ devices' = [k \in DOMAIN devices |->
                     IF k = target[t].key THEN target[t].row ELSE devices[k]]
    /\ StillToAssociate(t, target[t].ifaces)
    /\ UNCHANGED <<owner, nextKey, history>>

\* Mutation: only one interface of the device is associated.
AssociateOneInterface(t) ==
    /\ at[t] = "associate"
    /\ \E m \in left[t] :
          /\ owner' = [owner EXCEPT ![m] = target[t].key]
          /\ StillToAssociate(t, {})
    /\ UNCHANGED <<devices, nextKey, history>>

\* associateInterfaceWithDevice, also in associateInterfacesWithDevice.
AssociateInterface(t) ==
    /\ at[t] = "associate"
    /\ \E m \in left[t] :
          /\ owner' = [owner EXCEPT ![m] = target[t].key]
          /\ StillToAssociate(t, left[t] \ {m})
    /\ UNCHANGED <<devices, nextKey, history>>

StoreStep(t) == InsertRow(t) \/ UpdateRow(t) \/ AssociateInterface(t)

-----------------------------------------------------------------------------
(* ScanManager.updateDevices                                               *)

\* The main thread reaches the end of the chain of a scan with filtering.  The
\* broadcasts of the chain arrived behind the last scan's response.
ScanFiltered(scan) ==
    /\ scanning /\ at["main"] = "idle" /\ response = <<>>
    /\ Goto("main", "next")
    /\ todo' = scan
    /\ newDevices' = <<>>
    /\ UNCHANGED <<tables, scanVars, target, left, readVars, response, screenVars, threadVars, history>>

\* The next scanned device.
BeginDevice ==
    /\ at["main"] = "next" /\ todo # <<>>
    /\ Goto("main", "key")
    /\ before' = [devices |-> devices, owner |-> owner]
    /\ met' = (IF at["saver"] = "idle" THEN {} ELSE {target["saver"]})
    /\ UNCHANGED <<tables, scanVars, target, left, loopVars, readVars, response, screenVars, threadVars,
                   stranded>>

\* getDevice(MAC) of the next interface: its device key, ...
ReadKey ==
    /\ at["main"] = "key" /\ index <= Len(Head(todo))
    /\ LET key == owner[Head(todo)[index]]
       IN  IF key = None
           THEN index' = index + 1 /\ UNCHANGED <<at, found>>
           ELSE /\ found' = Device(key, NewRow, {})
                /\ Goto("main", "row")
                /\ UNCHANGED index
    /\ UNCHANGED <<tables, scanVars, target, left, loopVars, devsInDB, response, screenVars, threadVars,
                   history>>

\* ... the device's row, ...
ReadRow ==
    /\ at["main"] = "row"
    /\ IF found.key \in DOMAIN devices
       THEN /\ found' = [found EXCEPT !.row = devices[found.key]]
            /\ Goto("main", "ifaces")
            /\ UNCHANGED index
       ELSE /\ index' = index + 1
            /\ found' = Nothing
            /\ Goto("main", "key")
    /\ UNCHANGED <<tables, scanVars, target, left, loopVars, devsInDB, response, screenVars, threadVars,
                   history>>

\* Mutation: the interfaces of the known device are forgotten.
ReadIfacesForgets ==
    /\ at["main"] = "ifaces"
    /\ devsInDB' = Append(devsInDB, found)
    /\ index' = index + 1
    /\ found' = Nothing
    /\ Goto("main", "key")
    /\ UNCHANGED <<tables, scanVars, target, left, loopVars, response, screenVars, threadVars, history>>

\* ... and its interfaces.
ReadIfaces ==
    /\ at["main"] = "ifaces"
    /\ devsInDB' = Append(devsInDB, [found EXCEPT !.ifaces = Interfaces(found.key)])
    /\ index' = index + 1
    /\ found' = Nothing
    /\ Goto("main", "key")
    /\ UNCHANGED <<tables, scanVars, target, left, loopVars, response, screenVars, threadVars, history>>

\* All interfaces have been looked up: what is to be done with the device.
Decide(place, device, ifaces) ==
    /\ at["main"] = "key" /\ index > Len(Head(todo))
    /\ Goto("main", place)
    /\ target' = [target EXCEPT !["main"] = device]
    /\ left' = [left EXCEPT !["main"] = ifaces]
    /\ UNCHANGED <<tables, scanVars, loopVars, found, devsInDB, response, screenVars, threadVars, history>>

\* Nothing known: updateDevice with the scanned device, which has a new key.
InsertDevice ==
    /\ Len(devsInDB) = 0
    /\ Decide("insert", Device(nextKey, NewRow, Elements(Head(todo))), {})
    /\ UNCHANGED index

\* One entry: its device gets all the interfaces; the result is the object
\* read before they were added.
ExtendDevice ==
    /\ Len(devsInDB) = 1
    /\ Decide("associate", devsInDB[1], Elements(Head(todo)))
    /\ UNCHANGED index

\* The last entry that knows its mobility decides.
MergedMobility ==
    LET says == {i \in 1..Len(devsInDB) : devsInDB[i].row.mobile # "UNKNOWN"}
    IN  IF says = {} THEN "UNKNOWN"
        ELSE devsInDB[CHOOSE i \in says : \A j \in says : j <= i].row.mobile

\* Mutation: the merged device takes the attributes of the last of its parts.
MergedRowOfLast == devsInDB[Len(devsInDB)].row

MergedRow == [internal |-> \E i \in 1..Len(devsInDB) : devsInDB[i].row.internal,
              mobile   |-> MergedMobility]

MergedIfaces == UNION {devsInDB[i].ifaces : i \in 1..Len(devsInDB)}

\* Several entries: a new device replaces them, with their interfaces.
MergeDevices ==
    /\ Len(devsInDB) > 1
    /\ Decide("delete", Device(nextKey, MergedRow, MergedIfaces), {})
    /\ index' = 1

\* deleteDevice of the next entry; after the last the scanned interfaces get the
\* key of the merged device ...
DeleteRow ==
    /\ at["main"] = "delete"
    /\ LET key == devsInDB[index].key
       IN  /\ devices' = [k \in DOMAIN devices \ {key} |-> devices[k]]
           /\ stranded' = IF \E d \in met : d.key = key THEN stranded \cup {key}
                          ELSE stranded \ {key}
    /\ IF index = Len(devsInDB)
       THEN /\ Goto("main", "insert")
            /\ left' = [left EXCEPT !["main"] = Elements(Head(todo))]
            /\ UNCHANGED index
       ELSE index' = index + 1 /\ UNCHANGED <<at, left>>
    /\ UNCHANGED <<owner, nextKey, scanVars, target, loopVars, found, devsInDB, response, screenVars,
                   threadVars, before, met>>

\* ... before it is stored, with the interfaces that were read.
ClaimInterface ==
    /\ at["main"] = "insert"
    /\ \E m \in left["main"] :
          /\ owner' = [owner EXCEPT ![m] = target["main"].key]
          /\ left' = [left EXCEPT !["main"] = @ \ {m}]
    /\ UNCHANGED <<devices, nextKey, scanVars, at, target, loopVars, readVars, response, screenVars,
                   threadVars, history>>

\* The device goes to the result.
FinishDevice ==
    /\ at["main"] = "associate" /\ left["main"] = {}
    /\ Goto("main", "next")
    /\ todo' = Tail(todo)
    /\ newDevices' = Append(newDevices, target["main"])
    /\ target' = [target EXCEPT !["main"] = Nothing]
    /\ nextKey' = IF target["main"].key = nextKey THEN nextKey + 1 ELSE nextKey
    /\ index' = 1 /\ devsInDB' = <<>>
    /\ before' = Blank /\ met' = {}
    /\ UNCHANGED <<devices, owner, scanVars, left, found, response, screenVars, threadVars, stranded>>

\* broadcastResults and back to IDLE.
BroadcastResults ==
    /\ at["main"] = "next" /\ todo = <<>>
    /\ Goto("main", "idle")
    /\ scanning' = FALSE
    /\ response' = Append(response, newDevices)
    /\ newDevices' = <<>>
    /\ UNCHANGED <<tables, scans, target, left, todo, readVars, screenVars, threadVars, history>>

UpdateStep ==
    \/ BeginDevice \/ ReadKey \/ ReadRow \/ ReadIfaces
    \/ InsertDevice \/ ExtendDevice \/ MergeDevices
    \/ DeleteRow \/ ClaimInterface \/ FinishDevice

-----------------------------------------------------------------------------
(* The screens; they run on the main thread                                *)

\* startScan: the request is dropped when one is under way.
StartScan == IF scanning \/ scans = MaxScans THEN UNCHANGED scanVars
             ELSE scanning' = TRUE /\ scans' = scans + 1

\* getInternalDevices without those the screen has already.
ListDevices(have) ==
    LET keys == InternalKeys \ {have[i].key : i \in 1..Len(have)}
    IN  /\ shown' = have
        /\ toList' = SomeOrder(keys)
        /\ IF keys = {} THEN UNCHANGED at ELSE Goto("main", "list")

\* onCreate: list the internal devices; without any the first two screens scan.
OpenScreen(s) ==
    /\ at["main"] = "idle"
    /\ screen' = s
    /\ ListDevices(<<>>)
    /\ IF InternalKeys = {} /\ s # "FinalTraining" THEN StartScan ELSE UNCHANGED scanVars
    /\ UNCHANGED <<tables, target, left, loopVars, readVars, response, threadVars, history>>

\* getDeviceFromKey of the next one: its row (only this thread deletes rows) ...
ListRow ==
    /\ at["main"] = "list"
    /\ found' = Device(Head(toList), devices[Head(toList)], {})
    /\ Goto("main", "listIfaces")
    /\ UNCHANGED <<tables, scanVars, target, left, loopVars, index, devsInDB, response, screenVars,
                   threadVars, history>>

\* ... and its interfaces.
ListIfaces ==
    /\ at["main"] = "listIfaces"
    /\ shown' = Append(shown, [found EXCEPT !.ifaces = Interfaces(found.key)])
    /\ toList' = Tail(toList)
    /\ found' = Nothing
    /\ Goto("main", IF Len(toList) > 1 THEN "list" ELSE "idle")
    /\ UNCHANGED <<tables, scanVars, target, left, loopVars, index, devsInDB, response, screen, threadVars,
                   history>>

\* _deviceScanReceiver: YourDevices lists the result; MissingDevices adds the
\* internal devices that are not in it; FinalTraining closes its dialog only.
ReceiveResponse ==
    /\ at["main"] = "idle" /\ response # <<>>
    /\ CASE screen = "YourDevices"    -> shown' = Head(response) /\ UNCHANGED <<toList, at>>
         [] screen = "MissingDevices" -> ListDevices(Head(response))
         [] OTHER -> UNCHANGED <<shown, toList, at>>
    /\ response' = Tail(response)
    /\ UNCHANGED <<tables, scanVars, target, left, loopVars, readVars, screen, threadVars, history>>

\* A paused screen has unregistered its receiver.
MissResponse ==
    /\ at["main"] = "idle" /\ response # <<>>
    /\ response' = Tail(response)
    /\ UNCHANGED <<tables, scanVars, storeVars, loopVars, readVars, screenVars, threadVars, history>>

\* The i-th listed device as the user wants it; FinalTraining ticks a device by
\* asking for its mobility.
Said(i, ticked, answer) ==
    Device(shown[i].key,
           [internal |-> i \in ticked,
            mobile   |-> IF screen = "FinalTraining" /\ i \in ticked THEN answer
                         ELSE shown[i].row.mobile],
           shown[i].ifaces)

\* saveDeviceSelections hands the list to an UpdateDevicesThread.
SaveSelections(ticked, again) ==
    /\ at["main"] = "idle" /\ ~Saving /\ ~rescan /\ shown # <<>>
    /\ saves < MaxSaves /\ saves' = saves + 1
    /\ \E answer \in Answers : saving' = [i \in 1..Len(shown) |-> Said(i, ticked, answer)]
    /\ shown' = saving'
    /\ again => screen # "FinalTraining" /\ scans < MaxScans
    /\ rescan' = again
    /\ UNCHANGED <<tables, scanVars, storeVars, loopVars, readVars, response, screen, toList, history>>

\* UpdateDevicesThread.run: updateDevice of the next device, which begins by
\* looking for its row.
SaveDevice ==
    /\ at["saver"] = "idle" /\ saving # <<>>
    /\ Goto("saver", IF Head(saving).key \in DOMAIN devices THEN "update" ELSE "insert")
    /\ target' = [target EXCEPT !["saver"] = Head(saving)]
    /\ saving' = Tail(saving)
    /\ met' = IF Handling THEN met \cup {Head(saving)} ELSE met
    /\ UNCHANGED <<tables, scanVars, left, loopVars, readVars, response, screenVars, rescan, saves,
                   before, stranded>>

\* The request that the thread has posted to the main thread.
Rescan ==
    /\ rescan /\ ~Saving /\ at["main"] = "idle"
    /\ rescan' = FALSE
    /\ StartScan
    /\ UNCHANGED <<tables, storeVars, loopVars, readVars, response, screenVars, saving, saves, history>>

-----------------------------------------------------------------------------
Init ==
    /\ devices = <<>>
    /\ owner = [m \in MACs |-> None]
    /\ nextKey = 1
    /\ scanning = FALSE /\ scans = 0
    /\ at = [t \in Threads |-> "idle"]
    /\ target = [t \in Threads |-> Nothing]
    /\ left = [t \in Threads |-> {}]
    /\ todo = <<>> /\ newDevices = <<>>
    /\ index = 1 /\ found = Nothing /\ devsInDB = <<>>
    /\ response = <<>>
    /\ screen = "YourDevices" /\ shown = <<>> /\ toList = <<>>
    /\ saving = <<>> /\ rescan = FALSE /\ saves = 0
    /\ before = Blank /\ met = {} /\ stranded = {}

Next ==
    \/ \E t \in Threads : StoreStep(t)
    \/ \E scan \in Scans : ScanFiltered(scan)
    \/ UpdateStep
    \/ BroadcastResults
    \/ \E s \in Screens : OpenScreen(s)
    \/ ListRow
    \/ ListIfaces
    \/ ReceiveResponse
    \/ MissResponse
    \/ \E ticked \in SUBSET (1..Len(shown)), again \in BOOLEAN : SaveSelections(ticked, again)
    \/ SaveDevice
    \/ Rescan

Spec == Init /\ [][Next]_vars

-----------------------------------------------------------------------------
(* Types                                                                   *)

\* The type invariant.  Every Device object that is shown, stored or broadcast
\* has a key that was generated; only the device that the main thread is merging
\* or inserting has the next one.
Fresh == at["main"] \in {"delete", "insert"} \/ (at["main"] = "associate" /\ Len(devsInDB) # 1)
FreshKeys == IF Fresh THEN {nextKey} ELSE {}
AnyObject == [key : Nat, row : Row, ifaces : SUBSET MACs]

TablesOK ==
    /\ nextKey \in Keys
    /\ DOMAIN devices \subseteq UsedKeys \cup FreshKeys
    /\ \A k \in DOMAIN devices : devices[k] \in Row
    /\ owner \in [MACs -> UsedKeys \cup FreshKeys \cup {None}]

StoreOK ==
    /\ at \in [Threads -> {"idle", "list", "listIfaces", "next", "key", "row", "ifaces", "delete",
                           "insert", "update", "associate"}]
    /\ at["saver"] \in {"idle", "insert", "update", "associate"}
    /\ at["main"] # "update"
    /\ target \in [Threads -> AnyObject]
    /\ left \in [Threads -> SUBSET MACs]
    /\ at["saver"] # "idle" => target["saver"].key \in UsedKeys
    /\ at["main"] \in {"delete", "insert"} => Len(devsInDB) # 1
    /\ Fresh => target["main"].key = nextKey
    /\ at["main"] = "associate" /\ ~Fresh => target["main"].key \in UsedKeys

ReadOK ==
    /\ todo \in Seq(ScannedDevices)
    /\ index \in Nat \ {0}
    /\ found \in AnyObject
    /\ devsInDB \in Seq(Objects)
    /\ Handling => todo # <<>>
    /\ at["main"] \in {"row", "ifaces"} => index <= Len(Head(todo)) /\ found.key \in UsedKeys
    /\ at["main"] = "delete" => index <= Len(devsInDB)
    /\ at["main"] \in {"list", "listIfaces"} =>
          toList # <<>> /\ \A i \in 1..Len(toList) : toList[i] \in DOMAIN devices
    /\ at["main"] = "listIfaces" => found.key \in UsedKeys

ListsOK ==
    /\ newDevices \in Seq(Objects) /\ response \in Seq(Seq(Objects))
    /\ shown \in Seq(Objects) /\ saving \in Seq(Objects)
    /\ toList \in Seq(UsedKeys)
    /\ screen \in Screens
    /\ scanning \in BOOLEAN /\ rescan \in BOOLEAN
    /\ scans \in 0..MaxScans /\ saves \in 0..MaxSaves

HistoryOK ==
    /\ met \subseteq Objects /\ stranded \subseteq UsedKeys
    /\ before.owner \in [MACs -> UsedKeys \cup {None}]
    /\ DOMAIN before.devices \subseteq UsedKeys
    /\ \A k \in DOMAIN before.devices : before.devices[k] \in Row

TypeOK == TablesOK /\ StoreOK /\ ReadOK /\ ListsOK /\ HistoryOK

-----------------------------------------------------------------------------
(* Safety                                                                  *)

\* The interfaces that updateDevices is about to give a key.
Pending ==
    CASE at["main"] = "delete"    -> target["main"].ifaces \cup Elements(Head(todo))
      [] at["main"] = "insert"    -> target["main"].ifaces \cup left["main"]
      [] at["main"] = "associate" -> left["main"]
      [] OTHER -> {}

\* The key that interfaces have before their device is stored.
Claimed == IF at["main"] = "insert" THEN {target["main"].key} ELSE {}

\* An interface's device is stored, although merging deletes devices and a
\* screen may store a list that is out of date: unless a merge under way is
\* giving the interface a new device, or the device was deleted by a merge while
\* UpdateDevicesThread was storing it.
OwnersExist ==
    \A m \in MACs : owner[m] \in DOMAIN devices \cup stranded \cup Claimed \cup {None} \/ m \in Pending

\* Storing the device did not meet UpdateDevicesThread at the interface: since
\* the main thread began, the thread stored no device that has it or had it.
Undisturbed(m) == \A d \in met : m \notin d.ifaces /\ before.owner[m] # d.key

\* m and n belonged to the same device then.
WereTogether(m, n) == before.owner[m] \in DOMAIN before.devices /\ before.owner[m] = before.owner[n]

\* m is in the scanned device, or was on the device of an interface that is.
Touched(m) == m \in Elements(Head(todo)) \/ \E x \in Elements(Head(todo)) : WereTogether(m, x)

Together(m, n) == owner[m] \in DOMAIN devices /\ owner[m] = owner[n]

\* Handling a scanned device joins: afterwards two interfaces are on the same
\* device exactly when they were before, or when each of them is in the scanned
\* device or was on a device with an interface of it (ScanManager.java:317-366),
\* whatever UpdateDevicesThread stores meanwhile of other devices.
UpdateJoins ==
    [][FinishDevice /\ (\A x \in Elements(Head(todo)) : Undisturbed(x)) =>
        \A m, n \in MACs : Undisturbed(m) /\ Undisturbed(n) =>
            (Together(m, n) <=> WereTogether(m, n) \/ (Touched(m) /\ Touched(n)))]_vars

\* A scan does not take back what the user said: an interface of an internal
\* device stays on an internal device, and one of a device whose mobility is
\* known stays on a device whose mobility is known, unless UpdateDevicesThread
\* was storing its device meanwhile.
SelectionsSurviveScans ==
    [][FinishDevice =>
        \A m \in MACs : Undisturbed(m) /\ before.owner[m] \in DOMAIN before.devices =>
            LET was == before.devices[before.owner[m]]
                is  == devices[owner[m]]
            IN  /\ owner[m] \in DOMAIN devices
                /\ was.internal => is.internal
                /\ was.mobile # "UNKNOWN" => is.mobile # "UNKNOWN"]_vars

=============================================================================
