# awmon in TLA+

awmon is an Android program that, from the user's phone, finds out which devices
are in the home: it scans four radios, gives the interfaces it finds names,
groups them into devices, filters those devices, keeps them in a database and asks
the user about them. This directory holds TLA+ models of that program, the TLC
configurations that check them and the theorems TLAPS proves about them.

All paths below are relative to `src/application/src/com/gnychis/awmon/`.

## 1. The system

### Components

| component | state | operations | where |
|---|---|---|---|
| Scan pipeline | `ScanManager._state`, `_workingRequest`; state, queue and pending results of `InterfaceScanManager`, `NameResolutionManager`, `InterfaceMergingManager`, `DeviceFilteringManager` | one broadcast receiver each, one AsyncTask per radio, resolver, heuristic, filter | `BackgroundService/ScanManager`, `InterfaceScanners/`, `NameResolution/`, `InterfaceMerging/`, `DeviceFiltering/` |
| Radios and USB | `InternalRadio._state`, whether connected, whether initialized | `usbUpdate`, `connected`, `startDeviceScan`; the USB poll | `HardwareHandlers/`, `Core/USBMon` |
| Device database | tables DEVICES and INTERFACES | `ScanManager.updateDevices`, `DBAdapter.updateDevice`, `associateInterfacesWithDevice` | `Database/`, `DeviceAbstraction/Device` |
| Device screens | the listed `Device` objects | open, scan, receive, tick, save from `UpdateDevicesThread` | `GUIs/YourDevices`, `MissingDevices`, `FinalTraining` |
| Location and motion | `_homeState`, `mHomeLoc`, `mNextLocIsHome`; the settings; sensor registration | location fixes, scan results, LOCATION_UPDATE broadcasts | `BackgroundService/LocationMonitor`, `MotionDetector`, `Core/UserSettings` |
| Home Wifi scans | `mDisableWifiAS`, `mScansLeft`, the phone's Wifi | timer run, `triggerScan`, SCAN_RESULTS receiver, `Welcome.UpdateInterface` | `BackgroundService/LocationMonitor`, `GUIs/Welcome` |
| Connectivity graph | nodes, links, names of interfaces | five heuristics, `applyHeuristicClassification`, `devicesFromConnectivityGraph` | `InterfaceMerging/` |
| Interface tables | tables INTERFACES, WIRED_IFACE_DATA, WIRELESS_IFACE_DATA; open transactions | `updateInterface`, `insertInterface`, `open`, `close` | `Database/DBAdapter`, `DBTable` |
| Snapshots | tables SNAPSHOTS and SNAPSHOT_DATA; the listed `Snapshot` objects | `makeSnapshot`, `storeSnapshot`, `getSnapshot`, `deleteSnapshot` | `Core/Snapshot`, `Database/`, `GUIs/SnapshotList`, `GUIs/SnapshotDetails` |
| Scanning screens | progress dialogs, receivers, timers, the series of snapshots | request, receive, pause, resume, plug a radio | `GUIs/MainInterface`, `Measurements`, the device screens |
| ZigBee link | the serial port, its lock, the bytes on the line | native open, read, write; the init task, the scanner | `HardwareHandlers/ZigBee`, `InterfaceScanners/ZigBeeScanner`, `src/application/jni/awmon.c`, `serial.c` |
| Service lifecycle | whether the system is initialized, the native libraries, binding | initialize, clean up, boot | `BackgroundService/BackgroundService`, `InitLibraries` |

PROJECT.json lists them all, with what is left out of each and why.

### How they interact

A screen sends a SCAN_REQUEST broadcast. `ScanManager` takes it if it is IDLE
and drops it if not; it asks the four managers in turn, by broadcasts that name
neither request nor sender, and remembers in `_workingRequest` which stages were
asked for. A manager pushes the classes it needs on a stack, starts the top one as
an AsyncTask and starts the next when the task's reply arrives as a broadcast.
Every interface scan also yields a snapshot, stored by a thread of its own. A
filtering scan ends with `updateDevices`, which folds the scanned devices into the
database on the main thread; the screens write the same tables from their
threads. `LocationMonitor` tells `MotionDetector` by broadcasts whether the phone
is at home, and shares the phone's Wifi with the set-up screen `Welcome`.

### What is hard

* Every manager is a state machine on an untagged message bus: what is in flight
  when a request ends is taken for the next request's. (`ScanManager.java:106`)
* Radios come and go while they are queued, scanned or awaited. (`USBMon.java:59`)
* The main thread, the AsyncTask executor, a timer thread and threads of the
  screens share fields and tables without locks. (`LocationMonitor.java:195`,
  `YourDevices.java:473`)
* Objects are read from the database, held and written back while others are
  deleting the rows they came from: nothing holds the database from one statement
  to the next. (`ScanManager.java:324`, `DBAdapter.java:190`)
* Some tasks wait for hardware without a limit, on the one executor all tasks
  share. (`BluetoothScanner.java:51`, `ZigBee.java:113`)
* Waiting loops and states that only a message can end. (`LocationMonitor.java:201`,
  `InterfaceScanManager.java:121`)
* Classifications are applied in the order of a HashMap to a graph that they
  change. (`InterfaceConnectivityGraph.java:79`)
* What the settings keep across a restart and what memory loses.
  (`LocationMonitor.java:88`)
* The scanner and the ZigBee device agree on nothing but a count of bytes; a read
  returns any part of what was asked for, and fails in ways the callers take for
  data. (`ZigBeeScanner.java:76`)
* ScanManager drops what it is asked while it works, and tells nobody. That it is not
  asked is up to dialogs of screens that may be paused when the answer comes.
  (`ScanManager.java:106`, `Measurements.java:246`)
* `updateInterface` is a row of statements without a transaction around them, and
  `insert` opens one that it does not end when it fails: three kinds of threads
  meet there. (`DBAdapter.java:345`, `DBTable.java:314`)

PROJECT.json, "hazards", has each with its line and the property that covers it.

### What makes each component correct

* Pipeline: a request is answered once, from exactly the stages it asked for, by its
  own results; no radio is forgotten or counted twice; the pipeline never stalls or
  forks; a request that was sent is settled.
* Device database: every interface's device exists; a scan joins exactly what it
  shows to be one device; nothing the user said is lost to a scan. All of it for
  devices that are not being stored by a screen's thread while a scan handles them.
* Location: memory, settings and sensors agree, through restarts; a phone that
  comes home is tracked.
* Wifi: what the user had on stays on; what was switched on for a moment is
  switched off again; nobody waits for ever.
* Snapshots: each has exactly its own data until it is deleted, and leaves none then.
* Graph: devices are connected components, no address is on two devices, merging
  interfaces loses nothing.
* ZigBee link: while nothing displaces it the reader is where the device thinks it is,
  and the results are the beacons, each once; a scan ends.
* Screens: nobody asks a busy ScanManager; a series has all its snapshots; a dialog
  that stays for ever has one of four known causes.
* Interface tables: an interface that is stored stays, and is not made less than it is
  known to be (its name may change); what a thread is done with is stored; types agree
  with data; the main thread does not wait for itself.

## 2. Modules

### ScanPipeline, ScanService

`ScanPipeline` is the core. An action is one callback of the main thread: the
delivery of one broadcast (`Receive`), the `onPostExecute` of one task
(`TaskDone`), or a step of the executor (`RunTask`), of a screen, or of the user
plugging radios (`Environment`). The state keeps the names of the code's fields;
`bcast` is the queue of broadcasts, `jobs` the AsyncTasks submitted, of which the
first `ran` have finished their `doInBackground`. `mgr`, `stack` and `pending` hold
the state, class stack and pending results of the three managers that run chains,
whose handlers are line by line alike. `outcome` and the field `to` of a response
are history: the properties need them, the code has nothing of the kind. So are
`initialized`, which USB radios have had an init task since they were plugged in,
and `replugged`, which were plugged in since the interface scan was requested.

Assumed of Android, and marked external in the map: the process is one, the
looper runs one callback at a time and delivers broadcasts in the order they were
sent; with the manifest's targetSdkVersion 16 `AsyncTask.execute` is serial, so
tasks run one after another in order of submission; `onPostExecute` and
broadcasts take turns in any order.

What scanners, resolvers, heuristics and filters compute is reduced to the list of
steps a payload has been through. The database effects of `updateDevices` are in
DeviceStore, those of `storeSnapshot` in SnapshotStore.

`ScanService` is the promise to the screens: requests are looked at in the order
they were sent, worked on one at a time, each dropped or answered.
`MCScanPipeline` maps the pipeline to it (`current` is the id of the working
request unless `sm` is IDLE) and checks it under fairness.

### DeviceStore

The tables DEVICES (`devices`) and the device column of INTERFACES (`owner`) with both
writers, statement by statement: `at[t]` is what thread t is about to execute, `target`
the device it stores, `left` the interfaces it has still to associate with it.
`updateDevices` looks up the interfaces of a scanned device one by one (`ReadKey`,
`ReadRow`, `ReadIfaces`), into `devsInDB`, and decides by how many entries that has:
`InsertDevice` (none), `ExtendDevice` (one) or `MergeDevices` (several), which deletes
them (`DeleteRow`), gives the scanned interfaces the key of the new device
(`ClaimInterface`) and stores it. `DBAdapter.updateDevice` is the same on both threads:
`InsertRow` or `UpdateRow`, as the check for the row has said, then `AssociateInterface`
for one interface after the other. `FinishDevice` ends the loop body, `BroadcastResults`
the loop. A screen is what it lists, read in two statements for each device (`ListRow`,
`ListIfaces`); `SaveSelections` and `SaveDevice` are `saveDeviceSelections` and the loop
of `UpdateDevicesThread` with the check. The two threads interleave between any two
statements: a progress dialog keeps the user away but the model does not rely on it.

`before`, `met` and `stranded` are history: the tables when the main thread began with
the scanned device, what the other thread has been storing since, and the keys of devices
deleted while it was storing them. The properties except what those meet
(`Undisturbed`), since the code loses it: see section 5. That one UpdateDevicesThread
runs at a time is a bound; the death of the process is not among the steps.

`MissResponse` is a screen that is paused when the answer arrives. `ScanFiltered` waits for `response = <<>>`, since broadcasts are
delivered in order. The merge heuristics never give one address to two devices of a
scan, which DeviceStore assumes of its input (`Scans`); the module ConnectivityGraph
checks it (`OneDevicePerMAC`).

### HomePresence

`OnLocationChanged` is a fix, `HomeNetworkSeen` the part of the SCAN_RESULTS
handler that recognises the home network, `LocationUpdate` MotionDetector's
receiver. A location is a place and an accuracy; two places are the same or farther
apart than the tolerance of 150 m. `Restart` loses `monitorVars` and what was under way
and keeps `settingsVars`. `AssociatedToHomeAP` is the constant TRUE, as in the code;
whether the phone really is `associated` is part of its surroundings.

### HomeWifiScan

The timer thread's `triggerScan`, the main thread's SCAN_RESULTS receiver and
`Welcome.UpdateInterface`, broken at every access to a shared field or to the Wifi
manager; `timer`, `receiver` and `welcome` are their program counters. So
`--mScansLeft` is a read (`ScanResults`) and a write (`Decrement`), between which the
timer thread may set the count, and the next scan is a step of its own (`ScanAgain`).
`setWifiEnabled(true)` is asynchronous: Wifi is "enabling" until `WifiUp`. A disable
loop ends as soon as Wifi is not "on". The user does not touch the switch, so
that what is on at the end is the program's doing.

### ConnectivityGraph

The five heuristics and the graph they change. `StartHeuristic` classifies all
pairs a heuristic supports; `ApplyClassification` takes any of them next, since
the code walks a HashMap. `getInterfaceGroups` and the recursive `populate` are steps:
`StartGroup` begins a group at the first interface that is in none, `VisitNext` is a
call of `populate`, `Return` its end, and `FinishMerging` makes the groups devices;
`calls` is the call stack, `visited` the group so far. The stack and the recursion are
those of one method on one thread, so nothing sees what lies between; written as steps
the walk can be proved about. `IsScanResult` says which lists of interfaces the
parsers can deliver. The weights of the graph are written and never read, and left
out. No two interfaces that `Interface.equals` holds equal get into the graph, so an
interface is its place in the list. `FlatteningLosesNothing` holds at every step, also
between two flattenings.

### SnapshotStore

The two tables and the threads that write them: for each snapshot the writes and
reads of `storeSnapshot` (`StoreSnapshot`), and `DeleteThread` with two deletes for each
chosen snapshot. Before its data a snapshot's unknown interfaces are inserted
(`FindMissing`, `InsertRow`, `InsertData`). Other threads may store the same interface
between any two of these steps, another snapshot's or `StoreInterface`, which stands for
`updateDevices` and UpdateDevicesThread; then the insertion fails (`InsertFails`),
`DBTable.insert` leaves its transaction open (`lock`), everybody else waits, and the data
is rolled back when the connection is closed: the snapshot ends as "lost", not "stored". A row has a field `of`, the snapshot it was written for, which the
tables do not have; the properties compare it with the key. `deleted` and
`disturbed` are history. `NextKey` is SQLite's rule for an INTEGER PRIMARY KEY without
AUTOINCREMENT (`DBTable.creationString` adds no such word, for no field asks for it).
Every insert that succeeds and every delete is a transaction. Two snapshots may share a date: it is
stored in seconds of local time, which go back in autumn and when the clock is
set. `Crash` ends the process: threads and screens are gone, the tables stay. A dialog
that cannot be cancelled covers the list while it deletes, so `DeleteThread` meets
threads that store, never another screen.

### ZigBeeLink

`log` is what the device has sent, `pos` and `off` where on it the next read begins. A
native read of n bytes is n steps `ReadByte`, because `awmon.c` loops over whatever
pieces the tty returns; a read that times out with nothing changes nothing. `at`, `left`
and `got` say which field of a message a task reads and how much of it. ZigBeeInit
slides a window over the line until it holds the reset sequence; ZigBeeScanner reads a
command byte, and by it a channel or a packet of counted bytes. Faults are actions:
unplugging, a reset in the middle of a message, a failing call, a killed process.
`harm` (what may have displaced the reader) and `disturbed` are history. That an init
task comes before the scans, and that tasks run one at a time, is ScanPipeline's
(`InitsComeFirst`), whose one exception, a radio plugged in again while a scan that
includes it goes on, is outside this module.

### ScanScreens

What a user meets: `view[s]` is what screen s shows (`pd`, the dialog the field
`_pd` holds; `up`, whether it is shown; `orphans`, the dialogs shown over which `_pd` was
assigned), `timers` its postDelayed requests, `storing` its UpdateDevicesThread. The
scan service behind it takes a request when it is IDLE and answers after whole
stages: what happens within them is ScanPipeline's. `cut` is history: a dialog has let
the user go before its scan was over. Left out: the orientation mode of Measurements,
toasts, the update of a row with an SSDP name, and the recreation of a screen when the
configuration changes.

### InterfaceStore

The interface tables twice: `disk` as what is committed leaves them, `db` as the
connection that has the `lock` sees them. An action is one statement of
`updateInterface`, and what is in hand between two is `iface` and `existing`. A name is
written where the code writes it, and no property is about names: whichever thread
writes last wins (section 5). Threads
that store snapshots call it by `insertInterface` (UPDATE), screens' threads with
DO_NOT_UPDATE, the main thread with SAFE_UPDATE through a connection (`inner`) inside that
of `updateDevices` (`outer`), with which it then stores the devices. `Insert` is
`DBTable.insert`: an exception leaves its transaction open, so all other connections wait
until this one is closed (`CloseConnection`) or collected. A statement waits for some
time and throws (`TimesOut`), `DBAdapter.open` waits for ever. `lost` and `cut` are
history. LANs answer with the type LAN for wired and raw interfaces alike
(`LANResultParser.java:38`). The other columns, and the statements that update
the data of an interface stored with its own class, are left out.

## 3. Runs

| run | bounds | checks |
|---|---|---|
| scan_pipeline | 2 requests of any profile, 3 USB polls; LAN and Bluetooth always on | `StageOwnsWork`, `RadiosAccountedFor`, `InitBeforeScan`, `AnswerFitsRequest`, `NoRadioForgotten` |
| scan_service | 3 requests, 2 profiles, 1 poll, LAN always on; liveness provided hardware answers | `ImplementsScanService` (refinement), `RequestsSettle` |
| no_radio | 1 request, no radio need be connected | finds that a scan without a radio never ends |
| device_store | 3 interfaces, 2 scans, 1 list saved | `OwnersExist`, `UpdateJoins`, `SelectionsSurviveScans` |
| snapshot_store | 3 snapshots, 3 dates, 2 interfaces of which 1 known before, 1 crash | `EntriesAreOwn`, `StoredIsWhole`, `DeletedIsGone`, `DetailsAreWhole` |
| home_presence | 2 places, accuracies 20, 80, 500 m, 4 broadcasts | `SensorsFollowHome`, `HomeKnownEverywhere`, `StoredAsAccurate`, `MovementTracked` |
| home_wifi_scan | rounds of 2 scans, 2 timer runs, 1 scan of another program, Welcome opened once | `WifiNotTaken`, `WifiGivenBack`, `RoundsEnd` |
| trigger_returns | 1 timer run, Welcome opened once | finds a thread that spins for ever |
| connectivity_graph | 4 interfaces, 4 addresses of which 2 adjacent | types, `DevicesAreComponents`, `OneDevicePerMAC`, `FlatteningLosesNothing` |
| zigbee_link | the device sends 2 messages of its own accord, 2 faults, a beacon and another frame | `InStep`, `ResultsAreBeacons`, `InitMissesNothing`, `InitMakesQuiet`, `ScanEnds`, `InitEnds` |
| scan_screens | 2 scans, a series of up to 2, one USB radio that asks for a reset | `RequestsFindIdle`, `NoSurprises`, `SeriesComplete`, `WaitsInVain`, `WaitsEnd` |
| interface_store | 2 addresses, 4 scanned interfaces, a thread of each kind, 2 jobs | `KnowledgeKept`, `StoredOrLost`, `TypesAgree`, `NotStuckOnItself` |

The type invariants of all modules, and ScanPipeline's `OneStepInFlight`, are proved
(section 4); that of ConnectivityGraph is checked in its run as well.

Why the bounds are enough:

* scan_pipeline. Two requests are what it takes for one to see what another left,
  and for one to be dropped; the four profiles are all branches of ScanManager; three
  polls let a USB radio be plugged, queued, unplugged and plugged again. LAN and
  Bluetooth differ from a USB radio only in that they come and go without a task, which
  adds no order of tasks; scan_service has Bluetooth come and go. Three
  requests in scan_service let one be dropped between two that are taken.
* device_store. Three interfaces are the fewest with which a scan joins part of one
  device with another; the second scan meets what the first has left, and the save
  after it or during it. A mobility is UNKNOWN or one answer (`Answers`), for nothing compares two answers.
  Symmetry over the interfaces is used where only safety is checked; nothing in the
  module orders them (`SomeOrder` is the unspecified order of rows, and TLC's
  choice is one of them: the proofs hold for any).
* snapshot_store. With three snapshots one can be stored while another is deleted and a
  third keeps its key; two may share a date while the third is undisturbed. Every scan
  finds both interfaces: two are what it takes to see half of a snapshot, and the empty
  snapshot cannot lose anything. One of them is unknown at first, and is inserted by
  whoever comes first.
* home_presence. 20 m and 80 m are good fixes that can be compared, 500 m is a bad
  one (the limit is 100 m); only nearness matters, so two places do. Updates are
  delivered in order; four under way leave room for two complete changes of mind.
* home_wifi_scan. Rounds of two scans have a scan that is followed by another and
  one that is not; the second timer run can start while a round is on.
* connectivity_graph. With four interfaces there are chains of three links, two
  flattened pairs, and an interface named by two flattenings; the addresses are the
  home's access point, its neighbour, and the phone's two. The inductive invariant of the
  proof was checked on the same instance before it was proved.
* zigbee_link. Two messages can come one inside another's scan; two faults let one
  undo or hide another. The beacon has a byte that is a command, the other frame is one
  such byte: a reader that is displaced takes data for commands.
* scan_screens. Two scans are what it takes for a request to meet a busy ScanManager; a
  series of two has a request that follows a snapshot. It was also run, by hand, with three
  scans, and with both radios and one scan.
* interface_store. Two jobs let any two of the threads meet, or one come after the other;
  of two addresses one is found as wired and as wireless, the other as raw and as
  wireless, which are all upgrades. A main thread that waits for its own outer
  transaction, rows left in disagreement by the end of the process, and lost updates
  are all reached, so the conditions in the properties are needed. Three jobs were
  explored by hand to some ten million states.

CHECK_DEADLOCK is FALSE where the model stops at its bounds (all requests
sent, all scans done). home_presence never stops and checks deadlock.

### Fairness

`ScanPipeline!Fairness` is weak fairness of `Receive`, `TaskDone` and of `RunTask` for
tasks that end by themselves: the looper serves both its queues, and commands, lookups
and scanners with time limits end. It says nothing of the tasks that `WaitsForHardware`
names, for the code does not see to it that they end: ZigBee's initialization and
scanner wait for bytes of the serial line (`ZigBee.java:113`, `ZigBeeScanner.java:79`), and
BluetoothScanner waits for the ends of two discoveries (`BluetoothScanner.java:51`), which
do not come once Bluetooth is switched off. Such a task keeps the executor from all
others for good. So `RequestsSettle` and the fairness half of the refinement suppose that
they do end (`HardwareAnswers`): the supposition is part of the property, not of
the specification. Screens, polls and radios have no fairness. `RequestsSettle` also needs
a connected radio when a scan starts: `AlwaysOn` states it, and run no_radio shows what
happens otherwise. `HomePresence` assumes that broadcasts are delivered.
`HomeWifiScan` assumes that Wifi comes up once it is enabling, that scans end and that
each thread goes on; the timer, other programs and the user need do nothing.
`ZigBeeLink` assumes that the device ends a scan it has begun and that a read returns
a byte that is there. `ScanScreens` assumes that broadcasts and timers arrive, threads
and stages end, the libraries load and the service is bound, and that the user presses
reset when a radio asks for it, as long as the process lives. `InterfaceStore` has
only safety properties and no fairness.

## 4. What is proved

For every value of the constants that satisfies the ASSUMEs (bounds are natural
numbers, the interfaces are finite in number, `None` is none of the values, frames fit a
length byte, threads are of one kind), by TLAPS without any assumption about the prover
beyond its library.

| module | theorems | invariants |
|---|---|---|
| ScanPipelineProofs | `TypeCorrect`, `WorkIsOwned`, `OneStepAtATime`, `InitsComeFirst`, `AnswersFit`, `RadiosHavePlaces`, `RadiosRemembered`, `PipelineServes` | `IInv == TypeOK /\ StageOwnsWork /\ Work`, then `Ready`, `Trail`, `Placed`, `Line` on top of it |
| DeviceStoreProofs | `TypeCorrect`, `OwnersAreStored`, `UpdatesJoin`, `ScansKeepSelections` | `OwnersInv == TypeOK /\ StoreInv /\ ReadInv /\ OwnersExist`, then `HandleInv` on top of it |
| LocationProofs (HomePresence) | `TypeCorrect`, `SensorsFollow`, `HomeKnown`, `StoredStaysAccurate` | `TypeOK /\ SensorsFollowHome /\ HomeKnownEverywhere` |
| LocationProofs (HomeWifiScan) | `WifiTypeCorrect`, `WifiStaysOn`, `WifiGoesBack` | `WifiTypeOK` with `NobodyDisables`, `CountedDown`, `Round` |
| ConnectivityGraphProofs | `Invariance`, `TypeCorrect`, `AreComponents`, `AddressOnOneDevice`, `NothingLost` | `IInv == GraphOK /\ FlattenInv /\ HeirInv /\ LinkedInv /\ SearchInv` |
| SnapshotStoreProofs | `TypeCorrect`, `OwnEntries`, `StoredWhole`, `Gone`, `WholeDetails` | `IInv` |
| ZigBeeLinkProofs | `TypeCorrect`, `StaysInStep`, `KeepsTheBeacons`, `MissesNothing`, `MakesQuiet` | `InStepInv`, `PortHeld`, then `WindowInv`, `EchoInv`, `QuietInv` |
| ScanScreensProofs | `TypeCorrect`, `RequestsIdle`, `RowsAreDevices`, `SeriesWhole`, `NoneInVain` | `Inv`, then `WaitInv` |
| InterfaceStoreProofs | `TypeCorrect`, `KnowledgeIsKept`, `StoresOrLoses`, `TypesDoAgree`, `NeverStuckOnItself` | `IInv`, then `Progresses`, `TypeInv`, `OuterInv` on top of it |

*ScanPipeline.* The types are not inductive alone: a manager that is handed a message
while idle ignores it, so what a handler reads from `_workingRequest` has its
type only while ScanManager is busy, and that a message finds its manager in the
right state is `StageOwnsWork`. That is not inductive either: when a chain ends,
ScanManager moves on, and nothing of the old stage may be in flight. `Work` says what
is: for a chain, exactly one broadcast or task, and what its manager awaits besides it
is what its stack still holds; for hardware scanning, every awaited radio is in the
queue, with one scanner, or in one result. From `Work`, `OneStepInFlight` is a
matter of counting (`OneStep`). The step proof has one case per handler, and lemmas
say what each way of replying, starting a step or handing over does to `Work`. On
top: `Ready`, that a connected radio, and one in the queue of a scan, has had an init task
since it was plugged in or has one submitted, unless it was plugged in again during the
scan, gives `InitBeforeScan`; `Trail`, that the steps a payload has been through and those
still on the stack are the whole chain of the request, gives `AnswerFitsRequest`;
`Placed`, that each awaited radio has a place, gives `RadiosAccountedFor` by counting,
and with it `NoRadioForgotten`.

*ScanService.* `Line`: the requests under way are in the queue in the order they were
sent, `outcome` is "sent" exactly for those, and the ids given out are a prefix. With it
each step of the pipeline maps to one step of ScanService or to a stutter
(`PipelineServes`); the fairness of ScanService stays with TLC.

*DeviceStore.* `OwnersExist` needs to know what each thread has in hand: `StoreInv` says
that the device UpdateDevicesThread is storing is in the tables or was deleted while it
did, `ReadInv` that what updateDevices has read of a device it is about to delete covers
all its interfaces. That a scan joins exactly what it should, and keeps selections, are
properties of the step that ends a device, many steps after the first. `HandleInv`
carries them there from the history `before`: the interfaces that UpdateDevicesThread has
left alone still have the owner they had, or the one the branch taken gives them
(`OwnersKept`), rows it has left alone are as they were (`RowsKept`), and each entry read is
what was there (`EntriesAsBefore`, `AllFound`). Each statement of the other thread is
shown to move only what `met` names (`HandleBesides`).

*HomePresence.* `SensorsFollowHome` looks at the last broadcast under way; the lemmas
say how appending and taking off the first leave it.

*HomeWifiScan.* `WifiNotTaken` holds because each flag from which a thread decides to
switch Wifi off was read while Wifi was off: `NobodyDisables` says it of all three.
`CountedDown` is what bounds the shared counter from below. `WifiGivenBack` needs
`Round`: until the timer runs again, and while Welcome is closed, a Wifi that is not off
belongs to the one round, which still owes the disabling.

*SnapshotStore.* A header is followed from its insertion to its deletion: the key that is
read back is its key (`KeysHeld`), it is there until it is deleted (`HeadersThere`), and
data go only with the header they were inserted for (`DeleterKnows`, `EntriesKnown`), of
which a snapshot whose insertion of an interface has failed never has any.
`Bounded`, that every set of headers has a first and a last, stands for their
being finite in number.

*ZigBeeLink.* `LineKnown` says which bytes are on the line for each message, cut short or
not. While nothing has displaced the reader (`Scanning`), what is in hand is a part of
the message under `pos` (`CallKnown`, `InStep`), and the results are the beacons before
`pos` (`KeptBeacons`); the step proof has one case per field. `PortHeld` says who has
the port open. `WindowInv` says that the end of ZigBeeInit's window is what has been read
of the message under the reader, and that the window is not the sequence while the
task runs: so no reset is passed over (`MissesNothing`). `EchoInv` says that while the
device scans nothing on the line holds the sequence, also not across the border of two
messages, for no message but a reset begins with a byte of it; hence an init task that
succeeds has met a reset, the device has been quiet since, and a scan in step leaves it
quiet (`QuietInv`, `MakesQuiet`).

*ScanScreens.* `LineInv`, which broadcasts can be under way, holds of every step. The rest
holds as long as no dialog has let the user go (`~cut`): then one thing at most is
under way for a scan, a timer, the request, ScanManager's work or the answer
(`OneToken`), the screen it belongs to is in front, and shows its dialog (`Shown`).
`AnswersTrail` and `SnapshotsTrail` say of which scans answers can still come, `SeriesInv`
counts the snapshots of a series. `NoneInVain` is an action property with one lemma for
each way a step can take hope away: `HopeKept` says what must change for hope to be lost;
`ShowsEnd`, that a dialog of the USB monitor still to be shown has its end under way or
an init task that will send it, and `MeasureShown`, that a dialog on Measurements belongs
to a series as long as nobody was let go, are what `Inv` lacks for it. `MainOrphans` shows
that a dialog is left behind only by the two actions that show one over it.

*ConnectivityGraph.* Each property looks at the end of a chain of five heuristics, and
the invariant says what each leaves to the next. `FlattenInv`: only SameMAC flattens,
on the whole list, and what one pair keeps no pair drops; so each interface that is gone
has an heir that stays (`HeirInv`), and flattening in any order loses nothing. `LinkedInv`:
since AdjacentMACs, two interfaces of one address are linked or about to be; so one
component has both. `SearchInv` is the depth-first search: an interface whose call
has returned has no neighbour that was not visited, and what is visited is inside every
closed set that meets it (`Together`). A group is then closed and has no smaller closed
part. Components are defined by closed sets, not by paths, so no induction over paths is
needed.

*InterfaceStore.* The argument is one of interference: what a thread has found holds of
the tables as it sees them (`View`) until it is done, because whatever another
statement does, tables only grow in what is known (`Grows`), and a rollback takes
back only what the thread that rolls back could see (`Stays`, `Touch`, `Clean`). So a
statement never writes on top of something that is gone; `KnowledgeKept`, that no row goes
and no class is taken back, follows step by step. `Progresses` follows each interface of a batch to where it is stored.
`TypeInv` names, for each row that disagrees with its data, the thread that has yet to
put it right. `OuterInv` says that the main thread's outer connection meets only
interfaces that its inner one has stored, so it only reads and names.

### Only model-checked

Liveness (`RequestsSettle`, `MovementTracked`, `RoundsEnd`, `ScanEnds`, `InitEnds`,
`WaitsEnd`), the two expected violations, and the fairness half of the refinement
(`ImplementsScanService`; its safety half is `PipelineServes`), because temporal reasoning
under fairness is out of the prover's reach. `RequestsSettle` and that half are moreover
conditional on `HardwareAnswers` (section 3). That the depth-first search of
ConnectivityGraph ends is not stated: it visits each interface once. Every invariant and
every action property that a run checks is a theorem.

## 5. Findings

Each is a run that is expected to be violated and quotes the comment it contradicts
in PROJECT.json.

1. no_radio: a scan with no radio connected is never completed
   (`InterfaceScanManager.java:121`); every later request is dropped.
2. trigger_returns: the timer thread spins for ever once Welcome has switched off the
   Wifi it waits for (`LocationMonitor.java:201`).

Seen while modelling, and visible in the modules, without a run of their own.

*Pipeline.* A radio that is unplugged and plugged in again while a scan that includes it
goes on is scanned before its new init task has run (`USBMon.java:59`, `ZigBee.java:51`; the
condition in `InitBeforeScan`). BluetoothScanner, once discovery cannot start, waits for
ever (`BluetoothScanner.java:51`), ZigBee's init task does until reset is pressed
(`ZigBee.java:113`); no other AsyncTask of the program runs meanwhile.

*Devices.* Nothing holds the database from one statement to the next. UpdateDevicesThread
finds that a device has a row (`DBAdapter.java:190`), a scan merges it into another and
deletes the row, and the thread updates nothing (line 214) and gives its interfaces the key
of the deleted device (lines 218-221); the comment of `updateDevice` (line 184) says that
it is inserted if it does not exist. An answer that the thread stores after a scan has read
the row (`ScanManager.java:324`) goes with it when the scan deletes the row; and an
interface that the thread associates again while a scan joins it ends on the thread's
device. The properties except exactly the devices that meet in this way.

*Location, snapshots, graph.* The answer can hold a key that the same
scan has deleted (`ScanManager.java:339`). The stored home is replaced by a less
accurate one, for the new fix is compared with the one in memory
(`LocationMonitor.java:246`). Flattening an interface loses its link to the gateway
(`InterfaceConnectivityGraph.java:127`).
`associatedToHomeAP` returns true unasked, so any good fix can become the home
(`LocationMonitor.java:299`); a fix far from home makes a phone leave although the
comment at line 241 lets association decide; Welcome, or a second timer run during a
round, makes LocationMonitor forget that it has to switch Wifi off again (the two
conditions in `WifiGivenBack`); Welcome may list networks when LocationMonitor has just
switched Wifi off (`Welcome.java:98`); a stored device that is scanned again with two of
its interfaces is taken for several, deleted and stored under a new key
(`ScanManager.java:323`); a snapshot deleted while it is being stored leaves data that
a later one with its key is shown with, one that gets its key between the two
deletes of another loses its data, and two snapshots of one date share one key
(`DBAdapter.java:67`, `159`; the conditions in `Undisturbed`).

*ZigBee link.* ZigBeeInit takes any twelve bytes that are the reset sequence for a reset,
also inside a packet that a scan left running reports (`ZigBee.java:113`): the ZigBee
radio is then "initialized" while it scans. `InitMakesQuiet` holds if no frame holds the
sequence (`OnlyResetsHoldSequence`); without that it was false. The port keeps ICRNL, so a byte 13 is read as 10 (`serial.c:24`). A scan
that is joined in the middle may never end. When the port cannot be opened, the loop
that tries again holds the lock; when it is hung up, reads spin. A read that fails with
−1 counts as read. When `dmesg` tells no port, opening it is a NullPointerException.

*Screens.* HOME while the libraries load, and coming back, shows a second dialog over the
first (`MainInterface.java:91`, against the comment at 89); so do two USB radios
plugged in at once; only the last one is dismissed (the fourth way of `WaitsInVain`). Binding
MainInterface again after HOME
dismisses the scan's dialog while the scan goes on, and a request of Measurements may
then be dropped, which leaves its dialog for ever. YourDevices and MissingDevices
dereference a null `_pd` when another screen's scan ends (`YourDevices.java:163`). A
response missed while in another application leaves a dialog that cannot be cancelled.

*Interface tables.* `insertInterface` says it will "only insert it if it doesn't yet
exist" (`DBAdapter.java:340`) and that "Otherwise, nothing will happen" (line 352; the same
at `SnapshotsDataTable.java:80`), but between its check and `updateInterface(UPDATE)` the
interface may come to exist, and its name is overwritten. SAFE_UPDATE is to "Update the
name if it is stored as null" (`DBAdapter.java:41`), and decides by what it has read before: a name
given meanwhile is overwritten, too. So no property here speaks of names. An insertion
that meets another rolls back the rest of its connection's writes and blocks every other
connection meanwhile, and if it was a snapshot's, the snapshot has a header and no data
for good (`DBTable.java:308-318`; "lost" in SnapshotStore); a main thread that has lost an update so may wait in `open`
for its own outer transaction. An upgrade cut short by the end of the process leaves a row
of type LAN with wireless data for good. An interface stored raw is never made
wired.

## 6. Not modelled

What the hardware, the native helpers but for the serial port (`jni/`), the network lookups
and the packet decoders compute: I/O and data. Layout and preferences of the screens,
and the set-up screens, which are forms over the preferences. The activity records, which
nothing reads. Names, anchors and the export of snapshots. The counting of Bluetooth's
discovery rounds, the cleanup when the service ends, and starting it at boot.

Of the C and C++ in the repository, nearly all under `src/application/jni`, only `awmon.c`,
`serial.c` and a few helpers are the program's own: the rest is libpcap, libusb, glib,
wireshark and the like, brought along to be linked. The application's own logic is the
Java code the modules above cover; counted against every line in the repository
they can only be a small part.

## 7. Plan

Done, in this order: ScanPipeline with ScanService and proofs; DeviceStore and proofs;
HomePresence and HomeWifiScan and proofs; ConnectivityGraph; SnapshotStore and proofs;
ZigBeeLink and proofs; ScanScreens and proofs; the remaining safety properties of
ScanPipeline and its refinement of ScanService; InterfaceStore and proofs; the init task
of ZigBeeLink, the search and the heuristics of ConnectivityGraph, and `WaitsInVain`.

Left, should the code change there: the rounds of Bluetooth discovery and their receiver
(`BluetoothScanner.java:46`); cleanup of the service; and InterfaceStore composed with
DeviceStore, whose writers share connections.
