---------------------------- MODULE InterfaceStore ----------------------------
(***************************************************************************)
(* What the database knows of an interface: its row in INTERFACES and, by  *)
(* its class, a row in WIRED_IFACE_DATA or WIRELESS_IFACE_DATA.  Threads   *)
(* that store snapshots insert interfaces, the main thread updates them at *)
(* the end of a filtering scan and the screens' UpdateDevicesThreads store *)
(* what they show, each through connections of its own.                    *)
(* DBAdapter.updateInterface is several statements, reads and writes that  *)
(* follow from what was read, and nothing holds them together.             *)
(*                                                                         *)
(* An insertion is a transaction, which DBTable.insert does not end when   *)
(* the row is there already.  From then on what its connection writes is   *)
(* lost when it is closed, and all others wait: a statement for some time, *)
(* then it throws, which ends the process; DBAdapter.open for ever.        *)
(*                                                                         *)
(* The other columns, and the statement that updates the data of an        *)
(* interface stored with its own class, are left out.                      *)
(***************************************************************************)
EXTENDS Naturals

CONSTANTS
    MACs,          \* addresses
    Seen,          \* the interfaces scans find
    StoreThreads,  \* StoreSnapshotThreads
    UpdateThreads, \* UpdateDevicesThreads
    MaxJobs        \* bound on what the threads are started for

Classes == {"Interface", "WiredInterface", "WirelessInterface"}
Names == {"null", "name", "other"}
Interfaces == [MAC : MACs, class : Classes, name : Names]

ASSUME SeenAssumption == Seen \subseteq Interfaces
ASSUME ThreadsAssumption ==
    /\ "main" \notin StoreThreads \cup UpdateThreads
    /\ "no" \notin StoreThreads \cup UpdateThreads
    /\ StoreThreads \cap UpdateThreads = {}
ASSUME MaxJobsAssumption == MaxJobs \in Nat

Threads == {"main"} \cup StoreThreads \cup UpdateThreads

VARIABLES
    disk,      \* the tables, as what is committed leaves them
    db,        \* the tables, as the connection that has the lock sees them
    lock,      \* the connection whose transaction was not ended
    at,        \* where each thread is
    conn,      \* the connection it uses; updateDevices has one inside another
    batch,     \* the interfaces it stores through it
    todo,      \* those of them it has still to store
    iface,     \* the argument of updateInterface
    existing,  \* what updateInterface found stored
    handled,   \* addresses of the scanned devices updateDevices is done with
    jobs,      \* number of jobs so far
    lost,      \* history: updateDevices lost what an updateInterfacesCore wrote
    cut        \* history: addresses whose update ended with the process

tableVars == <<disk, db, lock>>
callVars  == <<batch, todo, iface, existing>>
histVars  == <<lost, cut>>
vars == <<tableVars, at, conn, callVars, handled, jobs, histVars>>

-----------------------------------------------------------------------------
(* The tables                                                              *)

\* A row of INTERFACES.  What LANs answer has the type LAN, wired or not known to be.
TypeOf(class) == IF class = "WirelessInterface" THEN "wireless" ELSE "LAN"
Row(i) == [name |-> i.name, type |-> TypeOf(i.class)]
Rows == [name : Names, type : {"wireless", "LAN"}]

WithRow(m, row) == [n \in DOMAIN db.rows \cup {m} |-> IF n = m THEN row ELSE db.rows[n]]

\* getInterface: wireless data come first, then wired.
ClassIn(tables, m) ==
    IF m \in tables.wireless THEN "WirelessInterface"
    ELSE IF m \in tables.wired THEN "WiredInterface"
    ELSE "Interface"

Object(m) == [MAC |-> m, class |-> ClassIn(db, m), name |-> db.rows[m].name]

\* Connections: a thread and which of its connections it is.
Connection(t) == <<t, conn[t]>>
Free == <<"no", "none">>
\* Closed with its transaction open, and not yet collected.
Lingering == <<"no", "closed">>
Connections == Threads \X {"outer", "inner"}

Go(t, place) == at' = [at EXCEPT ![t] = place]
Accesses(t, place) == at[t] = place /\ lock \in {Free, Connection(t)}

Write(tables) ==
    /\ db' = tables
    /\ disk' = IF lock = Free THEN tables ELSE disk
    /\ UNCHANGED lock

\* DBTable.insert: an exception leaves the transaction open.
Insert(t, there, tables) ==
    IF there
    THEN lock' = Connection(t) /\ UNCHANGED <<disk, db>>
    ELSE Write(tables)

-----------------------------------------------------------------------------
(* The jobs                                                                *)

NoInterface == [MAC |-> "none", class |-> "Interface", name |-> "null"]
NotThere == [class |-> "none", name |-> "null"]

Distinct(ifaces) == \A i, j \in ifaces : i.MAC = j.MAC => i = j
Addresses(ifaces) == {i.MAC : i \in ifaces}
Batches == {ifaces \in SUBSET Seen : ifaces # {} /\ Distinct(ifaces)}

Stores(t, ifaces) ==
    /\ batch' = [batch EXCEPT ![t] = ifaces]
    /\ todo' = [todo EXCEPT ![t] = ifaces]
    /\ UNCHANGED <<iface, existing>>

\* A thread is started, or updateDevices begins, and opens the database.
Start(t) ==
    /\ at[t] = "idle"
    /\ jobs < MaxJobs
    /\ jobs' = jobs + 1
    /\ Go(t, "opening")
    /\ conn' = [conn EXCEPT ![t] = "outer"]
    /\ \E ifaces \in IF t = "main" THEN {{}} ELSE Batches : Stores(t, ifaces)
    /\ UNCHANGED <<tableVars, handled, histVars>>

\* DBAdapter.open tries again until it succeeds.
Open(t) ==
    /\ at[t] = "opening"
    /\ lock = Free
    /\ Go(t, IF t = "main" /\ conn[t] = "outer" THEN "devices" ELSE "next")
    /\ UNCHANGED <<tableVars, conn, callVars, handled, jobs, histVars>>

\* updateDevices: the interfaces of the next device first.
UpdateInterfacesCore ==
    /\ at["main"] = "devices"
    /\ \E device \in Batches :
           /\ Addresses(device) \cap handled = {}
           /\ handled' = handled \cup Addresses(device)
           /\ Stores("main", device)
    /\ conn' = [conn EXCEPT !["main"] = "inner"]
    /\ Go("main", "opening")
    /\ UNCHANGED <<tableVars, jobs, histVars>>

\* Then the device.  Nothing known of it: it is stored.  One device known: its
\* interfaces are only associated.  Several: one made of what they are.
UpdateDevice ==
    /\ Accesses("main", "device")
    /\ \/ Stores("main", batch["main"])
       \/ Stores("main", {})
       \/ \E ms \in SUBSET DOMAIN db.rows : ms # {} /\ Stores("main", {Object(m) : m \in ms})
    /\ Go("main", "next")
    /\ UNCHANGED <<tableVars, conn, handled, jobs, histVars>>

\* A connection is closed.  Its open transaction is rolled back, and its lock goes
\* with it, or when the connection is collected.
CloseConnection(t) ==
    IF lock = Connection(t)
    THEN /\ lock' \in {Free, Lingering}
         /\ db' = disk
         /\ UNCHANGED disk
    ELSE UNCHANGED tableVars

Finished(t) == at[t] = "next" /\ todo[t] = {}

DeviceDone ==
    /\ Finished("main") /\ conn["main"] = "outer"
    /\ Go("main", "devices")
    /\ Stores("main", {})
    /\ UNCHANGED <<tableVars, conn, handled, jobs, histVars>>

CloseCore ==
    /\ Finished("main") /\ conn["main"] = "inner"
    /\ CloseConnection("main")
    /\ lost' = (lost \/ lock = Connection("main"))
    /\ conn' = [conn EXCEPT !["main"] = "outer"]
    /\ Go("main", "device")
    /\ UNCHANGED <<callVars, handled, jobs, cut>>

Close(t) ==
    /\ IF t = "main" THEN at[t] = "devices" ELSE Finished(t)
    /\ CloseConnection(t)
    /\ Go(t, "idle")
    /\ Stores(t, {})
    /\ IF t = "main" THEN handled' = {} /\ lost' = FALSE ELSE UNCHANGED <<handled, lost>>
    /\ UNCHANGED <<conn, jobs, cut>>

Collected ==
    /\ lock = Lingering
    /\ lock' = Free
    /\ UNCHANGED <<disk, db, at, conn, callVars, handled, jobs, histVars>>

-----------------------------------------------------------------------------
(* DBAdapter.updateInterface                                               *)

NameUpdate(t) ==
    IF t \in StoreThreads THEN "UPDATE"
    ELSE IF conn[t] = "inner" THEN "SAFE_UPDATE"
    ELSE "DO_NOT_UPDATE"

CallKept == UNCHANGED <<conn, batch, todo, handled, jobs, histVars>>
Reads == UNCHANGED tableVars /\ CallKept

\* The next interface; insertInterface looks first whether it is there.
NextInterface(t) ==
    /\ at[t] = "next"
    /\ \E i \in todo[t] :
           /\ iface' = [iface EXCEPT ![t] = i]
           /\ todo' = [todo EXCEPT ![t] = @ \ {i}]
    /\ Go(t, IF t \in StoreThreads THEN "check" ELSE "read")
    /\ UNCHANGED <<tableVars, conn, batch, existing, handled, jobs, histVars>>

Done(t) ==
    /\ Go(t, "next")
    /\ iface' = [iface EXCEPT ![t] = NoInterface]
    /\ existing' = [existing EXCEPT ![t] = NotThere]

InsertInterface(t) ==
    /\ Accesses(t, "check")
    /\ IF iface[t].MAC \in DOMAIN db.rows
       THEN Done(t)
       ELSE Go(t, "read") /\ UNCHANGED <<iface, existing>>
    /\ Reads

\* getInterface: the row, then the wireless data, then the wired.
GetRaw(t) ==
    /\ Accesses(t, "read")
    /\ IF iface[t].MAC \in DOMAIN db.rows
       THEN /\ existing' = [existing EXCEPT ![t] = [class |-> "Interface",
                                                    name |-> db.rows[iface[t].MAC].name]]
            /\ Go(t, "readWireless")
       ELSE existing' = [existing EXCEPT ![t] = NotThere] /\ Go(t, "insert")
    /\ UNCHANGED iface
    /\ Reads

\* The data are read together with the row, once more.
Found(t, class) == [existing EXCEPT ![t] = [class |-> class, name |-> db.rows[iface[t].MAC].name]]

GetWireless(t) ==
    /\ Accesses(t, "readWireless")
    /\ IF iface[t].MAC \in db.wireless
       THEN existing' = Found(t, "WirelessInterface") /\ Go(t, "update")
       ELSE Go(t, "readWired") /\ UNCHANGED existing
    /\ UNCHANGED iface
    /\ Reads

GetWired(t) ==
    /\ Accesses(t, "readWired")
    /\ existing' = IF iface[t].MAC \in db.wired THEN Found(t, "WiredInterface") ELSE existing
    /\ Go(t, "update")
    /\ UNCHANGED iface
    /\ Reads

\* Not there: insert it, and its data, whatever became of the row.
InsertRow(t) ==
    /\ Accesses(t, "insert")
    /\ LET m == iface[t].MAC
       IN Insert(t, m \in DOMAIN db.rows, [db EXCEPT !.rows = WithRow(m, Row(iface[t]))])
    /\ IF iface[t].class = "Interface"
       THEN Done(t)
       ELSE Go(t, "data") /\ UNCHANGED <<iface, existing>>
    /\ CallKept

InsertWired(t) ==
    Insert(t, iface[t].MAC \in db.wired, [db EXCEPT !.wired = @ \cup {iface[t].MAC}])
InsertWireless(t) ==
    Insert(t, iface[t].MAC \in db.wireless, [db EXCEPT !.wireless = @ \cup {iface[t].MAC}])

InsertData(t) ==
    /\ Accesses(t, "data")
    /\ IF iface[t].class = "WiredInterface" THEN InsertWired(t) ELSE InsertWireless(t)
    /\ Done(t)
    /\ CallKept

\* The name after the update.
UpdatedName(t) ==
    CASE NameUpdate(t) = "UPDATE"        -> iface[t].name
      [] NameUpdate(t) = "DO_NOT_UPDATE" -> existing[t].name
      [] NameUpdate(t) = "SAFE_UPDATE"   -> IF existing[t].name # "null" THEN existing[t].name
                                            ELSE iface[t].name

\* Mutation: only a raw interface is upgraded.
UpgradesRawOnly(t) == iface[t].class = "WirelessInterface" /\ existing[t].class = "Interface"

\* Mutation: wireless data are inserted whatever is stored.
UpgradesAlways(t) == iface[t].class = "WirelessInterface"

Upgrades(t) == iface[t].class = "WirelessInterface" /\ existing[t].class # "WirelessInterface"

\* Mutation: an upgrade removes the wired data before the wireless data are there.
UpdateRowRemoves(t) ==
    /\ Accesses(t, "update")
    /\ LET m == iface[t].MAC
           i == [iface[t] EXCEPT !.name = UpdatedName(t)]
       IN  IF Upgrades(t)
           THEN /\ Write([db EXCEPT !.rows[m].name = i.name, !.wired = @ \ {m}])
                /\ Go(t, "upgrade") /\ iface' = [iface EXCEPT ![t] = i] /\ UNCHANGED existing
           ELSE Write([db EXCEPT !.rows[m].name = i.name]) /\ Done(t)
    /\ CallKept

\* There: update the row but for its type; wireless data are added, and no others.
UpdateRow(t) ==
    /\ Accesses(t, "update")
    /\ LET m == iface[t].MAC
           i == [iface[t] EXCEPT !.name = UpdatedName(t)]
       IN  /\ Write([db EXCEPT !.rows[m].name = i.name])
           /\ IF Upgrades(t)
              THEN Go(t, "upgrade") /\ iface' = [iface EXCEPT ![t] = i] /\ UNCHANGED existing
              ELSE Done(t)
    /\ CallKept

\* Mutation: an upgrade ends without the type.
UpgradeKeepsType(t) ==
    /\ Accesses(t, "upgrade")
    /\ InsertWireless(t)
    /\ IF existing[t].class = "WiredInterface"
       THEN Go(t, "removeWired") /\ UNCHANGED <<iface, existing>>
       ELSE Done(t)
    /\ CallKept

Upgrade(t) ==
    /\ Accesses(t, "upgrade")
    /\ InsertWireless(t)
    /\ Go(t, IF existing[t].class = "WiredInterface" THEN "removeWired" ELSE "retype")
    /\ UNCHANGED <<iface, existing>>
    /\ CallKept

RemoveWiredData(t) ==
    /\ Accesses(t, "removeWired")
    /\ Write([db EXCEPT !.wired = @ \ {iface[t].MAC}])
    /\ Go(t, "retype")
    /\ UNCHANGED <<iface, existing>>
    /\ CallKept

UpdateType(t) ==
    /\ Accesses(t, "retype")
    /\ Write([db EXCEPT !.rows[iface[t].MAC] = Row(iface[t])])
    /\ Done(t)
    /\ CallKept

UpdateInterface(t) ==
    \/ GetRaw(t) \/ GetWireless(t) \/ GetWired(t)
    \/ InsertRow(t) \/ InsertData(t)
    \/ UpdateRow(t) \/ Upgrade(t) \/ RemoveWiredData(t) \/ UpdateType(t)

-----------------------------------------------------------------------------
(* The end of the process                                                  *)

Dies ==
    /\ db' = disk
    /\ lock' = Free
    /\ UNCHANGED disk
    /\ at' = [t \in Threads |-> "idle"]
    /\ conn' = [t \in Threads |-> "outer"]
    /\ batch' = [t \in Threads |-> {}]
    /\ todo' = [t \in Threads |-> {}]
    /\ iface' = [t \in Threads |-> NoInterface]
    /\ existing' = [t \in Threads |-> NotThere]
    /\ handled' = {}
    /\ lost' = FALSE
    /\ cut' = cut \cup ({iface[t].MAC : t \in Threads} \cap MACs)
    /\ UNCHANGED jobs

\* A statement that has waited for the lock throws, and nobody catches it.
TimesOut(t) ==
    /\ at[t] \notin {"idle", "opening", "devices", "next"}
    /\ lock \notin {Free, Connection(t)}
    /\ Dies

\* Android ends the process.
Killed == (\E t \in Threads : at[t] # "idle") /\ Dies

-----------------------------------------------------------------------------
Init ==
    /\ db = [rows |-> [m \in {} |-> Row(NoInterface)], wired |-> {}, wireless |-> {}]
    /\ disk = db
    /\ lock = Free
    /\ at = [t \in Threads |-> "idle"]
    /\ conn = [t \in Threads |-> "outer"]
    /\ batch = [t \in Threads |-> {}] /\ todo = [t \in Threads |-> {}]
    /\ iface = [t \in Threads |-> NoInterface] /\ existing = [t \in Threads |-> NotThere]
    /\ handled = {} /\ jobs = 0
    /\ lost = FALSE /\ cut = {}

Next ==
    \/ \E t \in Threads : \/ Start(t) \/ Open(t) \/ Close(t)
                          \/ NextInterface(t) \/ InsertInterface(t) \/ UpdateInterface(t)
                          \/ TimesOut(t)
    \/ UpdateInterfacesCore \/ CloseCore \/ UpdateDevice \/ DeviceDone
    \/ Collected \/ Killed

Spec == Init /\ [][Next]_vars

-----------------------------------------------------------------------------
(* Properties                                                              *)

Tables == [rows : UNION {[ms -> Rows] : ms \in SUBSET MACs},
           wired : SUBSET MACs, wireless : SUBSET MACs]

\* resultsToObjects takes it for granted that data belong to a row.
Whole(tables) == tables.wired \cup tables.wireless \subseteq DOMAIN tables.rows

\* Every variable has its type, and what is stored of an interface belongs to a row.
TypeOK ==
    /\ db \in Tables /\ Whole(db)
    /\ disk \in Tables /\ Whole(disk)
    /\ lock \in Connections \cup {Free, Lingering}
    /\ at \in [Threads -> {"idle", "opening", "devices", "device", "next", "check", "read",
                           "readWireless", "readWired", "insert", "data", "update",
                           "upgrade", "removeWired", "retype"}]
    /\ conn \in [Threads -> {"outer", "inner"}]
    /\ batch \in [Threads -> SUBSET Interfaces] /\ todo \in [Threads -> SUBSET Interfaces]
    /\ iface \in [Threads -> Interfaces \cup {NoInterface}]
    /\ existing \in [Threads -> [class : Classes \cup {"none"}, name : Names]]
    /\ handled \subseteq MACs
    /\ jobs \in 0..MaxJobs
    /\ lost \in BOOLEAN /\ cut \subseteq MACs

Rank(m) ==
    IF m \notin DOMAIN disk.rows THEN 0
    ELSE CASE ClassIn(disk, m) = "Interface"         -> 1
           [] ClassIn(disk, m) = "WiredInterface"    -> 2
           [] ClassIn(disk, m) = "WirelessInterface" -> 3

\* However the threads interleave, and when transactions are rolled back or the
\* process ends, what is known of an interface grows: it stays stored, and goes from
\* raw to wired to wireless only (updateInterface: "we do NOT downgrade wireless to
\* wired").  Nothing of the kind holds of names: see the README.
KnowledgeKept == [][\A m \in MACs : Rank(m)' >= Rank(m)]_vars

\* What a thread is done with is stored, as wireless if it is, unless the thread's own
\* transaction is open and it loses all; insertInterface asks only for a row.
StoredOrLost ==
    \A t \in Threads :
        at[t] = "next" /\ lock # Connection(t) =>
            \A i \in batch[t] \ todo[t] :
                /\ i.MAC \in DOMAIN disk.rows
                /\ i.class = "WirelessInterface" /\ t \notin StoreThreads
                       => i.MAC \in disk.wireless

\* Once no thread is at work on an interface, the type in its row agrees with the data it
\* has, unless the process ended in the middle of an update.
TypesAgree ==
    \A m \in DOMAIN disk.rows \ cut :
        (\A t \in Threads : iface[t].MAC # m) =>
            disk.rows[m].type = TypeOf(ClassIn(disk, m))

\* updateDevices has one connection inside another.  The main thread would wait for ever
\* for itself if the outer had a transaction open: it has none, since what it would insert
\* has been stored through the inner, unless that was lost.
NotStuckOnItself ==
    at["main"] = "opening" /\ lock = <<"main", "outer">> => lost
=============================================================================
