---------------------------- MODULE SnapshotStore ----------------------------
(***************************************************************************)
(* The snapshots of scans in the tables SNAPSHOTS and SNAPSHOT_DATA.  Each *)
(* snapshot is stored by a thread of its own (StoreSnapshotThread), while  *)
(* the user may list, inspect and delete snapshots on the screens          *)
(* SnapshotList and SnapshotDetails, whose threads go to the same tables.  *)
(* A snapshot is looked up by its date, which has a resolution of a second *)
(* of local time, and its data by a key that SQLite assigns: one more than *)
(* the largest key in the table, so that a key can be used again once the  *)
(* snapshot that had it is deleted.  Interfaces are inserted before the    *)
(* data that names them; updateDevices and other threads store them too,   *)
(* and an insertion that meets another fails and leaves its transaction    *)
(* open, to be rolled back with all that follows.  The process can die     *)
(* between any two steps; the tables stay.                                 *)
(***************************************************************************)
EXTENDS Integers

CONSTANTS
    Snapshots,  \* the scans of which a snapshot is made
    Dates,      \* the dates they can have
    MACs,       \* the interfaces
    Finds,      \* the sets of them that scans find
    Known,      \* those that are stored from the start
    MaxCrashes  \* bound on the deaths of the process

ASSUME BoundAssumption == MaxCrashes \in Nat
ASSUME FindsAssumption == Finds \subseteq SUBSET MACs /\ Known \subseteq MACs

VARIABLES
    headers,       \* the table SNAPSHOTS
    entries,       \* the table SNAPSHOT_DATA
    interfaces,    \* the addresses in the table INTERFACES
    step,          \* how far each snapshot has been stored
    snapshot,      \* each Snapshot object: its date and interfaces
    snapshotKey,   \* its key, -1 until one is read back
    inserting,     \* the interface it found missing and is inserting
    met,           \* the snapshots of which another writer has stored it since
    lock,          \* the snapshot whose transaction was left open
    screen,        \* the screen shown, of these two
    listed,        \* SnapshotList._snapshots
    deleting,      \* what the DeleteThread still has to delete
    deleter,       \* where that thread is
    details,       \* what SnapshotDetails has read
    crashes,
    deleted,       \* history: the snapshots the user has deleted
    disturbed      \* history: snapshots that met a deletion half way

tableVars == <<headers, entries, interfaces>>
storeVars == <<step, snapshot, snapshotKey>>
ifaceVars == <<inserting, met, lock>>
listVars  == <<screen, listed, deleting, deleter>>
ghostVars == <<deleted, disturbed>>
vars == <<tableVars, storeVars, ifaceVars, listVars, details, crashes, ghostVars>>

\* The field of tells which snapshot a row was written for; the tables have
\* no such column.
Headers == [key: Nat, date: Dates, of: Snapshots]
Entries == [key: Int, MAC: MACs, of: Snapshots]
NoSnapshot == [date |-> {}, ifaces |-> {}]
NoDetails == [date |-> {}, key |-> -1, of |-> {}, rows |-> {}]

\* Between the insertion of its header and that of its data.
Storing == {s \in Snapshots : step[s] \in {"headed", "keyed"}}

TypeOK ==
    /\ headers \subseteq Headers
    /\ entries \subseteq Entries
    /\ interfaces \subseteq MACs
    /\ step \in [Snapshots -> {"none", "made", "headed", "keyed", "stored", "lost", "dead"}]
    /\ snapshot \in [Snapshots -> [date: SUBSET Dates, ifaces: SUBSET MACs]]
    /\ snapshotKey \in [Snapshots -> Int]
    /\ inserting \in [Snapshots -> SUBSET MACs]
    /\ met \subseteq Snapshots /\ lock \subseteq Snapshots
    /\ screen \in {"other", "list", "opening", "reading", "details"}
    /\ listed \subseteq Headers
    /\ deleting \subseteq listed
    /\ deleter \in {"idle", "metadata", "entries", "refresh"}
    /\ details \in [date: SUBSET Dates, key: Int, of: SUBSET Snapshots, rows: SUBSET Entries]
    /\ crashes \in 0..MaxCrashes
    /\ deleted \subseteq Snapshots
    /\ disturbed \subseteq Snapshots
    \* No two headers have one key, and a deletion runs under the list.
    /\ \A g, h \in headers : g.key = h.key => g = h
    /\ deleter # "idle" => screen = "list"

-----------------------------------------------------------------------------
(* The tables                                                              *)

\* Rows come in the order of their keys.
First(hs) == CHOOSE h \in hs : \A g \in hs : h.key <= g.key
Last(hs) == CHOOSE h \in hs : \A g \in hs : g.key <= h.key

\* The key of a new row: SQLite continues after the largest one.
NextKey == IF headers = {} THEN 1 ELSE Last(headers).key + 1

OfDate(ds) == {h \in headers : h.date \in ds}

\* Mutation: the key is that of the last header.
KeyOfLast(ds) == IF OfDate(ds) = {} THEN -1 ELSE Last(headers).key

\* The key read back for a date.
KeyOf(ds) == IF OfDate(ds) = {} THEN -1 ELSE First(OfDate(ds)).key

EntriesOf(k) == {r \in entries : r.key = k}

-----------------------------------------------------------------------------
(* Storing: makeSnapshot, and storeSnapshot in its thread                  *)

\* A transaction that is open keeps every other connection waiting, readers too.
Unlocked == lock = {}

\* The date and the interfaces of the scan that has just ended.
MakeSnapshot(s, d, ifaces) ==
    /\ step[s] = "none"
    /\ step' = [step EXCEPT ![s] = "made"]
    /\ snapshot' = [snapshot EXCEPT ![s] = [date |-> {d}, ifaces |-> ifaces]]
    /\ UNCHANGED <<tableVars, snapshotKey, ifaceVars, listVars, details, crashes, ghostVars>>

InsertHeader(s) ==
    /\ step[s] = "made" /\ Unlocked
    /\ step' = [step EXCEPT ![s] = "headed"]
    /\ \E d \in snapshot[s].date :
           headers' = headers \union {[key |-> NextKey, date |-> d, of |-> s]}
    /\ disturbed' = IF deleter = "idle" THEN disturbed ELSE disturbed \union {s}
    /\ UNCHANGED <<entries, interfaces, snapshot, snapshotKey, ifaceVars, listVars, details,
                   crashes, deleted>>

ReadKey(s) ==
    /\ step[s] = "headed" /\ Unlocked
    /\ step' = [step EXCEPT ![s] = "keyed"]
    /\ snapshotKey' = [snapshotKey EXCEPT ![s] = KeyOf(snapshot[s].date)]
    /\ UNCHANGED <<tableVars, snapshot, ifaceVars, listVars, details, crashes, ghostVars>>

-----------------------------------------------------------------------------
(* insertInterfaces: those that are not yet in the database, one by one    *)

\* Another writer stores i: whoever has found it missing may meet that.
Meeting(s, i) == {t \in Snapshots \ {s} : i \in inserting[t]}

InterfaceKept ==
    UNCHANGED <<headers, entries, storeVars, listVars, details, crashes, ghostVars>>

FindMissing(s) ==
    /\ step[s] = "keyed" /\ Unlocked
    /\ inserting[s] = {}
    /\ \E i \in snapshot[s].ifaces \ interfaces : inserting' = [inserting EXCEPT ![s] = {i}]
    /\ UNCHANGED <<interfaces, met, lock>>
    /\ InterfaceKept

\* The row of the interface, and then its data.
InsertRow(s) ==
    /\ Unlocked
    /\ \E i \in inserting[s] \ interfaces :
           /\ interfaces' = interfaces \union {i}
           /\ met' = met \union Meeting(s, i)
    /\ UNCHANGED <<inserting, lock>>
    /\ InterfaceKept

InsertData(s) ==
    /\ Unlocked
    /\ \E i \in inserting[s] \cap interfaces : met' = (met \union Meeting(s, i)) \ {s}
    /\ inserting' = [inserting EXCEPT ![s] = {}]
    /\ UNCHANGED <<interfaces, lock>>
    /\ InterfaceKept

\* Row or data are there by now: DBTable.insert catches what SQLite throws, and returns
\* without ending its transaction.  What the thread inserts from here on, nobody sees.
InsertFails(s) ==
    /\ s \in met /\ Unlocked
    /\ lock' = {s}
    /\ inserting' = [inserting EXCEPT ![s] = {}]
    /\ met' = met \ {s}
    /\ UNCHANGED interfaces
    /\ InterfaceKept

\* updateDevices and UpdateDevicesThreads insert interfaces, or add data to them.
StoreInterface(i) ==
    /\ Unlocked
    /\ interfaces' = interfaces \union {i}
    /\ met' = met \union {t \in Snapshots : i \in inserting[t]}
    /\ UNCHANGED <<inserting, lock>>
    /\ InterfaceKept

InsertInterfaces(s) ==
    FindMissing(s) \/ InsertRow(s) \/ InsertData(s) \/ InsertFails(s)

-----------------------------------------------------------------------------
(* The data                                                                *)

\* The interfaces are all there, as far as the thread can see.
Prepared(s) ==
    /\ step[s] = "keyed"
    /\ \/ lock = {s}
       \/ Unlocked /\ inserting[s] = {} /\ snapshot[s].ifaces \subseteq interfaces

\* Mutation: no transaction; the rows are inserted one by one.
InsertEntriesSingly(s) ==
    /\ Prepared(s)
    /\ LET missing == {i \in snapshot[s].ifaces :
                           [key |-> snapshotKey[s], MAC |-> i, of |-> s] \notin entries}
       IN IF missing = {}
          THEN step' = [step EXCEPT ![s] = "stored"] /\ UNCHANGED entries
          ELSE /\ \E i \in missing :
                      entries' = entries \union {[key |-> snapshotKey[s], MAC |-> i, of |-> s]}
               /\ UNCHANGED step
    /\ lock' = {}
    /\ UNCHANGED <<headers, interfaces, snapshot, snapshotKey, inserting, met, listVars, details,
                   crashes, ghostVars>>

\* All the rows in one transaction, and the connection is closed: if an earlier
\* transaction is open, this one is part of it and rolled back with it.
InsertEntries(s) ==
    /\ Prepared(s)
    /\ IF lock = {s}
       THEN step' = [step EXCEPT ![s] = "lost"] /\ UNCHANGED entries
       ELSE /\ step' = [step EXCEPT ![s] = "stored"]
            /\ entries' = entries \union
                   {[key |-> snapshotKey[s], MAC |-> i, of |-> s] : i \in snapshot[s].ifaces}
    /\ lock' = {}
    /\ UNCHANGED <<headers, interfaces, snapshot, snapshotKey, inserting, met, listVars, details,
                   crashes, ghostVars>>

StoreSnapshot(s) == InsertHeader(s) \/ ReadKey(s) \/ InsertInterfaces(s) \/ InsertEntries(s)

-----------------------------------------------------------------------------
(* SnapshotList                                                            *)

OpenList ==
    /\ screen \in {"other", "details"} /\ Unlocked
    /\ screen' = "list"
    /\ listed' = headers
    /\ details' = NoDetails
    /\ UNCHANGED <<tableVars, storeVars, ifaceVars, deleting, deleter, crashes, ghostVars>>

CloseList ==
    /\ screen = "list" /\ deleter = "idle"
    /\ screen' = "other"
    /\ listed' = {}
    /\ UNCHANGED <<tableVars, storeVars, ifaceVars, deleting, deleter, details, crashes, ghostVars>>

\* A dialog keeps the user from anything else until the thread is done.
ClickedDelete(hs) ==
    /\ screen = "list" /\ deleter = "idle"
    /\ hs # {}
    /\ deleting' = hs
    /\ deleter' = "metadata"
    /\ UNCHANGED <<tableVars, storeVars, ifaceVars, screen, listed, details, crashes, ghostVars>>

\* The header goes by its date; a snapshot that is still being stored loses its
\* header all the same.
DeleteMetadata ==
    /\ deleter = "metadata" /\ Unlocked
    /\ deleter' = "entries"
    /\ LET h == First(deleting)
           gone == OfDate({h.date})
       IN /\ headers' = headers \ gone
          /\ deleted' = deleted \union {h.of}
          /\ disturbed' = disturbed \union {s \in Storing : \E g \in gone : g.of = s}
    /\ UNCHANGED <<entries, interfaces, storeVars, ifaceVars, screen, listed, deleting, details, crashes>>

\* Mutation: the data is left.
DeleteNoEntries ==
    /\ deleter = "entries" /\ Unlocked
    /\ deleting' = deleting \ {First(deleting)}
    /\ deleter' = IF deleting' = {} THEN "refresh" ELSE "metadata"
    /\ UNCHANGED <<tableVars, storeVars, ifaceVars, screen, listed, details, crashes, ghostVars>>

\* Mutation: the data of everything listed goes at once.
DeleteAllEntries ==
    /\ deleter = "entries" /\ Unlocked
    /\ entries' = {r \in entries : \A h \in listed : h.key # r.key}
    /\ deleting' = deleting \ {First(deleting)}
    /\ deleter' = IF deleting' = {} THEN "refresh" ELSE "metadata"
    /\ UNCHANGED <<headers, interfaces, storeVars, ifaceVars, screen, listed, details, crashes, ghostVars>>

\* The data goes by the key that was listed.
DeleteEntries ==
    /\ deleter = "entries" /\ Unlocked
    /\ LET h == First(deleting)
       IN /\ entries' = entries \ EntriesOf(h.key)
          /\ deleting' = deleting \ {h}
    /\ deleter' = IF deleting' = {} THEN "refresh" ELSE "metadata"
    /\ UNCHANGED <<headers, interfaces, storeVars, ifaceVars, screen, listed, details, crashes, ghostVars>>

RefreshList ==
    /\ deleter = "refresh" /\ Unlocked
    /\ deleter' = "idle"
    /\ listed' = headers
    /\ UNCHANGED <<tableVars, storeVars, ifaceVars, screen, deleting, details, crashes, ghostVars>>

-----------------------------------------------------------------------------
(* SnapshotDetails: DBAdapter.getSnapshot in two reads                     *)

ClickedDate(h) ==
    /\ screen = "list" /\ deleter = "idle"
    /\ screen' = "opening"
    /\ listed' = {}
    /\ details' = [NoDetails EXCEPT !.date = {h.date}]
    /\ UNCHANGED <<tableVars, storeVars, ifaceVars, deleting, deleter, crashes, ghostVars>>

\* A snapshot of that date is still there, for only the list deletes.
ReadHeader ==
    /\ screen = "opening" /\ Unlocked
    /\ OfDate(details.date) # {}
    /\ screen' = "reading"
    /\ LET h == First(OfDate(details.date))
       IN details' = [details EXCEPT !.key = h.key, !.of = {h.of}]
    /\ UNCHANGED <<tableVars, storeVars, ifaceVars, listed, deleting, deleter, crashes, ghostVars>>

ReadEntries ==
    /\ screen = "reading" /\ Unlocked
    /\ screen' = "details"
    /\ details' = [details EXCEPT !.rows = EntriesOf(details.key)]
    /\ UNCHANGED <<tableVars, storeVars, ifaceVars, listed, deleting, deleter, crashes, ghostVars>>

-----------------------------------------------------------------------------
\* The process dies, perhaps of a statement that has waited too long: the threads and the
\* screens with it, and what is not committed.
Crash ==
    /\ crashes < MaxCrashes
    /\ crashes' = crashes + 1
    /\ step' = [s \in Snapshots |->
                   IF step[s] = "made" \/ s \in Storing THEN "dead" ELSE step[s]]
    /\ inserting' = [s \in Snapshots |-> {}] /\ met' = {} /\ lock' = {}
    /\ screen' = "other" /\ listed' = {}
    /\ deleting' = {} /\ deleter' = "idle"
    /\ details' = NoDetails
    /\ disturbed' = IF deleter = "entries" THEN disturbed \union {First(deleting).of}
                                           ELSE disturbed
    /\ UNCHANGED <<tableVars, snapshot, snapshotKey, deleted>>

Init ==
    /\ headers = {} /\ entries = {} /\ interfaces = Known
    /\ step = [s \in Snapshots |-> "none"]
    /\ snapshot = [s \in Snapshots |-> NoSnapshot]
    /\ snapshotKey = [s \in Snapshots |-> -1]
    /\ inserting = [s \in Snapshots |-> {}] /\ met = {} /\ lock = {}
    /\ screen = "other" /\ listed = {}
    /\ deleting = {} /\ deleter = "idle"
    /\ details = NoDetails
    /\ crashes = 0
    /\ deleted = {} /\ disturbed = {}

ListNext ==
    \/ OpenList \/ CloseList
    \/ \E hs \in SUBSET listed : ClickedDelete(hs)
    \/ DeleteMetadata \/ DeleteEntries \/ RefreshList

DetailsNext == (\E h \in listed : ClickedDate(h)) \/ ReadHeader \/ ReadEntries

Next ==
    \/ \E s \in Snapshots, d \in Dates, ifaces \in Finds : MakeSnapshot(s, d, ifaces)
    \/ \E s \in Snapshots : StoreSnapshot(s)
    \/ \E i \in MACs : StoreInterface(i)
    \/ ListNext
    \/ DetailsNext
    \/ Crash

Spec == Init /\ [][Next]_vars

-----------------------------------------------------------------------------
(* Properties                                                              *)

Made(s) == step[s] # "none"

\* A snapshot that no other one shares its date with, and that has not been
\* deleted while it was being stored, not started while others were being
\* deleted, and not been left half deleted by a crash.
Undisturbed(s) ==
    /\ s \notin disturbed
    /\ \A t \in Snapshots \ {s} : Made(t) => snapshot[t].date # snapshot[s].date

\* Its header is deleted and its data not yet.
HalfDeleted(s) == deleter = "entries" /\ First(deleting).of = s

\* Although keys are used again, the data under the key of a snapshot
\* (DBAdapter.getSnapshotInterfaces) is its own: whatever else is found there is about to be
\* deleted, or was left by a snapshot that met a deletion half way or shared a date.
EntriesAreOwn ==
    \A h \in headers : \A r \in EntriesOf(h.key) :
        r.of = h.of \/ HalfDeleted(r.of) \/ ~Undisturbed(r.of)

\* Once its thread has ended, a snapshot has its header and under its key all of its
\* interfaces, for as long as the user does not delete it himself: neither other threads
\* that store, nor the deletion of others, nor a crash take any of it.  Only if another
\* writer stored one of its interfaces while the thread was inserting it, and the insertion
\* failed, it has none at all.
StoredIsWhole ==
    \A s \in Snapshots :
        step[s] \in {"stored", "lost"} /\ Undisturbed(s) /\ s \notin deleted =>
            \E h \in headers :
                /\ h.of = s
                /\ {r.MAC : r \in {r \in EntriesOf(h.key) : r.of = s}}
                       = IF step[s] = "stored" THEN snapshot[s].ifaces ELSE {}

\* Of a deleted snapshot nothing is left: no header, and no data that a later
\* snapshot with its key could be shown with.
DeletedIsGone ==
    \A s \in deleted :
        Undisturbed(s) /\ ~HalfDeleted(s) =>
            /\ \A h \in headers : h.of # s
            /\ \A r \in entries : r.of # s

\* SnapshotDetails reads the header and the data in two steps, perhaps while the
\* snapshot is still being stored: it finds the header, shows all of the
\* snapshot's interfaces or none, and finds each interface that the data names,
\* which resultsToObjects takes for granted (SnapshotsDataTable.java:54).
DetailsAreWhole ==
    /\ screen = "opening" => OfDate(details.date) # {}
    /\ screen = "details" =>
           \A s \in details.of :
               LET own == {r.MAC : r \in {r \in details.rows : r.of = s}}
               IN own \in {{}, snapshot[s].ifaces}
    /\ \A r \in details.rows : r.MAC \in interfaces

=============================================================================
