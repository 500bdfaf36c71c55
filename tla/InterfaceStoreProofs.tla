------------------------ MODULE InterfaceStoreProofs ------------------------
(***************************************************************************)
(* Theorems about InterfaceStore for any addresses, interfaces, threads    *)
(* and jobs.                                                               *)
(*                                                                         *)
(* What a thread has read stays true enough: the tables as it sees them    *)
(* (View) only grow while it is at work, whoever else writes (IInv).  On   *)
(* it rest that what is committed only grows (Kept), that what a thread    *)
(* has been through is stored (Progresses), that every row whose type does *)
(* not agree yet has a thread that will see to it (TypeInv), and that the  *)
(* main thread's outer connection finds all it would insert (OuterInv).    *)
(***************************************************************************)
EXTENDS InterfaceStore, TLAPS

-----------------------------------------------------------------------------
(* The invariant                                                           *)

\* The tables as a thread sees them.
View(t) == IF lock = Connection(t) THEN db ELSE disk

\* Without an open transaction everybody sees the same tables.
Clean == lock \notin Connections => db = disk

Working == {"check", "read", "readWireless", "readWired", "insert", "data", "update",
            "upgrade", "removeWired", "retype"}
Upgrading == {"upgrade", "removeWired", "retype"}
FoundRow == {"readWireless", "readWired", "data", "update"} \cup Upgrading

\* What a thread at work has in hand, and has found stored of it.
InHand(t) ==
    /\ at[t] \in Working => iface[t] \in Interfaces
    /\ at[t] = "check" => t \in StoreThreads
    /\ at[t] = "data" => iface[t].class # "Interface"
    /\ at[t] \in {"readWireless", "readWired"} => existing[t].class = "Interface"
    /\ at[t] \in Upgrading => iface[t].class = "WirelessInterface"

Stays(t) ==
    /\ at[t] \in FoundRow => iface[t].MAC \in DOMAIN View(t).rows
    /\ \/ at[t] = "update" /\ existing[t].class = "WirelessInterface"
       \/ at[t] \in {"removeWired", "retype"}
       => iface[t].MAC \in View(t).wireless

\* Where threads can be.
Place(t) ==
    /\ conn[t] = "inner" => t = "main"
    /\ at[t] \in {"devices", "device"} => t = "main" /\ conn[t] = "outer"
    /\ at[t] = "opening" => todo[t] = batch[t]

IInv ==
    /\ TypeOK
    /\ Clean
    /\ \A t \in Threads : InHand(t) /\ Stays(t) /\ Place(t)

-----------------------------------------------------------------------------
(* The tables                                                              *)

LEMMA TablesShape ==
    ASSUME NEW tables \in Tables
    PROVE  /\ DOMAIN tables.rows \subseteq MACs
           /\ tables.rows \in [DOMAIN tables.rows -> Rows]
           /\ tables.wired \subseteq MACs /\ tables.wireless \subseteq MACs
           /\ tables = [rows |-> tables.rows, wired |-> tables.wired, wireless |-> tables.wireless]
BY DEF Tables

LEMMA TablesMade ==
    ASSUME NEW rows, DOMAIN rows \subseteq MACs, rows \in [DOMAIN rows -> Rows],
           NEW wired \in SUBSET MACs, NEW wireless \in SUBSET MACs
    PROVE  [rows |-> rows, wired |-> wired, wireless |-> wireless] \in Tables
BY DEF Tables

LEMMA RowType == ASSUME NEW i \in Interfaces PROVE Row(i) \in Rows /\ i.MAC \in MACs
BY DEF Row, Rows, Interfaces, TypeOf

\* All that an insertion of a row changes.
LEMMA RowInserted ==
    ASSUME TypeOK, NEW i \in Interfaces
    PROVE  LET tables == [db EXCEPT !.rows = WithRow(i.MAC, Row(i))]
           IN  /\ tables \in Tables
               /\ DOMAIN tables.rows = DOMAIN db.rows \cup {i.MAC}
               /\ tables.wired = db.wired /\ tables.wireless = db.wireless
               /\ tables.rows[i.MAC] = Row(i)
               /\ \A m \in DOMAIN db.rows \ {i.MAC} : tables.rows[m] = db.rows[m]
<1> DEFINE rows == WithRow(i.MAC, Row(i))
<1>1. db \in Tables BY DEF TypeOK
<1>2. /\ DOMAIN rows = DOMAIN db.rows \cup {i.MAC}
      /\ rows[i.MAC] = Row(i)
      /\ \A m \in DOMAIN db.rows \ {i.MAC} : rows[m] = db.rows[m]
  BY DEF WithRow
<1>3. DOMAIN rows \subseteq MACs /\ rows \in [DOMAIN rows -> Rows]
  BY <1>1, TablesShape, RowType DEF WithRow
<1> HIDE DEF rows
<1>4. [db EXCEPT !.rows = rows] = [rows |-> rows, wired |-> db.wired, wireless |-> db.wireless]
  BY <1>1, TablesShape DEF Tables
<1>5. [db EXCEPT !.rows = rows] \in Tables
  BY <1>1, <1>3, <1>4, TablesShape, TablesMade
<1>6. QED BY <1>2, <1>4, <1>5 DEF rows

LEMMA RowWritten ==
    ASSUME TypeOK, NEW m \in DOMAIN db.rows, NEW row \in Rows
    PROVE  LET tables == [db EXCEPT !.rows[m] = row]
           IN  /\ tables \in Tables
               /\ DOMAIN tables.rows = DOMAIN db.rows
               /\ tables.wired = db.wired /\ tables.wireless = db.wireless
               /\ tables.rows[m] = row
               /\ \A n \in DOMAIN db.rows \ {m} : tables.rows[n] = db.rows[n]
<1> DEFINE rows == [db.rows EXCEPT ![m] = row]
<1>1. db \in Tables BY DEF TypeOK
<1>2. /\ DOMAIN rows = DOMAIN db.rows /\ rows[m] = row
      /\ \A n \in DOMAIN db.rows \ {m} : rows[n] = db.rows[n]
      /\ rows \in [DOMAIN rows -> Rows]
  BY <1>1, TablesShape
<1>4. [db EXCEPT !.rows[m] = row] = [rows |-> rows, wired |-> db.wired, wireless |-> db.wireless]
  BY <1>1, TablesShape DEF Tables
<1> HIDE DEF rows
<1>5. [db EXCEPT !.rows[m] = row] \in Tables
  BY <1>1, <1>2, <1>4, TablesShape, TablesMade
<1>6. QED BY <1>2, <1>4, <1>5

LEMMA NameWritten ==
    ASSUME TypeOK, NEW m \in DOMAIN db.rows, NEW name \in Names
    PROVE  LET tables == [db EXCEPT !.rows[m].name = name]
           IN  /\ tables \in Tables
               /\ DOMAIN tables.rows = DOMAIN db.rows
               /\ tables.wired = db.wired /\ tables.wireless = db.wireless
               /\ tables.rows[m] = [name |-> name, type |-> db.rows[m].type]
               /\ \A n \in DOMAIN db.rows \ {m} : tables.rows[n] = db.rows[n]
<1> DEFINE row == [name |-> name, type |-> db.rows[m].type]
<1>1. db \in Tables BY DEF TypeOK
<1>2. row \in Rows /\ [db.rows[m] EXCEPT !.name = name] = row
  BY <1>1, TablesShape DEF Rows
<1>3. [db EXCEPT !.rows[m].name = name] = [db EXCEPT !.rows[m] = row]
  BY <1>1, <1>2, TablesShape DEF Tables
<1> HIDE DEF row
<1>4. QED BY <1>2, <1>3, RowWritten DEF row

LEMMA DataWritten ==
    ASSUME TypeOK, NEW m \in MACs
    PROVE  /\ LET tables == [db EXCEPT !.wireless = @ \cup {m}]
              IN  /\ tables \in Tables /\ tables.rows = db.rows /\ tables.wired = db.wired
                  /\ tables.wireless = db.wireless \cup {m}
           /\ LET tables == [db EXCEPT !.wired = @ \cup {m}]
              IN  /\ tables \in Tables /\ tables.rows = db.rows /\ tables.wireless = db.wireless
                  /\ tables.wired = db.wired \cup {m}
           /\ LET tables == [db EXCEPT !.wired = @ \ {m}]
              IN  /\ tables \in Tables /\ tables.rows = db.rows /\ tables.wireless = db.wireless
                  /\ tables.wired = db.wired \ {m}
BY DEF TypeOK, Tables

-----------------------------------------------------------------------------
(* Steps of one thread                                                     *)

LEMMA OwnConnections ==
    /\ \A t, u \in Threads : t # u => Connection(t) # Connection(u)
    /\ \A t \in Threads : Connection(t) \notin {Free, Lingering}
    /\ Free \notin Connections /\ Lingering \notin Connections /\ Free # Lingering
BY ThreadsAssumption DEF Connection, Free, Lingering, Connections, Threads

LEMMA OneOfThem ==
    ASSUME TypeOK, NEW t \in Threads
    PROVE  Connection(t) \in Connections
BY DEF TypeOK, Connection, Connections

\* What is known only grows: wired data may go once there are wireless data.
Grows(a, b) ==
    /\ DOMAIN a.rows \subseteq DOMAIN b.rows
    /\ a.wireless \subseteq b.wireless
    /\ a.wired \subseteq b.wired \cup b.wireless

\* The other threads do nothing.
Others(t) ==
    \A u \in Threads \ {t} :
        /\ at'[u] = at[u] /\ conn'[u] = conn[u] /\ iface'[u] = iface[u]
        /\ existing'[u] = existing[u] /\ batch'[u] = batch[u] /\ todo'[u] = todo[u]

LEMMA OthersStay ==
    ASSUME IInv, NEW t \in Threads, Others(t),
           \A u \in Threads \ {t} : Grows(View(u), View(u)')
    PROVE  \A u \in Threads \ {t} : (InHand(u) /\ Stays(u) /\ Place(u))'
<1> TAKE u \in Threads \ {t}
<1>1. /\ at'[u] = at[u] /\ conn'[u] = conn[u] /\ iface'[u] = iface[u]
      /\ existing'[u] = existing[u] /\ batch'[u] = batch[u] /\ todo'[u] = todo[u]
  BY DEF Others
<1>2. InHand(u) /\ Stays(u) /\ Place(u)
  BY DEF IInv
<1>3. InHand(u)'
  BY <1>1, <1>2 DEF InHand, NameUpdate
<1>4. Stays(u)'
  BY <1>1, <1>2 DEF Stays, Grows
<1>5. Place(u)'
  BY <1>1, <1>2 DEF Place
<1>6. QED BY <1>3, <1>4, <1>5

\* What a statement may do to the tables, and does to what threads see.
Touch(t) ==
    /\ lock \in {Free, Connection(t)}
    /\ lock' = lock \/ lock' = Connection(t)
    /\ disk' = IF lock = Free THEN db' ELSE disk

LEMMA Touched ==
    ASSUME IInv, NEW t \in Threads, Touch(t), Others(t), conn' = conn,
           db' \in Tables, Whole(db'), Grows(db, db')
    PROVE  /\ View(t) = db /\ View(t)' = db'
           /\ lock = Free => disk = db
           /\ disk' \in Tables /\ Whole(disk') /\ Grows(disk, disk')
           /\ lock' \in Connections \cup {Free, Lingering}
           /\ Clean'
           /\ \A u \in Threads \ {t} : (InHand(u) /\ Stays(u) /\ Place(u))'
<1>1. /\ lock = Free => disk = db
      /\ Connection(t)' = Connection(t) /\ Connection(t) \in Connections
      /\ Connection(t) # Free /\ Connection(t) # Lingering
  BY OwnConnections, OneOfThem DEF IInv, Clean, Connection
<1>2. View(t) = db /\ View(t)' = db'
  BY <1>1 DEF View, Touch
<1>3. disk' \in Tables /\ Whole(disk') /\ Grows(disk, disk')
  BY <1>1 DEF Touch, IInv, TypeOK, Grows
<1>4. lock' \in Connections \cup {Free, Lingering} /\ Clean'
  BY <1>1 DEF Touch, Clean, IInv, TypeOK
<1>5. ASSUME NEW u \in Threads \ {t} PROVE Grows(View(u), View(u)')
  <2>1. Connection(u)' = Connection(u) /\ Connection(u) # Connection(t) /\ Connection(u) # Free
    BY OwnConnections DEF Connection
  <2>2. View(u) = disk /\ View(u)' = disk'
    BY <1>1, <2>1 DEF View, Touch
  <2>3. QED BY <1>3, <2>2
<1>6. \A u \in Threads \ {t} : (InHand(u) /\ Stays(u) /\ Place(u))'
  BY <1>5, OthersStay
<1>7. QED BY <1>1, <1>2, <1>3, <1>4, <1>6

LEMMA Untouched ==
    ASSUME IInv, NEW t \in Threads, UNCHANGED tableVars, Others(t)
    PROVE  /\ db' \in Tables /\ Whole(db') /\ disk' \in Tables /\ Whole(disk')
           /\ lock' \in Connections \cup {Free, Lingering}
           /\ Clean'
           /\ \A u \in Threads \ {t} : (InHand(u) /\ Stays(u) /\ Place(u))'
<1>1. ASSUME NEW u \in Threads \ {t} PROVE Grows(View(u), View(u)')
  <2>1. Connection(u)' = Connection(u)
    BY DEF Connection, Others
  <2>2. QED BY <2>1 DEF View, Grows, tableVars
<1>2. \A u \in Threads \ {t} : (InHand(u) /\ Stays(u) /\ Place(u))'
  BY <1>1, OthersStay
<1>3. QED BY <1>2 DEF IInv, TypeOK, Clean, tableVars, Connections

LEMMA Closed ==
    ASSUME IInv, NEW t \in Threads, CloseConnection(t), Others(t)
    PROVE  /\ db' \in Tables /\ Whole(db') /\ disk' = disk
           /\ lock' \in Connections \cup {Free, Lingering} /\ lock' # Connection(t)
           /\ Clean'
           /\ \A u \in Threads \ {t} : (InHand(u) /\ Stays(u) /\ Place(u))'
<1>1. CASE lock = Connection(t)
  <2>1. lock' \in {Free, Lingering} /\ db' = disk /\ disk' = disk
    BY <1>1 DEF CloseConnection
  <2>2. ASSUME NEW u \in Threads \ {t} PROVE Grows(View(u), View(u)')
    <3>1. Connection(u)' = Connection(u) /\ Connection(u) # Connection(t)
          /\ Connection(u) \notin {Free, Lingering}
      BY OwnConnections DEF Connection, Others
    <3>2. QED BY <1>1, <2>1, <3>1 DEF View, Grows
  <2>3. \A u \in Threads \ {t} : (InHand(u) /\ Stays(u) /\ Place(u))'
    BY <2>2, OthersStay
  <2>4. QED BY <2>1, <2>3, OwnConnections DEF IInv, TypeOK, Clean
<1>2. CASE lock # Connection(t)
  <2>1. UNCHANGED tableVars
    BY <1>2 DEF CloseConnection
  <2>2. QED BY <1>2, <2>1, Untouched DEF tableVars
<1>3. QED BY <1>1, <1>2

LEMMA InitIInv == Init => IInv
<1> SUFFICES ASSUME Init PROVE IInv
  OBVIOUS
<1> USE DEF Init
<1>1. db.rows \in [{} -> Rows] /\ DOMAIN db.rows = {} /\ db.wired = {} /\ db.wireless = {}
  OBVIOUS
<1>2. db \in Tables /\ Whole(db)
  <2>1. [rows |-> db.rows, wired |-> {}, wireless |-> {}] \in Tables
    BY <1>1 DEF Tables
  <2>2. QED BY <1>1, <2>1 DEF Whole
<1>3. TypeOK
  <2>1. jobs \in 0..MaxJobs
    BY MaxJobsAssumption
  <2>2. existing \in [Threads -> [class : Classes \cup {"none"}, name : Names]]
    BY DEF Names, NotThere
  <2>3. /\ batch \in [Threads -> SUBSET Interfaces] /\ todo \in [Threads -> SUBSET Interfaces]
        /\ iface \in [Threads -> Interfaces \cup {NoInterface}]
    OBVIOUS
  <2>4. QED BY <1>2, <2>1, <2>2, <2>3 DEF TypeOK
<1>4. Clean BY DEF Clean
<1>5. \A t \in Threads : InHand(t) /\ Stays(t) /\ Place(t)
  BY DEF InHand, Stays, Place, Working, FoundRow, Upgrading
<1>6. QED BY <1>3, <1>4, <1>5 DEF IInv

-----------------------------------------------------------------------------
(* The invariant is kept                                                   *)

Places == {"idle", "opening", "devices", "device", "next"} \cup Working
Arguments == Interfaces \cup {NoInterface}
Memories == [class : Classes \cup {"none"}, name : Names]

LEMMA Lookups ==
    ASSUME TypeOK
    PROVE  /\ at \in [Threads -> Places] /\ conn \in [Threads -> {"outer", "inner"}]
           /\ iface \in [Threads -> Arguments] /\ existing \in [Threads -> Memories]
           /\ batch \in [Threads -> SUBSET Interfaces] /\ todo \in [Threads -> SUBSET Interfaces]
BY DEF TypeOK, Places, Working, Arguments, Memories

\* What is left to show of a statement of updateInterface.
LEMMA Moved ==
    ASSUME IInv, NEW t \in Threads, Touch(t), CallKept,
           db' \in Tables, Whole(db'), Grows(db, db'),
           at' = [at EXCEPT ![t] = at'[t]], at'[t] \in Places \ {"devices", "device", "opening"},
           iface' = [iface EXCEPT ![t] = iface'[t]], iface'[t] \in Arguments,
           existing' = [existing EXCEPT ![t] = existing'[t]], existing'[t] \in Memories
    PROVE  /\ View(t) = db /\ View(t)' = db'
           /\ NameUpdate(t)' = NameUpdate(t)
           /\ (InHand(t) /\ Stays(t))' => IInv'
<1>1. TypeOK /\ Place(t)
  BY DEF IInv
<1>2. Others(t) /\ conn' = conn
  BY <1>1, Lookups DEF Others, CallKept
<1>3. /\ View(t) = db /\ View(t)' = db'
      /\ disk' \in Tables /\ Whole(disk') /\ lock' \in Connections \cup {Free, Lingering} /\ Clean'
      /\ \A u \in Threads \ {t} : (InHand(u) /\ Stays(u) /\ Place(u))'
  BY <1>2, Touched
<1>4. at' \in [Threads -> Places] /\ iface' \in [Threads -> Arguments]
      /\ existing' \in [Threads -> Memories]
  BY <1>1, Lookups
<1>5. TypeOK'
  BY <1>1, <1>3, <1>4
     DEF TypeOK, CallKept, histVars, Places, Working, Arguments, Memories, Connections
<1>6. Place(t)'
  BY <1>1, <1>2, <1>4 DEF Place, CallKept
<1>7. NameUpdate(t)' = NameUpdate(t)
  BY <1>2 DEF NameUpdate
<1>8. QED BY <1>3, <1>5, <1>6, <1>7 DEF IInv

LEMMA SeesTables ==
    ASSUME IInv, NEW t \in Threads, lock \in {Free, Connection(t)}
    PROVE  View(t) = db
BY OwnConnections DEF IInv, Clean, View

LEMMA ReadTouches ==
    ASSUME IInv, NEW t \in Threads, lock \in {Free, Connection(t)}, UNCHANGED tableVars
    PROVE  Touch(t) /\ db' \in Tables /\ Whole(db') /\ Grows(db, db')
BY OwnConnections DEF IInv, TypeOK, Clean, Touch, Grows, tableVars

LEMMA WriteTouches ==
    ASSUME IInv, NEW t \in Threads, lock \in {Free, Connection(t)}, NEW tables, Write(tables)
    PROVE  Touch(t) /\ db' = tables
BY OwnConnections DEF IInv, Clean, Touch, Write

LEMMA InsertTouches ==
    ASSUME IInv, NEW t \in Threads, lock \in {Free, Connection(t)},
           NEW there \in BOOLEAN, NEW tables, Insert(t, there, tables)
    PROVE  Touch(t) /\ db' = IF there THEN db ELSE tables
BY OwnConnections DEF IInv, Clean, Touch, Insert, Write

LEMMA InHandNow ==
    ASSUME IInv, NEW t \in Threads, at[t] \in Working
    PROVE  /\ iface[t] \in Interfaces /\ iface[t].MAC \in MACs /\ iface[t].class \in Classes
           /\ iface[t].name \in Names
           /\ existing[t] \in Memories /\ existing[t].name \in Names
BY Lookups DEF IInv, InHand, Interfaces, Memories

LEMMA UpdatedNameType ==
    ASSUME IInv, NEW t \in Threads, at[t] \in Working
    PROVE  /\ UpdatedName(t) \in Names
           /\ NameUpdate(t) = "DO_NOT_UPDATE" => UpdatedName(t) = existing[t].name
           /\ NameUpdate(t) = "SAFE_UPDATE" /\ existing[t].name # "null"
                  => UpdatedName(t) = existing[t].name
<1>1. NameUpdate(t) \in {"UPDATE", "DO_NOT_UPDATE", "SAFE_UPDATE"}
  BY DEF NameUpdate
<1>2. QED BY <1>1, InHandNow DEF UpdatedName

LEMMA DoneShape ==
    ASSUME IInv, NEW t \in Threads, Done(t)
    PROVE  /\ at' = [at EXCEPT ![t] = at'[t]] /\ at'[t] = "next"
           /\ iface' = [iface EXCEPT ![t] = iface'[t]] /\ iface'[t] \in Arguments
           /\ existing' = [existing EXCEPT ![t] = existing'[t]] /\ existing'[t] \in Memories
BY Lookups DEF IInv, Done, Go, Arguments, Memories, NotThere, Names

LEMMA DoneKeeps ==
    ASSUME IInv, NEW t \in Threads, Done(t), Touch(t), CallKept,
           db' \in Tables, Whole(db'), Grows(db, db')
    PROVE  IInv'
<1>1. /\ at' = [at EXCEPT ![t] = at'[t]] /\ at'[t] = "next"
      /\ iface' = [iface EXCEPT ![t] = iface'[t]] /\ iface'[t] \in Arguments
      /\ existing' = [existing EXCEPT ![t] = existing'[t]] /\ existing'[t] \in Memories
  BY DoneShape
<1>2. (InHand(t) /\ Stays(t))'
  BY <1>1 DEF InHand, Stays, Working, Upgrading, FoundRow
<1>3. QED BY <1>1, <1>2, Moved DEF Places, Working

\* updateInterface, statement by statement.
LEMMA InsertInterfaceKeeps ==
    ASSUME IInv, NEW t \in Threads, InsertInterface(t)
    PROVE  IInv'
<1>1. /\ at[t] = "check" /\ lock \in {Free, Connection(t)} /\ UNCHANGED tableVars /\ CallKept
      /\ Touch(t) /\ db' \in Tables /\ Whole(db') /\ Grows(db, db')
  BY ReadTouches DEF InsertInterface, Accesses, Reads
<1>2. CASE Done(t)
  BY <1>1, <1>2, DoneKeeps
<1>3. CASE Go(t, "read") /\ UNCHANGED <<iface, existing>>
  <2>1. /\ at' = [at EXCEPT ![t] = at'[t]] /\ at'[t] = "read"
        /\ iface' = [iface EXCEPT ![t] = iface'[t]] /\ iface'[t] \in Arguments /\ iface'[t] = iface[t]
        /\ existing' = [existing EXCEPT ![t] = existing'[t]] /\ existing'[t] \in Memories
    BY <1>3, Lookups DEF IInv, Go
  <2>2. (InHand(t) /\ Stays(t))'
    BY <1>1, <2>1, InHandNow DEF InHand, Stays, Working, Upgrading, FoundRow
  <2>3. QED BY <1>1, <2>1, <2>2, Moved DEF Places, Working
<1>4. QED BY <1>2, <1>3 DEF InsertInterface

LEMMA GetRawKeeps ==
    ASSUME IInv, NEW t \in Threads, GetRaw(t)
    PROVE  IInv'
<1>1. /\ at[t] = "read" /\ lock \in {Free, Connection(t)} /\ UNCHANGED tableVars /\ CallKept
      /\ Touch(t) /\ db' \in Tables /\ Whole(db') /\ Grows(db, db') /\ db' = db
  BY ReadTouches DEF GetRaw, Accesses, Reads, tableVars
<1>2. /\ iface[t] \in Interfaces /\ existing[t] \in Memories /\ db \in Tables
  BY <1>1, InHandNow DEF Working, IInv, TypeOK
<1>3. /\ at' = [at EXCEPT ![t] = at'[t]] /\ at'[t] \in {"readWireless", "insert"}
      /\ iface' = [iface EXCEPT ![t] = iface'[t]] /\ iface'[t] \in Arguments /\ iface'[t] = iface[t]
      /\ existing' = [existing EXCEPT ![t] = existing'[t]] /\ existing'[t] \in Memories
      /\ at'[t] = "readWireless" => iface[t].MAC \in DOMAIN db.rows /\ existing'[t].class = "Interface"
  <2>1. CASE iface[t].MAC \in DOMAIN db.rows
    <3>1. db.rows[iface[t].MAC].name \in Names
      BY <1>2, <2>1, TablesShape DEF Rows
    <3>2. QED BY <1>2, <2>1, <3>1, Lookups DEF IInv, Go, GetRaw, Memories, Classes
  <2>2. CASE iface[t].MAC \notin DOMAIN db.rows
    BY <1>2, <2>2, Lookups DEF IInv, Go, GetRaw, Memories, NotThere, Names
  <2>3. QED BY <2>1, <2>2
<1>4. View(t)' = db' /\ ((InHand(t) /\ Stays(t))' => IInv')
  BY <1>1, <1>3, Moved DEF Places, Working
<1>5. (InHand(t) /\ Stays(t))'
  BY <1>1, <1>2, <1>3, <1>4 DEF InHand, Stays, Working, Upgrading, FoundRow
<1>6. QED BY <1>4, <1>5

LEMMA GetWirelessKeeps ==
    ASSUME IInv, NEW t \in Threads, GetWireless(t)
    PROVE  IInv'
<1>1. /\ at[t] = "readWireless" /\ lock \in {Free, Connection(t)} /\ UNCHANGED tableVars /\ CallKept
      /\ Touch(t) /\ db' \in Tables /\ Whole(db') /\ Grows(db, db') /\ db' = db
  BY ReadTouches DEF GetWireless, Accesses, Reads, tableVars
<1>2. /\ iface[t] \in Interfaces /\ existing[t] \in Memories /\ db \in Tables
      /\ InHand(t) /\ Stays(t)
  BY <1>1, InHandNow DEF Working, IInv, TypeOK
<1>3. iface[t].MAC \in DOMAIN db.rows /\ existing[t].class = "Interface"
  BY <1>1, <1>2, SeesTables DEF Stays, FoundRow, InHand
<1>4. /\ at' = [at EXCEPT ![t] = at'[t]] /\ at'[t] \in {"readWired", "update"}
      /\ iface' = [iface EXCEPT ![t] = iface'[t]] /\ iface'[t] \in Arguments /\ iface'[t] = iface[t]
      /\ existing' = [existing EXCEPT ![t] = existing'[t]] /\ existing'[t] \in Memories
      /\ at'[t] = "update" => iface[t].MAC \in db.wireless
      /\ at'[t] = "readWired" => existing'[t] = existing[t]
  <2>1. db.rows[iface[t].MAC].name \in Names
    BY <1>2, <1>3, TablesShape DEF Rows
  <2>2. QED BY <1>2, <2>1, Lookups DEF IInv, Go, GetWireless, Found, Memories, Classes
<1>5. View(t)' = db' /\ ((InHand(t) /\ Stays(t))' => IInv')
  BY <1>1, <1>4, Moved DEF Places, Working
<1>6. InHand(t)'
  BY <1>1, <1>2, <1>3, <1>4 DEF InHand, Working, Upgrading
<1>7. Stays(t)'
  BY <1>1, <1>2, <1>3, <1>4, <1>5 DEF Stays, Upgrading, FoundRow
<1>8. QED BY <1>5, <1>6, <1>7

LEMMA GetWiredKeeps ==
    ASSUME IInv, NEW t \in Threads, GetWired(t)
    PROVE  IInv'
<1>1. /\ at[t] = "readWired" /\ lock \in {Free, Connection(t)} /\ UNCHANGED tableVars /\ CallKept
      /\ Touch(t) /\ db' \in Tables /\ Whole(db') /\ Grows(db, db') /\ db' = db
  BY ReadTouches DEF GetWired, Accesses, Reads, tableVars
<1>2. /\ iface[t] \in Interfaces /\ existing[t] \in Memories /\ db \in Tables /\ Stays(t)
  BY <1>1, InHandNow DEF Working, IInv, TypeOK
<1>3. iface[t].MAC \in DOMAIN db.rows /\ existing[t].class = "Interface"
  BY <1>1, <1>2 DEF Stays, FoundRow, View, IInv, InHand, Clean, Touch, tableVars
<1>4. /\ at' = [at EXCEPT ![t] = at'[t]] /\ at'[t] = "update"
      /\ iface' = [iface EXCEPT ![t] = iface'[t]] /\ iface'[t] \in Arguments /\ iface'[t] = iface[t]
      /\ existing' = [existing EXCEPT ![t] = existing'[t]] /\ existing'[t] \in Memories
      /\ existing'[t].class # "WirelessInterface"
  <2>1. db.rows[iface[t].MAC].name \in Names
    BY <1>2, <1>3, TablesShape DEF Rows
  <2>2. QED BY <1>2, <1>3, <2>1, Lookups DEF IInv, Go, GetWired, Found, Memories, Classes
<1>5. View(t)' = db' /\ ((InHand(t) /\ Stays(t))' => IInv')
  BY <1>1, <1>4, Moved DEF Places, Working
<1>6. (InHand(t) /\ Stays(t))'
  BY <1>1, <1>2, <1>3, <1>4, <1>5 DEF InHand, Stays, Working, Upgrading, FoundRow
<1>7. QED BY <1>5, <1>6

LEMMA InsertRowTables ==
    ASSUME IInv, NEW t \in Threads, InsertRow(t)
    PROVE  /\ at[t] = "insert" /\ iface[t] \in Interfaces /\ CallKept
           /\ Touch(t) /\ db' \in Tables /\ Whole(db') /\ Grows(db, db')
           /\ DOMAIN db'.rows = DOMAIN db.rows \cup {iface[t].MAC}
           /\ db'.wireless = db.wireless
           /\ \A m \in DOMAIN db.rows : db'.rows[m] = db.rows[m]
           /\ iface[t].MAC \notin DOMAIN db.rows => db'.rows[iface[t].MAC] = Row(iface[t])
           /\ iface[t].MAC \in DOMAIN db.rows => lock' = Connection(t)
<1> DEFINE m == iface[t].MAC
           there == m \in DOMAIN db.rows
           tables == [db EXCEPT !.rows = WithRow(m, Row(iface[t]))]
<1>1. /\ at[t] = "insert" /\ lock \in {Free, Connection(t)} /\ CallKept /\ iface[t] \in Interfaces
      /\ TypeOK /\ Insert(t, there, tables)
  BY InHandNow DEF InsertRow, Accesses, Working, IInv
<1>2. Touch(t) /\ db' = IF there THEN db ELSE tables
  <2>1. there \in BOOLEAN OBVIOUS
  <2> HIDE DEF tables, there
  <2>2. QED BY <1>1, <2>1, InsertTouches
<1>3. there => lock' = Connection(t)
  BY <1>1 DEF Insert
<1>4. /\ tables \in Tables
      /\ DOMAIN tables.rows = DOMAIN db.rows \cup {m}
      /\ tables.wired = db.wired /\ tables.wireless = db.wireless
      /\ tables.rows[m] = Row(iface[t])
      /\ \A n \in DOMAIN db.rows \ {m} : tables.rows[n] = db.rows[n]
  BY <1>1, RowInserted
<1> HIDE DEF tables
<1>5. QED BY <1>1, <1>2, <1>3, <1>4 DEF TypeOK, Whole, Grows

LEMMA InsertRowKeeps ==
    ASSUME IInv, NEW t \in Threads, InsertRow(t)
    PROVE  IInv'
<1>1. /\ at[t] = "insert" /\ iface[t] \in Interfaces /\ CallKept
      /\ Touch(t) /\ db' \in Tables /\ Whole(db') /\ Grows(db, db')
      /\ iface[t].MAC \in DOMAIN db'.rows
  BY InsertRowTables
<1>2. CASE Done(t)
  BY <1>1, <1>2, DoneKeeps
<1>3. CASE iface[t].class # "Interface" /\ Go(t, "data") /\ UNCHANGED <<iface, existing>>
  <2>1. /\ at' = [at EXCEPT ![t] = at'[t]] /\ at'[t] = "data"
        /\ iface' = [iface EXCEPT ![t] = iface'[t]] /\ iface'[t] \in Arguments /\ iface'[t] = iface[t]
        /\ existing' = [existing EXCEPT ![t] = existing'[t]] /\ existing'[t] \in Memories
    BY <1>3, Lookups DEF IInv, Go
  <2>2. View(t)' = db' /\ ((InHand(t) /\ Stays(t))' => IInv')
    BY <1>1, <2>1, Moved DEF Places, Working
  <2>3. (InHand(t) /\ Stays(t))'
    BY <1>1, <1>3, <2>1, <2>2 DEF InHand, Stays, Working, Upgrading, FoundRow
  <2>4. QED BY <2>2, <2>3
<1>4. QED BY <1>2, <1>3 DEF InsertRow

LEMMA WirelessTables ==
    ASSUME IInv, NEW t \in Threads, at[t] \in {"data", "upgrade"},
           lock \in {Free, Connection(t)}, InsertWireless(t)
    PROVE  /\ Touch(t) /\ db' \in Tables /\ Whole(db') /\ Grows(db, db')
           /\ iface[t] \in Interfaces /\ db'.rows = db.rows
           /\ db'.wireless = db.wireless \cup {iface[t].MAC}
           /\ iface[t].MAC \in db.wireless => lock' = Connection(t)
<1> DEFINE m == iface[t].MAC
           there == m \in db.wireless
           tables == [db EXCEPT !.wireless = @ \cup {m}]
<1>1. iface[t] \in Interfaces /\ m \in MACs /\ TypeOK /\ Insert(t, there, tables) /\ Stays(t)
  BY InHandNow DEF InsertWireless, Working, IInv
<1>2. Touch(t) /\ db' = IF there THEN db ELSE tables
  <2>1. there \in BOOLEAN OBVIOUS
  <2> HIDE DEF tables, there
  <2>2. QED BY <1>1, <2>1, InsertTouches
<1>3. there => lock' = Connection(t)
  BY <1>1 DEF Insert
<1>4. /\ tables \in Tables /\ tables.rows = db.rows /\ tables.wired = db.wired
      /\ tables.wireless = db.wireless \cup {m}
  BY <1>1, DataWritten
<1>5. m \in DOMAIN db.rows
  BY <1>1, SeesTables DEF Stays, FoundRow, Upgrading
<1> HIDE DEF tables
<1>6. QED BY <1>1, <1>2, <1>3, <1>4, <1>5 DEF TypeOK, Whole, Grows

LEMMA WiredTables ==
    ASSUME IInv, NEW t \in Threads, at[t] = "data", lock \in {Free, Connection(t)}, InsertWired(t)
    PROVE  /\ Touch(t) /\ db' \in Tables /\ Whole(db') /\ Grows(db, db')
           /\ iface[t] \in Interfaces /\ db'.rows = db.rows /\ db'.wireless = db.wireless
<1> DEFINE m == iface[t].MAC
           there == m \in db.wired
           tables == [db EXCEPT !.wired = @ \cup {m}]
<1>1. iface[t] \in Interfaces /\ m \in MACs /\ TypeOK /\ Insert(t, there, tables) /\ Stays(t)
  BY InHandNow DEF InsertWired, Working, IInv
<1>2. Touch(t) /\ db' = IF there THEN db ELSE tables
  <2>1. there \in BOOLEAN OBVIOUS
  <2> HIDE DEF tables, there
  <2>2. QED BY <1>1, <2>1, InsertTouches
<1>4. /\ tables \in Tables /\ tables.rows = db.rows /\ tables.wireless = db.wireless
      /\ tables.wired = db.wired \cup {m}
  BY <1>1, DataWritten
<1>5. m \in DOMAIN db.rows
  BY <1>1, SeesTables DEF Stays, FoundRow, Upgrading
<1> HIDE DEF tables
<1>6. QED BY <1>1, <1>2, <1>4, <1>5 DEF TypeOK, Whole, Grows

LEMMA InsertDataKeeps ==
    ASSUME IInv, NEW t \in Threads, InsertData(t)
    PROVE  IInv'
<1>1. at[t] = "data" /\ lock \in {Free, Connection(t)} /\ Done(t) /\ CallKept
      /\ (InsertWired(t) \/ InsertWireless(t))
  BY DEF InsertData, Accesses
<1>2. Touch(t) /\ db' \in Tables /\ Whole(db') /\ Grows(db, db')
  BY <1>1, WiredTables, WirelessTables
<1>3. QED BY <1>1, <1>2, DoneKeeps

LEMMA UpdateRowTables ==
    ASSUME IInv, NEW t \in Threads, UpdateRow(t)
    PROVE  /\ at[t] = "update" /\ iface[t] \in Interfaces /\ iface[t].MAC \in DOMAIN db.rows
           /\ CallKept /\ UpdatedName(t) \in Names /\ lock' = lock
           /\ Touch(t) /\ db' \in Tables /\ Whole(db') /\ Grows(db, db')
           /\ DOMAIN db'.rows = DOMAIN db.rows /\ db'.wireless = db.wireless
           /\ db'.rows[iface[t].MAC] = [name |-> UpdatedName(t), type |-> db.rows[iface[t].MAC].type]
           /\ \A n \in DOMAIN db.rows \ {iface[t].MAC} : db'.rows[n] = db.rows[n]
<1> DEFINE m == iface[t].MAC
           tables == [db EXCEPT !.rows[m].name = UpdatedName(t)]
<1>1. /\ at[t] = "update" /\ lock \in {Free, Connection(t)} /\ CallKept
      /\ iface[t] \in Interfaces /\ UpdatedName(t) \in Names /\ TypeOK /\ Stays(t)
  BY InHandNow, UpdatedNameType DEF UpdateRow, Accesses, Working, IInv
<1>2. m \in DOMAIN db.rows
  BY <1>1, SeesTables DEF Stays, FoundRow
<1>3. [iface[t] EXCEPT !.name = UpdatedName(t)].name = UpdatedName(t)
  BY <1>1 DEF Interfaces
<1>4. Write(tables)
  BY <1>3 DEF UpdateRow
<1>5. Touch(t) /\ db' = tables /\ lock' = lock
  <2> HIDE DEF tables
  <2>1. QED BY <1>1, <1>4, WriteTouches DEF Write
<1>6. /\ tables \in Tables /\ DOMAIN tables.rows = DOMAIN db.rows
      /\ tables.wired = db.wired /\ tables.wireless = db.wireless
      /\ tables.rows[m] = [name |-> UpdatedName(t), type |-> db.rows[m].type]
      /\ \A n \in DOMAIN db.rows \ {m} : tables.rows[n] = db.rows[n]
  BY <1>1, <1>2, NameWritten
<1> HIDE DEF tables
<1>7. QED BY <1>1, <1>2, <1>5, <1>6 DEF TypeOK, Whole, Grows

LEMMA UpdateRowKeeps ==
    ASSUME IInv, NEW t \in Threads, UpdateRow(t)
    PROVE  IInv'
<1>1. /\ at[t] = "update" /\ iface[t] \in Interfaces /\ iface[t].MAC \in DOMAIN db.rows
      /\ CallKept /\ UpdatedName(t) \in Names
      /\ Touch(t) /\ db' \in Tables /\ Whole(db') /\ Grows(db, db')
  BY UpdateRowTables
<1>2. CASE Done(t)
  BY <1>1, <1>2, DoneKeeps
<1>3. CASE /\ Upgrades(t) /\ Go(t, "upgrade") /\ UNCHANGED existing
           /\ iface' = [iface EXCEPT ![t] = [iface[t] EXCEPT !.name = UpdatedName(t)]]
  <2>1. /\ at' = [at EXCEPT ![t] = at'[t]] /\ at'[t] = "upgrade"
        /\ iface'[t] = [iface[t] EXCEPT !.name = UpdatedName(t)]
        /\ iface' = [iface EXCEPT ![t] = iface'[t]]
        /\ existing' = [existing EXCEPT ![t] = existing'[t]] /\ existing'[t] \in Memories
        /\ existing'[t] = existing[t]
    BY <1>3, Lookups DEF IInv, Go
  <2>2. /\ iface'[t] \in Interfaces /\ iface'[t].MAC = iface[t].MAC
        /\ iface'[t].class = iface[t].class /\ iface'[t].name = UpdatedName(t)
    BY <1>1, <2>1 DEF Interfaces
  <2>3. /\ View(t)' = db' /\ NameUpdate(t)' = NameUpdate(t)
        /\ (InHand(t) /\ Stays(t))' => IInv'
    BY <1>1, <2>1, <2>2, Moved DEF Places, Working, Arguments
  <2>4. InHand(t)'
    BY <1>1, <1>3, <2>1, <2>2, <2>3, UpdatedNameType DEF InHand, Working, Upgrading, Upgrades
  <2>5. Stays(t)'
    BY <1>1, <2>1, <2>2, <2>3 DEF Stays, FoundRow, Upgrading, Grows
  <2>6. QED BY <2>3, <2>4, <2>5
<1>4. QED BY <1>2, <1>3 DEF UpdateRow

LEMMA UpgradeKeeps ==
    ASSUME IInv, NEW t \in Threads, Upgrade(t)
    PROVE  IInv'
<1>1. /\ at[t] = "upgrade" /\ lock \in {Free, Connection(t)} /\ InsertWireless(t) /\ CallKept
      /\ InHand(t)
  BY DEF Upgrade, Accesses, IInv
<1>2. /\ Touch(t) /\ db' \in Tables /\ Whole(db') /\ Grows(db, db')
      /\ iface[t].MAC \in db'.wireless
  BY <1>1, WirelessTables
<1>3. /\ at' = [at EXCEPT ![t] = at'[t]] /\ at'[t] \in {"removeWired", "retype"}
      /\ iface' = [iface EXCEPT ![t] = iface'[t]] /\ iface'[t] \in Arguments /\ iface'[t] = iface[t]
      /\ existing' = [existing EXCEPT ![t] = existing'[t]] /\ existing'[t] \in Memories
      /\ existing'[t] = existing[t]
  BY Lookups DEF IInv, Go, Upgrade
<1>4. /\ View(t)' = db' /\ NameUpdate(t)' = NameUpdate(t)
      /\ (InHand(t) /\ Stays(t))' => IInv'
  BY <1>1, <1>2, <1>3, Moved DEF Places, Working
<1>5. InHand(t)'
  BY <1>1, <1>3, <1>4 DEF InHand, Working, Upgrading
<1>6. Stays(t)'
  BY <1>2, <1>3, <1>4 DEF Stays, FoundRow, Upgrading, Whole
<1>7. QED BY <1>4, <1>5, <1>6

LEMMA RemoveTables ==
    ASSUME IInv, NEW t \in Threads, RemoveWiredData(t)
    PROVE  /\ Touch(t) /\ db' \in Tables /\ Whole(db') /\ Grows(db, db') /\ lock' = lock
           /\ db'.rows = db.rows /\ db'.wireless = db.wireless
           /\ iface[t] \in Interfaces /\ iface[t].MAC \in db.wireless /\ CallKept
<1> DEFINE m == iface[t].MAC
           tables == [db EXCEPT !.wired = @ \ {m}]
<1>1. /\ at[t] = "removeWired" /\ lock \in {Free, Connection(t)} /\ Write(tables)
      /\ CallKept /\ iface[t] \in Interfaces /\ m \in MACs /\ TypeOK /\ Stays(t)
  BY InHandNow DEF RemoveWiredData, Accesses, Working, IInv
<1>2. Touch(t) /\ db' = tables /\ lock' = lock
  <2> HIDE DEF tables
  <2>1. QED BY <1>1, WriteTouches DEF Write
<1>3. /\ tables \in Tables /\ tables.rows = db.rows /\ tables.wireless = db.wireless
      /\ tables.wired = db.wired \ {m}
  BY <1>1, DataWritten
<1>4. m \in db.wireless
  BY <1>1, SeesTables DEF Stays
<1> HIDE DEF tables
<1>5. QED BY <1>1, <1>2, <1>3, <1>4 DEF TypeOK, Whole, Grows

LEMMA RemoveKeeps ==
    ASSUME IInv, NEW t \in Threads, RemoveWiredData(t)
    PROVE  IInv'
<1>1. /\ at[t] = "removeWired" /\ CallKept /\ InHand(t)
      /\ Touch(t) /\ db' \in Tables /\ Whole(db') /\ Grows(db, db')
      /\ iface[t].MAC \in db'.wireless
  BY RemoveTables DEF RemoveWiredData, Accesses, IInv
<1>3. /\ at' = [at EXCEPT ![t] = at'[t]] /\ at'[t] = "retype"
      /\ iface' = [iface EXCEPT ![t] = iface'[t]] /\ iface'[t] \in Arguments /\ iface'[t] = iface[t]
      /\ existing' = [existing EXCEPT ![t] = existing'[t]] /\ existing'[t] \in Memories
      /\ existing'[t] = existing[t]
  BY Lookups DEF IInv, Go, RemoveWiredData
<1>4. /\ View(t)' = db' /\ NameUpdate(t)' = NameUpdate(t)
      /\ (InHand(t) /\ Stays(t))' => IInv'
  BY <1>1, <1>3, Moved DEF Places, Working
<1>5. InHand(t)'
  BY <1>1, <1>3, <1>4 DEF InHand, Working, Upgrading
<1>6. Stays(t)'
  BY <1>1, <1>3, <1>4 DEF Stays, FoundRow, Upgrading, Whole
<1>7. QED BY <1>4, <1>5, <1>6

LEMMA TypeTables ==
    ASSUME IInv, NEW t \in Threads, UpdateType(t)
    PROVE  /\ Touch(t) /\ db' \in Tables /\ Whole(db') /\ Grows(db, db') /\ lock' = lock
           /\ DOMAIN db'.rows = DOMAIN db.rows /\ db'.wireless = db.wireless
           /\ iface[t] \in Interfaces /\ iface[t].MAC \in db.wireless
           /\ db'.rows[iface[t].MAC] = Row(iface[t])
           /\ \A n \in DOMAIN db.rows \ {iface[t].MAC} : db'.rows[n] = db.rows[n]
           /\ at[t] = "retype" /\ Done(t) /\ CallKept
<1> DEFINE m == iface[t].MAC
           tables == [db EXCEPT !.rows[m] = Row(iface[t])]
<1>1. /\ at[t] = "retype" /\ lock \in {Free, Connection(t)} /\ Write(tables) /\ Done(t)
      /\ CallKept /\ iface[t] \in Interfaces /\ TypeOK /\ Stays(t)
  BY InHandNow DEF UpdateType, Accesses, Working, IInv
<1>2. Touch(t) /\ db' = tables /\ lock' = lock
  <2> HIDE DEF tables
  <2>1. QED BY <1>1, WriteTouches DEF Write
<1>3. m \in db.wireless /\ m \in DOMAIN db.rows
  BY <1>1, SeesTables DEF Stays, FoundRow, Upgrading
<1>4. /\ tables \in Tables /\ DOMAIN tables.rows = DOMAIN db.rows
      /\ tables.wired = db.wired /\ tables.wireless = db.wireless
      /\ tables.rows[m] = Row(iface[t])
      /\ \A n \in DOMAIN db.rows \ {m} : tables.rows[n] = db.rows[n]
  BY <1>1, <1>3, RowWritten, RowType
<1> HIDE DEF tables
<1>5. QED BY <1>1, <1>2, <1>3, <1>4 DEF TypeOK, Whole, Grows

LEMMA UpdateTypeKeeps ==
    ASSUME IInv, NEW t \in Threads, UpdateType(t)
    PROVE  IInv'
BY TypeTables, DoneKeeps

\* What is left to show of a step between statements: nothing is in hand.
LEMMA Between ==
    ASSUME IInv, NEW t \in Threads, Others(t),
           \/ UNCHANGED tableVars
           \/ CloseConnection(t),
           at' = [at EXCEPT ![t] = at'[t]],
           at'[t] \in {"idle", "opening", "devices", "device", "next"},
           conn' = [conn EXCEPT ![t] = conn'[t]], conn'[t] \in {"outer", "inner"},
           batch' = [batch EXCEPT ![t] = batch'[t]], batch'[t] \in SUBSET Interfaces,
           todo' = [todo EXCEPT ![t] = todo'[t]], todo'[t] \in SUBSET Interfaces,
           UNCHANGED <<iface, existing>>,
           handled' \subseteq MACs, jobs' \in 0..MaxJobs, lost' \in BOOLEAN, UNCHANGED cut,
           Place(t)'
    PROVE  IInv'
<1>1. TypeOK
  BY DEF IInv
<1>2. /\ db' \in Tables /\ Whole(db') /\ disk' \in Tables /\ Whole(disk')
      /\ lock' \in Connections \cup {Free, Lingering} /\ Clean'
      /\ \A u \in Threads \ {t} : (InHand(u) /\ Stays(u) /\ Place(u))'
  <2>1. CASE UNCHANGED tableVars
    BY <2>1, Untouched
  <2>2. CASE CloseConnection(t)
    BY <1>1, <2>2, Closed DEF TypeOK
  <2>3. QED BY <2>1, <2>2
<1>3. at' \in [Threads -> Places] /\ conn' \in [Threads -> {"outer", "inner"}]
  BY <1>1, Lookups DEF Places
<1>4. batch' \in [Threads -> SUBSET Interfaces] /\ todo' \in [Threads -> SUBSET Interfaces]
  BY <1>1, Lookups
<1>5. TypeOK'
  BY <1>1, <1>2, <1>3, <1>4 DEF TypeOK, Places, Working, Connections
<1>6. (InHand(t) /\ Stays(t))'
  BY DEF InHand, Stays, Working, Upgrading, FoundRow
<1>7. QED BY <1>2, <1>5, <1>6 DEF IInv

LEMMA BatchType == Batches \subseteq SUBSET Interfaces
BY SeenAssumption DEF Batches

LEMMA StartKeeps ==
    ASSUME IInv, NEW t \in Threads, Start(t)
    PROVE  IInv'
<1>1. PICK ifaces \in IF t = "main" THEN {{}} ELSE Batches : Stores(t, ifaces)
  BY DEF Start
<1>2. ifaces \in SUBSET Interfaces
  BY <1>1, BatchType
<1>3. TypeOK
  BY DEF IInv
<1>4. /\ at' = [at EXCEPT ![t] = at'[t]] /\ at'[t] = "opening"
      /\ conn' = [conn EXCEPT ![t] = conn'[t]] /\ conn'[t] = "outer"
      /\ batch' = [batch EXCEPT ![t] = batch'[t]] /\ batch'[t] = ifaces
      /\ todo' = [todo EXCEPT ![t] = todo'[t]] /\ todo'[t] = ifaces
      /\ UNCHANGED <<iface, existing>>
  BY <1>1, <1>3, Lookups DEF Start, Stores, Go
<1>5. handled' \subseteq MACs /\ jobs' \in 0..MaxJobs /\ lost' \in BOOLEAN /\ UNCHANGED cut
  BY <1>3, MaxJobsAssumption DEF Start, TypeOK, histVars
<1>6. Others(t) /\ UNCHANGED tableVars /\ Place(t)'
  BY <1>3, <1>4, Lookups DEF Others, Start, Place
<1>7. QED BY <1>2, <1>4, <1>5, <1>6, Between

LEMMA OpenKeeps ==
    ASSUME IInv, NEW t \in Threads, Open(t)
    PROVE  IInv'
<1>1. TypeOK /\ Place(t)
  BY DEF IInv
<1>2. /\ at' = [at EXCEPT ![t] = at'[t]] /\ at'[t] \in {"devices", "next"}
      /\ at'[t] = "devices" => t = "main" /\ conn[t] = "outer"
      /\ UNCHANGED <<conn, batch, todo, iface, existing, handled, jobs, lost, cut>>
      /\ UNCHANGED tableVars
  BY <1>1, Lookups DEF Open, Go, callVars, histVars
<1>3. /\ conn' = [conn EXCEPT ![t] = conn'[t]] /\ conn'[t] \in {"outer", "inner"}
      /\ batch' = [batch EXCEPT ![t] = batch'[t]] /\ batch'[t] \in SUBSET Interfaces
      /\ todo' = [todo EXCEPT ![t] = todo'[t]] /\ todo'[t] \in SUBSET Interfaces
  BY <1>1, <1>2, Lookups
<1>4. Others(t) /\ Place(t)'
  BY <1>1, <1>2, Lookups DEF Others, Place
<1>5. handled' \subseteq MACs /\ jobs' \in 0..MaxJobs /\ lost' \in BOOLEAN
  BY <1>1, <1>2 DEF TypeOK
<1>6. QED BY <1>2, <1>3, <1>4, <1>5, Between

LEMMA NextInterfaceKeeps ==
    ASSUME IInv, NEW t \in Threads, NextInterface(t)
    PROVE  IInv'
<1>1. TypeOK /\ Place(t) /\ Clean
  BY DEF IInv
<1>2. PICK i \in todo[t] : /\ iface' = [iface EXCEPT ![t] = i]
                           /\ todo' = [todo EXCEPT ![t] = @ \ {i}]
  BY DEF NextInterface
<1>3. i \in Interfaces
  BY <1>1, <1>2, Lookups
<1>4. /\ at' = [at EXCEPT ![t] = at'[t]] /\ at'[t] \in {"check", "read"}
      /\ at'[t] = "check" => t \in StoreThreads
      /\ iface'[t] = i
      /\ UNCHANGED <<conn, batch, existing, handled, jobs, lost, cut>>
      /\ UNCHANGED tableVars
  BY <1>1, <1>2, Lookups DEF NextInterface, Go, histVars
<1>5. Others(t)
  BY <1>1, <1>2, <1>4, Lookups DEF Others
<1>6. /\ db' \in Tables /\ Whole(db') /\ disk' \in Tables /\ Whole(disk')
      /\ lock' \in Connections \cup {Free, Lingering} /\ Clean'
      /\ \A u \in Threads \ {t} : (InHand(u) /\ Stays(u) /\ Place(u))'
  BY <1>4, <1>5, Untouched
<1>7. at' \in [Threads -> Places] /\ iface' \in [Threads -> Arguments]
      /\ todo' \in [Threads -> SUBSET Interfaces]
  BY <1>1, <1>2, <1>3, <1>4, Lookups DEF Places, Working, Arguments
<1>8. TypeOK'
  BY <1>1, <1>4, <1>6, <1>7 DEF TypeOK, Places, Working, Arguments, Connections
<1>9. (InHand(t) /\ Stays(t) /\ Place(t))'
  BY <1>1, <1>3, <1>4 DEF InHand, Stays, Place, Working, Upgrading, FoundRow
<1>10. QED BY <1>6, <1>8, <1>9 DEF IInv

LEMMA StoresShape ==
    ASSUME TypeOK, NEW t \in Threads, NEW ifaces \in SUBSET Interfaces, Stores(t, ifaces)
    PROVE  /\ batch' = [batch EXCEPT ![t] = batch'[t]] /\ batch'[t] = ifaces
           /\ todo' = [todo EXCEPT ![t] = todo'[t]] /\ todo'[t] = ifaces
           /\ UNCHANGED <<iface, existing>>
BY Lookups DEF Stores

LEMMA CloseKeeps ==
    ASSUME IInv, NEW t \in Threads, Close(t)
    PROVE  IInv'
<1>1. TypeOK /\ Place(t) /\ Stores(t, {}) /\ CloseConnection(t)
  BY DEF IInv, Close
<1>2. /\ batch' = [batch EXCEPT ![t] = batch'[t]] /\ batch'[t] = {}
      /\ todo' = [todo EXCEPT ![t] = todo'[t]] /\ todo'[t] = {}
      /\ UNCHANGED <<iface, existing>>
  BY <1>1, StoresShape
<1>3. /\ at' = [at EXCEPT ![t] = at'[t]] /\ at'[t] = "idle"
      /\ conn' = [conn EXCEPT ![t] = conn'[t]] /\ conn'[t] \in {"outer", "inner"} /\ conn' = conn
      /\ jobs' = jobs /\ cut' = cut
  BY <1>1, Lookups DEF Close, Go
<1>4. handled' \subseteq MACs /\ lost' \in BOOLEAN /\ jobs' \in 0..MaxJobs
  BY <1>1, <1>3 DEF Close, TypeOK
<1>5. Others(t) /\ Place(t)'
  BY <1>1, <1>2, <1>3, Lookups DEF Others, Place
<1>6. QED BY <1>1, <1>2, <1>3, <1>4, <1>5, Between

LEMMA MainThread == "main" \in Threads
BY DEF Threads

LEMMA UpdateInterfacesCoreKeeps ==
    ASSUME IInv, UpdateInterfacesCore
    PROVE  IInv'
<1>1. TypeOK /\ "main" \in Threads
  BY MainThread DEF IInv
<1>2. PICK device \in Batches : /\ handled' = handled \cup Addresses(device)
                                /\ Stores("main", device)
  BY DEF UpdateInterfacesCore
<1>3. device \in SUBSET Interfaces /\ Addresses(device) \subseteq MACs
  BY <1>2, BatchType DEF Addresses, Interfaces
<1>4. /\ batch' = [batch EXCEPT !["main"] = batch'["main"]] /\ batch'["main"] = device
      /\ todo' = [todo EXCEPT !["main"] = todo'["main"]] /\ todo'["main"] = device
      /\ UNCHANGED <<iface, existing>>
  BY <1>1, <1>2, <1>3, StoresShape
<1>5. /\ at' = [at EXCEPT !["main"] = at'["main"]] /\ at'["main"] = "opening"
      /\ conn' = [conn EXCEPT !["main"] = conn'["main"]] /\ conn'["main"] = "inner"
      /\ UNCHANGED <<jobs, lost, cut>> /\ UNCHANGED tableVars
  BY <1>1, Lookups DEF UpdateInterfacesCore, Go, histVars
<1>6. handled' \subseteq MACs /\ jobs' \in 0..MaxJobs /\ lost' \in BOOLEAN
  BY <1>1, <1>2, <1>3, <1>5 DEF TypeOK
<1>7. Others("main") /\ Place("main")'
  BY <1>1, <1>4, <1>5, Lookups DEF Others, Place
<1>8. QED BY <1>1, <1>3, <1>4, <1>5, <1>6, <1>7, Between

LEMMA ObjectType ==
    ASSUME TypeOK, NEW m \in DOMAIN db.rows
    PROVE  Object(m) \in Interfaces
<1>1. db \in Tables /\ m \in MACs /\ db.rows[m].name \in Names
  BY TablesShape DEF TypeOK, Rows
<1>2. ClassIn(db, m) \in Classes
  BY DEF ClassIn, Classes
<1>3. QED BY <1>1, <1>2 DEF Object, Interfaces

LEMMA UpdateDeviceStores ==
    ASSUME IInv, UpdateDevice
    PROVE  \E ifaces \in SUBSET Interfaces :
               /\ Stores("main", ifaces)
               /\ ifaces = batch["main"] \/ \E ms \in SUBSET DOMAIN db.rows : ifaces = {Object(m) : m \in ms}
<1>1. TypeOK /\ batch["main"] \in SUBSET Interfaces
  BY MainThread, Lookups DEF IInv
<1>2. CASE Stores("main", batch["main"])
  BY <1>1, <1>2
<1>3. CASE Stores("main", {})
  <2>1. {} = {Object(m) : m \in {}}
    OBVIOUS
  <2>2. QED BY <1>3, <2>1
<1>4. ASSUME NEW ms \in SUBSET DOMAIN db.rows, Stores("main", {Object(m) : m \in ms})
      PROVE  \E ifaces \in SUBSET Interfaces :
                 /\ Stores("main", ifaces)
                 /\ ifaces = batch["main"] \/ \E n \in SUBSET DOMAIN db.rows : ifaces = {Object(m) : m \in n}
  <2>1. {Object(m) : m \in ms} \in SUBSET Interfaces
    BY <1>1, ObjectType
  <2>2. QED BY <1>4, <2>1
<1>5. QED BY <1>2, <1>3, <1>4 DEF UpdateDevice

LEMMA UpdateDeviceKeeps ==
    ASSUME IInv, UpdateDevice
    PROVE  IInv'
<1>1. TypeOK /\ "main" \in Threads /\ Place("main")
  BY MainThread DEF IInv
<1>2. PICK ifaces \in SUBSET Interfaces : Stores("main", ifaces)
  BY UpdateDeviceStores
<1>3. /\ batch' = [batch EXCEPT !["main"] = batch'["main"]] /\ batch'["main"] = ifaces
      /\ todo' = [todo EXCEPT !["main"] = todo'["main"]] /\ todo'["main"] = ifaces
      /\ UNCHANGED <<iface, existing>>
  BY <1>1, <1>2, StoresShape
<1>4. /\ at' = [at EXCEPT !["main"] = at'["main"]] /\ at'["main"] = "next"
      /\ conn' = [conn EXCEPT !["main"] = conn'["main"]] /\ conn'["main"] \in {"outer", "inner"}
      /\ UNCHANGED <<conn, handled, jobs, lost, cut>> /\ UNCHANGED tableVars
  BY <1>1, Lookups DEF UpdateDevice, Go, histVars
<1>5. handled' \subseteq MACs /\ jobs' \in 0..MaxJobs /\ lost' \in BOOLEAN
  BY <1>1, <1>4 DEF TypeOK
<1>6. Others("main") /\ Place("main")'
  BY <1>1, <1>3, <1>4, Lookups DEF Others, Place
<1>7. QED BY <1>1, <1>3, <1>4, <1>5, <1>6, Between

LEMMA DeviceDoneKeeps ==
    ASSUME IInv, DeviceDone
    PROVE  IInv'
<1>1. TypeOK /\ "main" \in Threads /\ Place("main") /\ Stores("main", {}) /\ conn["main"] = "outer"
  BY MainThread DEF IInv, DeviceDone
<1>3. /\ batch' = [batch EXCEPT !["main"] = batch'["main"]] /\ batch'["main"] = {}
      /\ todo' = [todo EXCEPT !["main"] = todo'["main"]] /\ todo'["main"] = {}
      /\ UNCHANGED <<iface, existing>>
  BY <1>1, StoresShape
<1>4. /\ at' = [at EXCEPT !["main"] = at'["main"]] /\ at'["main"] = "devices"
      /\ conn' = [conn EXCEPT !["main"] = conn'["main"]] /\ conn'["main"] = "outer"
      /\ UNCHANGED <<conn, handled, jobs, lost, cut>> /\ UNCHANGED tableVars
  BY <1>1, Lookups DEF DeviceDone, Go, histVars
<1>5. handled' \subseteq MACs /\ jobs' \in 0..MaxJobs /\ lost' \in BOOLEAN
  BY <1>1, <1>4 DEF TypeOK
<1>6. Others("main") /\ Place("main")'
  BY <1>1, <1>3, <1>4, Lookups DEF Others, Place
<1>7. QED BY <1>1, <1>3, <1>4, <1>5, <1>6, Between

LEMMA CloseCoreKeeps ==
    ASSUME IInv, CloseCore
    PROVE  IInv'
<1>1. TypeOK /\ "main" \in Threads /\ Place("main") /\ CloseConnection("main")
  BY MainThread DEF IInv, CloseCore
<1>2. /\ at' = [at EXCEPT !["main"] = at'["main"]] /\ at'["main"] = "device"
      /\ conn' = [conn EXCEPT !["main"] = conn'["main"]] /\ conn'["main"] = "outer"
      /\ UNCHANGED <<batch, todo, iface, existing, handled, jobs, cut>> /\ lost' \in BOOLEAN
  BY <1>1, Lookups DEF CloseCore, Go, callVars, TypeOK
<1>3. /\ batch' = [batch EXCEPT !["main"] = batch'["main"]] /\ batch'["main"] \in SUBSET Interfaces
      /\ todo' = [todo EXCEPT !["main"] = todo'["main"]] /\ todo'["main"] \in SUBSET Interfaces
  BY <1>1, <1>2, Lookups
<1>4. handled' \subseteq MACs /\ jobs' \in 0..MaxJobs
  BY <1>1, <1>2 DEF TypeOK
<1>5. Others("main") /\ Place("main")'
  BY <1>1, <1>2, Lookups DEF Others, Place
<1>6. QED BY <1>1, <1>2, <1>3, <1>4, <1>5, Between

LEMMA CollectedKeeps ==
    ASSUME IInv, Collected
    PROVE  IInv'
<1>1. /\ lock' = Free /\ lock = Lingering
      /\ UNCHANGED <<disk, db, at, conn, batch, todo, iface, existing, handled, jobs, lost, cut>>
  BY DEF Collected, callVars, histVars
<1>2. TypeOK'
  BY <1>1 DEF IInv, TypeOK, Connections
<1>3. Clean'
  BY <1>1, OwnConnections DEF IInv, Clean
<1>4. ASSUME NEW t \in Threads PROVE (InHand(t) /\ Stays(t) /\ Place(t))'
  <2>1. View(t)' = View(t)
    BY <1>1, OwnConnections DEF View, Connection
  <2>2. InHand(t) /\ Stays(t) /\ Place(t)
    BY DEF IInv
  <2>3. QED BY <1>1, <2>1, <2>2 DEF InHand, NameUpdate, Stays, Place
<1>5. QED BY <1>2, <1>3, <1>4 DEF IInv

LEMMA DiesKeeps ==
    ASSUME IInv, Dies
    PROVE  IInv'
<1>1. TypeOK
  BY DEF IInv
<1>2. existing' \in [Threads -> Memories] /\ iface' \in [Threads -> Arguments]
  BY DEF Dies, Memories, Arguments, NotThere, Names
<1>3. /\ batch' \in [Threads -> SUBSET Interfaces] /\ todo' \in [Threads -> SUBSET Interfaces]
      /\ conn' \in [Threads -> {"outer", "inner"}] /\ at' \in [Threads -> Places]
  BY DEF Dies, Places
<1>4. db' = disk /\ disk' = disk /\ lock' = Free /\ handled' = {} /\ jobs' = jobs /\ lost' = FALSE
      /\ cut' \subseteq MACs
  BY <1>1 DEF Dies, TypeOK
<1>5. TypeOK'
  BY <1>1, <1>2, <1>3, <1>4 DEF TypeOK, Memories, Arguments, Places, Working
<1>6. Clean'
  BY <1>4 DEF Clean
<1>7. \A t \in Threads : (InHand(t) /\ Stays(t) /\ Place(t))'
  BY DEF Dies, InHand, Stays, Place, Working, Upgrading, FoundRow
<1>8. QED BY <1>5, <1>6, <1>7 DEF IInv

LEMMA StutterKeeps ==
    ASSUME IInv, UNCHANGED vars
    PROVE  IInv'
BY DEF vars, tableVars, callVars, histVars, IInv, TypeOK, Connections, Clean, InHand, NameUpdate,
       Stays, View, Connection, Place

LEMMA NextIInv == IInv /\ [Next]_vars => IInv'
<1> SUFFICES ASSUME IInv, [Next]_vars PROVE IInv'
  OBVIOUS
<1>1. ASSUME NEW t \in Threads, UpdateInterface(t) PROVE IInv'
  BY <1>1, GetRawKeeps, GetWirelessKeeps, GetWiredKeeps, InsertRowKeeps, InsertDataKeeps,
     UpdateRowKeeps, UpgradeKeeps, RemoveKeeps, UpdateTypeKeeps DEF UpdateInterface
<1>2. ASSUME NEW t \in Threads, TimesOut(t) PROVE IInv'
  BY <1>2, DiesKeeps DEF TimesOut
<1>3. CASE Killed
  BY <1>3, DiesKeeps DEF Killed
<1>4. QED
  BY <1>1, <1>2, <1>3, StartKeeps, OpenKeeps, CloseKeeps, NextInterfaceKeeps,
     InsertInterfaceKeeps, UpdateInterfacesCoreKeeps, CloseCoreKeeps, UpdateDeviceKeeps,
     DeviceDoneKeeps, CollectedKeeps, StutterKeeps DEF Next

LEMMA Invariance == Spec => []IInv
<1>1. QED BY InitIInv, NextIInv, PTL DEF Spec

\* The tables and the threads keep their types, and data belong to rows.
THEOREM TypeCorrect == Spec => []TypeOK
<1>1. IInv => TypeOK
  BY DEF IInv
<1>2. QED BY <1>1, Invariance, PTL

-----------------------------------------------------------------------------
(* What is known is kept                                                   *)

Kept == Grows(disk, disk')

LEMMA RankGrows ==
    ASSUME TypeOK, TypeOK', Grows(disk, disk'), NEW m \in MACs
    PROVE  Rank(m)' >= Rank(m)
<1>1. Whole(disk) /\ Whole(disk')
  BY DEF TypeOK
<1>2. Rank(m) = IF m \notin DOMAIN disk.rows THEN 0
                ELSE IF m \in disk.wireless THEN 3 ELSE IF m \in disk.wired THEN 2 ELSE 1
  BY DEF Rank, ClassIn
<1>3. Rank(m)' = IF m \notin DOMAIN disk'.rows THEN 0
                 ELSE IF m \in disk'.wireless THEN 3 ELSE IF m \in disk'.wired THEN 2 ELSE 1
  BY DEF Rank, ClassIn
<1>4. QED BY <1>1, <1>2, <1>3 DEF Grows, Whole

LEMMA SameDiskKept == ASSUME disk' = disk PROVE Kept
BY DEF Kept, Grows

\* A statement keeps what is known if it keeps what its thread sees.
LEMMA TouchKept ==
    ASSUME IInv, NEW t \in Threads, Touch(t), Grows(db, db')
    PROVE  Kept
<1>1. CASE lock = Free
  <2>1. disk = db /\ disk' = db'
    BY <1>1, OwnConnections DEF Touch, IInv, Clean
  <2>2. QED BY <2>1 DEF Kept
<1>2. CASE lock # Free
  BY <1>2, SameDiskKept DEF Touch
<1>3. QED BY <1>1, <1>2

LEMMA InsertRowKept ==
    ASSUME IInv, NEW t \in Threads, InsertRow(t)
    PROVE  Kept
BY InsertRowTables, TouchKept

LEMMA InsertDataKept ==
    ASSUME IInv, NEW t \in Threads, InsertData(t)
    PROVE  Kept
<1>1. at[t] = "data" /\ lock \in {Free, Connection(t)} /\ (InsertWired(t) \/ InsertWireless(t))
  BY DEF InsertData, Accesses
<1>2. Touch(t) /\ Grows(db, db')
  BY <1>1, WiredTables, WirelessTables
<1>3. QED BY <1>2, TouchKept

LEMMA UpgradeKept ==
    ASSUME IInv, NEW t \in Threads, Upgrade(t)
    PROVE  Kept
<1>1. at[t] = "upgrade" /\ lock \in {Free, Connection(t)} /\ InsertWireless(t)
  BY DEF Upgrade, Accesses
<1>2. Touch(t) /\ Grows(db, db')
  BY <1>1, WirelessTables
<1>3. QED BY <1>2, TouchKept

LEMMA RemoveKept ==
    ASSUME IInv, NEW t \in Threads, RemoveWiredData(t)
    PROVE  Kept
BY RemoveTables, TouchKept

LEMMA UpdateRowKept ==
    ASSUME IInv, NEW t \in Threads, UpdateRow(t)
    PROVE  Kept
BY UpdateRowTables, TouchKept

LEMMA UpdateTypeKept ==
    ASSUME IInv, NEW t \in Threads, UpdateType(t)
    PROVE  Kept
BY TypeTables, TouchKept

LEMMA NextKept == IInv /\ [Next]_vars => Kept
<1> SUFFICES ASSUME IInv, [Next]_vars PROVE Kept
  OBVIOUS
<1>1. ASSUME NEW t \in Threads, UpdateInterface(t) PROVE Kept
  <2>1. ASSUME GetRaw(t) \/ GetWireless(t) \/ GetWired(t) PROVE disk' = disk
    BY <2>1 DEF GetRaw, GetWireless, GetWired, Reads, tableVars
  <2>2. QED BY <1>1, <2>1, SameDiskKept, InsertRowKept, InsertDataKept, UpdateRowKept, UpgradeKept,
               RemoveKept, UpdateTypeKept DEF UpdateInterface
<1>2. ASSUME NEW t \in Threads,
             \/ Start(t) \/ Open(t) \/ Close(t) \/ NextInterface(t) \/ InsertInterface(t) \/ TimesOut(t)
      PROVE  disk' = disk
  BY <1>2 DEF Start, Open, Close, CloseConnection, NextInterface, InsertInterface, Reads,
              TimesOut, Dies, tableVars
<1>3. ASSUME \/ UpdateInterfacesCore \/ CloseCore \/ UpdateDevice \/ DeviceDone
             \/ Collected \/ Killed \/ UNCHANGED vars
      PROVE  disk' = disk
  BY <1>3 DEF UpdateInterfacesCore, CloseCore, CloseConnection, UpdateDevice, DeviceDone,
              Collected, Killed, Dies, vars, tableVars
<1>4. QED BY <1>1, <1>2, <1>3, SameDiskKept DEF Next

\* However the threads interleave, transactions are rolled back and the process ends, no
\* interface is lost or downgraded once it is stored (updateInterface).
THEOREM KnowledgeIsKept == Spec => KnowledgeKept
<1> DEFINE Step == \A m \in MACs : Rank(m)' >= Rank(m)
<1>1. IInv /\ IInv' /\ [Next]_vars => [Step]_vars
  BY NextKept, RankGrows DEF Kept, IInv
<1>2. KnowledgeKept <=> [][Step]_vars
  BY DEF KnowledgeKept
<1> HIDE DEF Step
<1>3. Spec => [][Step]_vars
  BY <1>1, Invariance, PTL DEF Spec
<1>4. QED BY <1>2, <1>3

-----------------------------------------------------------------------------
(* Who does what                                                           *)

\* The other threads do nothing, and have the lock if they had it.
Frame(t) ==
    /\ Others(t)
    /\ \A u \in Threads \ {t} : lock' = Connection(u)' <=> lock = Connection(u)

LEMMA TouchFrame ==
    ASSUME NEW t \in Threads, Others(t), Touch(t)
    PROVE  Frame(t)
<1>1. ASSUME NEW u \in Threads \ {t} PROVE lock' = Connection(u)' <=> lock = Connection(u)
  <2>1. Connection(u)' = Connection(u) /\ Connection(u) # Connection(t)
    BY OwnConnections DEF Others, Connection
  <2>2. Connection(u) # Free
    BY OwnConnections
  <2>3. QED BY <2>1, <2>2 DEF Touch
<1>2. QED BY <1>1 DEF Frame

LEMMA LockKeptFrame ==
    ASSUME NEW t \in Threads, Others(t), lock' = lock
    PROVE  Frame(t)
BY DEF Frame, Others, Connection

LEMMA CloseFrame ==
    ASSUME NEW t \in Threads, Others(t), CloseConnection(t)
    PROVE  Frame(t)
<1>1. CASE lock = Connection(t)
  <2>1. lock' \in {Free, Lingering}
    BY <1>1 DEF CloseConnection
  <2>2. ASSUME NEW u \in Threads \ {t} PROVE lock' = Connection(u)' <=> lock = Connection(u)
    <3>1. Connection(u)' = Connection(u) /\ Connection(u) # Connection(t)
          /\ Connection(u) \notin {Free, Lingering}
      BY OwnConnections DEF Others, Connection
    <3>2. QED BY <1>1, <2>1, <3>1
  <2>3. QED BY <2>2 DEF Frame
<1>2. CASE lock # Connection(t)
  BY <1>2, LockKeptFrame DEF CloseConnection, tableVars
<1>3. QED BY <1>1, <1>2

Statement(t) == InsertInterface(t) \/ UpdateInterface(t)

\* updateInterface is done with its argument, or still has it in hand.
HasStored(tables, t, i) ==
    /\ i.MAC \in DOMAIN tables.rows
    /\ i.class = "WirelessInterface" /\ t \notin StoreThreads => i.MAC \in tables.wireless

Continues(t) ==
    at'[t] \in Working /\ iface'[t].MAC = iface[t].MAC /\ iface'[t].class = iface[t].class

Finishes(t) == at'[t] = "next" /\ HasStored(db', t, iface[t])

LEMMA StatementOthers ==
    ASSUME IInv, NEW t \in Threads, Statement(t)
    PROVE  Others(t) /\ conn' = conn /\ CallKept /\ at[t] \in Working
<1>1. TypeOK
  BY DEF IInv
<1>2. CallKept /\ conn' = conn
  BY DEF Statement, InsertInterface, UpdateInterface, GetRaw, GetWireless, GetWired, InsertRow,
         InsertData, UpdateRow, Upgrade, RemoveWiredData, UpdateType, Reads, CallKept
<1>3. \A u \in Threads \ {t} : at'[u] = at[u]
  BY <1>1, Lookups
     DEF Statement, InsertInterface, UpdateInterface, GetRaw, GetWireless, GetWired, InsertRow,
         InsertData, UpdateRow, Upgrade, RemoveWiredData, UpdateType, Done, Go
<1>4. \A u \in Threads \ {t} : iface'[u] = iface[u] /\ existing'[u] = existing[u]
  BY <1>1, Lookups
     DEF Statement, InsertInterface, UpdateInterface, GetRaw, GetWireless, GetWired, InsertRow,
         InsertData, UpdateRow, Upgrade, RemoveWiredData, UpdateType, Done, Found
<1>5. at[t] \in Working
  BY DEF Statement, InsertInterface, UpdateInterface, GetRaw, GetWireless, GetWired, InsertRow,
         InsertData, UpdateRow, Upgrade, RemoveWiredData, UpdateType, Accesses, Working
<1>6. QED BY <1>2, <1>3, <1>4, <1>5 DEF Others, CallKept

LEMMA DoneNext == ASSUME IInv, NEW t \in Threads, Done(t) PROVE at'[t] = "next"
BY Lookups DEF IInv, Done, Go

LEMMA SameInHand ==
    ASSUME IInv, NEW t \in Threads, NEW place \in Working, Go(t, place), UNCHANGED iface
    PROVE  Continues(t)
BY Lookups DEF IInv, Go, Continues

LEMMA ReadsFinish ==
    ASSUME IInv, NEW t \in Threads,
           InsertInterface(t) \/ GetRaw(t) \/ GetWireless(t) \/ GetWired(t)
    PROVE  Touch(t) /\ (Continues(t) \/ Finishes(t))
<1>1. UNCHANGED tableVars /\ lock \in {Free, Connection(t)}
  BY DEF InsertInterface, GetRaw, GetWireless, GetWired, Accesses, Reads
<1>2. Touch(t) /\ db' = db
  BY <1>1, ReadTouches DEF tableVars
<1>3. CASE InsertInterface(t)
  <2>1. t \in StoreThreads
    BY <1>3 DEF InsertInterface, Accesses, IInv, InHand
  <2>2. CASE iface[t].MAC \in DOMAIN db.rows
    <3>1. Done(t)
      BY <1>3, <2>2 DEF InsertInterface
    <3>2. QED BY <1>2, <2>1, <2>2, <3>1, DoneNext DEF Finishes, HasStored
  <2>3. CASE iface[t].MAC \notin DOMAIN db.rows
    <3>1. Go(t, "read") /\ UNCHANGED iface
      BY <1>3, <2>3 DEF InsertInterface
    <3>2. QED BY <1>2, <3>1, SameInHand DEF Working
  <2>4. QED BY <2>2, <2>3
<1>4. CASE GetRaw(t) \/ GetWireless(t) \/ GetWired(t)
  <2>1. \E place \in Working : Go(t, place) /\ UNCHANGED iface
    BY <1>4 DEF GetRaw, GetWireless, GetWired, Working
  <2>2. QED BY <1>2, <2>1, SameInHand
<1>5. QED BY <1>3, <1>4

LEMMA InsertionsFinish ==
    ASSUME IInv, NEW t \in Threads, InsertRow(t) \/ InsertData(t)
    PROVE  Touch(t) /\ (Continues(t) \/ Finishes(t))
<1>1. CASE InsertRow(t)
  <2>1. Touch(t) /\ iface[t].MAC \in DOMAIN db'.rows
    BY <1>1, InsertRowTables
  <2>2. CASE iface[t].class = "Interface" /\ Done(t)
    BY <2>1, <2>2, DoneNext DEF Finishes, HasStored
  <2>3. CASE Go(t, "data") /\ UNCHANGED iface
    BY <2>1, <2>3, SameInHand DEF Working
  <2>4. QED BY <1>1, <2>2, <2>3 DEF InsertRow
<1>2. CASE InsertData(t)
  <2>1. at[t] = "data" /\ lock \in {Free, Connection(t)} /\ Done(t)
    BY <1>2 DEF InsertData, Accesses
  <2>2. /\ Touch(t) /\ Grows(db, db')
        /\ iface[t].class = "WirelessInterface" => iface[t].MAC \in db'.wireless
    BY <1>2, <2>1, WiredTables, WirelessTables DEF InsertData
  <2>3. iface[t].MAC \in DOMAIN db.rows
    BY <2>1, SeesTables DEF IInv, Stays, FoundRow
  <2>4. QED BY <2>1, <2>2, <2>3, DoneNext DEF Finishes, HasStored, Grows
<1>3. QED BY <1>1, <1>2

LEMMA UpdatesFinish ==
    ASSUME IInv, NEW t \in Threads,
           UpdateRow(t) \/ Upgrade(t) \/ RemoveWiredData(t) \/ UpdateType(t)
    PROVE  Touch(t) /\ (Continues(t) \/ Finishes(t))
<1>1. CASE UpdateRow(t)
  <2>1. /\ at[t] = "update" /\ iface[t] \in Interfaces /\ UpdatedName(t) \in Names
        /\ Touch(t) /\ Grows(db, db') /\ iface[t].MAC \in DOMAIN db.rows
        /\ lock \in {Free, Connection(t)}
    BY <1>1, UpdateRowTables DEF UpdateRow, Accesses
  <2>2. CASE Upgrades(t)
    <3>1. Go(t, "upgrade") /\ iface' = [iface EXCEPT ![t] = [iface[t] EXCEPT !.name = UpdatedName(t)]]
      BY <1>1, <2>2 DEF UpdateRow
    <3>2. iface'[t] = [iface[t] EXCEPT !.name = UpdatedName(t)] /\ at'[t] = "upgrade"
      BY <3>1, Lookups DEF IInv, Go
    <3>3. iface'[t].MAC = iface[t].MAC /\ iface'[t].class = iface[t].class
      BY <2>1, <3>2 DEF Interfaces
    <3>4. QED BY <2>1, <3>2, <3>3 DEF Continues, Working
  <2>3. CASE ~Upgrades(t)
    <3>1. Done(t)
      BY <1>1, <2>3 DEF UpdateRow
    <3>2. iface[t].class = "WirelessInterface" => iface[t].MAC \in db.wireless
      BY <2>1, <2>3, SeesTables DEF Upgrades, IInv, Stays
    <3>3. QED BY <2>1, <3>1, <3>2, DoneNext DEF Finishes, HasStored, Grows
  <2>4. QED BY <2>2, <2>3
<1>2. CASE Upgrade(t)
  <2>1. at[t] = "upgrade" /\ lock \in {Free, Connection(t)} /\ InsertWireless(t)
        /\ \E place \in Working : Go(t, place) /\ UNCHANGED iface
    BY <1>2 DEF Upgrade, Accesses, Working
  <2>2. QED BY <2>1, WirelessTables, SameInHand
<1>3. CASE RemoveWiredData(t)
  <2>1. Go(t, "retype") /\ UNCHANGED iface
    BY <1>3 DEF RemoveWiredData
  <2>2. QED BY <1>3, <2>1, RemoveTables, SameInHand DEF Working
<1>4. CASE UpdateType(t)
  <2>1. /\ Touch(t) /\ Grows(db, db') /\ Done(t) /\ iface[t].MAC \in db.wireless
        /\ Whole(db)
    BY <1>4, TypeTables DEF IInv, TypeOK
  <2>2. QED BY <2>1, DoneNext DEF Finishes, HasStored, Grows, Whole
<1>5. QED BY <1>1, <1>2, <1>3, <1>4

LEMMA StatementStep ==
    ASSUME IInv, NEW t \in Threads, Statement(t)
    PROVE  /\ Frame(t) /\ conn' = conn /\ CallKept /\ at[t] \in Working
           /\ Touch(t) /\ (Continues(t) \/ Finishes(t))
<1>1. Touch(t) /\ (Continues(t) \/ Finishes(t))
  BY ReadsFinish, InsertionsFinish, UpdatesFinish DEF Statement, UpdateInterface
<1>2. QED BY <1>1, StatementOthers, TouchFrame

\* The other steps of one thread.
Elsewhere(t) ==
    \/ Start(t) \/ Open(t) \/ Close(t) \/ NextInterface(t)
    \/ t = "main" /\ (UpdateInterfacesCore \/ CloseCore \/ UpdateDevice \/ DeviceDone)

LEMMA ElsewhereStep ==
    ASSUME IInv, NEW t \in Threads, Elsewhere(t)
    PROVE  Frame(t) /\ disk' = disk /\ cut' = cut
<1>1. TypeOK
  BY DEF IInv
<1>2. CASE Start(t)
  <2>1. PICK ifaces : Stores(t, ifaces)
    BY <1>2 DEF Start
  <2>2. Others(t)
    BY <1>1, <1>2, <2>1, Lookups DEF Start, Stores, Go, Others
  <2>3. QED BY <1>2, <2>2, LockKeptFrame DEF Start, tableVars, histVars
<1>3. CASE Open(t)
  <2>1. Others(t)
    BY <1>1, <1>3, Lookups DEF Open, Go, Others, callVars
  <2>2. QED BY <1>3, <2>1, LockKeptFrame DEF Open, tableVars, histVars
<1>4. CASE Close(t)
  <2>1. Others(t)
    BY <1>1, <1>4, Lookups DEF Close, Go, Stores, Others
  <2>2. QED BY <1>4, <2>1, CloseFrame DEF Close, CloseConnection, tableVars
<1>5. CASE NextInterface(t)
  <2>1. Others(t)
    BY <1>1, <1>5, Lookups DEF NextInterface, Go, Others
  <2>2. QED BY <1>5, <2>1, LockKeptFrame DEF NextInterface, tableVars, histVars
<1>6. CASE t = "main" /\ UpdateInterfacesCore
  <2>1. PICK ifaces : Stores(t, ifaces)
    BY <1>6 DEF UpdateInterfacesCore
  <2>2. Others(t)
    BY <1>1, <1>6, <2>1, Lookups DEF UpdateInterfacesCore, Go, Stores, Others
  <2>3. QED BY <1>6, <2>2, LockKeptFrame DEF UpdateInterfacesCore, tableVars, histVars
<1>7. CASE t = "main" /\ CloseCore
  <2>1. Others(t)
    BY <1>1, <1>7, Lookups DEF CloseCore, Go, Others, callVars
  <2>2. QED BY <1>7, <2>1, CloseFrame DEF CloseCore, CloseConnection, tableVars
<1>8. CASE t = "main" /\ UpdateDevice
  <2>1. PICK ifaces : Stores(t, ifaces)
    BY <1>8 DEF UpdateDevice
  <2>2. Others(t)
    BY <1>1, <1>8, <2>1, Lookups DEF UpdateDevice, Go, Stores, Others
  <2>3. QED BY <1>8, <2>2, LockKeptFrame DEF UpdateDevice, tableVars, histVars
<1>9. CASE t = "main" /\ DeviceDone
  <2>1. Others(t)
    BY <1>1, <1>9, Lookups DEF DeviceDone, Go, Stores, Others
  <2>2. QED BY <1>9, <2>1, LockKeptFrame DEF DeviceDone, tableVars, histVars
<1>10. QED BY <1>2, <1>3, <1>4, <1>5, <1>6, <1>7, <1>8, <1>9 DEF Elsewhere

\* The steps, by who takes them.
LEMMA NextSteps ==
    ASSUME [Next]_vars
    PROVE  \/ \E t \in Threads : Statement(t) \/ Elsewhere(t)
           \/ Collected
           \/ Dies
           \/ UNCHANGED vars
BY MainThread DEF Next, Statement, Elsewhere, TimesOut, Killed

-----------------------------------------------------------------------------
(* What a thread is done with is stored                                    *)

InProgress(t, i) == at[t] \in Working /\ iface[t].MAC = i.MAC /\ iface[t].class = i.class

Progress(t) ==
    at[t] \in Working \cup {"next"} /\ lock # Connection(t) =>
        \A i \in batch[t] \ todo[t] : HasStored(disk, t, i) \/ InProgress(t, i)

Progresses == \A t \in Threads : Progress(t)

LEMMA OthersProgress ==
    ASSUME Progresses, Kept, NEW t \in Threads, Frame(t)
    PROVE  \A u \in Threads \ {t} : Progress(u)'
<1> TAKE u \in Threads \ {t}
<1>1. Progress(u)
  BY DEF Progresses
<1>2. /\ at'[u] = at[u] /\ iface'[u] = iface[u] /\ batch'[u] = batch[u] /\ todo'[u] = todo[u]
      /\ lock' = Connection(u)' <=> lock = Connection(u)
  BY DEF Frame, Others
<1>3. \A i : HasStored(disk, u, i) => HasStored(disk', u, i)
  BY DEF HasStored, Kept, Grows
<1>4. QED BY <1>1, <1>2, <1>3 DEF Progress, InProgress

LEMMA StatementProgress ==
    ASSUME IInv, Progresses, Kept, NEW t \in Threads, Statement(t)
    PROVE  Progress(t)'
<1>1. /\ conn' = conn /\ batch' = batch /\ todo' = todo /\ at[t] \in Working
      /\ Touch(t) /\ (Continues(t) \/ Finishes(t))
  BY StatementStep DEF CallKept
<1> SUFFICES ASSUME lock' # Connection(t)'
             PROVE  \A i \in batch'[t] \ todo'[t] :
                        HasStored(disk', t, i) \/ InProgress(t, i)'
  BY DEF Progress
<1>2. lock' = lock /\ lock = Free /\ lock # Connection(t) /\ disk' = db'
  BY <1>1, OwnConnections DEF Touch, Connection
<1> TAKE i \in batch'[t] \ todo'[t]
<1>3. HasStored(disk, t, i) \/ InProgress(t, i)
  BY <1>1, <1>2 DEF Progresses, Progress
<1>4. CASE HasStored(disk, t, i)
  BY <1>4 DEF HasStored, Kept, Grows
<1>5. CASE InProgress(t, i)
  BY <1>1, <1>2, <1>5 DEF InProgress, Continues, Finishes, HasStored
<1>6. QED BY <1>3, <1>4, <1>5

LEMMA ElsewhereProgress ==
    ASSUME IInv, Progresses, NEW t \in Threads, Elsewhere(t)
    PROVE  Progress(t)'
<1>1. TypeOK /\ Progress(t) /\ Place(t)
  BY DEF IInv, Progresses
<1>2. CASE NextInterface(t)
  <2>1. PICK i \in todo[t] : iface' = [iface EXCEPT ![t] = i] /\ todo' = [todo EXCEPT ![t] = @ \ {i}]
    BY <1>2 DEF NextInterface
  <2>2. /\ at[t] = "next" /\ at'[t] \in Working /\ batch' = batch /\ UNCHANGED tableVars /\ conn' = conn
        /\ iface'[t] = i /\ todo'[t] = todo[t] \ {i}
    BY <1>1, <1>2, <2>1, Lookups DEF NextInterface, Go, Working
  <2>3. QED BY <1>1, <2>2 DEF Progress, InProgress, HasStored, tableVars, Connection, Working
<1>3. CASE Open(t)
  BY <1>1, <1>3 DEF Open, Progress, Place, callVars
<1>4. CASE t = "main" /\ UpdateDevice
  <2>1. PICK ifaces \in SUBSET Interfaces : Stores("main", ifaces)
    BY <1>4, UpdateDeviceStores
  <2>2. batch'[t] = todo'[t]
    BY <1>1, <1>4, <2>1, StoresShape
  <2>3. QED BY <2>2 DEF Progress
<1>5. CASE \/ Start(t) \/ Close(t)
           \/ t = "main" /\ (UpdateInterfacesCore \/ CloseCore \/ DeviceDone)
  <2>1. at'[t] \in {"opening", "idle", "device", "devices"}
    BY <1>1, <1>5, Lookups DEF Start, Close, UpdateInterfacesCore, CloseCore, DeviceDone, Go
  <2>2. QED BY <2>1 DEF Progress, Working
<1>6. QED BY <1>2, <1>3, <1>4, <1>5 DEF Elsewhere

LEMMA ProgressStep == IInv /\ Progresses /\ [Next]_vars => Progresses'
<1> SUFFICES ASSUME IInv, Progresses, [Next]_vars PROVE Progresses'
  OBVIOUS
<1>1. Kept
  BY NextKept
<1>2. ASSUME NEW t \in Threads, Statement(t) PROVE Progresses'
  <2>1. Progress(t)' /\ \A u \in Threads \ {t} : Progress(u)'
    BY <1>1, <1>2, StatementStep, StatementProgress, OthersProgress
  <2>2. QED BY <2>1 DEF Progresses
<1>3. ASSUME NEW t \in Threads, Elsewhere(t) PROVE Progresses'
  <2>1. Progress(t)' /\ \A u \in Threads \ {t} : Progress(u)'
    BY <1>1, <1>3, ElsewhereStep, ElsewhereProgress, OthersProgress
  <2>2. QED BY <2>1 DEF Progresses
<1>4. CASE Collected
  <2>1. \A t \in Threads : lock # Connection(t) /\ Connection(t)' = Connection(t)
    BY <1>4, OwnConnections DEF Collected, Connection
  <2>2. QED BY <1>4, <2>1 DEF Collected, callVars, Progresses, Progress, InProgress, HasStored
<1>5. CASE Dies
  BY <1>5 DEF Dies, Progresses, Progress, Working
<1>6. CASE UNCHANGED vars
  BY <1>6 DEF vars, tableVars, callVars, Progresses, Progress, InProgress, HasStored, Connection
<1>7. QED BY <1>2, <1>3, <1>4, <1>5, <1>6, NextSteps

LEMMA ProgressInvariance == Spec => []Progresses
<1>1. Init => Progresses
  BY DEF Init, Progresses, Progress, Working
<1>2. QED BY <1>1, ProgressStep, Invariance, PTL DEF Spec

\* What a thread has been through is stored, with wireless data if it stores more than a
\* row, unless its connection will lose everything (DBTable.insert's open transaction).
THEOREM StoresOrLoses == Spec => []StoredOrLost
<1>1. Progresses => StoredOrLost
  BY DEF Progresses, Progress, InProgress, HasStored, StoredOrLost, Working
<1>2. QED BY <1>1, ProgressInvariance, PTL

-----------------------------------------------------------------------------
(* Types agree with data                                                   *)

\* Wireless data with a row that says otherwise: an upgrade is under way.
Upgrader(t, m) == at[t] \in {"removeWired", "retype"} /\ iface[t].MAC = m /\ lock # Connection(t)

\* A row that promises wireless data: a thread is about to insert them.
Inserter(t, m) ==
    /\ at[t] = "data" /\ iface[t].class = "WirelessInterface" /\ iface[t].MAC = m
    /\ lock # Connection(t)

Promised(t) ==
    at[t] = "data" /\ iface[t].class = "WirelessInterface" /\ lock # Connection(t)
    => disk.rows[iface[t].MAC].type = "wireless"

TypeInv ==
    /\ \A m \in DOMAIN disk.rows \ cut :
           /\ disk.rows[m].type = "LAN" /\ m \in disk.wireless => \E t \in Threads : Upgrader(t, m)
           /\ disk.rows[m].type = "wireless" /\ m \notin disk.wireless
                  => \E t \in Threads : Inserter(t, m)
    /\ \A t \in Threads : Promised(t)

\* A row keeps the type wireless.
Types == \A m \in DOMAIN disk.rows :
             disk.rows[m].type = "wireless" => disk'.rows[m].type = "wireless"

LEMMA FrameWitness ==
    ASSUME NEW t \in Threads, Frame(t), NEW u \in Threads \ {t}, NEW m
    PROVE  Upgrader(u, m)' = Upgrader(u, m) /\ Inserter(u, m)' = Inserter(u, m)
BY DEF Frame, Others, Upgrader, Inserter

LEMMA OthersPromised ==
    ASSUME IInv, TypeInv, Types, NEW t \in Threads, Frame(t), NEW u \in Threads \ {t}
    PROVE  Promised(u)'
<1>1. /\ at'[u] = at[u] /\ iface'[u] = iface[u] /\ Promised(u)
      /\ lock' = Connection(u)' <=> lock = Connection(u)
  BY DEF Frame, Others, TypeInv
<1>2. at[u] = "data" /\ lock # Connection(u) => iface[u].MAC \in DOMAIN disk.rows
  BY DEF IInv, Stays, View, FoundRow
<1>3. QED BY <1>1, <1>2 DEF Promised, Types

\* A step that leaves types and wireless data, and takes no witness away.
LEMMA SameTypes ==
    ASSUME IInv, TypeInv, NEW t \in Threads, Frame(t), cut' = cut,
           DOMAIN disk'.rows = DOMAIN disk.rows, disk'.wireless = disk.wireless,
           \A m \in DOMAIN disk.rows : disk'.rows[m].type = disk.rows[m].type,
           \A m \in DOMAIN disk.rows : Upgrader(t, m) => Upgrader(t, m)',
           \A m \in DOMAIN disk.rows : ~Inserter(t, m),
           Promised(t)'
    PROVE  TypeInv'
<1>1. Types
  BY DEF Types
<1>2. \A u \in Threads : Promised(u)'
  BY <1>1, OthersPromised
<1>3. ASSUME NEW m \in DOMAIN disk.rows, NEW u \in Threads
      PROVE  (Upgrader(u, m) => Upgrader(u, m)') /\ (Inserter(u, m) => Inserter(u, m)')
  BY FrameWitness
<1>4. QED BY <1>2, <1>3 DEF TypeInv

\* A committed statement: others remain witnesses, and its own interface is accounted for.
LEMMA CommittedTypes ==
    ASSUME IInv, TypeInv, NEW t \in Threads, Frame(t), cut' = cut, NEW m \in MACs,
           Types,
           DOMAIN disk'.rows \subseteq DOMAIN disk.rows \cup {m},
           \A n \in DOMAIN disk.rows \ {m} : disk'.rows[n].type = disk.rows[n].type,
           \A n \in DOMAIN disk.rows \ {m} : n \in disk'.wireless <=> n \in disk.wireless,
           \A n : n # m => ~Upgrader(t, n) /\ ~Inserter(t, n),
           m \in DOMAIN disk'.rows \ cut =>
               /\ disk'.rows[m].type = "LAN" /\ m \in disk'.wireless
                      => \E u \in Threads : Upgrader(u, m)'
               /\ disk'.rows[m].type = "wireless" /\ m \notin disk'.wireless
                      => \E u \in Threads : Inserter(u, m)',
           Promised(t)'
    PROVE  TypeInv'
<1>1. \A u \in Threads : Promised(u)'
  BY OthersPromised
<1>2. ASSUME NEW n \in DOMAIN disk'.rows \ cut, n # m
      PROVE  /\ disk'.rows[n].type = "LAN" /\ n \in disk'.wireless => \E u \in Threads : Upgrader(u, n)'
             /\ disk'.rows[n].type = "wireless" /\ n \notin disk'.wireless
                    => \E u \in Threads : Inserter(u, n)'
  <2>1. /\ disk.rows[n].type = "LAN" /\ n \in disk.wireless => \E u \in Threads : Upgrader(u, n)
        /\ disk.rows[n].type = "wireless" /\ n \notin disk.wireless
               => \E u \in Threads : Inserter(u, n)
    BY <1>2 DEF TypeInv
  <2>2. \A u \in Threads : (Upgrader(u, n) => Upgrader(u, n)') /\ (Inserter(u, n) => Inserter(u, n)')
    BY <1>2, FrameWitness
  <2>3. QED BY <1>2, <2>1, <2>2
<1>3. QED BY <1>1, <1>2 DEF TypeInv

LEMMA ElsewhereTypes ==
    ASSUME IInv, TypeInv, NEW t \in Threads, Elsewhere(t)
    PROVE  TypeInv'
<1>1. at[t] \notin Working /\ at'[t] # "data"
  BY Lookups
     DEF IInv, Elsewhere, Start, Open, Close, Finished, NextInterface, UpdateInterfacesCore, CloseCore,
         UpdateDevice, DeviceDone, Accesses, Go, Working
<1>2. QED BY <1>1, ElsewhereStep, SameTypes DEF Upgrader, Inserter, Promised, Working

\* In its own transaction a thread changes nothing yet.
LEMMA UncommittedTypes ==
    ASSUME IInv, TypeInv, NEW t \in Threads, Statement(t), lock = Connection(t)
    PROVE  TypeInv'
<1>1. Frame(t) /\ cut' = cut /\ conn' = conn /\ Touch(t)
  BY StatementStep DEF CallKept, histVars
<1>2. disk' = disk /\ lock' = Connection(t)'
  BY <1>1, OwnConnections DEF Touch, Connection
<1>3. QED BY <1>1, <1>2, SameTypes DEF Upgrader, Inserter, Promised

LEMMA CommittedStep ==
    ASSUME IInv, NEW t \in Threads, Statement(t), lock = Free
    PROVE  /\ Frame(t) /\ cut' = cut /\ Connection(t)' = Connection(t)
           /\ disk = db /\ disk' = db' /\ Connection(t) # Free
           /\ iface[t] \in Interfaces /\ iface[t].MAC \in MACs
BY StatementStep, OwnConnections, InHandNow DEF Touch, Connection, CallKept, histVars, IInv, Clean

LEMMA InsertRowTypes ==
    ASSUME IInv, TypeInv, NEW t \in Threads, InsertRow(t), lock = Free
    PROVE  TypeInv'
<1>0. PICK m \in MACs : m = iface[t].MAC
  BY CommittedStep DEF Statement, UpdateInterface
<1>1. /\ Frame(t) /\ cut' = cut /\ Connection(t)' = Connection(t)
      /\ disk = db /\ disk' = db' /\ Connection(t) # Free
      /\ iface[t] \in Interfaces /\ m = iface[t].MAC
  BY <1>0, CommittedStep DEF Statement, UpdateInterface
<1>2. /\ at[t] = "insert"
      /\ DOMAIN disk'.rows = DOMAIN disk.rows \cup {m} /\ disk'.wireless = disk.wireless
      /\ \A n \in DOMAIN disk.rows : disk'.rows[n] = disk.rows[n]
      /\ m \notin DOMAIN disk.rows => disk'.rows[m] = Row(iface[t])
      /\ m \in DOMAIN disk.rows => lock' = Connection(t)
  BY <1>1, InsertRowTables
<1>3. CASE m \in DOMAIN disk.rows
  <2>1. lock' = Connection(t)' /\ DOMAIN disk'.rows = DOMAIN disk.rows
    BY <1>1, <1>2, <1>3
  <2>2. QED BY <1>1, <1>2, <2>1, SameTypes DEF Upgrader, Inserter, Promised
<1>4. CASE m \notin DOMAIN disk.rows
  <2>1. disk'.rows[m].type = TypeOf(iface[t].class) /\ m \notin disk'.wireless
    BY <1>1, <1>2, <1>4 DEF Row, IInv, TypeOK, Whole
  <2>2. lock' = Free
    BY <1>1, <1>4 DEF InsertRow, Insert, Write
  <2>3. /\ iface[t].class = "WirelessInterface" => at'[t] = "data" /\ iface'[t] = iface[t]
        /\ iface[t].class # "WirelessInterface" =>
               at'[t] # "data" \/ iface'[t].class # "WirelessInterface"
    <3>1. CASE iface[t].class = "Interface"
      BY <3>1, DoneNext DEF InsertRow
    <3>2. CASE iface[t].class # "Interface"
      BY <3>2, Lookups DEF InsertRow, Go, IInv
    <3>3. QED BY <3>1, <3>2
  <2>4. Promised(t)'
    BY <1>1, <2>1, <2>3 DEF Promised, TypeOf
  <2>5. disk'.rows[m].type = "wireless" => \E u \in Threads : Inserter(u, m)'
    BY <1>1, <2>1, <2>2, <2>3 DEF Inserter, TypeOf
  <2>6. Types
    BY <1>2 DEF Types
  <2>7. \A n : ~Upgrader(t, n) /\ ~Inserter(t, n)
    BY <1>2 DEF Upgrader, Inserter
  <2>8. /\ DOMAIN disk'.rows \subseteq DOMAIN disk.rows \cup {m}
        /\ \A n \in DOMAIN disk.rows \ {m} : disk'.rows[n].type = disk.rows[n].type
        /\ \A n \in DOMAIN disk.rows \ {m} : n \in disk'.wireless <=> n \in disk.wireless
    BY <1>2
  <2>9. QED BY <1>1, <2>1, <2>4, <2>5, <2>6, <2>7, <2>8, CommittedTypes
<1>5. QED BY <1>3, <1>4

LEMMA InsertDataTypes ==
    ASSUME IInv, TypeInv, NEW t \in Threads, InsertData(t), lock = Free
    PROVE  TypeInv'
<1> DEFINE m == iface[t].MAC
<1>1. /\ Frame(t) /\ cut' = cut /\ Connection(t)' = Connection(t)
      /\ disk = db /\ disk' = db' /\ Connection(t) # Free
      /\ iface[t] \in Interfaces /\ m \in MACs
  BY CommittedStep DEF Statement, UpdateInterface
<1>2. at[t] = "data" /\ lock \in {Free, Connection(t)} /\ Done(t) /\ InHand(t)
  BY DEF InsertData, Accesses, IInv
<1>3. at'[t] = "next" /\ Promised(t)'
  BY <1>2, DoneNext DEF Promised
<1>4. CASE iface[t].class = "WiredInterface"
  <2>1. db'.rows = db.rows /\ db'.wireless = db.wireless
    BY <1>2, <1>4, WiredTables DEF InsertData
  <2>2. QED BY <1>1, <1>2, <1>3, <1>4, <2>1, SameTypes DEF Upgrader, Inserter
<1>5. CASE iface[t].class # "WiredInterface"
  <2>1. db'.rows = db.rows /\ db'.wireless = db.wireless \cup {m}
    BY <1>2, <1>5, WirelessTables DEF InsertData
  <2>2. iface[t].class = "WirelessInterface"
    BY <1>1, <1>2, <1>5 DEF InHand, Interfaces, Classes
  <2>3. disk.rows[m].type = "wireless"
    BY <1>1, <1>2, <2>2 DEF TypeInv, Promised
  <2>4. Types /\ \A n : n # m => ~Upgrader(t, n) /\ ~Inserter(t, n)
    BY <1>1, <1>2, <2>1 DEF Types, Upgrader, Inserter
  <2>5. m \in disk'.wireless /\ disk'.rows[m].type = "wireless"
    BY <1>1, <2>1, <2>3
  <2>6. QED BY <1>1, <1>3, <2>1, <2>4, <2>5, CommittedTypes
<1>6. QED BY <1>4, <1>5

LEMMA UpgradeTypes ==
    ASSUME IInv, TypeInv, NEW t \in Threads, Upgrade(t), lock = Free
    PROVE  TypeInv'
<1>0. PICK m \in MACs : m = iface[t].MAC
  BY CommittedStep DEF Statement, UpdateInterface
<1>1. /\ Frame(t) /\ cut' = cut /\ Connection(t)' = Connection(t)
      /\ disk = db /\ disk' = db' /\ Connection(t) # Free
      /\ iface[t] \in Interfaces /\ m = iface[t].MAC
  BY <1>0, CommittedStep DEF Statement, UpdateInterface
<1>2. at[t] = "upgrade" /\ lock \in {Free, Connection(t)} /\ InsertWireless(t)
  BY DEF Upgrade, Accesses
<1>3. disk'.rows = disk.rows /\ disk'.wireless = disk.wireless \cup {m}
  BY <1>1, <1>2, WirelessTables
<1>4. at'[t] \in {"removeWired", "retype"} /\ iface'[t] = iface[t]
  BY Lookups DEF Upgrade, Go, IInv
<1>5. Promised(t)' /\ Types /\ \A n : ~Upgrader(t, n) /\ ~Inserter(t, n)
  BY <1>2, <1>3, <1>4 DEF Promised, Types, Upgrader, Inserter
<1>6. CASE m \in disk.wireless
  <2>1. disk'.wireless = disk.wireless
    BY <1>3, <1>6
  <2>2. QED BY <1>1, <1>3, <1>5, <2>1, SameTypes
<1>7. CASE m \notin disk.wireless
  <2>1. lock' = Free
    BY <1>1, <1>2, <1>7 DEF InsertWireless, Insert, Write
  <2>2. \E u \in Threads : Upgrader(u, m)'
    BY <1>1, <1>4, <2>1 DEF Upgrader
  <2>3. m \in disk'.wireless
    BY <1>3
  <2>4. /\ DOMAIN disk'.rows \subseteq DOMAIN disk.rows \cup {m}
        /\ \A n \in DOMAIN disk.rows \ {m} : disk'.rows[n].type = disk.rows[n].type
        /\ \A n \in DOMAIN disk.rows \ {m} : n \in disk'.wireless <=> n \in disk.wireless
    BY <1>3
  <2>5. QED BY <1>1, <1>5, <2>2, <2>3, <2>4, CommittedTypes
<1>8. QED BY <1>6, <1>7

LEMMA UpdateTypeTypes ==
    ASSUME IInv, TypeInv, NEW t \in Threads, UpdateType(t), lock = Free
    PROVE  TypeInv'
<1> DEFINE m == iface[t].MAC
<1>1. /\ Frame(t) /\ cut' = cut
      /\ disk = db /\ disk' = db'
      /\ iface[t] \in Interfaces /\ m \in MACs
  BY CommittedStep DEF Statement, UpdateInterface
<1>2. /\ DOMAIN disk'.rows = DOMAIN disk.rows /\ disk'.wireless = disk.wireless
      /\ m \in disk.wireless /\ disk'.rows[m] = Row(iface[t])
      /\ \A n \in DOMAIN disk.rows \ {m} : disk'.rows[n] = disk.rows[n]
      /\ at[t] = "retype" /\ Done(t)
  BY <1>1, TypeTables
<1>3. iface[t].class = "WirelessInterface"
  BY <1>2 DEF IInv, InHand, Upgrading
<1>4. disk'.rows[m].type = "wireless"
  BY <1>2, <1>3 DEF Row, TypeOf
<1>5. at'[t] = "next" /\ Promised(t)'
  BY <1>2, DoneNext DEF Promised
<1>6. Types /\ \A n : n # m => ~Upgrader(t, n) /\ ~Inserter(t, n)
  BY <1>2, <1>4 DEF Types, Upgrader, Inserter
<1>7. QED BY <1>1, <1>2, <1>4, <1>5, <1>6, CommittedTypes

\* The other statements leave types and wireless data as they are.
LEMMA OtherTypes ==
    ASSUME IInv, TypeInv, NEW t \in Threads, lock = Free,
           \/ InsertInterface(t) \/ GetRaw(t) \/ GetWireless(t) \/ GetWired(t)
           \/ UpdateRow(t) \/ RemoveWiredData(t)
    PROVE  TypeInv'
<1>1. /\ Frame(t) /\ cut' = cut /\ disk = db /\ disk' = db' /\ Connection(t)' = Connection(t)
      /\ Connection(t) # Free
  BY CommittedStep DEF Statement, UpdateInterface
<1>2. CASE InsertInterface(t) \/ GetRaw(t) \/ GetWireless(t) \/ GetWired(t)
  <2>1. db' = db /\ at[t] \in {"check", "read", "readWireless", "readWired"}
    BY <1>2 DEF InsertInterface, GetRaw, GetWireless, GetWired, Accesses, Reads, tableVars
  <2>2. at'[t] # "data"
    BY <1>2, Lookups, DoneNext DEF InsertInterface, GetRaw, GetWireless, GetWired, Go, IInv
  <2>3. QED BY <1>1, <2>1, <2>2, SameTypes DEF Upgrader, Inserter, Promised
<1>3. CASE UpdateRow(t)
  <2>1. /\ at[t] = "update" /\ DOMAIN db'.rows = DOMAIN db.rows /\ db'.wireless = db.wireless
        /\ db'.rows[iface[t].MAC] = [name |-> UpdatedName(t), type |-> db.rows[iface[t].MAC].type]
        /\ \A n \in DOMAIN db.rows \ {iface[t].MAC} : db'.rows[n] = db.rows[n]
    BY <1>3, UpdateRowTables
  <2>2. \A n \in DOMAIN db.rows : db'.rows[n].type = db.rows[n].type
    BY <2>1
  <2>3. at'[t] # "data"
    BY <1>3, Lookups, DoneNext DEF UpdateRow, Go, IInv
  <2>4. QED BY <1>1, <2>1, <2>2, <2>3, SameTypes DEF Upgrader, Inserter, Promised
<1>4. CASE RemoveWiredData(t)
  <2>1. db'.rows = db.rows /\ db'.wireless = db.wireless /\ lock' = lock
    BY <1>4, RemoveTables
  <2>2. at[t] = "removeWired" /\ at'[t] = "retype" /\ iface' = iface
    BY <1>4, Lookups DEF RemoveWiredData, Accesses, Go, IInv
  <2>3. QED BY <1>1, <2>1, <2>2, SameTypes DEF Upgrader, Inserter, Promised
<1>5. QED BY <1>2, <1>3, <1>4

LEMMA TypeInvStep == IInv /\ TypeInv /\ [Next]_vars => TypeInv'
<1> SUFFICES ASSUME IInv, TypeInv, [Next]_vars PROVE TypeInv'
  OBVIOUS
<1>1. ASSUME NEW t \in Threads, Statement(t) PROVE TypeInv'
  <2>1. lock \in {Free, Connection(t)}
    BY <1>1, StatementStep DEF Touch
  <2>2. QED BY <1>1, <2>1, UncommittedTypes, InsertRowTypes, InsertDataTypes, UpgradeTypes,
               UpdateTypeTypes, OtherTypes DEF Statement, UpdateInterface
<1>2. ASSUME NEW t \in Threads, Elsewhere(t) PROVE TypeInv'
  BY <1>2, ElsewhereTypes
<1>3. CASE Collected
  <2>1. \A t \in Threads : lock # Connection(t) /\ Connection(t)' = Connection(t) /\ lock' # Connection(t)
    BY <1>3, OwnConnections DEF Collected, Connection
  <2>2. /\ \A t \in Threads : Promised(t)' = Promised(t)
        /\ \A t \in Threads : \A m : Upgrader(t, m)' = Upgrader(t, m) /\ Inserter(t, m)' = Inserter(t, m)
    BY <1>3, <2>1 DEF Collected, callVars, Promised, Upgrader, Inserter
  <2>3. QED BY <1>3, <2>2 DEF Collected, histVars, TypeInv
<1>4. CASE Dies
  <2>1. disk' = disk /\ cut' = cut \cup ({iface[t].MAC : t \in Threads} \cap MACs)
        /\ \A t \in Threads : at'[t] = "idle"
    BY <1>4 DEF Dies
  <2>2. DOMAIN disk.rows \subseteq MACs
    BY TablesShape DEF IInv, TypeOK
  <2>3. \A m \in DOMAIN disk.rows : \A t \in Threads : Upgrader(t, m) \/ Inserter(t, m) => m \in cut'
    BY <2>1, <2>2 DEF Upgrader, Inserter
  <2>4. \A t \in Threads : Promised(t)'
    BY <2>1 DEF Promised
  <2>5. \A m \in DOMAIN disk.rows \ cut' :
            /\ ~(disk.rows[m].type = "LAN" /\ m \in disk.wireless)
            /\ ~(disk.rows[m].type = "wireless" /\ m \notin disk.wireless)
    BY <2>1, <2>3 DEF TypeInv
  <2>6. QED BY <2>1, <2>4, <2>5 DEF TypeInv
<1>5. CASE UNCHANGED vars
  BY <1>5 DEF vars, tableVars, callVars, histVars, TypeInv, Promised, Upgrader, Inserter, Connection
<1>6. QED BY <1>1, <1>2, <1>3, <1>4, <1>5, NextSteps

\* The type in a row agrees with the data once no thread is at work on the interface,
\* unless the process ended in the middle of an update.
THEOREM TypesDoAgree == Spec => []TypesAgree
<1>1. Init => TypeInv
  BY DEF Init, TypeInv, Promised
<1>2. IInv /\ TypeInv => TypesAgree
  <2> SUFFICES ASSUME IInv, TypeInv, NEW m \in DOMAIN disk.rows \ cut, \A t \in Threads : iface[t].MAC # m
               PROVE  disk.rows[m].type = TypeOf(ClassIn(disk, m))
    BY DEF TypesAgree
  <2>1. disk.rows[m].type \in {"wireless", "LAN"}
    BY TablesShape DEF IInv, TypeOK, Rows
  <2>2. \A t \in Threads : ~Upgrader(t, m) /\ ~Inserter(t, m)
    BY DEF Upgrader, Inserter
  <2>3. disk.rows[m].type = "wireless" <=> m \in disk.wireless
    BY <2>1, <2>2 DEF TypeInv
  <2>4. QED BY <2>1, <2>3 DEF TypeOf, ClassIn
<1>3. QED BY <1>1, <1>2, TypeInvStep, Invariance, PTL DEF Spec

-----------------------------------------------------------------------------
(* The main thread does not wait for itself                                *)

\* What updateInterface finds when its argument is stored already: nothing to insert.
OnlyReads ==
    /\ HasStored(disk, "main", iface["main"])
    /\ at["main"] \notin {"insert", "data"} \cup Upgrading
    /\ at["main"] = "readWired" => iface["main"].class # "WirelessInterface"
    /\ at["main"] = "update" /\ iface["main"].class = "WirelessInterface"
           => existing["main"].class = "WirelessInterface"

OuterInv ==
    /\ lock = <<"main", "outer">> => lost
    /\ ~lost /\ conn["main"] = "outer" =>
           /\ at["main"] = "device" => \A i \in batch["main"] : HasStored(disk, "main", i)
           /\ at["main"] \in Working \cup {"next"} =>
                  \A i \in todo["main"] : HasStored(disk, "main", i)
           /\ at["main"] \in Working => OnlyReads

LEMMA MainStores == "main" \notin StoreThreads
BY ThreadsAssumption

LEMMA StoredStays ==
    ASSUME Kept, NEW i, HasStored(disk, "main", i)
    PROVE  HasStored(disk', "main", i)
BY DEF Kept, Grows, HasStored

\* The others leave the main thread where it is.
LEMMA OthersOuter ==
    ASSUME OuterInv, Kept, NEW t \in Threads \ {"main"}, Others(t), lost' = lost,
           lock' = <<"main", "outer">> => lock = <<"main", "outer">>
    PROVE  OuterInv'
<1>1. /\ at'["main"] = at["main"] /\ conn'["main"] = conn["main"] /\ iface'["main"] = iface["main"]
      /\ existing'["main"] = existing["main"] /\ batch'["main"] = batch["main"]
      /\ todo'["main"] = todo["main"]
  BY MainThread DEF Others
<1>2. OnlyReads => OnlyReads'
  BY <1>1, StoredStays DEF OnlyReads
<1>3. QED BY <1>1, <1>2, StoredStays DEF OuterInv

\* With nothing lost, statements of the outer connection only read, or write a name.
LEMMA OuterStatement ==
    ASSUME IInv, OuterInv, Kept, Statement("main"), ~lost, conn["main"] = "outer"
    PROVE  OuterInv'
<1> USE MainThread
<1>1. /\ CallKept /\ at["main"] \in Working /\ Touch("main") /\ conn' = conn /\ lost' = lost
      /\ batch' = batch /\ todo' = todo
      /\ OnlyReads /\ \A i \in todo["main"] : HasStored(disk, "main", i)
      /\ TypeOK /\ InHand("main")
  BY StatementStep DEF CallKept, histVars, OuterInv, IInv
<1>2. lock = Free /\ db = disk /\ iface["main"] \in Interfaces
  BY <1>1, OwnConnections, InHandNow DEF Touch, Connection, OuterInv, IInv, Clean
<1>3. HasStored(disk', "main", iface["main"])
  BY <1>1, StoredStays DEF OnlyReads
<1>4. iface["main"].MAC \in DOMAIN db.rows
      /\ (iface["main"].class = "WirelessInterface" => iface["main"].MAC \in db.wireless)
  BY <1>1, <1>2, MainStores DEF OnlyReads, HasStored
<1>5. \/ GetRaw("main") \/ GetWireless("main") \/ GetWired("main") \/ UpdateRow("main")
  BY <1>1, MainStores
     DEF Statement, InsertInterface, UpdateInterface, InsertRow, InsertData, Upgrade, RemoveWiredData,
         UpdateType, Accesses, OnlyReads, Upgrading, InHand
<1>6. /\ lock' = lock /\ Free # <<"main", "outer">>
      /\ \/ at'["main"] = "next"
         \/ at'["main"] \in Working /\ OnlyReads'
  <2>1. CASE GetRaw("main")
    <3>1. at'["main"] = "readWireless" /\ iface'["main"] = iface["main"] /\ lock' = lock
      BY <1>1, <1>4, <2>1, Lookups DEF GetRaw, Go, Reads, tableVars
    <3>2. QED BY <1>2, <1>3, <3>1 DEF OnlyReads, Working, Upgrading, Free
  <2>2. CASE GetWireless("main")
    <3>1. /\ iface'["main"] = iface["main"] /\ lock' = lock
          /\ \/ at'["main"] = "update" /\ existing'["main"].class = "WirelessInterface"
             \/ at'["main"] = "readWired" /\ iface["main"].class # "WirelessInterface"
      BY <1>1, <1>4, <2>2, Lookups DEF GetWireless, Found, Go, Reads, tableVars
    <3>2. QED BY <1>2, <1>3, <3>1 DEF OnlyReads, Working, Upgrading, Free
  <2>3. CASE GetWired("main")
    <3>1. /\ iface'["main"] = iface["main"] /\ lock' = lock /\ at'["main"] = "update"
          /\ iface["main"].class # "WirelessInterface"
      BY <1>1, <2>3, Lookups DEF GetWired, Go, Reads, tableVars, Accesses, OnlyReads
    <3>2. QED BY <1>2, <1>3, <3>1 DEF OnlyReads, Working, Upgrading, Free
  <2>4. CASE UpdateRow("main")
    <3>1. lock' = lock /\ ~Upgrades("main")
      BY <1>1, <2>4, UpdateRowTables DEF OnlyReads, Upgrades
    <3>2. Done("main")
      BY <2>4, <3>1 DEF UpdateRow
    <3>3. QED BY <1>2, <3>1, <3>2, DoneNext DEF Free
  <2>5. QED BY <1>5, <2>1, <2>2, <2>3, <2>4
<1>7. QED BY <1>1, <1>2, <1>6, StoredStays DEF OuterInv, Working

LEMMA StatementOuter ==
    ASSUME IInv, OuterInv, Kept, NEW t \in Threads, Statement(t)
    PROVE  OuterInv'
<1>1. Touch(t) /\ Others(t) /\ conn' = conn /\ lost' = lost
  BY StatementStep DEF Frame, CallKept, histVars
<1>2. CASE t # "main"
  <2>1. Connection(t)' # <<"main", "outer">> /\ Connection(t) # <<"main", "outer">>
    BY <1>2 DEF Connection
  <2>2. lock' = <<"main", "outer">> => lock = <<"main", "outer">>
    BY <1>1, <2>1 DEF Touch
  <2>3. QED BY <1>1, <1>2, <2>2, OthersOuter
<1>3. CASE t = "main" /\ ~lost /\ conn["main"] = "outer"
  BY <1>3, OuterStatement
<1>4. CASE t = "main" /\ (lost \/ conn["main"] # "outer")
  <2>1. lock' = <<"main", "outer">> => lost'
    BY <1>1, <1>4 DEF Touch, OuterInv, Connection
  <2>2. QED BY <1>1, <1>4, <2>1 DEF OuterInv
<1>5. QED BY <1>2, <1>3, <1>4

LEMMA OthersElsewhere ==
    ASSUME IInv, OuterInv, Kept, NEW t \in Threads \ {"main"}, Elsewhere(t)
    PROVE  OuterInv'
<1>1. Others(t)
  BY ElsewhereStep DEF Frame
<1>2. lost' = lost
  BY DEF Elsewhere, Start, Open, Close, NextInterface, histVars
<1>3. lock' = <<"main", "outer">> => lock = <<"main", "outer">>
  BY DEF Elsewhere, Start, Open, Close, NextInterface, CloseConnection, tableVars, Free, Lingering
<1>4. QED BY <1>1, <1>2, <1>3, OthersOuter

LEMMA CloseCoreOuter ==
    ASSUME IInv, OuterInv, Progresses, CloseCore
    PROVE  OuterInv'
<1>1. /\ TypeOK /\ at["main"] = "next" /\ todo["main"] = {} /\ conn["main"] = "inner"
      /\ Connection("main") = <<"main", "inner">>
  BY DEF IInv, CloseCore, Finished, Connection
<1>2. at'["main"] = "device" /\ batch' = batch /\ disk' = disk
  BY <1>1, Lookups, MainThread DEF CloseCore, Go, callVars, CloseConnection, tableVars
<1>3. lock' = <<"main", "outer">> => lost'
  BY <1>1 DEF CloseCore, CloseConnection, Free, Lingering, tableVars, OuterInv
<1>4. ~lost' => \A i \in batch["main"] : HasStored(disk, "main", i)
  BY <1>1, MainThread DEF CloseCore, Progresses, Progress, InProgress, Working
<1>5. QED BY <1>2, <1>3, <1>4 DEF OuterInv, Working

LEMMA UpdateDeviceOuter ==
    ASSUME IInv, OuterInv, UpdateDevice
    PROVE  OuterInv'
<1>1. /\ TypeOK /\ at["main"] = "device" /\ lock \in {Free, Connection("main")} /\ Place("main")
      /\ UNCHANGED tableVars /\ conn' = conn /\ lost' = lost
  BY MainThread DEF IInv, UpdateDevice, Accesses, histVars
<1>2. at'["main"] = "next"
  BY <1>1, Lookups, MainThread DEF UpdateDevice, Go
<1>3. PICK ifaces \in SUBSET Interfaces :
          /\ Stores("main", ifaces)
          /\ ifaces = batch["main"] \/ \E ms \in SUBSET DOMAIN db.rows : ifaces = {Object(m) : m \in ms}
  BY UpdateDeviceStores
<1>4. todo'["main"] = ifaces
  BY <1>1, <1>3, StoresShape, MainThread
<1>5. ASSUME ~lost PROVE \A i \in ifaces : HasStored(disk, "main", i)
  <2>1. conn["main"] = "outer" /\ lock = Free /\ db = disk
    BY <1>1, <1>5, OwnConnections DEF Place, OuterInv, Connection, IInv, Clean
  <2>2. CASE ifaces = batch["main"]
    BY <1>1, <1>5, <2>1, <2>2 DEF OuterInv
  <2>3. ASSUME NEW ms \in SUBSET DOMAIN db.rows, ifaces = {Object(m) : m \in ms}
        PROVE  \A i \in ifaces : HasStored(disk, "main", i)
    BY <2>1, <2>3 DEF HasStored, Object, ClassIn
  <2>4. QED BY <1>3, <2>2, <2>3
<1>6. QED BY <1>1, <1>2, <1>4, <1>5 DEF OuterInv, Working, tableVars

LEMMA MainElsewhere ==
    ASSUME IInv, OuterInv, Progresses, Elsewhere("main")
    PROVE  OuterInv'
<1>1. TypeOK /\ Place("main") /\ "main" \in Threads
  BY MainThread DEF IInv
<1>2. CASE NextInterface("main")
  <2>1. PICK i \in todo["main"] : /\ iface' = [iface EXCEPT !["main"] = i]
                                  /\ todo' = [todo EXCEPT !["main"] = @ \ {i}]
    BY <1>2 DEF NextInterface
  <2>2. /\ at["main"] = "next" /\ at'["main"] = "read" /\ UNCHANGED tableVars /\ conn' = conn
        /\ lost' = lost /\ iface'["main"] = i /\ todo'["main"] = todo["main"] \ {i}
    BY <1>1, <1>2, <2>1, Lookups, MainStores DEF NextInterface, Go, histVars
  <2>3. ~lost /\ conn["main"] = "outer" => OnlyReads'
    BY <2>2 DEF OuterInv, OnlyReads, Upgrading, tableVars
  <2>4. QED BY <2>2, <2>3 DEF OuterInv, Working, tableVars
<1>3. CASE Open("main")
  <2>1. /\ UNCHANGED tableVars /\ conn' = conn /\ lost' = lost
        /\ conn["main"] = "outer" => at'["main"] = "devices"
    BY <1>1, <1>3, Lookups DEF Open, Go, histVars
  <2>2. QED BY <2>1 DEF OuterInv, Working, tableVars
<1>4. CASE Close("main")
  <2>1. /\ at["main"] = "devices" /\ at'["main"] = "idle" /\ CloseConnection("main")
    BY <1>1, <1>4, Lookups DEF Close, Go
  <2>2. lock' # <<"main", "outer">>
    BY <1>1, <2>1 DEF Place, CloseConnection, Connection, Free, Lingering, tableVars
  <2>3. QED BY <2>1, <2>2 DEF OuterInv, Working
<1>5. CASE Start("main") \/ DeviceDone
  <2>1. at'["main"] \in {"opening", "devices"} /\ lock' = lock /\ lost' = lost
    BY <1>1, <1>5, Lookups DEF Start, DeviceDone, Go, tableVars, histVars
  <2>2. QED BY <2>1 DEF OuterInv, Working
<1>6. CASE UpdateInterfacesCore
  <2>1. conn'["main"] = "inner" /\ lock' = lock /\ lost' = lost
    BY <1>1, <1>6, Lookups DEF UpdateInterfacesCore, tableVars, histVars
  <2>2. QED BY <2>1 DEF OuterInv
<1>7. QED BY <1>2, <1>3, <1>4, <1>5, <1>6, CloseCoreOuter, UpdateDeviceOuter DEF Elsewhere

LEMMA OuterStep == IInv /\ Progresses /\ OuterInv /\ [Next]_vars => OuterInv'
<1> SUFFICES ASSUME IInv, Progresses, OuterInv, [Next]_vars PROVE OuterInv'
  OBVIOUS
<1>1. Kept
  BY NextKept
<1>2. ASSUME NEW t \in Threads, Elsewhere(t) PROVE OuterInv'
  BY <1>1, <1>2, OthersElsewhere, MainElsewhere
<1>3. CASE Collected
  <2>1. lock' = Free /\ Free # <<"main", "outer">>
    BY <1>3 DEF Collected, Free
  <2>2. QED BY <1>3, <2>1 DEF Collected, callVars, histVars, OuterInv, OnlyReads, HasStored
<1>4. CASE Dies
  <2>1. lock' = Free /\ Free # <<"main", "outer">> /\ at'["main"] = "idle"
    BY <1>4, MainThread DEF Dies, Free
  <2>2. QED BY <2>1 DEF OuterInv, Working
<1>5. CASE UNCHANGED vars
  BY <1>5 DEF vars, tableVars, callVars, histVars, OuterInv, OnlyReads, HasStored
<1>6. QED BY <1>1, <1>2, <1>3, <1>4, <1>5, StatementOuter, NextSteps

\* The main thread finds no transaction of its own open when it opens a connection inside
\* updateDevices, unless it has lost what it stored through one (open would never return).
THEOREM NeverStuckOnItself == Spec => []NotStuckOnItself
<1>1. Init => OuterInv
  BY MainThread DEF Init, OuterInv, Free, Working
<1>2. OuterInv => NotStuckOnItself
  BY DEF OuterInv, NotStuckOnItself
<1>3. QED BY <1>1, <1>2, OuterStep, ProgressInvariance, Invariance, PTL DEF Spec
=============================================================================
