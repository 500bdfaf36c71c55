------------------------- MODULE SnapshotStoreProofs -------------------------
(***************************************************************************)
(* That the tables keep snapshots apart although keys are used again, for  *)
(* any number of snapshots, dates, interfaces and deaths of the process.   *)
(*                                                                         *)
(* A header is followed from its insertion to its deletion: the key read   *)
(* back is its key (KeysHeld), it is there until it is deleted             *)
(* (HeadersThere), and the data under a key goes only with the header it   *)
(* was inserted for (DeleterKnows, EntriesKnown).                          *)
(***************************************************************************)
EXTENDS SnapshotStore, TLAPS

-----------------------------------------------------------------------------
(* The inductive invariant                                                 *)

\* The steps of a snapshot that has had a header, and of one with a key.
Done == {"headed", "keyed", "stored", "lost", "dead"}
Keyed == {"keyed", "stored", "lost"}

\* First and Last have something to choose, whatever is deleted.
Bounded(hs) ==
    \A gs \in SUBSET hs : gs # {} =>
        /\ \E h \in gs : \A g \in gs : h.key <= g.key
        /\ \E h \in gs : \A g \in gs : g.key <= h.key

\* A snapshot has the one date it was made with.
Dated == \A s \in Snapshots : Made(s) => \E d \in Dates : snapshot[s].date = {d}

\* Headers, of the table or a list that was read from it, are of snapshots that
\* have been given one, each one only.
HeadersKnown ==
    /\ \A h \in headers \union listed : step[h.of] \in Done /\ snapshot[h.of].date = {h.date}
    /\ \A g, h \in headers \union listed : g.of = h.of => g = h
KeysHeld ==
    \A h \in headers \union listed :
        step[h.of] \in Keyed /\ Undisturbed(h.of) => snapshotKey[h.of] = h.key
HeadersThere ==
    \A s \in Snapshots \ deleted :
        step[s] \in Done \ {"dead"} /\ Undisturbed(s) => \E h \in headers : h.of = s

\* What is deleted has no header again, nor was it still being stored.
DeletedKnown ==
    \A s \in deleted :
        /\ step[s] \in Done /\ \A h \in headers : h.of # s
        /\ s \in Storing => ~Undisturbed(s)

\* What is still to be deleted; a new header that gets one of its keys is of a
\* snapshot that met the deletion.
DeleterKnows ==
    /\ deleter = "idle" => listed \subseteq headers
    /\ deleter \in {"idle", "refresh"} <=> deleting = {}
    /\ deleter = "metadata" =>
           \A h \in deleting : h \in headers \/ ~Undisturbed(h.of)
    /\ deleter = "entries" =>
           /\ First(deleting).of \in deleted
           /\ \A h \in deleting : h = First(deleting) \/ h \in headers \/ ~Undisturbed(h.of)
    /\ \A h \in deleting, g \in headers : g.key = h.key => g = h \/ g.of \in disturbed

\* Data is inserted and deleted as a whole, and found under the snapshot's key.
Row(s, i) == [key |-> snapshotKey[s], MAC |-> i, of |-> s]
EntriesKnown ==
    /\ \A r \in entries :
           /\ step[r.of] = "stored" /\ r.MAC \in snapshot[r.of].ifaces /\ r.MAC \in interfaces
           /\ r.key = snapshotKey[r.of]
           /\ \A i \in snapshot[r.of].ifaces : Row(r.of, i) \in entries
    /\ \A s \in Snapshots \ deleted :
           step[s] = "stored" /\ Undisturbed(s) =>
               \A i \in snapshot[s].ifaces : Row(s, i) \in entries

\* What SnapshotDetails shows stays as it was read.
DetailsKnown ==
    /\ \A s \in details.of : Made(s)
    /\ DetailsAreWhole

\* The type invariant in parts; what is being inserted disturbs nothing else.
TablesTyped ==
    /\ headers \subseteq Headers /\ entries \subseteq Entries /\ interfaces \subseteq MACs
    /\ \A g, h \in headers : g.key = h.key => g = h
StoreTyped ==
    /\ step \in [Snapshots -> {"none", "made", "headed", "keyed", "stored", "lost", "dead"}]
    /\ snapshot \in [Snapshots -> [date: SUBSET Dates, ifaces: SUBSET MACs]]
    /\ snapshotKey \in [Snapshots -> Int]
ListTyped ==
    /\ screen \in {"other", "list", "opening", "reading", "details"}
    /\ listed \subseteq Headers /\ deleting \subseteq listed
    /\ deleter \in {"idle", "metadata", "entries", "refresh"}
    /\ deleter # "idle" => screen = "list"
DetailsTyped ==
    details \in [date: SUBSET Dates, key: Int, of: SUBSET Snapshots, rows: SUBSET Entries]
HistoryTyped == crashes \in 0..MaxCrashes /\ deleted \subseteq Snapshots /\ disturbed \subseteq Snapshots
InsertTyped ==
    /\ inserting \in [Snapshots -> SUBSET MACs]
    /\ met \subseteq Snapshots /\ lock \subseteq Snapshots
Typed == TablesTyped /\ StoreTyped /\ ListTyped /\ DetailsTyped /\ HistoryTyped

IInv ==
    /\ Typed /\ Dated /\ Bounded(headers) /\ Bounded(listed)
    /\ HeadersKnown /\ KeysHeld /\ HeadersThere /\ DeletedKnown /\ DeleterKnows
    /\ EntriesKnown /\ DeletedIsGone /\ DetailsKnown

-----------------------------------------------------------------------------
(* Types, keys and bounds                                                  *)

LEMMA TypeParts ==
    /\ Typed <=> TablesTyped /\ StoreTyped /\ ListTyped /\ DetailsTyped /\ HistoryTyped
    /\ Typed' <=> (TablesTyped /\ StoreTyped /\ ListTyped /\ DetailsTyped /\ HistoryTyped)'
  BY DEF Typed

LEMMA TypesTogether == Typed /\ InsertTyped => TypeOK
  BY DEF Typed, TypeOK, TablesTyped, StoreTyped, ListTyped, DetailsTyped, HistoryTyped, InsertTyped

LEMMA HeaderFields ==
    ASSUME NEW h \in Headers
    PROVE  h.key \in Nat /\ h.date \in Dates /\ h.of \in Snapshots
  BY DEF Headers

LEMMA EntryFields ==
    ASSUME NEW r \in Entries
    PROVE  /\ r.key \in Int /\ r.MAC \in MACs /\ r.of \in Snapshots
           /\ r = [key |-> r.key, MAC |-> r.MAC, of |-> r.of]
  BY DEF Entries

LEMMA RowFields ==
    ASSUME StoreTyped, NEW s \in Snapshots, NEW i \in MACs
    PROVE  Row(s, i) \in Entries /\ Row(s, i).key = snapshotKey[s] /\ Row(s, i).MAC = i /\ Row(s, i).of = s
  BY DEF StoreTyped, Row, Entries

\* What is chosen first.
LEMMA FirstChosen ==
    ASSUME NEW hs, Bounded(hs), NEW gs \in SUBSET hs, gs # {}
    PROVE  First(gs) \in gs /\ \A g \in gs : First(gs).key <= g.key
<1>1. \E h \in gs : \A g \in gs : h.key <= g.key
  BY DEF Bounded
<1> QED
  BY <1>1 DEF First

\* The next key is larger than all there are.
LEMMA NextKeyFresh ==
    ASSUME headers \subseteq Headers, Bounded(headers)
    PROVE  NextKey \in Nat /\ \A h \in headers : h.key < NextKey
<1>1. CASE headers = {}
  BY <1>1 DEF NextKey
<1>2. CASE headers # {}
  <2>1. \E h \in headers : \A g \in headers : g.key <= h.key
    BY <1>2 DEF Bounded
  <2>2. Last(headers) \in headers /\ \A g \in headers : g.key <= Last(headers).key
    BY <2>1 DEF Last
  <2>3. NextKey = Last(headers).key + 1
    BY <1>2 DEF NextKey
  <2>4. \A h \in headers : h.key \in Nat
    BY HeaderFields
  <2> QED
    BY <2>2, <2>3, <2>4
<1> QED
  BY <1>1, <1>2

LEMMA BoundedAdd ==
    ASSUME NEW hs \in SUBSET Headers, Bounded(hs), NEW new \in Headers,
           \A h \in hs : h.key < new.key
    PROVE  Bounded(hs \union {new})
<1> SUFFICES ASSUME NEW gs \in SUBSET (hs \union {new}), gs # {}
             PROVE  /\ \E h \in gs : \A g \in gs : h.key <= g.key
                    /\ \E h \in gs : \A g \in gs : g.key <= h.key
  BY DEF Bounded
<1> DEFINE old == gs \ {new}
<1>1. old \in SUBSET hs /\ \A g \in gs : g \in old \/ g = new
  OBVIOUS
<1>2. new.key \in Nat /\ \A h \in hs : h.key \in Nat /\ h.key < new.key
  BY HeaderFields
<1> HIDE DEF old
<1>3. CASE old = {}
  <2>1. \A g \in gs : g = new
    BY <1>1, <1>3
  <2> QED
    BY <1>2, <2>1
<1>4. CASE old # {}
  <2>1. PICK h \in old : \A g \in old : h.key <= g.key
    BY <1>1, <1>4 DEF Bounded
  <2>2. PICK k \in old : \A g \in old : g.key <= k.key
    BY <1>1, <1>4 DEF Bounded
  <2>3. old \subseteq gs
    BY DEF old
  <2>4. \A g \in gs : h.key <= g.key
    BY <1>1, <1>2, <2>1
  <2>5. CASE new \in gs
    BY <1>1, <1>2, <2>3, <2>4, <2>5
  <2>6. CASE new \notin gs
    BY <1>1, <2>2, <2>3, <2>4, <2>6
  <2> QED
    BY <2>5, <2>6
<1> QED
  BY <1>3, <1>4

LEMMA BoundedLess ==
    ASSUME NEW hs, Bounded(hs), NEW gs \in SUBSET hs
    PROVE  Bounded(gs)
  BY DEF Bounded

LEMMA BoundedNone == Bounded({})
  BY DEF Bounded

\* Nothing undoes a disturbance: dates stay, and the history only grows.
LEMMA StillUndisturbed ==
    ASSUME \A t \in Snapshots : Made(t) => Made(t)' /\ snapshot'[t] = snapshot[t],
           disturbed \subseteq disturbed', NEW s \in Snapshots, Made(s), Undisturbed(s)'
    PROVE  Undisturbed(s)
  BY DEF Undisturbed

\* Two snapshots of one date disturb each other.
LEMMA SameDate ==
    ASSUME NEW s \in Snapshots, NEW t \in Snapshots, Made(t), Undisturbed(s),
           snapshot[t].date = snapshot[s].date
    PROVE  t = s
  BY DEF Undisturbed

-----------------------------------------------------------------------------
(* The screens                                                             *)

\* Steps of the screens leave the tables and what is stored alone.
LEMMA TablesStay ==
    ASSUME IInv, UNCHANGED <<tableVars, storeVars, ghostVars>>, listed' \in {headers, listed, {}}
    PROVE  /\ (Dated /\ HeadersKnown /\ KeysHeld /\ HeadersThere /\ DeletedKnown /\ EntriesKnown)'
           /\ Bounded(headers)' /\ Bounded(listed)'
           /\ TablesTyped' /\ StoreTyped' /\ listed' \subseteq Headers
<1>1. UNCHANGED <<headers, entries, interfaces, step, snapshot, snapshotKey, deleted, disturbed>>
  BY DEF tableVars, storeVars, ghostVars
<1>2. TablesTyped' /\ StoreTyped' /\ listed' \subseteq Headers
  BY <1>1, TypeParts DEF IInv, TablesTyped, StoreTyped, ListTyped
<1>3. Dated' /\ HeadersThere' /\ DeletedKnown'
  BY <1>1 DEF IInv, Dated, HeadersThere, DeletedKnown, Made, Undisturbed, Storing
<1>4. EntriesKnown'
  BY <1>1 DEF IInv, EntriesKnown, Row, Undisturbed, Made
<1>5. listed' \subseteq headers \union listed
  OBVIOUS
<1>6. HeadersKnown' /\ KeysHeld'
  BY <1>1, <1>5 DEF IInv, HeadersKnown, KeysHeld, Undisturbed, Made
<1>7. Bounded(headers)' /\ Bounded(listed)'
  BY <1>1, BoundedNone DEF IInv, Bounded
<1> QED
  BY <1>2, <1>3, <1>4, <1>6, <1>7

\* What is known of deleted snapshots and of details, when the tables stay.
LEMMA GoneStays ==
    ASSUME IInv, UNCHANGED <<tableVars, storeVars, ghostVars>>,
           \A s \in Snapshots : HalfDeleted(s) => HalfDeleted(s)'
    PROVE  DeletedIsGone'
<1>1. UNCHANGED <<headers, entries, step, snapshot, deleted, disturbed>> /\ deleted \subseteq Snapshots
  BY TypeParts DEF tableVars, storeVars, ghostVars, IInv, HistoryTyped
<1> QED
  BY <1>1 DEF IInv, DeletedIsGone, Undisturbed, Made

LEMMA DetailsStay ==
    ASSUME IInv, UNCHANGED <<tableVars, storeVars, ghostVars, details>>,
           screen' = screen \/ screen' \notin {"opening", "details"}
    PROVE  DetailsKnown' /\ DetailsTyped'
<1>1. UNCHANGED <<headers, interfaces, step, snapshot>>
  BY DEF tableVars, storeVars
<1>2. DetailsTyped'
  BY TypeParts DEF IInv, DetailsTyped
<1> QED
  BY <1>1, <1>2 DEF IInv, DetailsKnown, DetailsAreWhole, Made, OfDate

LEMMA NoDetailsKnown ==
    /\ NoDetails \in [date: SUBSET Dates, key: Int, of: SUBSET Snapshots, rows: SUBSET Entries]
    /\ NoDetails.of = {} /\ NoDetails.rows = {}
  BY DEF NoDetails

\* The list, and the clicks on it.
LEMMA ListStep ==
    ASSUME IInv, \/ OpenList \/ CloseList \/ RefreshList
                 \/ \E hs \in SUBSET listed : ClickedDelete(hs)
    PROVE  IInv'
<1>1. /\ UNCHANGED <<tableVars, storeVars, ghostVars, crashes>> /\ UNCHANGED ghostVars
      /\ listed' \in {headers, listed, {}}
  BY DEF OpenList, CloseList, RefreshList, ClickedDelete
<1>2. UNCHANGED <<headers, disturbed, deleted, step, snapshot>>
  BY <1>1 DEF tableVars, ghostVars, storeVars
<1>3. ListTyped /\ DeleterKnows /\ headers \subseteq Headers /\ HistoryTyped
  BY TypeParts DEF IInv, TablesTyped
<1>4. HistoryTyped'
  BY <1>1, <1>2, <1>3 DEF HistoryTyped
<1>5. \A h \in headers, g \in headers : g.key = h.key => g = h
  BY TypeParts DEF IInv, TablesTyped
<1>6. (deleter' # "entries" /\ deleter # "entries") \/ UNCHANGED <<deleter, deleting>>
  BY DEF OpenList, CloseList, RefreshList, ClickedDelete
<1>7. DeletedIsGone'
  BY <1>1, <1>6, GoneStays DEF HalfDeleted
<1>8. CASE OpenList
  <2>1. /\ deleter = "idle" /\ deleting = {} /\ screen' = "list" /\ listed' = headers
        /\ UNCHANGED <<deleting, deleter>> /\ details' = NoDetails
    BY <1>3, <1>8 DEF OpenList, ListTyped, DeleterKnows
  <2>2. ListTyped' /\ DeleterKnows'
    BY <1>2, <1>3, <2>1 DEF ListTyped, DeleterKnows
  <2>3. DetailsTyped' /\ DetailsKnown'
    BY <2>1, NoDetailsKnown DEF DetailsTyped, DetailsKnown, DetailsAreWhole
  <2> QED
    BY <1>1, <1>4, <1>7, <2>2, <2>3, TablesStay, TypeParts DEF IInv
<1>9. CASE CloseList
  <2>1. /\ deleter = "idle" /\ deleting = {} /\ screen' = "other" /\ listed' = {}
        /\ UNCHANGED <<deleting, deleter, details>>
    BY <1>3, <1>9 DEF CloseList, ListTyped, DeleterKnows
  <2>2. ListTyped' /\ DeleterKnows'
    BY <1>2, <1>3, <2>1 DEF ListTyped, DeleterKnows
  <2>3. DetailsTyped' /\ DetailsKnown'
    BY <1>1, <2>1, DetailsStay
  <2> QED
    BY <1>1, <1>4, <1>7, <2>2, <2>3, TablesStay, TypeParts DEF IInv
<1>10. CASE RefreshList
  <2>1. /\ deleter' = "idle" /\ deleting' = {} /\ listed' = headers
        /\ UNCHANGED <<screen, details>>
    BY <1>3, <1>10 DEF RefreshList, DeleterKnows
  <2>2. ListTyped' /\ DeleterKnows'
    BY <1>2, <1>3, <2>1 DEF ListTyped, DeleterKnows
  <2>3. DetailsTyped' /\ DetailsKnown'
    BY <1>1, <2>1, DetailsStay
  <2> QED
    BY <1>1, <1>4, <1>7, <2>2, <2>3, TablesStay, TypeParts DEF IInv
<1>11. CASE \E hs \in SUBSET listed : ClickedDelete(hs)
  <2>1. PICK hs \in SUBSET listed : ClickedDelete(hs)
    BY <1>11
  <2>2. /\ screen = "list" /\ deleter' = "metadata" /\ deleting' = hs /\ hs # {}
        /\ hs \subseteq headers /\ UNCHANGED <<screen, listed, details>>
    BY <1>3, <2>1 DEF ClickedDelete, DeleterKnows
  <2>3. ListTyped' /\ DeleterKnows'
    BY <1>2, <1>3, <1>5, <2>2 DEF ListTyped, DeleterKnows
  <2>4. DetailsTyped' /\ DetailsKnown'
    BY <1>1, <2>2, DetailsStay
  <2> QED
    BY <1>1, <1>4, <1>7, <2>3, <2>4, TablesStay, TypeParts DEF IInv
<1> QED
  BY <1>8, <1>9, <1>10, <1>11

\* SnapshotDetails reads while nothing is deleted.
LEMMA DetailsStep ==
    ASSUME IInv, DetailsNext
    PROVE  IInv'
<1>1. /\ UNCHANGED <<tableVars, storeVars, ghostVars, crashes, deleting, deleter>>
      /\ listed' \in {headers, listed, {}}
  BY DEF DetailsNext, ClickedDate, ReadHeader, ReadEntries
<1>2. UNCHANGED <<headers, entries, interfaces, disturbed, deleted, step, snapshot, snapshotKey>>
  BY <1>1 DEF tableVars, ghostVars, storeVars
<1>3. /\ ListTyped /\ DeleterKnows /\ headers \subseteq Headers /\ entries \subseteq Entries
      /\ HistoryTyped /\ DetailsTyped
  BY TypeParts DEF IInv, TablesTyped
<1>4. deleter = "idle" /\ deleting = {} /\ listed' \subseteq listed
  BY <1>3 DEF DetailsNext, ClickedDate, ReadHeader, ReadEntries, ListTyped, DeleterKnows
<1>5. HistoryTyped' /\ DeleterKnows' /\ DeletedIsGone'
  <2>1. HistoryTyped'
    BY <1>1, <1>2, <1>3 DEF HistoryTyped
  <2>2. DeleterKnows'
    BY <1>1, <1>2, <1>3, <1>4 DEF DeleterKnows
  <2>3. DeletedIsGone'
    BY <1>1, GoneStays DEF HalfDeleted
  <2> QED
    BY <2>1, <2>2, <2>3
<1>6. SUFFICES screen' \in {"opening", "reading", "details"} /\ DetailsTyped' /\ DetailsKnown'
  <2>1. ListTyped'
    BY <1>1, <1>3, <1>4, <1>6, TablesStay DEF ListTyped
  <2> QED
    BY <1>1, <1>5, <1>6, <2>1, TablesStay, TypeParts DEF IInv
<1>7. CASE \E h \in listed : ClickedDate(h)
  <2>1. PICK h \in listed : ClickedDate(h)
    BY <1>7
  <2>2. h \in headers /\ h.date \in Dates
    BY <1>3, <1>4, HeaderFields DEF DeleterKnows
  <2>3. /\ screen' = "opening" /\ details' = [NoDetails EXCEPT !.date = {h.date}]
    BY <2>1 DEF ClickedDate
  <2>4. DetailsTyped' /\ details'.date = {h.date} /\ details'.of = {} /\ details'.rows = {}
    BY <2>2, <2>3, NoDetailsKnown DEF DetailsTyped
  <2>5. DetailsKnown'
    BY <1>2, <2>2, <2>3, <2>4 DEF DetailsKnown, DetailsAreWhole, OfDate
  <2> QED
    BY <2>3, <2>4, <2>5
<1>8. CASE ReadHeader
  <2> DEFINE h == First(OfDate(details.date))
  <2>1. /\ screen' = "reading" /\ OfDate(details.date) # {}
        /\ details' = [details EXCEPT !.key = h.key, !.of = {h.of}]
    BY <1>8 DEF ReadHeader
  <2>2. h \in headers
    BY <2>1, FirstChosen DEF IInv, OfDate
  <2> HIDE DEF h
  <2>3. h.key \in Int /\ h.of \in Snapshots /\ step[h.of] \in Done
    BY <1>3, <2>2, HeaderFields DEF IInv, HeadersKnown
  <2>4. DetailsTyped' /\ details'.of = {h.of} /\ details'.rows = details.rows
    BY <1>3, <2>1, <2>3 DEF DetailsTyped
  <2>5. DetailsKnown'
    BY <1>2, <2>1, <2>3, <2>4 DEF IInv, DetailsKnown, DetailsAreWhole, Made, Done
  <2> QED
    BY <2>1, <2>4, <2>5
<1>9. CASE ReadEntries
  <2>1. /\ screen' = "details" /\ details' = [details EXCEPT !.rows = EntriesOf(details.key)]
    BY <1>9 DEF ReadEntries
  <2>2. /\ DetailsTyped' /\ details'.of = details.of
        /\ details'.rows = {r \in entries : r.key = details.key}
    BY <1>3, <2>1 DEF DetailsTyped, EntriesOf
  <2>3. ASSUME NEW s \in details.of
        PROVE  {r.MAC : r \in {r \in details'.rows : r.of = s}} \in {{}, snapshot[s].ifaces}
    <3> DEFINE own == {r \in details'.rows : r.of = s}
               own_macs == {r.MAC : r \in own}
    <3>1. s \in Snapshots /\ StoreTyped /\ snapshot[s].ifaces \subseteq MACs
      BY <1>3, TypeParts DEF DetailsTyped, IInv, StoreTyped
    <3>2. \A r \in own : /\ r \in entries /\ r.of = s /\ r.key = details.key
                         /\ r.MAC \in snapshot[s].ifaces /\ snapshotKey[s] = details.key
                         /\ \A i \in snapshot[s].ifaces : Row(s, i) \in entries
      BY <2>2 DEF IInv, EntriesKnown
    <3>3. CASE own = {}
      BY <3>3
    <3>4. CASE own # {}
      <4>1. own_macs \subseteq snapshot[s].ifaces
        BY <3>2
      <4>2. ASSUME NEW i \in snapshot[s].ifaces PROVE i \in own_macs
        <5>1. /\ Row(s, i) \in entries /\ snapshotKey[s] = details.key
              /\ Row(s, i).of = s /\ Row(s, i).key = snapshotKey[s] /\ Row(s, i).MAC = i
          BY <3>1, <3>2, <3>4, RowFields
        <5>2. Row(s, i) \in own
          BY <2>2, <5>1
        <5> QED
          BY <5>1, <5>2
      <4> QED
        BY <4>1, <4>2
    <3> QED
      BY <3>3, <3>4
  <2>4. \A r \in details'.rows : r.MAC \in interfaces
    BY <2>2 DEF IInv, EntriesKnown
  <2>5. \A s \in details.of : Made(s)'
    BY <1>2 DEF IInv, DetailsKnown, Made
  <2>6. DetailsKnown'
    BY <1>2, <2>1, <2>2, <2>3, <2>4, <2>5 DEF DetailsKnown, DetailsAreWhole
  <2> QED
    BY <2>1, <2>2, <2>6
<1> QED
  BY <1>7, <1>8, <1>9 DEF DetailsNext

-----------------------------------------------------------------------------
(* Deleting, and the death of the process                                  *)

LEMMA DeleteMetadataStep ==
    ASSUME IInv, DeleteMetadata
    PROVE  IInv'
<1> DEFINE h == First(deleting)
<1>1. /\ deleter = "metadata" /\ deleter' = "entries"
      /\ headers' = headers \ OfDate({h.date}) /\ deleted' = deleted \union {h.of}
      /\ disturbed' = disturbed \union {s \in Storing : \E g \in OfDate({h.date}) : g.of = s}
      /\ UNCHANGED <<entries, interfaces, step, snapshot, snapshotKey>>
      /\ UNCHANGED <<screen, listed, deleting, details, crashes>>
  BY DEF DeleteMetadata, storeVars
<1>2. /\ TablesTyped /\ StoreTyped /\ ListTyped /\ DetailsTyped /\ HistoryTyped
      /\ Dated /\ HeadersKnown /\ KeysHeld /\ HeadersThere /\ DeletedKnown /\ DeleterKnows
      /\ EntriesKnown /\ DeletedIsGone /\ DetailsKnown /\ Bounded(headers) /\ Bounded(listed)
  BY TypeParts DEF IInv
<1>3. h \in deleting /\ h \in listed /\ h \in Headers /\ h.of \in Snapshots
  <2>1. deleting # {} /\ deleting \subseteq listed /\ listed \subseteq Headers
    BY <1>1, <1>2 DEF DeleterKnows, ListTyped
  <2> QED
    BY <1>2, <2>1, FirstChosen, HeaderFields
<1> HIDE DEF h
<1>4. /\ step[h.of] \in Done /\ snapshot[h.of].date = {h.date}
      /\ \A g \in headers : g.of \in Snapshots /\ step[g.of] \in Done /\ snapshot[g.of].date = {g.date}
      /\ \A g \in headers \union listed : g.of = h.of => g = h
  BY <1>2, <1>3, HeaderFields DEF HeadersKnown, TablesTyped
<1>5. /\ headers' \subseteq headers /\ \A g \in headers : g \in headers' <=> g.date # h.date
      /\ disturbed \subseteq disturbed'
  BY <1>1 DEF OfDate
<1>6. \A s \in Snapshots : Made(s) /\ Undisturbed(s)' => Undisturbed(s)
  BY <1>1, <1>5, StillUndisturbed DEF Made
<1>7. \A s \in Snapshots : step[s] \in Done => Made(s)
  BY DEF Done, Made
<1>8. (TablesTyped /\ StoreTyped /\ ListTyped /\ DetailsTyped /\ HistoryTyped)'
  <2>1. TablesTyped' /\ StoreTyped' /\ DetailsTyped'
    BY <1>1, <1>2, <1>5 DEF TablesTyped, StoreTyped, DetailsTyped
  <2>2. ListTyped' /\ HistoryTyped'
    BY <1>1, <1>2, <1>3 DEF ListTyped, HistoryTyped, Storing
  <2> QED
    BY <2>1, <2>2
<1>9. Bounded(headers)' /\ Bounded(listed)' /\ Dated' /\ HeadersKnown'
  <2>1. Bounded(headers)' /\ Bounded(listed)'
    BY <1>1, <1>2, <1>5 DEF Bounded
  <2> QED
    BY <1>1, <1>2, <1>5, <2>1 DEF Dated, Made, HeadersKnown
<1>10. KeysHeld'
  <2>1. \A g \in headers \union listed : g.of \in Snapshots /\ step[g.of] \in Done
    BY <1>2, HeaderFields DEF HeadersKnown, TablesTyped, ListTyped
  <2> QED
    BY <1>1, <1>2, <1>5, <1>6, <1>7, <2>1 DEF KeysHeld
<1>11. HeadersThere'
  <2> SUFFICES ASSUME NEW s \in Snapshots \ deleted', step'[s] \in Done \ {"dead"}, Undisturbed(s)'
               PROVE  \E g \in headers' : g.of = s
    BY DEF HeadersThere
  <2>1. s \notin deleted /\ s # h.of /\ Undisturbed(s)
    BY <1>1, <1>6, <1>7
  <2>2. PICK g \in headers : g.of = s
    BY <1>1, <1>2, <2>1 DEF HeadersThere
  <2>3. g.date # h.date
    BY <1>3, <1>4, <1>7, <2>1, <2>2, SameDate
  <2> QED
    BY <1>5, <2>2, <2>3
<1>12. DeletedKnown'
  <2> SUFFICES ASSUME NEW s \in deleted'
               PROVE  /\ step'[s] \in Done /\ \A g \in headers' : g.of # s
                      /\ s \in Storing' => ~Undisturbed(s)'
    BY DEF DeletedKnown
  <2>1. CASE s \in deleted
    <3>1. s \in Snapshots /\ Made(s)
      BY <1>2, <1>7, <2>1 DEF DeletedKnown, HistoryTyped
    <3> QED
      BY <1>1, <1>2, <1>5, <1>6, <2>1, <3>1 DEF DeletedKnown, Storing
  <2>2. CASE s = h.of
    <3>1. \A g \in headers' : g.of # s
      BY <1>4, <1>5, <2>2
    <3>2. ASSUME s \in Storing', Undisturbed(s)' PROVE FALSE
      <4>1. Undisturbed(s) /\ h \in headers
        BY <1>1, <1>2, <1>3, <1>4, <1>6, <1>7, <2>2, <3>2 DEF DeleterKnows
      <4>2. s \in disturbed'
        BY <1>1, <1>3, <2>2, <3>2, <4>1 DEF Storing, OfDate
      <4> QED
        BY <3>2, <4>2 DEF Undisturbed
    <3> QED
      BY <1>1, <1>4, <2>2, <3>1, <3>2
  <2> QED
    BY <1>1, <2>1, <2>2
<1>13. DeleterKnows'
  <2>1. First(deleting') = h /\ h.of \in deleted'
    BY <1>1 DEF h
  <2>2. ASSUME NEW g \in deleting, g # h, g \notin headers' PROVE ~Undisturbed(g.of)'
    <3>1. g \in listed /\ g.of \in Snapshots /\ step[g.of] \in Done /\ snapshot[g.of].date = {g.date}
      BY <1>2, HeaderFields DEF ListTyped, HeadersKnown
    <3>2. CASE g \in headers
      <4>1. g.date = h.date /\ g.of # h.of
        BY <1>4, <1>5, <2>2, <3>2
      <4>2. ~Undisturbed(g.of)
        BY <1>3, <1>4, <1>7, <3>1, <4>1, SameDate
      <4> QED
        BY <1>6, <1>7, <3>1, <4>2
    <3>3. CASE g \notin headers
      BY <1>1, <1>2, <1>6, <1>7, <3>1, <3>3 DEF DeleterKnows
    <3> QED
      BY <3>2, <3>3
  <2>3. \A k \in deleting', g \in headers' : g.key = k.key => g = k \/ g.of \in disturbed'
    BY <1>1, <1>2, <1>5 DEF DeleterKnows
  <2>4. deleting' # {}
    BY <1>1, <1>3
  <2> QED
    BY <1>1, <2>1, <2>2, <2>3, <2>4 DEF DeleterKnows
<1>14. EntriesKnown'
  <2>1. \A s \in Snapshots : step[s] = "stored" => Made(s)
    BY DEF Made
  <2> QED
    BY <1>1, <1>2, <1>6, <2>1 DEF EntriesKnown, Row
<1>15. DeletedIsGone'
  <2> SUFFICES ASSUME NEW s \in deleted', Undisturbed(s)', ~HalfDeleted(s)'
               PROVE  \A r \in entries' : r.of # s
    BY <1>12 DEF DeletedIsGone, DeletedKnown
  <2>1. s # h.of
    BY <1>1 DEF HalfDeleted, h
  <2>2. s \in deleted /\ s \in Snapshots /\ Made(s) /\ ~HalfDeleted(s)
    BY <1>1, <1>2, <1>7, <2>1 DEF DeletedKnown, HistoryTyped, HalfDeleted
  <2> QED
    BY <1>1, <1>2, <1>6, <2>2 DEF DeletedIsGone
<1>16. DetailsKnown'
  BY <1>1, <1>2 DEF DetailsKnown, DetailsAreWhole, Made, ListTyped
<1> QED
  BY <1>8, <1>9, <1>10, <1>11, <1>12, <1>13, <1>14, <1>15, <1>16, TypeParts DEF IInv

LEMMA DeleteEntriesStep ==
    ASSUME IInv, DeleteEntries
    PROVE  IInv'
<1> DEFINE h == First(deleting)
<1>1. /\ deleter = "entries" /\ entries' = entries \ EntriesOf(h.key) /\ deleting' = deleting \ {h}
      /\ deleter' = IF deleting' = {} THEN "refresh" ELSE "metadata"
      /\ UNCHANGED <<headers, interfaces, step, snapshot, snapshotKey, deleted, disturbed>>
      /\ UNCHANGED <<screen, listed, details, crashes>>
  BY DEF DeleteEntries, storeVars, ghostVars
<1>2. /\ TablesTyped /\ StoreTyped /\ ListTyped /\ DetailsTyped /\ HistoryTyped
      /\ Dated /\ HeadersKnown /\ KeysHeld /\ HeadersThere /\ DeletedKnown /\ DeleterKnows
      /\ EntriesKnown /\ DeletedIsGone /\ DetailsKnown /\ Bounded(headers) /\ Bounded(listed)
  BY TypeParts DEF IInv
<1>3. h \in deleting /\ h \in listed /\ h.of \in deleted
  <2>1. deleting # {} /\ deleting \subseteq listed
    BY <1>1, <1>2 DEF DeleterKnows, ListTyped
  <2> QED
    BY <1>1, <1>2, <2>1, FirstChosen DEF DeleterKnows
<1> HIDE DEF h
<1>4. \A r : r \in entries' <=> r \in entries /\ r.key # h.key
  BY <1>1 DEF EntriesOf
<1>5. (TablesTyped /\ StoreTyped /\ ListTyped /\ DetailsTyped /\ HistoryTyped)'
  <2>1. TablesTyped' /\ StoreTyped' /\ DetailsTyped' /\ HistoryTyped'
    BY <1>1, <1>2 DEF TablesTyped, StoreTyped, DetailsTyped, HistoryTyped
  <2>2. ListTyped'
    BY <1>1, <1>2 DEF ListTyped
  <2> QED
    BY <2>1, <2>2
<1>6. (Dated /\ HeadersKnown /\ KeysHeld /\ HeadersThere /\ DeletedKnown)'
  BY <1>1, <1>2
     DEF Dated, HeadersKnown, KeysHeld, HeadersThere, DeletedKnown, Made, Undisturbed, Storing
<1>7. Bounded(headers)' /\ Bounded(listed)'
  BY <1>1, <1>2 DEF Bounded
<1>8. DeleterKnows'
  <2>1. \A g \in deleting' : g \in deleting /\ g # h
    BY <1>1
  <2>2. deleting' # {} => \A g \in deleting' : g \in headers' \/ ~Undisturbed(g.of)'
    BY <1>1, <1>2, <2>1 DEF DeleterKnows, Undisturbed, Made, h
  <2> QED
    BY <1>1, <1>2, <2>1, <2>2 DEF DeleterKnows
<1>9. EntriesKnown'
  <2>1. ASSUME NEW r \in entries' PROVE \A i \in snapshot[r.of].ifaces : Row(r.of, i) \in entries'
    <3> SUFFICES ASSUME NEW i \in snapshot[r.of].ifaces PROVE Row(r.of, i) \in entries'
      OBVIOUS
    <3>1. r \in entries /\ r.key # h.key /\ r.of \in Snapshots
      BY <1>2, <1>4, EntryFields DEF TablesTyped
    <3>2. i \in MACs /\ Row(r.of, i) \in entries /\ snapshotKey[r.of] = r.key
      BY <1>2, <3>1 DEF EntriesKnown, StoreTyped
    <3> QED
      BY <1>2, <1>4, <3>1, <3>2, RowFields
  <2>2. ASSUME NEW s \in Snapshots \ deleted, step[s] = "stored", Undisturbed(s),
               NEW i \in snapshot[s].ifaces
        PROVE  Row(s, i) \in entries'
    <3>1. PICK g \in headers : g.of = s
      BY <1>2, <2>2 DEF HeadersThere, Done
    <3>2. snapshotKey[s] = g.key
      BY <1>2, <2>2, <3>1 DEF KeysHeld, Keyed
    <3>3. g.key # h.key
      <4>1. s \notin disturbed /\ g # h
        BY <1>3, <2>2, <3>1 DEF Undisturbed
      <4> QED
        BY <1>2, <1>3, <3>1, <4>1 DEF DeleterKnows
    <3>4. i \in MACs /\ Row(s, i) \in entries
      BY <1>2, <2>2 DEF EntriesKnown, StoreTyped
    <3> QED
      BY <1>2, <1>4, <3>2, <3>3, <3>4, RowFields
  <2>3. \A s, i : Row(s, i)' = Row(s, i)
    BY <1>1 DEF Row
  <2>4. \A s \in Snapshots : Undisturbed(s)' = Undisturbed(s)
    BY <1>1 DEF Undisturbed, Made
  <2> QED
    BY <1>1, <1>2, <1>4, <2>1, <2>2, <2>3, <2>4 DEF EntriesKnown
<1>10. DeletedIsGone'
  <2> SUFFICES ASSUME NEW s \in deleted, Undisturbed(s), NEW r \in entries', r.of = s PROVE FALSE
    BY <1>1, <1>6 DEF DeletedIsGone, DeletedKnown, Undisturbed, Made
  <2>1. r \in entries /\ r.key # h.key
    BY <1>4
  <2>2. HalfDeleted(s)
    BY <1>2, <2>1 DEF DeletedIsGone
  <2>3. h.of = s
    BY <2>2 DEF HalfDeleted, h
  <2>4. step[s] = "stored" /\ r.key = snapshotKey[s]
    BY <1>2, <2>1 DEF EntriesKnown
  <2>5. snapshotKey[s] = h.key
    BY <1>2, <1>3, <2>3, <2>4 DEF KeysHeld, Keyed
  <2> QED
    BY <2>1, <2>4, <2>5
<1>11. DetailsKnown'
  BY <1>1, <1>2 DEF DetailsKnown, DetailsAreWhole, Made, ListTyped
<1> QED
  BY <1>5, <1>6, <1>7, <1>8, <1>9, <1>10, <1>11, TypeParts DEF IInv

LEMMA CrashStep ==
    ASSUME IInv, Crash
    PROVE  IInv'
<1>1. /\ step' = [s \in Snapshots |-> IF step[s] = "made" \/ s \in Storing THEN "dead" ELSE step[s]]
      /\ screen' = "other" /\ listed' = {} /\ deleting' = {} /\ deleter' = "idle"
      /\ details' = NoDetails /\ crashes < MaxCrashes /\ crashes' = crashes + 1
      /\ disturbed' = IF deleter = "entries" THEN disturbed \union {First(deleting).of} ELSE disturbed
      /\ UNCHANGED <<headers, entries, interfaces, snapshot, snapshotKey, deleted>>
  BY DEF Crash, tableVars
<1>2. /\ TablesTyped /\ StoreTyped /\ ListTyped /\ DetailsTyped /\ HistoryTyped
      /\ Dated /\ HeadersKnown /\ KeysHeld /\ HeadersThere /\ DeletedKnown /\ DeleterKnows
      /\ EntriesKnown /\ DeletedIsGone /\ DetailsKnown /\ Bounded(headers) /\ Bounded(listed)
  BY TypeParts DEF IInv
<1>3. /\ \A s \in Snapshots : step'[s] \in {"none", "stored", "lost", "dead"}
      /\ \A s \in Snapshots : step'[s] \in {"none", "stored", "lost"} => step'[s] = step[s]
      /\ \A s \in Snapshots : step[s] \in Done => step'[s] \in Done
      /\ \A s \in Snapshots : step[s] = "stored" => step'[s] = "stored"
  BY <1>1, <1>2 DEF StoreTyped, Storing, Done
<1>4. disturbed \subseteq disturbed' /\ disturbed' \subseteq Snapshots
  <2>1. deleter = "entries" => First(deleting).of \in Snapshots
    BY <1>2 DEF DeleterKnows, HistoryTyped
  <2> QED
    BY <1>1, <1>2, <2>1 DEF HistoryTyped
<1>5. \A s \in Snapshots : Made(s)' /\ Undisturbed(s)' => Undisturbed(s)
  <2>1. \A t \in Snapshots : Made(t)' <=> Made(t)
    BY <1>1, <1>3, <1>2 DEF Made, StoreTyped, Storing
  <2> QED
    BY <1>1, <1>4, <2>1, StillUndisturbed
<1>6. (TablesTyped /\ StoreTyped /\ ListTyped /\ DetailsTyped /\ HistoryTyped)'
  <2>1. TablesTyped' /\ StoreTyped' /\ ListTyped'
    BY <1>1, <1>2, <1>3 DEF TablesTyped, StoreTyped, ListTyped
  <2>2. DetailsTyped' /\ HistoryTyped'
    BY <1>1, <1>2, <1>4, NoDetailsKnown, BoundAssumption DEF DetailsTyped, HistoryTyped
  <2> QED
    BY <2>1, <2>2
<1>7. Bounded(headers)' /\ Bounded(listed)' /\ DetailsKnown'
  BY <1>1, <1>2, NoDetailsKnown, BoundedNone DEF Bounded, DetailsKnown, DetailsAreWhole
<1>8. \A h \in headers : h.of \in Snapshots
  BY <1>2, HeaderFields DEF TablesTyped
<1>9. Dated' /\ HeadersKnown' /\ DeleterKnows'
  BY <1>1, <1>2, <1>3, <1>8 DEF Dated, Made, HeadersKnown, DeleterKnows, StoreTyped, Storing
<1>10. \A s \in Snapshots : step'[s] # "none" => Made(s)'
  BY DEF Made
<1>11. KeysHeld' /\ HeadersThere'
  <2>1. \A s \in Snapshots : step'[s] \in Keyed \union (Done \ {"dead"}) =>
            step[s] \in {"stored", "lost"} /\ step'[s] = step[s] /\ Made(s)'
    BY <1>3, <1>10 DEF Keyed, Done
  <2>2. KeysHeld'
    BY <1>1, <1>2, <1>5, <1>8, <2>1 DEF KeysHeld, Keyed
  <2>3. HeadersThere'
    BY <1>1, <1>2, <1>5, <2>1 DEF HeadersThere, Done
  <2> QED
    BY <2>2, <2>3
<1>12. DeletedKnown'
  <2>1. \A s \in Snapshots : s \notin Storing'
    BY <1>3 DEF Storing
  <2> QED
    BY <1>1, <1>2, <1>3, <2>1 DEF DeletedKnown, HistoryTyped
<1>13. EntriesKnown'
  <2>1. \A r \in entries : r.of \in Snapshots
    BY <1>2, EntryFields DEF TablesTyped
  <2>2. \A s \in Snapshots : step'[s] = "stored" => step[s] = "stored" /\ Made(s)'
    BY <1>3, <1>10
  <2>3. \A s, i : Row(s, i)' = Row(s, i)
    BY <1>1 DEF Row
  <2> QED
    BY <1>1, <1>2, <1>3, <1>5, <2>1, <2>2, <2>3 DEF EntriesKnown
<1>14. DeletedIsGone'
  <2> SUFFICES ASSUME NEW s \in deleted, Undisturbed(s)'
               PROVE  \A r \in entries : r.of # s
    BY <1>1, <1>12 DEF DeletedIsGone, DeletedKnown
  <2>1. s \in Snapshots /\ Made(s)' /\ s \notin disturbed'
    BY <1>1, <1>2, <1>12 DEF HistoryTyped, DeletedKnown, Done, Made, Undisturbed
  <2>2. Undisturbed(s) /\ ~HalfDeleted(s)
    BY <1>1, <1>5, <2>1 DEF HalfDeleted
  <2> QED
    BY <1>2, <2>2 DEF DeletedIsGone
<1> QED
  BY <1>6, <1>7, <1>9, <1>11, <1>12, <1>13, <1>14, TypeParts DEF IInv

-----------------------------------------------------------------------------
(* Storing                                                                 *)

\* Steps of the thread that stores s leave what is known of the others.
LEMMA StoreStays ==
    ASSUME IInv, NEW s \in Snapshots, step[s] \in {"made", "headed", "keyed"},
           NEW to \in Done \ {"dead"}, step' = [step EXCEPT ![s] = to],
           headers \subseteq headers', interfaces \subseteq interfaces',
           disturbed \subseteq disturbed', disturbed' \subseteq Snapshots,
           UNCHANGED <<snapshot, listVars, details, crashes, deleted>>
    PROVE  /\ \A t \in Snapshots : t # s => step'[t] = step[t]
           /\ step'[s] = to
           /\ \A t \in Snapshots : step[t] \in Done \/ t = s => Made(t)
           /\ \A t \in Snapshots : Made(t) /\ Undisturbed(t)' => Undisturbed(t)
           /\ step' \in [Snapshots -> {"none", "made", "headed", "keyed", "stored", "lost", "dead"}]
           /\ (Dated /\ Bounded(listed) /\ ListTyped /\ DetailsTyped /\ HistoryTyped /\ DetailsKnown)'
<1>1. /\ UNCHANGED <<screen, listed, deleting, deleter>>
  BY DEF listVars
<1>2. /\ StoreTyped /\ ListTyped /\ DetailsTyped /\ HistoryTyped /\ Dated /\ DetailsKnown
      /\ Bounded(listed)
  BY TypeParts DEF IInv
<1>3. /\ \A t \in Snapshots : t # s => step'[t] = step[t]
      /\ step'[s] = to /\ step[s] # "none" /\ to # "none"
  BY <1>2 DEF StoreTyped, Done
<1>4. \A t \in Snapshots : Made(t) <=> Made(t)'
  BY <1>3 DEF Made
<1>5. \A t \in Snapshots : Made(t) /\ Undisturbed(t)' => Undisturbed(t)
  BY <1>4, StillUndisturbed
<1>6. step' \in [Snapshots -> {"none", "made", "headed", "keyed", "stored", "lost", "dead"}]
  BY <1>2 DEF StoreTyped, Done
<1>7. (Dated /\ Bounded(listed) /\ ListTyped /\ DetailsTyped /\ HistoryTyped)'
  BY <1>1, <1>2, <1>4 DEF Dated, Bounded, ListTyped, DetailsTyped, HistoryTyped
<1>8. DetailsKnown'
  BY <1>1, <1>2, <1>4 DEF DetailsKnown, DetailsAreWhole, OfDate, DetailsTyped
<1>9. \A t \in Snapshots : step[t] \in Done \/ t = s => Made(t)
  BY <1>3 DEF Made, Done
<1> QED
  BY <1>3, <1>5, <1>6, <1>7, <1>8, <1>9

\* While interfaces are inserted, only their table changes, and it grows.
LEMMA InsertInterfacesStep ==
    ASSUME IInv, InsertTyped,
           \/ \E s \in Snapshots : InsertInterfaces(s)
           \/ \E i \in MACs : StoreInterface(i)
    PROVE  IInv'
<1>1. UNCHANGED <<headers, entries, storeVars, listVars, details, crashes, ghostVars>>
  BY DEF InsertInterfaces, FindMissing, InsertRow, InsertData, InsertFails, StoreInterface, InterfaceKept
<1>2. interfaces \subseteq interfaces' /\ interfaces' \subseteq MACs
  <2>1. interfaces \subseteq MACs
    BY TypeParts DEF IInv, TablesTyped
  <2>2. CASE \E s \in Snapshots : InsertRow(s)
    BY <2>1, <2>2 DEF InsertRow, InsertTyped
  <2>3. CASE \E s \in Snapshots : FindMissing(s) \/ InsertData(s) \/ InsertFails(s)
    BY <2>1, <2>3 DEF FindMissing, InsertData, InsertFails
  <2>4. CASE \E i \in MACs : StoreInterface(i)
    BY <2>1, <2>4 DEF StoreInterface
  <2> QED
    BY <2>2, <2>3, <2>4 DEF InsertInterfaces
<1>3. /\ UNCHANGED <<headers, entries, step, snapshot, snapshotKey, screen, listed, deleting, deleter>>
      /\ UNCHANGED <<details, crashes, deleted, disturbed>>
  BY <1>1 DEF storeVars, listVars, ghostVars
<1>4. /\ TablesTyped /\ StoreTyped /\ ListTyped /\ DetailsTyped /\ HistoryTyped
      /\ Dated /\ HeadersKnown /\ KeysHeld /\ HeadersThere /\ DeletedKnown /\ DeleterKnows
      /\ EntriesKnown /\ DeletedIsGone /\ DetailsKnown /\ Bounded(headers) /\ Bounded(listed)
  BY TypeParts DEF IInv
<1>5. (TablesTyped /\ StoreTyped /\ ListTyped /\ DetailsTyped /\ HistoryTyped)'
  BY <1>2, <1>3, <1>4 DEF TablesTyped, StoreTyped, ListTyped, DetailsTyped, HistoryTyped
<1>6. (Dated /\ HeadersKnown /\ KeysHeld /\ HeadersThere /\ DeletedKnown)'
  BY <1>3, <1>4
     DEF Dated, HeadersKnown, KeysHeld, HeadersThere, DeletedKnown, Made, Undisturbed, Storing
<1>7. DeleterKnows' /\ Bounded(headers)' /\ Bounded(listed)'
  BY <1>3, <1>4 DEF DeleterKnows, Bounded, Made, Undisturbed
<1>8. EntriesKnown'
  BY <1>2, <1>3, <1>4 DEF EntriesKnown, Row, Made, Undisturbed
<1>9. DeletedIsGone'
  BY <1>3, <1>4 DEF DeletedIsGone, HalfDeleted, Made, Undisturbed
<1>10. DetailsKnown'
  BY <1>2, <1>3, <1>4 DEF DetailsKnown, DetailsAreWhole, Made, OfDate
<1> QED
  BY <1>5, <1>6, <1>7, <1>8, <1>9, <1>10, TypeParts DEF IInv

\* The data is rolled back with the transaction that a failed insertion left open.
LEMMA EntriesLostStep ==
    ASSUME IInv, NEW s \in Snapshots, InsertEntries(s), lock = {s}
    PROVE  IInv'
<1>1. /\ step[s] = "keyed" /\ step' = [step EXCEPT ![s] = "lost"]
      /\ UNCHANGED <<headers, entries, interfaces, snapshot, snapshotKey, details, crashes, deleted, disturbed>>
      /\ UNCHANGED <<screen, listed, deleting, deleter>> /\ UNCHANGED listVars
  BY DEF InsertEntries, Prepared, listVars, ghostVars
<1>2. /\ TablesTyped /\ StoreTyped /\ ListTyped /\ DetailsTyped /\ HistoryTyped
      /\ Dated /\ HeadersKnown /\ KeysHeld /\ HeadersThere /\ DeletedKnown /\ DeleterKnows
      /\ EntriesKnown /\ DeletedIsGone /\ DetailsKnown /\ Bounded(headers) /\ Bounded(listed)
  BY TypeParts DEF IInv
<1>3. /\ \A t \in Snapshots : t # s => step'[t] = step[t]
      /\ step'[s] = "lost"
      /\ \A t \in Snapshots : step[t] \in Done \/ t = s => Made(t)
      /\ \A t \in Snapshots : Made(t) /\ Undisturbed(t)' => Undisturbed(t)
      /\ step' \in [Snapshots -> {"none", "made", "headed", "keyed", "stored", "lost", "dead"}]
      /\ (Dated /\ Bounded(listed) /\ ListTyped /\ DetailsTyped /\ HistoryTyped /\ DetailsKnown)'
  <2>1. "lost" \in Done \ {"dead"} /\ disturbed \subseteq Snapshots
    BY <1>2 DEF Done, HistoryTyped
  <2> QED
    BY <1>1, <2>1, StoreStays
<1>4. (TablesTyped /\ StoreTyped)' /\ Bounded(headers)'
  BY <1>1, <1>2, <1>3 DEF TablesTyped, StoreTyped, Bounded
<1>5. \A h \in headers \union listed : h.of \in Snapshots
  BY <1>2, HeaderFields DEF TablesTyped, ListTyped
<1>6. \A t \in Snapshots : step[t] \in Keyed <=> step'[t] \in Keyed
  BY <1>1, <1>3 DEF Keyed
<1>7. \A t \in Snapshots : step[t] \in Done <=> step'[t] \in Done
  BY <1>1, <1>3 DEF Done
<1>8. HeadersKnown' /\ KeysHeld'
  BY <1>1, <1>2, <1>3, <1>5, <1>6, <1>7 DEF HeadersKnown, KeysHeld
<1>9. HeadersThere' /\ DeletedKnown'
  BY <1>1, <1>2, <1>3, <1>7 DEF HeadersThere, DeletedKnown, Done, Storing, HistoryTyped
<1>10. DeleterKnows'
  <2>1. \A h \in deleting : h.of \in Snapshots /\ Made(h.of)
    BY <1>2, <1>3, <1>5 DEF ListTyped, HeadersKnown
  <2> QED
    BY <1>1, <1>2, <1>3, <2>1 DEF DeleterKnows
<1>11. EntriesKnown'
  <2>1. \A r \in entries : r.of \in Snapshots /\ r.of # s
    BY <1>1, <1>2, EntryFields DEF TablesTyped, EntriesKnown
  <2>2. \A t, i : Row(t, i)' = Row(t, i)
    BY <1>1 DEF Row
  <2>3. \A t \in Snapshots : step'[t] = "stored" => step[t] = "stored" /\ Made(t)
    BY <1>3 DEF Made
  <2> QED
    BY <1>1, <1>2, <1>3, <2>1, <2>2, <2>3 DEF EntriesKnown
<1>12. DeletedIsGone'
  <2>1. \A t \in deleted : t \in Snapshots /\ Made(t)
    BY <1>2, <1>3 DEF HistoryTyped, DeletedKnown
  <2> QED
    BY <1>1, <1>2, <1>3, <2>1 DEF DeletedIsGone, HalfDeleted
<1> QED
  BY <1>3, <1>4, <1>8, <1>9, <1>10, <1>11, <1>12, TypeParts DEF IInv

\* The key read back is that of the snapshot's own header.
LEMMA KeyRead ==
    ASSUME IInv, NEW s \in Snapshots, s \in Storing, Undisturbed(s),
           NEW h \in headers \union listed, h.of = s
    PROVE  h \in headers /\ KeyOf(snapshot[s].date) = h.key
<1>1. /\ TablesTyped /\ StoreTyped /\ HeadersKnown /\ HeadersThere /\ DeletedKnown /\ Bounded(headers)
  BY TypeParts DEF IInv
<1>2. step[s] \in Done \ {"dead"} /\ s \notin deleted
  BY <1>1 DEF Storing, Done, DeletedKnown
<1>3. h \in headers
  <2>1. PICK g \in headers : g.of = s
    BY <1>1, <1>2 DEF HeadersThere
  <2> QED
    BY <1>1, <2>1 DEF HeadersKnown
<1>4. snapshot[s].date = {h.date}
  BY <1>1 DEF HeadersKnown
<1>5. ASSUME NEW k \in headers, k.date = h.date PROVE k = h
  <2>1. k.of \in Snapshots /\ step[k.of] \in Done /\ snapshot[k.of].date = {k.date}
    BY <1>1, HeaderFields DEF TablesTyped, HeadersKnown
  <2>2. k.of = s
    BY <1>4, <1>5, <2>1, SameDate DEF Made, Done
  <2> QED
    BY <1>1, <2>2 DEF HeadersKnown
<1>6. OfDate(snapshot[s].date) = {h}
  BY <1>3, <1>4, <1>5 DEF OfDate
<1>7. First({h}) = h
  BY <1>1, <1>3, FirstChosen
<1> QED
  BY <1>3, <1>6, <1>7 DEF KeyOf

LEMMA ReadKeyStep ==
    ASSUME IInv, NEW s \in Snapshots, ReadKey(s)
    PROVE  IInv'
<1>1. /\ step[s] = "headed" /\ step' = [step EXCEPT ![s] = "keyed"]
      /\ snapshotKey' = [snapshotKey EXCEPT ![s] = KeyOf(snapshot[s].date)]
      /\ UNCHANGED <<headers, entries, interfaces, snapshot, details, crashes, deleted, disturbed>>
      /\ UNCHANGED <<screen, listed, deleting, deleter>> /\ UNCHANGED listVars
  BY DEF ReadKey, tableVars, listVars, ghostVars
<1>2. /\ TablesTyped /\ StoreTyped /\ ListTyped /\ DetailsTyped /\ HistoryTyped
      /\ Dated /\ HeadersKnown /\ KeysHeld /\ HeadersThere /\ DeletedKnown /\ DeleterKnows
      /\ EntriesKnown /\ DeletedIsGone /\ DetailsKnown /\ Bounded(headers) /\ Bounded(listed)
  BY TypeParts DEF IInv
<1>3. /\ \A t \in Snapshots : t # s => step'[t] = step[t]
      /\ step'[s] = "keyed"
      /\ \A t \in Snapshots : step[t] \in Done \/ t = s => Made(t)
      /\ \A t \in Snapshots : Made(t) /\ Undisturbed(t)' => Undisturbed(t)
      /\ step' \in [Snapshots -> {"none", "made", "headed", "keyed", "stored", "lost", "dead"}]
      /\ (Dated /\ Bounded(listed) /\ ListTyped /\ DetailsTyped /\ HistoryTyped /\ DetailsKnown)'
  <2>1. "keyed" \in Done \ {"dead"} /\ disturbed \subseteq Snapshots
    BY <1>2 DEF Done, HistoryTyped
  <2> QED
    BY <1>1, <2>1, StoreStays
<1>4. (TablesTyped /\ StoreTyped)' /\ Bounded(headers)'
  <2>1. KeyOf(snapshot[s].date) \in Int
    <3>1. CASE OfDate(snapshot[s].date) = {}
      BY <3>1 DEF KeyOf
    <3>2. CASE OfDate(snapshot[s].date) # {}
      <4>1. First(OfDate(snapshot[s].date)) \in Headers
        BY <1>2, <3>2, FirstChosen DEF OfDate, TablesTyped
      <4> QED
        BY <3>2, <4>1, HeaderFields DEF KeyOf
    <3> QED
      BY <3>1, <3>2
  <2> QED
    BY <1>1, <1>2, <1>3, <2>1 DEF TablesTyped, StoreTyped, Bounded
<1>5. \A h \in headers \union listed : h.of \in Snapshots
  BY <1>2, HeaderFields DEF TablesTyped, ListTyped
<1>6. \A t \in Snapshots : t # s => snapshotKey'[t] = snapshotKey[t]
  BY <1>1, <1>2 DEF StoreTyped
<1>7. \A t \in Snapshots : step[t] \in Done <=> step'[t] \in Done
  BY <1>1, <1>3 DEF Done
<1>8. HeadersKnown' /\ KeysHeld'
  <2>1. HeadersKnown'
    BY <1>1, <1>2, <1>5, <1>7 DEF HeadersKnown
  <2> SUFFICES ASSUME NEW h \in headers \union listed, step'[h.of] \in Keyed, Undisturbed(h.of)'
               PROVE  snapshotKey'[h.of] = h.key
    BY <1>1, <2>1 DEF KeysHeld
  <2>2. h.of \in Snapshots /\ Undisturbed(h.of)
    BY <1>2, <1>3, <1>5 DEF HeadersKnown
  <2>3. CASE h.of # s
    BY <1>2, <1>3, <1>6, <2>2, <2>3 DEF KeysHeld
  <2>4. CASE h.of = s
    <3>1. s \in Storing
      BY <1>1 DEF Storing
    <3>2. KeyOf(snapshot[s].date) = h.key
      BY <2>2, <2>4, <3>1, KeyRead
    <3> QED
      BY <1>1, <1>2, <2>4, <3>2 DEF StoreTyped
  <2> QED
    BY <2>3, <2>4
<1>9. HeadersThere' /\ DeletedKnown'
  BY <1>1, <1>2, <1>3, <1>7 DEF HeadersThere, DeletedKnown, Done, Storing, HistoryTyped
<1>10. DeleterKnows'
  <2>1. \A h \in deleting : h.of \in Snapshots /\ Made(h.of)
    BY <1>2, <1>3, <1>5 DEF ListTyped, HeadersKnown
  <2> QED
    BY <1>1, <1>2, <1>3, <2>1 DEF DeleterKnows
<1>11. EntriesKnown'
  <2>1. \A r \in entries : r.of \in Snapshots /\ r.of # s
    BY <1>1, <1>2, EntryFields DEF TablesTyped, EntriesKnown
  <2>2. \A i : \A t \in Snapshots : t # s => Row(t, i)' = Row(t, i)
    BY <1>6 DEF Row
  <2>3. \A t \in Snapshots : step'[t] = "stored" => t # s /\ step[t] = "stored" /\ Made(t)
    BY <1>3 DEF Made
  <2> QED
    BY <1>1, <1>2, <1>3, <1>6, <2>1, <2>2, <2>3 DEF EntriesKnown
<1>12. DeletedIsGone'
  <2>1. \A t \in deleted : t \in Snapshots /\ Made(t)
    BY <1>2, <1>3 DEF HistoryTyped, DeletedKnown
  <2> QED
    BY <1>1, <1>2, <1>3, <2>1 DEF DeletedIsGone, HalfDeleted
<1> QED
  BY <1>3, <1>4, <1>8, <1>9, <1>10, <1>11, <1>12, TypeParts DEF IInv

LEMMA InsertEntriesStep ==
    ASSUME IInv, NEW s \in Snapshots, InsertEntries(s), lock # {s}
    PROVE  IInv'
<1> DEFINE rows == {Row(s, i) : i \in snapshot[s].ifaces}
<1>1. /\ step[s] = "keyed" /\ snapshot[s].ifaces \subseteq interfaces
      /\ step' = [step EXCEPT ![s] = "stored"]
      /\ entries' = entries \union rows
      /\ UNCHANGED <<headers, interfaces, snapshot, snapshotKey, details, crashes, deleted, disturbed>>
      /\ UNCHANGED <<screen, listed, deleting, deleter>> /\ UNCHANGED listVars
  BY DEF InsertEntries, Prepared, Row, listVars, ghostVars
<1>2. /\ TablesTyped /\ StoreTyped /\ ListTyped /\ DetailsTyped /\ HistoryTyped
      /\ Dated /\ HeadersKnown /\ KeysHeld /\ HeadersThere /\ DeletedKnown /\ DeleterKnows
      /\ EntriesKnown /\ DeletedIsGone /\ DetailsKnown /\ Bounded(headers) /\ Bounded(listed)
  BY TypeParts DEF IInv
<1>3. /\ \A t \in Snapshots : t # s => step'[t] = step[t]
      /\ step'[s] = "stored"
      /\ \A t \in Snapshots : step[t] \in Done \/ t = s => Made(t)
      /\ \A t \in Snapshots : Made(t) /\ Undisturbed(t)' => Undisturbed(t)
      /\ step' \in [Snapshots -> {"none", "made", "headed", "keyed", "stored", "lost", "dead"}]
      /\ (Dated /\ Bounded(listed) /\ ListTyped /\ DetailsTyped /\ HistoryTyped /\ DetailsKnown)'
  <2>1. "stored" \in Done \ {"dead"} /\ disturbed \subseteq Snapshots
    BY <1>2 DEF Done, HistoryTyped
  <2> QED
    BY <1>1, <2>1, StoreStays
<1>4. /\ snapshot[s].ifaces \subseteq MACs /\ snapshot[s].ifaces \subseteq interfaces
      /\ \A r \in rows : /\ r \in Entries /\ r.of = s /\ r.key = snapshotKey[s]
                         /\ r.MAC \in snapshot[s].ifaces
      /\ \A i \in snapshot[s].ifaces : Row(s, i) \in rows
  <2>1. snapshot[s].ifaces \subseteq MACs /\ snapshot[s].ifaces \subseteq interfaces
    BY <1>1, <1>2 DEF StoreTyped, EntriesKnown
  <2> QED
    BY <1>2, <2>1, RowFields
<1> HIDE DEF rows
<1>5. (TablesTyped /\ StoreTyped)' /\ Bounded(headers)'
  BY <1>1, <1>2, <1>3, <1>4 DEF TablesTyped, StoreTyped, Bounded
<1>6. \A h \in headers \union listed : h.of \in Snapshots
  BY <1>2, HeaderFields DEF TablesTyped, ListTyped
<1>7. \A t \in Snapshots : /\ step[t] \in Keyed <=> step'[t] \in Keyed
                           /\ step[t] \in Done <=> step'[t] \in Done
  BY <1>1, <1>3 DEF Keyed, Done
<1>8. HeadersKnown' /\ KeysHeld'
  BY <1>1, <1>2, <1>3, <1>6, <1>7 DEF HeadersKnown, KeysHeld
<1>9. HeadersThere' /\ DeletedKnown'
  BY <1>1, <1>2, <1>3, <1>7 DEF HeadersThere, DeletedKnown, Done, Storing, HistoryTyped
<1>10. DeleterKnows'
  <2>1. \A h \in deleting : h.of \in Snapshots /\ Made(h.of)
    BY <1>2, <1>3, <1>6 DEF ListTyped, HeadersKnown
  <2> QED
    BY <1>1, <1>2, <1>3, <2>1 DEF DeleterKnows
<1>11. EntriesKnown'
  <2>1. \A r \in entries : r.of \in Snapshots /\ r.of # s
    BY <1>1, <1>2, EntryFields DEF TablesTyped, EntriesKnown
  <2>2. \A t, i : Row(t, i)' = Row(t, i)
    BY <1>1 DEF Row
  <2>3. \A t \in Snapshots : step'[t] = "stored" => t = s \/ (step[t] = "stored" /\ Made(t))
    BY <1>3 DEF Made
  <2>4. ASSUME NEW r \in entries'
        PROVE  /\ step'[r.of] = "stored" /\ r.MAC \in snapshot[r.of].ifaces /\ r.MAC \in interfaces
               /\ r.key = snapshotKey[r.of]
               /\ \A i \in snapshot[r.of].ifaces : Row(r.of, i) \in entries'
    <3>1. CASE r \in entries
      BY <1>1, <1>2, <1>3, <2>1, <3>1 DEF EntriesKnown
    <3>2. CASE r \in rows
      BY <1>1, <1>3, <1>4, <3>2
    <3> QED
      BY <1>1, <3>1, <3>2
  <2>5. ASSUME NEW t \in Snapshots \ deleted, step'[t] = "stored", Undisturbed(t)',
               NEW i \in snapshot[t].ifaces
        PROVE  Row(t, i) \in entries'
    BY <1>1, <1>2, <1>3, <1>4, <2>3, <2>5 DEF EntriesKnown
  <2> QED
    BY <1>1, <1>2, <2>2, <2>4, <2>5 DEF EntriesKnown
<1>12. DeletedIsGone'
  <2>1. \A t \in deleted : t \in Snapshots /\ Made(t) /\ (Undisturbed(t)' => t # s)
    BY <1>1, <1>2, <1>3 DEF HistoryTyped, DeletedKnown, Storing
  <2> QED
    BY <1>1, <1>2, <1>3, <1>4, <2>1 DEF DeletedIsGone, HalfDeleted
<1> QED
  BY <1>3, <1>5, <1>8, <1>9, <1>10, <1>11, <1>12, TypeParts DEF IInv

LEMMA InsertHeaderStep ==
    ASSUME IInv, NEW s \in Snapshots, InsertHeader(s)
    PROVE  IInv'
<1>1. /\ step[s] = "made" /\ step' = [step EXCEPT ![s] = "headed"]
      /\ disturbed' = IF deleter = "idle" THEN disturbed ELSE disturbed \union {s}
      /\ UNCHANGED <<entries, interfaces, snapshot, snapshotKey, details, crashes, deleted>>
      /\ UNCHANGED <<screen, listed, deleting, deleter>> /\ UNCHANGED listVars
  BY DEF InsertHeader, listVars
<1>2. /\ TablesTyped /\ StoreTyped /\ ListTyped /\ DetailsTyped /\ HistoryTyped
      /\ Dated /\ HeadersKnown /\ KeysHeld /\ HeadersThere /\ DeletedKnown /\ DeleterKnows
      /\ EntriesKnown /\ DeletedIsGone /\ DetailsKnown /\ Bounded(headers) /\ Bounded(listed)
  BY TypeParts DEF IInv
<1>3. PICK d \in snapshot[s].date : headers' = headers \union {[key |-> NextKey, date |-> d, of |-> s]}
  BY DEF InsertHeader
<1> DEFINE new == [key |-> NextKey, date |-> d, of |-> s]
<1>4. /\ new \in Headers /\ new.of = s /\ snapshot[s].date = {new.date}
      /\ headers' = headers \union {new}
      /\ \A h \in headers : h.key \in Nat /\ h.key < new.key
      /\ new.key \in Nat /\ new.date \in Dates
  <2>1. NextKey \in Nat /\ \A h \in headers : h.key < NextKey
    BY <1>2, NextKeyFresh DEF TablesTyped
  <2>2. \E e \in Dates : snapshot[s].date = {e}
    BY <1>1, <1>2 DEF Dated, Made
  <2>3. d \in Dates /\ snapshot[s].date = {d}
    BY <1>3, <2>2
  <2>4. new \in Headers
    BY <2>1, <2>3 DEF Headers
  <2> QED
    BY <1>2, <1>3, <2>1, <2>3, <2>4, HeaderFields DEF TablesTyped
<1> HIDE DEF new
<1>5. /\ \A t \in Snapshots : t # s => step'[t] = step[t]
      /\ step'[s] = "headed"
      /\ \A t \in Snapshots : step[t] \in Done \/ t = s => Made(t)
      /\ \A t \in Snapshots : Made(t) /\ Undisturbed(t)' => Undisturbed(t)
      /\ step' \in [Snapshots -> {"none", "made", "headed", "keyed", "stored", "lost", "dead"}]
      /\ (Dated /\ Bounded(listed) /\ ListTyped /\ DetailsTyped /\ HistoryTyped /\ DetailsKnown)'
  <2>1. /\ "headed" \in Done \ {"dead"} /\ headers \subseteq headers'
        /\ disturbed \subseteq disturbed' /\ disturbed' \subseteq Snapshots
    BY <1>1, <1>2, <1>4 DEF Done, HistoryTyped
  <2> QED
    BY <1>1, <2>1, StoreStays
<1>6. (TablesTyped /\ StoreTyped)' /\ Bounded(headers)'
  <2>1. Bounded(headers \union {new})
    BY <1>2, <1>4, BoundedAdd DEF TablesTyped
  <2>2. Bounded(headers)'
    BY <1>4, <2>1 DEF Bounded
  <2>3. \A g, h \in headers' : g.key = h.key => g = h
    BY <1>2, <1>4 DEF TablesTyped
  <2> QED
    BY <1>1, <1>2, <1>4, <1>5, <2>2, <2>3 DEF TablesTyped, StoreTyped
<1>7. \A h \in headers \union listed : h.of \in Snapshots /\ h.of # s /\ step'[h.of] = step[h.of]
  <2>1. \A h \in headers \union listed : h.of \in Snapshots /\ step[h.of] \in Done
    BY <1>2, HeaderFields DEF TablesTyped, ListTyped, HeadersKnown
  <2>2. step[s] \notin Done
    BY <1>1 DEF Done
  <2> QED
    BY <1>5, <2>1, <2>2
<1>8. HeadersKnown' /\ KeysHeld'
  <2>1. "headed" \in Done /\ "headed" \notin Keyed
    BY DEF Done, Keyed
  <2>2. HeadersKnown'
    BY <1>1, <1>2, <1>4, <1>5, <1>7, <2>1 DEF HeadersKnown
  <2>3. \A h \in headers \union listed : Made(h.of)
    BY <1>2, <1>5, <1>7 DEF HeadersKnown
  <2>4. KeysHeld'
    BY <1>1, <1>2, <1>4, <1>5, <1>7, <2>1, <2>3 DEF KeysHeld
  <2> QED
    BY <2>2, <2>4
<1>9. s \notin deleted
  BY <1>1, <1>2 DEF DeletedKnown, Done
<1>10. HeadersThere'
  <2> SUFFICES ASSUME NEW t \in Snapshots \ deleted, step'[t] \in Done \ {"dead"}, Undisturbed(t)'
               PROVE  \E h \in headers' : h.of = t
    BY <1>1 DEF HeadersThere
  <2>1. CASE t = s
    BY <1>4, <2>1
  <2>2. CASE t # s
    BY <1>2, <1>4, <1>5, <2>2 DEF HeadersThere
  <2> QED
    BY <2>1, <2>2
<1>11. DeletedKnown'
  BY <1>1, <1>2, <1>4, <1>5, <1>9 DEF DeletedKnown, HistoryTyped, Storing
<1>12. DeleterKnows'
  <2>1. \A h \in deleting : h \in listed /\ h.of \in Snapshots /\ Made(h.of)
    BY <1>2, <1>5, <1>7 DEF ListTyped, HeadersKnown
  <2>2. \A h \in deleting, g \in headers' : g.key = h.key => g = h \/ g.of \in disturbed'
    BY <1>1, <1>2, <1>4 DEF DeleterKnows
  <2> QED
    BY <1>1, <1>2, <1>4, <1>5, <2>1, <2>2 DEF DeleterKnows
<1>13. EntriesKnown'
  <2>1. \A r \in entries : r.of \in Snapshots /\ r.of # s
    BY <1>1, <1>2, EntryFields DEF TablesTyped, EntriesKnown
  <2>2. \A t, i : Row(t, i)' = Row(t, i)
    BY <1>1 DEF Row
  <2>3. \A t \in Snapshots : step'[t] = "stored" => step[t] = "stored" /\ Made(t)
    BY <1>5 DEF Made
  <2> QED
    BY <1>1, <1>2, <1>5, <2>1, <2>2, <2>3 DEF EntriesKnown
<1>14. DeletedIsGone'
  <2>1. \A t \in deleted : t \in Snapshots /\ Made(t) /\ t # s
    BY <1>2, <1>5, <1>9 DEF HistoryTyped, DeletedKnown
  <2> QED
    BY <1>1, <1>2, <1>4, <1>5, <2>1 DEF DeletedIsGone, HalfDeleted
<1> QED
  BY <1>5, <1>6, <1>8, <1>10, <1>11, <1>12, <1>13, <1>14, TypeParts DEF IInv

\* A new snapshot can only disturb others, by its date.
LEMMA MakeSnapshotStep ==
    ASSUME IInv, NEW s \in Snapshots, NEW d \in Dates, NEW ifaces \in Finds, MakeSnapshot(s, d, ifaces)
    PROVE  IInv'
<1>1. /\ step[s] = "none" /\ step' = [step EXCEPT ![s] = "made"]
      /\ snapshot' = [snapshot EXCEPT ![s] = [date |-> {d}, ifaces |-> ifaces]]
      /\ UNCHANGED <<headers, entries, interfaces, snapshotKey, details, crashes, deleted, disturbed>>
      /\ UNCHANGED <<screen, listed, deleting, deleter>>
  BY DEF MakeSnapshot, tableVars, listVars, ghostVars
<1>2. /\ TablesTyped /\ StoreTyped /\ ListTyped /\ DetailsTyped /\ HistoryTyped
      /\ Dated /\ HeadersKnown /\ KeysHeld /\ HeadersThere /\ DeletedKnown /\ DeleterKnows
      /\ EntriesKnown /\ DeletedIsGone /\ DetailsKnown /\ Bounded(headers) /\ Bounded(listed)
  BY TypeParts DEF IInv
<1>3. /\ \A t \in Snapshots : t # s => step'[t] = step[t] /\ snapshot'[t] = snapshot[t]
      /\ step'[s] = "made" /\ snapshot'[s].date = {d}
      /\ step' \in [Snapshots -> {"none", "made", "headed", "keyed", "stored", "lost", "dead"}]
      /\ snapshot' \in [Snapshots -> [date: SUBSET Dates, ifaces: SUBSET MACs]]
  <2>1. ifaces \subseteq MACs
    BY FindsAssumption
  <2> QED
    BY <1>1, <1>2, <2>1 DEF StoreTyped
<1>4. \A t \in Snapshots : /\ step[t] \in Done => Made(t) /\ t # s
                           /\ step'[t] \in Done => step[t] \in Done
                           /\ Made(t) => t # s /\ Made(t)'
  BY <1>1, <1>3 DEF Done, Made
<1>5. \A t \in Snapshots : Made(t) /\ Undisturbed(t)' => Undisturbed(t)
  BY <1>1, <1>3, <1>4, StillUndisturbed
<1>6. (TablesTyped /\ StoreTyped /\ ListTyped /\ DetailsTyped /\ HistoryTyped)'
  BY <1>1, <1>2, <1>3 DEF TablesTyped, StoreTyped, ListTyped, DetailsTyped, HistoryTyped
<1>7. Bounded(headers)' /\ Bounded(listed)' /\ Dated'
  BY <1>1, <1>2, <1>3 DEF Bounded, Dated, Made
<1>8. \A h \in headers \union listed : h.of \in Snapshots /\ step[h.of] \in Done
  BY <1>2, HeaderFields DEF TablesTyped, ListTyped, HeadersKnown
<1>9. HeadersKnown' /\ KeysHeld'
  BY <1>1, <1>2, <1>3, <1>4, <1>5, <1>8 DEF HeadersKnown, KeysHeld
<1>10. HeadersThere' /\ DeletedKnown'
  BY <1>1, <1>2, <1>3, <1>4, <1>5 DEF HeadersThere, DeletedKnown, HistoryTyped, Storing
<1>11. DeleterKnows'
  <2>1. \A h \in deleting : h.of \in Snapshots /\ Made(h.of)
    BY <1>2, <1>4, <1>8 DEF ListTyped
  <2> QED
    BY <1>1, <1>2, <1>5, <2>1 DEF DeleterKnows
<1>12. EntriesKnown'
  <2>1. \A r \in entries : r.of \in Snapshots /\ r.of # s
    BY <1>1, <1>2, EntryFields DEF TablesTyped, EntriesKnown
  <2>2. \A t, i : Row(t, i)' = Row(t, i)
    BY <1>1 DEF Row
  <2>3. \A t \in Snapshots : step'[t] = "stored" => t # s /\ step[t] = step'[t] /\ Made(t)
    BY <1>3 DEF Made
  <2> QED
    BY <1>1, <1>2, <1>3, <1>5, <2>1, <2>2, <2>3 DEF EntriesKnown
<1>13. DeletedIsGone'
  <2>1. \A t \in deleted : t \in Snapshots /\ Made(t)
    BY <1>2, <1>4 DEF HistoryTyped, DeletedKnown
  <2> QED
    BY <1>1, <1>2, <1>5, <2>1 DEF DeletedIsGone, HalfDeleted
<1>14. DetailsKnown'
  <2>1. \A t \in details.of : t \in Snapshots /\ Made(t)
    BY <1>2 DEF DetailsKnown, DetailsTyped
  <2> QED
    BY <1>1, <1>2, <1>3, <1>4, <2>1 DEF DetailsKnown, DetailsAreWhole, OfDate
<1> QED
  BY <1>6, <1>7, <1>9, <1>10, <1>11, <1>12, <1>13, <1>14, TypeParts DEF IInv

-----------------------------------------------------------------------------
(* The theorems                                                            *)

LEMMA InitIInv == Init => IInv
<1> SUFFICES ASSUME Init PROVE IInv
  OBVIOUS
<1>1. /\ headers = {} /\ entries = {} /\ interfaces = Known /\ screen = "other" /\ listed = {}
      /\ deleting = {} /\ deleter = "idle" /\ details = NoDetails /\ crashes = 0
      /\ deleted = {} /\ disturbed = {}
      /\ step = [s \in Snapshots |-> "none"] /\ snapshot = [s \in Snapshots |-> NoSnapshot]
      /\ snapshotKey = [s \in Snapshots |-> -1]
  BY DEF Init
<1>2. TablesTyped /\ StoreTyped /\ ListTyped /\ DetailsTyped /\ HistoryTyped
  BY <1>1, NoDetailsKnown, BoundAssumption, FindsAssumption
     DEF TablesTyped, StoreTyped, ListTyped, DetailsTyped, HistoryTyped, NoSnapshot
<1>3. \A s \in Snapshots : step[s] = "none"
  BY <1>1
<1>4. Bounded(headers) /\ Bounded(listed) /\ Dated /\ HeadersKnown /\ KeysHeld /\ DeletedKnown
  BY <1>1, <1>3, BoundedNone DEF Dated, Made, HeadersKnown, KeysHeld, DeletedKnown
<1>5. HeadersThere /\ DeleterKnows /\ EntriesKnown /\ DeletedIsGone
  BY <1>1, <1>3 DEF HeadersThere, DeleterKnows, EntriesKnown, DeletedIsGone, Done
<1>6. DetailsKnown
  BY <1>1, NoDetailsKnown DEF DetailsKnown, DetailsAreWhole
<1> QED
  BY <1>2, <1>4, <1>5, <1>6, TypeParts DEF IInv

LEMMA NextIInv == IInv /\ InsertTyped /\ [Next]_vars => IInv'
<1> SUFFICES ASSUME IInv, InsertTyped, [Next]_vars PROVE IInv'
  OBVIOUS
<1>1. CASE \E s \in Snapshots, d \in Dates, ifaces \in Finds : MakeSnapshot(s, d, ifaces)
  BY <1>1, MakeSnapshotStep
<1>2. CASE \E s \in Snapshots : StoreSnapshot(s)
  BY <1>2, InsertHeaderStep, ReadKeyStep, InsertInterfacesStep, EntriesLostStep, InsertEntriesStep
     DEF StoreSnapshot
<1>3. CASE ListNext
  BY <1>3, ListStep, DeleteMetadataStep, DeleteEntriesStep DEF ListNext
<1>4. CASE DetailsNext
  BY <1>4, DetailsStep
<1>5. CASE Crash
  BY <1>5, CrashStep
<1>6. CASE \E i \in MACs : StoreInterface(i)
  BY <1>6, InsertInterfacesStep
<1>7. CASE UNCHANGED vars
  <2>1. /\ UNCHANGED <<tableVars, storeVars, ghostVars, details, screen, listed, deleting, deleter>>
        /\ UNCHANGED <<crashes, deleted, disturbed>>
    BY <1>7 DEF vars, listVars, ghostVars
  <2>2. (Dated /\ HeadersKnown /\ KeysHeld /\ HeadersThere /\ DeletedKnown /\ EntriesKnown)'
        /\ Bounded(headers)' /\ Bounded(listed)' /\ TablesTyped' /\ StoreTyped'
    BY <2>1, TablesStay
  <2>3. DeletedIsGone' /\ DetailsKnown' /\ DetailsTyped'
    BY <2>1, GoneStays, DetailsStay DEF HalfDeleted
  <2>4. ListTyped' /\ HistoryTyped' /\ DeleterKnows'
    BY <2>1, TypeParts
       DEF IInv, ListTyped, HistoryTyped, DeleterKnows, Undisturbed, Made, tableVars, storeVars
  <2> QED
    BY <2>2, <2>3, <2>4, TypeParts DEF IInv
<1> QED
  BY <1>1, <1>2, <1>3, <1>4, <1>5, <1>6, <1>7 DEF Next

LEMMA InitInserts == Init => InsertTyped
  BY DEF Init, InsertTyped

\* What is inserted is taken from the interfaces of a snapshot.
LEMMA NextInserts == IInv /\ InsertTyped /\ [Next]_vars => InsertTyped'
<1> SUFFICES ASSUME IInv, InsertTyped, [Next]_vars PROVE InsertTyped'
  OBVIOUS
<1>1. ASSUME UNCHANGED ifaceVars PROVE InsertTyped'
  BY <1>1 DEF ifaceVars, InsertTyped
<1>2. CASE \E s \in Snapshots : FindMissing(s)
  <2>1. PICK s \in Snapshots : FindMissing(s)
    BY <1>2
  <2>2. PICK i \in snapshot[s].ifaces :
            inserting' = [inserting EXCEPT ![s] = {i}] /\ UNCHANGED <<met, lock>>
    BY <2>1 DEF FindMissing
  <2>3. i \in MACs
    BY <2>2, TypeParts DEF IInv, StoreTyped
  <2> QED
    BY <2>2, <2>3 DEF InsertTyped
<1>3. CASE \E s \in Snapshots : InsertRow(s) \/ InsertData(s) \/ InsertFails(s)
  BY <1>3 DEF InsertTyped, InsertRow, InsertData, InsertFails, Meeting
<1>4. CASE \E i \in MACs : StoreInterface(i)
  BY <1>4 DEF InsertTyped, StoreInterface
<1>5. CASE \E s \in Snapshots : InsertEntries(s)
  BY <1>5 DEF InsertTyped, InsertEntries
<1>6. CASE Crash
  BY <1>6 DEF InsertTyped, Crash
<1>7. CASE \/ \E s \in Snapshots, d \in Dates, ifaces \in Finds : MakeSnapshot(s, d, ifaces)
           \/ \E s \in Snapshots : InsertHeader(s) \/ ReadKey(s)
  BY <1>1, <1>7 DEF MakeSnapshot, InsertHeader, ReadKey
<1>8. CASE ListNext
  BY <1>1, <1>8 DEF ListNext, OpenList, CloseList, ClickedDelete, DeleteMetadata, DeleteEntries, RefreshList
<1>9. CASE DetailsNext
  BY <1>1, <1>9 DEF DetailsNext, ClickedDate, ReadHeader, ReadEntries
<1>10. CASE UNCHANGED vars
  BY <1>1, <1>10 DEF vars
<1> QED
  BY <1>2, <1>3, <1>4, <1>5, <1>6, <1>7, <1>8, <1>9, <1>10 DEF Next, StoreSnapshot, InsertInterfaces

LEMMA IInvAlways == Spec => [](IInv /\ InsertTyped)
  BY InitIInv, NextIInv, InitInserts, NextInserts, PTL DEF Spec

\* Every step leaves each row, list and thread in a state that the code of the
\* tables and the screens provides for; no two headers have one key.
THEOREM TypeCorrect == Spec => []TypeOK
<1>1. IInv /\ InsertTyped => TypeOK
  BY TypesTogether DEF IInv
<1> QED
  BY <1>1, IInvAlways, PTL

\* When StoreSnapshotThread has ended (SnapshotsDataTable), the snapshot has its header and
\* under its key all of its interfaces, or none of them if the insertion of an interface
\* failed (DBTable.insert), whatever other threads store, whatever else the user deletes,
\* and whenever the process dies, until the user deletes it.
THEOREM StoredWhole == Spec => []StoredIsWhole
<1>1. IInv => StoredIsWhole
  <2> SUFFICES ASSUME IInv, NEW s \in Snapshots, step[s] \in {"stored", "lost"}, Undisturbed(s),
                      s \notin deleted
               PROVE  \E h \in headers :
                          /\ h.of = s
                          /\ {r.MAC : r \in {r \in EntriesOf(h.key) : r.of = s}}
                                 = IF step[s] = "stored" THEN snapshot[s].ifaces ELSE {}
    BY DEF StoredIsWhole
  <2>1. StoreTyped /\ HeadersThere /\ KeysHeld /\ EntriesKnown
    BY TypeParts DEF IInv
  <2>2. PICK h \in headers : h.of = s
    BY <2>1 DEF HeadersThere, Done
  <2>3. snapshotKey[s] = h.key
    BY <2>1, <2>2 DEF KeysHeld, Keyed
  <2> DEFINE own == {r \in EntriesOf(h.key) : r.of = s}
  <2>4. \A r \in own : step[s] = "stored" /\ r.MAC \in snapshot[s].ifaces
    BY <2>1 DEF EntriesKnown, EntriesOf
  <2>5. ASSUME step[s] = "stored", NEW i \in snapshot[s].ifaces PROVE \E r \in own : r.MAC = i
    <3>1. i \in MACs
      BY <2>1 DEF StoreTyped
    <3>2. Row(s, i) \in entries
      BY <2>1, <2>5 DEF EntriesKnown
    <3>3. Row(s, i) \in own /\ Row(s, i).MAC = i
      BY <2>1, <2>3, <3>1, <3>2, RowFields DEF EntriesOf
    <3> QED
      BY <3>3
  <2> HIDE DEF own
  <2>6. {r.MAC : r \in own} = IF step[s] = "stored" THEN snapshot[s].ifaces ELSE {}
    <3>1. CASE step[s] = "stored"
      BY <2>4, <2>5, <3>1
    <3>2. CASE step[s] # "stored"
      BY <2>4, <3>2
    <3> QED
      BY <3>1, <3>2
  <2> QED
    BY <2>2, <2>6 DEF own
<1> QED
  BY <1>1, IInvAlways, PTL

\* Although SQLite gives a key again, DBAdapter.getSnapshotInterfaces finds under
\* the key of a snapshot no data of another one, unless that one met a deletion
\* half way or shared its date.
THEOREM OwnEntries == Spec => []EntriesAreOwn
<1>1. IInv => EntriesAreOwn
  <2> SUFFICES ASSUME IInv, NEW h \in headers, NEW r \in entries, r.key = h.key,
                      Undisturbed(r.of), ~HalfDeleted(r.of)
               PROVE  r.of = h.of
    BY DEF EntriesAreOwn, EntriesOf
  <2>1. TablesTyped /\ HeadersThere /\ KeysHeld /\ EntriesKnown /\ DeletedIsGone
    BY TypeParts DEF IInv
  <2>2. r.of \in Snapshots /\ step[r.of] = "stored" /\ r.key = snapshotKey[r.of]
    BY <2>1, EntryFields DEF TablesTyped, EntriesKnown
  <2>3. r.of \notin deleted
    BY <2>1 DEF DeletedIsGone
  <2>4. PICK g \in headers : g.of = r.of
    BY <2>1, <2>2, <2>3 DEF HeadersThere, Done
  <2>5. g.key = h.key
    BY <2>1, <2>2, <2>4 DEF KeysHeld, Keyed
  <2> QED
    BY <2>1, <2>4, <2>5 DEF TablesTyped
<1> QED
  BY <1>1, IInvAlways, PTL

\* Of a snapshot that SnapshotList's DeleteThread has deleted neither its header
\* nor any of its data is left.
THEOREM Gone == Spec => []DeletedIsGone
<1>1. IInv => DeletedIsGone
  BY DEF IInv
<1> QED
  BY <1>1, IInvAlways, PTL

\* SnapshotDetails, which reads header and data in two steps, shows all of the
\* snapshot's interfaces or none, and finds each one that the data names.
THEOREM WholeDetails == Spec => []DetailsAreWhole
<1>1. IInv => DetailsAreWhole
  BY DEF IInv, DetailsKnown
<1> QED
  BY <1>1, IInvAlways, PTL

=============================================================================
