--------------------------- MODULE ScanScreensProofs ---------------------------
(***************************************************************************)
(* That the dialogs of the screens keep the user from asking ScanManager   *)
(* for a scan while it works, for any number of scans, any length of a     *)
(* series and whatever radios are plugged in.                              *)
(*                                                                         *)
(* What is true of every step, LineInv, comes first: which broadcasts can  *)
(* be on their way.  The rest holds as long as no dialog has let the user  *)
(* go too early.  Then one thing at most is under way for a scan, a token: *)
(* a timer, the request, ScanManager's work or the answer.  The screen it  *)
(* belongs to is in front, and keeps the user there by its dialog.         *)
(*                                                                         *)
(* Last comes what each action leaves of the things a dialog waits for:    *)
(* that needs no token, only to know what a broadcast on its way is        *)
(* followed by, and on Measurements, as long as nobody was let go, that    *)
(* its dialog is one of a series.                                          *)
(***************************************************************************)
EXTENDS ScanScreens, SequenceTheorems, TLAPS

-----------------------------------------------------------------------------
(* The invariants                                                          *)

\* What a screen waits for, or a request for it.
IsToken(m) == m.kind = "request" \/ m.kind \in Awaited(m.from)

\* A stage's response is on its way only while ScanManager waits for it; only
\* Measurements and FinalTraining are content with the scan itself; and only
\* MainInterface shows two dialogs at a time.
StagesKnown ==
    \A i, j \in 1..Len(bcast) : bcast[i].kind \in Stages =>
        bcast[i].kind = sm /\ (bcast[j].kind \in Stages => i = j)
ScanOnly == {"Measurements", "FinalTraining"}
WorkKnown == sm \in Stages \ {"SCANNING"} => working \notin ScanOnly
AnswersKnown ==
    \A i \in 1..Len(bcast) :
        /\ bcast[i].kind = "INTERFACES" => bcast[i].from \in ScanOnly
        /\ bcast[i].kind = "DEVICES" => bcast[i].from \notin ScanOnly
Sound(v) == v \in Views /\ (v.pd = "null" => v = Fresh)
ViewsKnown ==
    \A s \in Screens : Sound(view[s]) /\ (s # "MainInterface" => view[s].orphans = {})
LineInv == TypeOK /\ StagesKnown /\ WorkKnown /\ AnswersKnown /\ ViewsKnown

\* One token, whose screen is in front and shows the dialog of a scan.
OneToken ==
    /\ \A i, j \in 1..Len(bcast) : IsToken(bcast[i]) /\ IsToken(bcast[j]) => i = j
    /\ \A i \in 1..Len(bcast) : IsToken(bcast[i]) => sm = "IDLE"
    /\ \A s \in Screens : timers[s] > 0 =>
           timers[s] = 1 /\ sm = "IDLE" /\ \A i \in 1..Len(bcast) : ~IsToken(bcast[i])
Shown == \A s \in Screens : Outstanding(s) => front = s /\ "scanning" \in Showing(s)

\* A screen that stores is in front, and nothing is under way.
StoringShown ==
    \A s \in DeviceScreens : storing[s] # "none" =>
        /\ front = s /\ view[s].up /\ view[s].pd = "storing"
        /\ \A t \in Screens : ~Outstanding(t)

\* What Measurements does not listen to is gone before another screen opens; a
\* snapshot that another screen's scan leaves behind comes before its answer.
AnswersTrail ==
    \A i \in 1..Len(bcast) :
        bcast[i].kind = "INTERFACES" /\ bcast[i].from = "Measurements"
            => front \in {"Measurements", "Elsewhere"}
SnapshotsTrail ==
    \A i \in 1..Len(bcast) :
        bcast[i].kind = "snapshot" /\ bcast[i].from # "Measurements"
            => \/ sm # "IDLE" /\ working = bcast[i].from
               \/ \E j \in 1..Len(bcast) :
                      j > i /\ IsToken(bcast[j]) /\ bcast[j].from = bcast[i].from
TokenInv == OneToken /\ Shown /\ StoringShown /\ AnswersTrail /\ SnapshotsTrail

\* Rows that are no devices are those of a scan in front of the user.
RowsHidden ==
    \A s \in DeviceScreens : front = s /\ list[s] # "devices" =>
        view[s].up /\ view[s].pd = "scanning"
RowsInv == RowsHidden /\ list["FinalTraining"] = "devices" /\ ~crashed

\* The snapshots of a series are taken, still to be asked for, or under way.
SeriesInv ==
    /\ state = "IDLE" \/ timers["Measurements"] > 0 => scansLeft = 0
    /\ state = "SNAPSHOT" =>
           /\ front = "Measurements"
           /\ view["Measurements"].up /\ view["Measurements"].pd = "scanning"
           /\ Outstanding("Measurements") => taken + scansLeft + 1 = series

Inv == LineInv /\ (~cut => TokenInv /\ RowsInv /\ SeriesInv)

-----------------------------------------------------------------------------
(* Dialogs and broadcasts                                                  *)

\* What showing and dismissing make of a screen's dialogs.
LEMMA FreshView == Sound(Fresh) /\ ~Fresh.up /\ Fresh.orphans = {} /\ Fresh.pd = "null"
  BY DEF Fresh, Views, Sound

LEMMA DismissView ==
    ASSUME NEW v, Sound(v)
    PROVE  /\ Sound(Dismiss(v))
           /\ ~Dismiss(v).up /\ Dismiss(v).pd = v.pd /\ Dismiss(v).orphans = v.orphans
<1>1. v \in [pd : Dialogs \cup {"null"}, up : BOOLEAN, orphans : SUBSET Dialogs]
  BY DEF Views, Sound
<1>2. /\ Dismiss(v) \in [pd : Dialogs \cup {"null"}, up : BOOLEAN, orphans : SUBSET Dialogs]
      /\ ~Dismiss(v).up /\ Dismiss(v).pd = v.pd /\ Dismiss(v).orphans = v.orphans
  BY <1>1 DEF Dismiss
<1>3. ASSUME v = Fresh PROVE Dismiss(v) = Fresh
  <2> DEFINE w == Dismiss(v)
  <2>1. w = [pd |-> w.pd, up |-> w.up, orphans |-> w.orphans]
    BY <1>2
  <2>2. w.pd = "null" /\ w.up = FALSE /\ w.orphans = {}
    BY <1>2, <1>3, FreshView
  <2> HIDE DEF w
  <2> QED
    BY <2>1, <2>2 DEF Fresh, w
<1> QED
  BY <1>2, <1>3 DEF Sound, Views

LEMMA ShowView ==
    ASSUME NEW v, Sound(v), NEW what \in Dialogs
    PROVE  /\ Sound(Show(v, what))
           /\ Show(v, what).up /\ Show(v, what).pd = what
           /\ v.orphans \subseteq Show(v, what).orphans
           /\ v.up => v.pd \in Show(v, what).orphans
           /\ v.orphans = {} /\ ~v.up => Show(v, what).orphans = {}
<1>1. /\ v.pd \in Dialogs \cup {"null"} /\ v.up \in BOOLEAN /\ v.orphans \subseteq Dialogs
      /\ v.up => v.pd \in Dialogs
  BY FreshView DEF Views, Sound
<1>2. what # "null"
  BY DEF Dialogs
<1> DEFINE left == IF v.up THEN v.orphans \cup {v.pd} ELSE v.orphans
<1>3. left \subseteq Dialogs
  BY <1>1
<1>4. Show(v, what) = [pd |-> what, up |-> TRUE, orphans |-> left]
  BY DEF Show
<1>5. v.orphans \subseteq left /\ (v.up => v.pd \in left) /\ (v.orphans = {} /\ ~v.up => left = {})
  BY <1>1
<1> HIDE DEF left
<1> QED
  BY <1>2, <1>3, <1>4, <1>5 DEF Sound, Views

\* The first d broadcasts are taken, and those in sent follow the rest.
Moved(d, sent) ==
    /\ d \in {0, 1} /\ d <= Len(bcast)
    /\ bcast' \in Seq(Messages) /\ Len(bcast') = Len(bcast) - d + Len(sent)
    /\ \A i \in 1..(Len(bcast) - d) : bcast'[i] = bcast[i + d]
    /\ \A i \in 1..Len(sent) : bcast'[Len(bcast) - d + i] = sent[i]

LEMMA NoneMoved ==
    ASSUME bcast \in Seq(Messages), UNCHANGED bcast
    PROVE  Moved(0, <<>>)
  BY DEF Moved

LEMMA Sent ==
    ASSUME bcast \in Seq(Messages), NEW sent \in Seq(Messages), bcast' = bcast \o sent
    PROVE  Moved(0, sent)
  BY DEF Moved

LEMMA SentOne ==
    ASSUME bcast \in Seq(Messages), NEW m \in Messages, bcast' = Append(bcast, m)
    PROVE  Moved(0, <<m>>)
  BY DEF Moved

LEMMA Replied ==
    ASSUME bcast \in Seq(Messages), bcast # <<>>, NEW sent \in Seq(Messages), Reply(sent)
    PROVE  Moved(1, sent)
<1>1. Len(bcast) \in Nat \ {0} /\ Tail(bcast) \in Seq(Messages) /\ Len(Tail(bcast)) = Len(bcast) - 1
      /\ \A i \in 1..(Len(bcast) - 1) : Tail(bcast)[i] = bcast[i + 1]
  OBVIOUS
<1> DEFINE rest == Tail(bcast)
<1>2. bcast' = rest \o sent
  BY DEF Reply
<1>3. rest \in Seq(Messages) /\ Len(rest) = Len(bcast) - 1
  BY <1>1
<1> HIDE DEF rest
<1>4. /\ bcast' \in Seq(Messages) /\ Len(bcast') = Len(rest) + Len(sent)
      /\ \A i \in 1..Len(rest) : bcast'[i] = rest[i]
      /\ \A i \in 1..Len(sent) : bcast'[Len(rest) + i] = sent[i]
  <2>1. /\ bcast' \in Seq(Messages) /\ Len(bcast') = Len(rest) + Len(sent)
        /\ \A i \in 1..(Len(rest) + Len(sent)) :
               bcast'[i] = IF i <= Len(rest) THEN rest[i] ELSE sent[i - Len(rest)]
    BY ONLY <1>2, <1>3, sent \in Seq(Messages), ConcatProperties
  <2>2. Len(rest) \in Nat /\ Len(sent) \in Nat
    BY <1>3
  <2>3. ASSUME NEW i \in 1..Len(sent) PROVE bcast'[Len(rest) + i] = sent[i]
    <3>1. /\ Len(rest) + i \in 1..(Len(rest) + Len(sent))
          /\ ~(Len(rest) + i <= Len(rest)) /\ Len(rest) + i - Len(rest) = i
      BY <2>2
    <3> QED
      BY <2>1, <3>1
  <2> QED
    BY <2>1, <2>2, <2>3
<1> QED
  BY <1>1, <1>3, <1>4 DEF Moved, rest

\* Where a broadcast on its way comes from, and where one goes.
LEMMA MovedFrom ==
    ASSUME bcast \in Seq(Messages), NEW d, NEW sent \in Seq(Messages), Moved(d, sent),
           NEW i \in 1..Len(bcast')
    PROVE  \/ i + d \in 1..Len(bcast) /\ bcast'[i] = bcast[i + d]
           \/ /\ i - (Len(bcast) - d) \in 1..Len(sent)
              /\ bcast'[i] = sent[i - (Len(bcast) - d)]
<1>1. Len(bcast) \in Nat /\ Len(sent) \in Nat /\ d \in {0, 1}
  BY DEF Moved
<1>2. CASE i <= Len(bcast) - d
  BY <1>1, <1>2 DEF Moved
<1>3. CASE i > Len(bcast) - d
  <2>1. i - (Len(bcast) - d) \in 1..Len(sent) /\ Len(bcast) - d + (i - (Len(bcast) - d)) = i
    BY <1>1, <1>3 DEF Moved
  <2> QED
    BY <2>1 DEF Moved
<1> QED
  BY <1>1, <1>2, <1>3

LEMMA TakenFrom ==
    ASSUME bcast \in Seq(Messages), Moved(1, <<>>), NEW i \in 1..Len(bcast')
    PROVE  i + 1 \in 1..Len(bcast) /\ bcast'[i] = bcast[i + 1]
<1>1. Len(bcast) \in Nat /\ Len(bcast') = Len(bcast) - 1
  BY DEF Moved
<1>2. i \in 1..(Len(bcast) - 1)
  BY <1>1
<1> QED
  BY <1>1, <1>2 DEF Moved

LEMMA HeadTyped ==
    ASSUME bcast \in Seq(Messages), bcast # <<>>
    PROVE  /\ 1 \in 1..Len(bcast) /\ Head(bcast) = bcast[1] /\ From = bcast[1].from
           /\ From \in Screens /\ Head(bcast).kind \in Kinds
<1>1. 1 \in 1..Len(bcast) /\ Head(bcast) = bcast[1] /\ bcast[1] \in Messages
  OBVIOUS
<1> QED
  BY <1>1 DEF From, Messages

LEMMA MovedTo ==
    ASSUME bcast \in Seq(Messages), NEW d, NEW sent \in Seq(Messages), Moved(d, sent),
           NEW i \in 1..Len(bcast), i > d
    PROVE  i - d \in 1..Len(bcast') /\ bcast'[i - d] = bcast[i]
<1>1. Len(bcast) \in Nat /\ Len(sent) \in Nat /\ d \in {0, 1}
  BY DEF Moved
<1>2. i - d \in 1..(Len(bcast) - d) /\ (i - d) + d = i
  BY <1>1
<1> QED
  BY <1>1, <1>2 DEF Moved

LEMMA MessageFields ==
    ASSUME NEW kind \in Kinds, NEW s \in Screens
    PROVE  /\ Message(kind, s) \in Messages
           /\ Message(kind, s).kind = kind /\ Message(kind, s).from = s
  BY DEF Message, Messages

LEMMA MessageTyped ==
    ASSUME bcast \in Seq(Messages), NEW i \in 1..Len(bcast)
    PROVE  bcast[i].kind \in Kinds /\ bcast[i].from \in Screens
<1>1. bcast[i] \in Messages
  OBVIOUS
<1> QED
  BY <1>1 DEF Messages

-----------------------------------------------------------------------------
(* The types                                                               *)

\* Broadcasts that are no scan's change nothing of what is known of the rest.
LEMMA LineMoves ==
    ASSUME LineInv, NEW d, NEW sent \in Seq(Messages), Moved(d, sent),
           \A i \in 1..Len(sent) : sent[i].kind \notin Stages \cup {"INTERFACES", "DEVICES"},
           UNCHANGED <<sm, working>>
    PROVE  bcast' \in Seq(Messages) /\ (StagesKnown /\ WorkKnown /\ AnswersKnown)'
<1>1. bcast \in Seq(Messages) /\ Len(bcast) \in Nat /\ d \in {0, 1}
  BY DEF LineInv, TypeOK, Moved
<1>2. ASSUME NEW i \in 1..Len(bcast'), bcast'[i].kind \in Stages \cup {"INTERFACES", "DEVICES"}
      PROVE  i + d \in 1..Len(bcast) /\ bcast'[i] = bcast[i + d]
  BY <1>1, <1>2, MovedFrom
<1>3. StagesKnown'
  <2> SUFFICES ASSUME NEW i \in 1..Len(bcast'), NEW j \in 1..Len(bcast'),
                      bcast'[i].kind \in Stages
               PROVE  bcast'[i].kind = sm' /\ (bcast'[j].kind \in Stages => i = j)
    BY DEF StagesKnown
  <2>1. i + d \in 1..Len(bcast) /\ bcast'[i] = bcast[i + d]
    BY <1>2
  <2>2. ASSUME bcast'[j].kind \in Stages PROVE i = j
    <3>1. j + d \in 1..Len(bcast) /\ bcast'[j] = bcast[j + d]
      BY <1>2, <2>2
    <3>2. i + d = j + d
      BY <2>1, <2>2, <3>1 DEF LineInv, StagesKnown
    <3> QED
      BY <3>2, <1>1
  <2> QED
    BY <2>1, <2>2 DEF LineInv, StagesKnown
<1>4. AnswersKnown'
  <2> SUFFICES ASSUME NEW i \in 1..Len(bcast')
               PROVE  /\ bcast'[i].kind = "INTERFACES" => bcast'[i].from \in ScanOnly
                      /\ bcast'[i].kind = "DEVICES" => bcast'[i].from \notin ScanOnly
    BY DEF AnswersKnown
  <2> QED
    BY <1>2 DEF LineInv, AnswersKnown
<1>5. WorkKnown'
  BY DEF LineInv, WorkKnown
<1> QED
  BY <1>3, <1>4, <1>5 DEF Moved

\* What a step must show of the dialogs.
LEMMA ViewTyped ==
    ASSUME LineInv, NEW s \in Screens, NEW v, Sound(v),
           s # "MainInterface" => v.orphans = {},
           view' = [view EXCEPT ![s] = v]
    PROVE  view' \in [Screens -> Views] /\ ViewsKnown'
<1>1. view \in [Screens -> Views] /\ v \in Views
  BY DEF LineInv, TypeOK, Sound
<1>2. view' \in [Screens -> Views]
  BY <1>1
<1>3. ASSUME NEW t \in Screens
      PROVE  Sound(view'[t]) /\ (t # "MainInterface" => view'[t].orphans = {})
  <2>1. view'[t] = IF t = s THEN v ELSE view[t]
    BY <1>1
  <2> QED
    BY <2>1 DEF LineInv, ViewsKnown
<1>4. ViewsKnown'
  BY <1>3 DEF ViewsKnown
<1> QED
  BY <1>2, <1>4

\* A button brings a dialog on a screen that shows none; or the dialog replaces
\* the one before; or it goes.
LEMMA ViewChanges ==
    ASSUME LineInv, NEW s \in Screens, NEW what \in Dialogs
    PROVE  /\ Sound(Fresh)
           /\ Sound(Dismiss(view[s])) /\ Dismiss(view[s]).orphans = view[s].orphans
           /\ Sound(Show(view[s], what)) /\ Sound(Show(Dismiss(view[s]), what))
           /\ s # "MainInterface" => Show(Dismiss(view[s]), what).orphans = {}
           /\ s # "MainInterface" /\ Showing(s) = {} => Show(view[s], what).orphans = {}
<1>1. Sound(view[s]) /\ (s # "MainInterface" => view[s].orphans = {})
  BY DEF LineInv, ViewsKnown
<1>2. Showing(s) = {} => ~view[s].up
  BY DEF Showing
<1> QED
  BY <1>1, <1>2, FreshView, DismissView, ShowView

\* The type invariant by the groups of variables that steps leave alone.
UiTyped == front \in Screens \cup {"Elsewhere"} /\ resumed \in BOOLEAN /\ bound \in BOOLEAN
JobsTyped ==
    /\ timers \in [Screens -> Nat]
    /\ storing \in [DeviceScreens -> {"none", "stay", "scan", "window"}]
ListsTyped == list \in [Screens -> {"none", "interfaces", "devices"}] /\ internal \in BOOLEAN
MeasureTyped ==
    state \in {"IDLE", "SNAPSHOT"} /\ scansLeft \in Nat /\ series \in Nat /\ taken \in Nat
SysTyped ==
    /\ system \in {"INITIALIZING", "loaded", "IDLE"} /\ settings \in BOOLEAN
    /\ inits \in [UsbRadios -> {"none", "queued", "reset", "done"}]
WorkTyped ==
    /\ sm \in {"IDLE"} \cup Stages
    /\ working \in Screens \cup {"none"} /\ (working = "none" <=> sm = "IDLE")
EndTyped == crashed \in BOOLEAN /\ cut \in BOOLEAN /\ asked \in 0..MaxRequests
ViewTypes == view \in [Screens -> Views] /\ ViewsKnown
LineTyped == bcast \in Seq(Messages) /\ StagesKnown /\ WorkKnown /\ AnswersKnown

LEMMA LineParts ==
    /\ LineInv <=> /\ UiTyped /\ JobsTyped /\ ListsTyped /\ MeasureTyped /\ SysTyped
                   /\ WorkTyped /\ EndTyped /\ ViewTypes /\ LineTyped
    /\ LineInv' <=> (/\ UiTyped /\ JobsTyped /\ ListsTyped /\ MeasureTyped /\ SysTyped
                     /\ WorkTyped /\ EndTyped /\ ViewTypes /\ LineTyped)'
  BY DEF LineInv, TypeOK, UiTyped, JobsTyped, ListsTyped, MeasureTyped, SysTyped,
         WorkTyped, EndTyped, ViewTypes, LineTyped

LEMMA PartsStay ==
    /\ UiTyped /\ UNCHANGED uiVars => UiTyped'
    /\ JobsTyped /\ UNCHANGED jobVars => JobsTyped'
    /\ ListsTyped /\ UNCHANGED listVars => ListsTyped'
    /\ MeasureTyped /\ UNCHANGED measureVars => MeasureTyped'
    /\ SysTyped /\ UNCHANGED sysVars => SysTyped'
    /\ WorkTyped /\ UNCHANGED <<sm, working>> => WorkTyped'
    /\ ViewTypes /\ UNCHANGED view => ViewTypes'
    /\ LineTyped /\ UNCHANGED scanVars => LineTyped'
<1>1. UiTyped /\ UNCHANGED uiVars => UiTyped'
  BY DEF UiTyped, uiVars
<1>2. JobsTyped /\ UNCHANGED jobVars => JobsTyped'
  BY DEF JobsTyped, jobVars
<1>3. ListsTyped /\ UNCHANGED listVars => ListsTyped'
  BY DEF ListsTyped, listVars
<1>4. MeasureTyped /\ UNCHANGED measureVars => MeasureTyped'
  BY DEF MeasureTyped, measureVars
<1>5. SysTyped /\ UNCHANGED sysVars => SysTyped'
  BY DEF SysTyped, sysVars
<1>6. WorkTyped /\ UNCHANGED <<sm, working>> => WorkTyped'
  BY DEF WorkTyped
<1>7. ViewTypes /\ UNCHANGED view => ViewTypes'
  BY DEF ViewTypes, ViewsKnown
<1>8. LineTyped /\ UNCHANGED scanVars => LineTyped'
  BY DEF LineTyped, scanVars, StagesKnown, WorkKnown, AnswersKnown
<1> QED
  BY <1>1, <1>2, <1>3, <1>4, <1>5, <1>6, <1>7, <1>8

\* The parts a step does not leave alone.
LEMMA UserTyped ==
    ASSUME LineInv, cut' \in BOOLEAN, PressHome \/ Return \/ GiveSettings
    PROVE  LineInv'
<1>1. /\ UNCHANGED <<view, crashed, asked>> /\ UNCHANGED jobVars /\ UNCHANGED listVars
      /\ UNCHANGED measureVars /\ UNCHANGED scanVars
  BY DEF PressHome, Return, GiveSettings
<1>2. UiTyped'
  BY LineParts DEF PressHome, Return, GiveSettings, UiTyped, uiVars
<1>3. SysTyped'
  BY LineParts DEF PressHome, Return, GiveSettings, SysTyped, sysVars
<1>4. EndTyped'
  BY <1>1, LineParts DEF EndTyped
<1> QED
  BY <1>1, <1>2, <1>3, <1>4, LineParts, PartsStay DEF scanVars

LEMMA StartsTyped ==
    ASSUME LineInv, NEW s \in Screens, NEW views \in [Screens -> Views],
           \A t \in Screens : Sound(views[t]) /\ (t # "MainInterface" => views[t].orphans = {}),
           s # "MainInterface" /\ ~views[s].up, StartScan(s, views)
    PROVE  ViewTypes' /\ timers' \in [Screens -> Nat]
<1>1. timers' \in [Screens -> Nat]
  BY DEF LineInv, TypeOK, StartScan
<1> DEFINE v == Show(views[s], "scanning")
<1>2. Sound(v) /\ v.orphans = {} /\ v \in Views
  BY ShowView DEF Dialogs, Sound
<1>3. view' = [views EXCEPT ![s] = v]
  BY DEF StartScan
<1> HIDE DEF v
<1>4. view' \in [Screens -> Views] /\ \A t \in Screens : view'[t] = IF t = s THEN v ELSE views[t]
  BY <1>2, <1>3
<1>5. ViewsKnown'
  <2> SUFFICES ASSUME NEW t \in Screens
               PROVE  Sound(view'[t]) /\ (t # "MainInterface" => view'[t].orphans = {})
    BY DEF ViewsKnown
  <2> QED
    BY <1>2, <1>4
<1> QED
  BY <1>1, <1>4, <1>5 DEF ViewTypes

LEMMA ViewsOf ==
    ASSUME LineInv
    PROVE  /\ view \in [Screens -> Views]
           /\ \A t \in Screens : Sound(view[t]) /\ (t # "MainInterface" => view[t].orphans = {})
  BY DEF LineInv, TypeOK, ViewsKnown

\* A screen's dialogs are replaced by others.
LEMMA ViewsWith ==
    ASSUME LineInv, NEW s \in Screens, NEW v, Sound(v), s # "MainInterface" => v.orphans = {}
    PROVE  /\ [view EXCEPT ![s] = v] \in [Screens -> Views]
           /\ [view EXCEPT ![s] = v][s] = v
           /\ \A t \in Screens : /\ Sound([view EXCEPT ![s] = v][t])
                                 /\ t # "MainInterface" => [view EXCEPT ![s] = v][t].orphans = {}
           /\ view' = [view EXCEPT ![s] = v] => ViewTypes'
<1>1. view \in [Screens -> Views] /\ v \in Views
  BY ViewsOf DEF Sound
<1>2. /\ [view EXCEPT ![s] = v] \in [Screens -> Views]
      /\ \A t \in Screens : [view EXCEPT ![s] = v][t] = IF t = s THEN v ELSE view[t]
  BY <1>1
<1>3. view' = [view EXCEPT ![s] = v] => ViewTypes'
  BY ViewTyped DEF ViewTypes
<1> QED
  BY <1>2, <1>3, ViewsOf

LEMMA EnterTyped ==
    ASSUME LineInv, NEW s \in Screens, NEW known \in BOOLEAN, NEW views \in [Screens -> Views],
           \A t \in Screens : Sound(views[t]) /\ (t # "MainInterface" => views[t].orphans = {}),
           Enter(s, known, views)
    PROVE  /\ ViewTypes' /\ timers' \in [Screens -> Nat]
           /\ front' \in Screens /\ resumed' \in BOOLEAN
           /\ list' \in [Screens -> {"none", "interfaces", "devices"}]
           /\ state' \in {"IDLE", "SNAPSHOT"} /\ scansLeft' \in Nat
<1>1. /\ front' \in Screens /\ resumed' \in BOOLEAN
      /\ list' \in [Screens -> {"none", "interfaces", "devices"}]
      /\ state' \in {"IDLE", "SNAPSHOT"} /\ scansLeft' \in Nat
  <2>1. \E rows \in {"none", "devices"} : list' = [list EXCEPT ![s] = rows]
    BY DEF Enter
  <2>2. front' = s /\ resumed' = TRUE
    BY DEF Enter
  <2>3. state' \in {"IDLE", "SNAPSHOT"} /\ scansLeft' \in Nat
    BY DEF Enter, LineInv, TypeOK
  <2> QED
    BY <2>1, <2>2, <2>3 DEF LineInv, TypeOK
<1> DEFINE fresh == [views EXCEPT ![s] = Fresh]
<1>2. /\ fresh \in [Screens -> Views] /\ fresh[s] = Fresh
      /\ \A t \in Screens : Sound(fresh[t]) /\ (t # "MainInterface" => fresh[t].orphans = {})
  <2>1. Fresh \in Views
    BY FreshView DEF Sound
  <2>2. /\ fresh \in [Screens -> Views]
        /\ \A t \in Screens : fresh[t] = IF t = s THEN Fresh ELSE views[t]
    BY <2>1
  <2> QED
    BY <2>2, FreshView
<1>3. CASE ScansAtOnce(s, known)
  <2>1. StartScan(s, fresh)
    BY <1>3 DEF Enter
  <2>2. s # "MainInterface"
    BY <1>3 DEF ScansAtOnce
  <2> HIDE DEF fresh
  <2> QED
    BY <1>1, <1>2, <2>1, <2>2, StartsTyped, FreshView
<1>4. CASE ~ScansAtOnce(s, known)
  <2>1. timers' \in [Screens -> Nat]
    BY <1>4 DEF Enter, LineInv, TypeOK
  <2>2. view' = views \/ view' = fresh
    BY <1>4 DEF Enter
  <2> HIDE DEF fresh
  <2>3. /\ view' \in [Screens -> Views]
        /\ \A t \in Screens : Sound(view'[t]) /\ (t # "MainInterface" => view'[t].orphans = {})
    BY <1>2, <2>2
  <2> QED
    BY <1>1, <2>1, <2>3 DEF ViewTypes, ViewsKnown
<1> QED
  BY <1>3, <1>4

LEMMA OpenTyped ==
    ASSUME LineInv, cut' \in BOOLEAN, NEW s \in Screens, Open(s)
    PROVE  LineInv'
<1>1. /\ Enter(s, internal, view) /\ UNCHANGED <<bound, storing, internal, series, taken, crashed>>
      /\ UNCHANGED sysVars /\ UNCHANGED scanVars
  BY DEF Open
<1>2. internal \in BOOLEAN
  BY DEF LineInv, TypeOK
<1>3. /\ ViewTypes' /\ timers' \in [Screens -> Nat]
      /\ front' \in Screens /\ resumed' \in BOOLEAN
      /\ list' \in [Screens -> {"none", "interfaces", "devices"}]
      /\ state' \in {"IDLE", "SNAPSHOT"} /\ scansLeft' \in Nat
  BY <1>1, <1>2, EnterTyped, ViewsOf
<1>4. UiTyped' /\ JobsTyped' /\ ListsTyped' /\ MeasureTyped'
  BY <1>1, <1>3, LineParts DEF UiTyped, JobsTyped, ListsTyped, MeasureTyped
<1>5. EndTyped'
  <2>1. asked' \in 0..MaxRequests
    BY MaxRequestsAssumption, LineParts DEF Open, EndTyped
  <2> QED
    BY <2>1, <1>1, LineParts DEF EndTyped
<1> QED
  BY <1>1, <1>3, <1>4, <1>5, LineParts, PartsStay DEF scanVars

LEMMA LeaveTyped ==
    ASSUME LineInv, cut' \in BOOLEAN, NEW s \in Screens, Leave(s)
    PROVE  LineInv'
<1>1. /\ UNCHANGED <<crashed, asked>> /\ UNCHANGED jobVars /\ UNCHANGED sysVars
      /\ UNCHANGED scanVars
  BY DEF Leave
<1>2. UiTyped' /\ ListsTyped' /\ MeasureTyped' /\ EndTyped'
  BY LineParts DEF Leave, UiTyped, ListsTyped, MeasureTyped, EndTyped
<1>3. ViewTypes'
  BY ViewsWith, FreshView, LineParts, PartsStay DEF Leave
<1> QED
  BY <1>1, <1>2, <1>3, LineParts, PartsStay DEF scanVars

LEMMA InitializedTyped ==
    ASSUME LineInv, SystemInitialized
    PROVE  ViewTypes' /\ front' \in Screens \cup {"Elsewhere"}
<1>1. ViewTypes'
  BY ViewsWith, ViewChanges, ViewsOf DEF SystemInitialized, Screens, Dialogs
<1>2. front' \in Screens \cup {"Elsewhere"}
  BY LineParts DEF SystemInitialized, UiTyped
<1> QED
  BY <1>1, <1>2

LEMMA ServiceBoundTyped ==
    ASSUME LineInv, cut' \in BOOLEAN, ServiceBound
    PROVE  LineInv'
<1>1. /\ UNCHANGED <<resumed, crashed, asked>> /\ UNCHANGED jobVars /\ UNCHANGED listVars
      /\ UNCHANGED measureVars /\ UNCHANGED sysVars /\ UNCHANGED scanVars
  BY DEF ServiceBound
<1>2. ViewTypes' /\ front' \in Screens \cup {"Elsewhere"}
  <2>1. CASE system = "IDLE"
    BY <2>1, InitializedTyped DEF ServiceBound
  <2>2. CASE system # "IDLE"
    <3>1. view' = [view EXCEPT !["MainInterface"] = Show(view["MainInterface"], "initializing")]
          /\ UNCHANGED front
      BY <2>2 DEF ServiceBound
    <3>2. "MainInterface" \in Screens /\ "initializing" \in Dialogs
      BY DEF Screens, Dialogs
    <3> QED
      BY <3>1, <3>2, ViewsWith, ViewChanges, LineParts DEF UiTyped
  <2> QED
    BY <2>1, <2>2
<1>3. UiTyped' /\ EndTyped'
  BY <1>1, <1>2, LineParts DEF UiTyped, EndTyped, ServiceBound
<1> QED
  BY <1>1, <1>2, <1>3, LineParts, PartsStay DEF scanVars

\* A step that moves other broadcasts than those of a scan.
LEMMA OtherSent ==
    ASSUME LineInv, NEW d, NEW sent \in Seq(Messages), Moved(d, sent),
           \A i \in 1..Len(sent) : sent[i].kind \notin Stages \cup {"INTERFACES", "DEVICES"},
           UNCHANGED <<sm, working>>
    PROVE  LineTyped' /\ WorkTyped'
  BY LineMoves, LineParts, PartsStay DEF LineTyped

LEMMA LibrariesTyped ==
    ASSUME LineInv, cut' \in BOOLEAN, LibrariesLoaded
    PROVE  LineInv'
<1>1. /\ UNCHANGED <<view, crashed, asked, sm, working>> /\ UNCHANGED uiVars /\ UNCHANGED jobVars
      /\ UNCHANGED listVars /\ UNCHANGED measureVars
  BY DEF LibrariesLoaded
<1>2. SysTyped' /\ EndTyped'
  BY <1>1, LineParts DEF LibrariesLoaded, SysTyped, EndTyped
<1> DEFINE m == Message("initialized", "MainInterface")
<1>3. m \in Messages /\ m.kind = "initialized"
  BY MessageFields DEF Kinds, Screens
<1>4. bcast' = Append(bcast, m) /\ bcast \in Seq(Messages)
  BY LineParts DEF LibrariesLoaded, LineTyped
<1> HIDE DEF m
<1>5. Moved(0, <<m>>) /\ <<m>> \in Seq(Messages) /\ Len(<<m>>) = 1 /\ <<m>>[1] = m
  BY <1>3, <1>4, SentOne
<1>6. \A i \in 1..Len(<<m>>) : <<m>>[i].kind \notin Stages \cup {"INTERFACES", "DEVICES"}
  BY <1>3, <1>5 DEF Stages
<1>7. LineTyped' /\ WorkTyped'
  BY ONLY LineInv, <1>1, <1>5, <1>6, OtherSent
<1> QED
  BY <1>1, <1>2, <1>7, LineParts, PartsStay

\* Replies that send nothing.
LEMMA TakenTyped ==
    ASSUME LineInv, bcast # <<>>, Reply(<<>>), UNCHANGED <<sm, working>>
    PROVE  LineTyped' /\ WorkTyped'
<1>1. bcast \in Seq(Messages) /\ <<>> \in Seq(Messages)
  BY LineParts DEF LineTyped
<1>2. Moved(1, <<>>)
  BY <1>1, Replied
<1>3. \A i \in 1..Len(<<>>) : <<>>[i].kind \notin Stages \cup {"INTERFACES", "DEVICES"}
  OBVIOUS
<1> QED
  BY <1>1, <1>2, <1>3, OtherSent

LEMMA DeliverInitializedTyped ==
    ASSUME LineInv, cut' \in BOOLEAN, DeliverInitialized
    PROVE  LineInv'
<1>1. /\ UNCHANGED <<resumed, settings, inits, crashed, asked, sm, working>> /\ UNCHANGED jobVars
      /\ UNCHANGED listVars /\ UNCHANGED measureVars /\ bcast # <<>> /\ Reply(<<>>)
  BY DEF DeliverInitialized, Arrives
<1>2. SysTyped' /\ EndTyped'
  BY <1>1, LineParts DEF DeliverInitialized, SysTyped, EndTyped
<1>3. ViewTypes' /\ front' \in Screens \cup {"Elsewhere"}
  BY InitializedTyped, LineParts, PartsStay DEF DeliverInitialized, UiTyped
<1>4. UiTyped'
  BY <1>1, <1>3, LineParts DEF UiTyped, DeliverInitialized
<1> QED
  BY <1>1, <1>2, <1>3, <1>4, TakenTyped, LineParts, PartsStay

LEMMA PlugTyped ==
    ASSUME LineInv, cut' \in BOOLEAN, NEW radios \in SUBSET UsbRadios, Plug(radios)
    PROVE  LineInv'
<1>1. /\ UNCHANGED <<view, crashed, asked, sm, working>> /\ UNCHANGED uiVars /\ UNCHANGED jobVars
      /\ UNCHANGED listVars /\ UNCHANGED measureVars
  BY DEF Plug
<1>2. SysTyped' /\ EndTyped'
  BY <1>1, LineParts DEF Plug, SysTyped, EndTyped
<1> DEFINE n == IF radios = {"Wifi", "ZigBee"} THEN 2 ELSE 1
           m == Message("show", "MainInterface")
           sent == [i \in 1..n |-> m]
<1>3. m \in Messages /\ m.kind = "show" /\ n \in Nat
  BY MessageFields DEF Kinds, Screens
<1>4. bcast' = bcast \o sent /\ bcast \in Seq(Messages)
  BY LineParts DEF Plug, LineTyped
<1> HIDE DEF m, n
<1>5. sent \in Seq(Messages) /\ Len(sent) = n /\ \A i \in 1..n : sent[i] = m
  BY <1>3
<1> HIDE DEF sent
<1>6. LineTyped' /\ WorkTyped'
  BY <1>1, <1>3, <1>4, <1>5, Sent, OtherSent DEF Stages
<1> QED
  BY <1>1, <1>2, <1>6, LineParts, PartsStay

LEMMA InitsTyped ==
    ASSUME LineInv, cut' \in BOOLEAN, Inits
    PROVE  LineInv'
<1>1. /\ UNCHANGED <<view, crashed, asked, sm, working>> /\ UNCHANGED uiVars /\ UNCHANGED jobVars
      /\ UNCHANGED listVars /\ UNCHANGED measureVars
  BY DEF Inits, InitAsks, InitEnds
<1>2. SysTyped' /\ EndTyped'
  BY <1>1, LineParts DEF Inits, InitAsks, InitEnds, SysTyped, EndTyped
<1> DEFINE show == Message("show", "MainInterface")
           cancel == Message("cancel", "MainInterface")
<1>3. show \in Messages /\ show.kind = "show" /\ cancel \in Messages /\ cancel.kind = "cancel"
  BY MessageFields DEF Kinds, Screens
<1>4. /\ bcast \in Seq(Messages)
      /\ bcast' = bcast \o <<cancel, show>> \/ bcast' = Append(bcast, cancel)
  BY LineParts DEF Inits, InitAsks, InitEnds, LineTyped
<1> HIDE DEF show, cancel
<1>5. <<cancel, show>> \in Seq(Messages) /\ <<cancel>> \in Seq(Messages)
  BY <1>3
<1>6. \E sent \in {<<cancel, show>>, <<cancel>>} : Moved(0, sent)
  BY <1>3, <1>4, <1>5, Sent, SentOne
<1>7. /\ \A i \in 1..Len(<<cancel, show>>) :
             <<cancel, show>>[i].kind \notin Stages \cup {"INTERFACES", "DEVICES"}
      /\ \A i \in 1..Len(<<cancel>>) :
             <<cancel>>[i].kind \notin Stages \cup {"INTERFACES", "DEVICES"}
  BY <1>3 DEF Stages
<1>8. LineTyped' /\ WorkTyped'
  BY ONLY LineInv, <1>1, <1>5, <1>6, <1>7, OtherSent
<1> QED
  BY <1>1, <1>2, <1>8, LineParts, PartsStay

LEMMA DeliverShowTyped ==
    ASSUME LineInv, cut' \in BOOLEAN, DeliverShow \/ DeliverCancel
    PROVE  LineInv'
<1>1. /\ UNCHANGED <<crashed, asked, sm, working>> /\ UNCHANGED uiVars /\ UNCHANGED jobVars
      /\ UNCHANGED sysVars /\ UNCHANGED listVars /\ UNCHANGED measureVars
      /\ bcast # <<>> /\ Reply(<<>>)
  BY DEF DeliverShow, DeliverCancel, Arrives
<1>2. EndTyped'
  BY <1>1, LineParts DEF EndTyped
<1>3. \/ UNCHANGED view
      \/ view' = [view EXCEPT !["MainInterface"] = Show(view["MainInterface"], "usb")]
      \/ view' = [view EXCEPT !["MainInterface"] = Dismiss(view["MainInterface"])]
  BY DEF DeliverShow, DeliverCancel
<1>4. "MainInterface" \in Screens /\ "usb" \in Dialogs
  BY DEF Screens, Dialogs
<1>5. ViewTypes'
  BY <1>3, <1>4, ViewsWith, ViewChanges, LineParts, PartsStay
<1> QED
  BY <1>1, <1>2, <1>5, TakenTyped, LineParts, PartsStay

LEMMA RequestTyped ==
    ASSUME NEW s \in Screens
    PROVE  /\ Request(s) \in Messages /\ Request(s).kind = "request" /\ Request(s).from = s
           /\ <<Request(s)>> \in Seq(Messages)
           /\ Len(<<Request(s)>>) = 1 /\ <<Request(s)>>[1] = Request(s)
           /\ \A i \in 1..Len(<<Request(s)>>) :
                  <<Request(s)>>[i].kind \notin Stages \cup {"INTERFACES", "DEVICES"}
<1>1. Request(s) \in Messages /\ Request(s).kind = "request" /\ Request(s).from = s
  BY MessageFields DEF Request, Kinds
<1> QED
  BY <1>1 DEF Stages

LEMMA RequestsTyped ==
    ASSUME LineInv, NEW s \in Screens, bcast' = Append(bcast, Request(s)), UNCHANGED <<sm, working>>
    PROVE  LineTyped' /\ WorkTyped' /\ Moved(0, <<Request(s)>>)
<1>1. bcast \in Seq(Messages)
  BY LineParts DEF LineTyped
<1>2. Moved(0, <<Request(s)>>)
  BY <1>1, RequestTyped, SentOne
<1> QED
  BY <1>2, RequestTyped, OtherSent

LEMMA UsableShows == ASSUME NEW s, Usable(s) PROVE front = s /\ Showing(s) = {} /\ ~view[s].up
  BY DEF Usable, Registered, Showing

\* The user's buttons show a dialog on a screen without one.
LEMMA ButtonTyped ==
    ASSUME LineInv, NEW s \in Screens, NEW what \in Dialogs, Usable(s),
           view' = [view EXCEPT ![s] = Show(view[s], what)]
    PROVE  ViewTypes'
<1> DEFINE v == Show(view[s], what)
<1>1. Sound(v) /\ (s # "MainInterface" => v.orphans = {})
  BY UsableShows, ViewChanges
<1> HIDE DEF v
<1>2. view' = [view EXCEPT ![s] = v]
  BY DEF v
<1> QED
  BY <1>1, <1>2, ViewsWith

LEMMA ClickTyped ==
    ASSUME LineInv, cut' \in BOOLEAN, ClickAddNetwork
    PROVE  LineInv'
<1>1. /\ UNCHANGED <<crashed, sm, working>> /\ UNCHANGED uiVars /\ UNCHANGED jobVars
      /\ UNCHANGED listVars /\ UNCHANGED measureVars /\ UNCHANGED sysVars
  BY DEF ClickAddNetwork
<1>2. EndTyped'
  BY MaxRequestsAssumption, LineParts DEF ClickAddNetwork, EndTyped
<1>3. "MainInterface" \in Screens /\ "scanning" \in Dialogs
  BY DEF Screens, Dialogs
<1>4. LineTyped' /\ WorkTyped'
  BY <1>1, <1>3, RequestsTyped DEF ClickAddNetwork
<1>5. ViewTypes'
  BY <1>3, ButtonTyped DEF ClickAddNetwork
<1> QED
  BY <1>1, <1>2, <1>4, <1>5, LineParts, PartsStay

LEMMA TriggerTyped ==
    ASSUME LineInv, cut' \in BOOLEAN, NEW n \in 1..MaxSeries, TriggerSnapshots(n)
    PROVE  LineInv'
<1>1. /\ UNCHANGED <<crashed, sm, working>> /\ UNCHANGED uiVars /\ UNCHANGED jobVars
      /\ UNCHANGED listVars /\ UNCHANGED sysVars
  BY DEF TriggerSnapshots
<1>0. n \in Nat \ {0}
  BY MaxSeriesAssumption
<1>2. EndTyped'
  BY <1>0, MaxRequestsAssumption, LineParts DEF TriggerSnapshots, EndTyped
<1>3. "Measurements" \in Screens /\ "scanning" \in Dialogs
  BY DEF Screens, Dialogs
<1>4. LineTyped' /\ WorkTyped'
  BY <1>1, <1>3, RequestsTyped DEF TriggerSnapshots
<1>5. ViewTypes'
  BY <1>3, ButtonTyped DEF TriggerSnapshots
<1>6. MeasureTyped'
  BY <1>0, LineParts DEF TriggerSnapshots, MeasureTyped
<1> QED
  BY <1>1, <1>2, <1>4, <1>5, <1>6, LineParts, PartsStay

LEMMA DelayedTyped ==
    ASSUME LineInv, cut' \in BOOLEAN, TriggerSnapshotDelayed
    PROVE  LineInv'
<1>1. /\ UNCHANGED <<storing, scansLeft, crashed>> /\ UNCHANGED uiVars /\ UNCHANGED listVars
      /\ UNCHANGED sysVars /\ UNCHANGED scanVars
  BY DEF TriggerSnapshotDelayed
<1>2. EndTyped'
  BY MaxRequestsAssumption, LineParts DEF TriggerSnapshotDelayed, EndTyped
<1>3. "Measurements" \in Screens \ {"MainInterface"}
  BY DEF Screens
<1>5. ViewTypes' /\ timers' \in [Screens -> Nat]
  BY <1>3, ViewsOf, StartsTyped, UsableShows DEF TriggerSnapshotDelayed
<1>6. MeasureTyped' /\ JobsTyped'
  BY <1>1, <1>5, LineParts DEF TriggerSnapshotDelayed, MeasureTyped, JobsTyped
<1> QED
  BY <1>1, <1>2, <1>5, <1>6, LineParts, PartsStay DEF scanVars

LEMMA DelayIsOverTyped ==
    ASSUME LineInv, cut' \in BOOLEAN, DelayIsOver
    PROVE  LineInv'
<1>1. /\ UNCHANGED <<storing, state, series, taken, sm, working, asked>> /\ UNCHANGED uiVars
      /\ UNCHANGED listVars /\ UNCHANGED sysVars
  BY DEF DelayIsOver
<1>3. "Measurements" \in Screens \ {"MainInterface"} /\ "scanning" \in Dialogs
  BY DEF Screens, Dialogs
<1>4. JobsTyped'
  BY <1>1, <1>3, LineParts DEF DelayIsOver, JobsTyped
<1>5. CASE front # "Measurements"
  <2>1. UNCHANGED <<view, bcast, scansLeft>> /\ crashed' = TRUE
    BY <1>5 DEF DelayIsOver
  <2>2. MeasureTyped' /\ EndTyped'
    BY <1>1, <2>1, LineParts DEF MeasureTyped, EndTyped
  <2> QED
    BY <1>1, <1>4, <2>1, <2>2, LineParts, PartsStay DEF scanVars
<1>6. CASE front = "Measurements"
  <2>1. /\ bcast' = Append(bcast, Request("Measurements")) /\ scansLeft' = 0 /\ UNCHANGED crashed
        /\ view' = [view EXCEPT !["Measurements"] = Show(Dismiss(view["Measurements"]), "scanning")]
    BY <1>6 DEF DelayIsOver
  <2>2. MeasureTyped' /\ EndTyped'
    BY <1>1, <2>1, LineParts DEF MeasureTyped, EndTyped
  <2>3. ViewTypes'
    BY <1>3, <2>1, ViewsWith, ViewChanges
  <2> QED
    BY <1>1, <1>3, <1>4, <2>1, <2>2, <2>3, RequestsTyped, LineParts, PartsStay
<1> QED
  BY <1>5, <1>6

LEMMA TimerFiresTyped ==
    ASSUME LineInv, cut' \in BOOLEAN, NEW s \in Screens, TimerFires(s)
    PROVE  LineInv'
<1>1. /\ UNCHANGED <<view, crashed, sm, working, asked>> /\ UNCHANGED uiVars
      /\ UNCHANGED listVars /\ UNCHANGED sysVars /\ UNCHANGED measureVars /\ UNCHANGED storing
  BY DEF TimerFires
<1>2. JobsTyped' /\ EndTyped'
  BY <1>1, LineParts DEF TimerFires, JobsTyped, EndTyped
<1>3. LineTyped' /\ WorkTyped'
  BY <1>1, RequestsTyped DEF TimerFires
<1> QED
  BY <1>1, <1>2, <1>3, LineParts, PartsStay

LEMMA SaveTyped ==
    ASSUME LineInv, cut' \in BOOLEAN, NEW s \in DeviceScreens, NEW next, SaveSelections(s, next)
    PROVE  LineInv'
<1>1. /\ UNCHANGED timers /\ UNCHANGED uiVars /\ UNCHANGED listVars /\ UNCHANGED measureVars
      /\ UNCHANGED sysVars /\ UNCHANGED scanVars
  BY DEF SaveSelections
<1>2. EndTyped'
  <2>1. asked' \in 0..MaxRequests
    BY MaxRequestsAssumption, LineParts DEF SaveSelections, EndTyped
  <2>2. crashed' \in BOOLEAN
    BY DEF SaveSelections
  <2> QED
    BY <2>1, <2>2 DEF EndTyped
<1>3. JobsTyped'
  BY <1>1, LineParts DEF SaveSelections, JobsTyped
<1>4. s \in Screens /\ "storing" \in Dialogs
  BY DEF DeviceScreens, Screens, Dialogs
<1>5. ViewTypes'
  BY <1>4, ButtonTyped DEF SaveSelections
<1> QED
  BY <1>1, <1>2, <1>3, <1>5, LineParts, PartsStay DEF scanVars

LEMMA MarkTyped ==
    ASSUME LineInv, cut' \in BOOLEAN, MarkDevice
    PROVE  LineInv'
<1>1. /\ UNCHANGED <<storing, crashed>> /\ UNCHANGED uiVars /\ UNCHANGED listVars
      /\ UNCHANGED measureVars /\ UNCHANGED sysVars /\ UNCHANGED scanVars
  BY DEF MarkDevice
<1>2. EndTyped'
  BY MaxRequestsAssumption, LineParts DEF MarkDevice, EndTyped
<1>3. "FinalTraining" \in Screens \ {"MainInterface"}
  BY DEF Screens, DeviceScreens
<1>4. ViewTypes' /\ timers' \in [Screens -> Nat]
  BY <1>3, ViewsOf, StartsTyped, UsableShows DEF MarkDevice
<1>5. JobsTyped'
  BY <1>1, <1>4, LineParts DEF JobsTyped
<1> QED
  BY <1>1, <1>2, <1>4, <1>5, LineParts, PartsStay DEF scanVars

LEMMA StoreTyped ==
    ASSUME LineInv, cut' \in BOOLEAN, NEW s \in DeviceScreens, StoreDone(s)
    PROVE  LineInv'
<1>1. /\ UNCHANGED <<bound, series, taken, asked>> /\ UNCHANGED sysVars /\ UNCHANGED scanVars
      /\ internal' \in BOOLEAN
  BY DEF StoreDone
<1>2. s \in Screens \ {"MainInterface"} /\ After(s) \in Screens /\ "scanning" \in Dialogs
  BY DEF DeviceScreens, Screens, Dialogs, After
<1>3. storing' \in [DeviceScreens -> {"none", "stay", "scan", "window"}]
  BY LineParts DEF StoreDone, JobsTyped
<1>4. SUFFICES /\ ViewTypes' /\ timers' \in [Screens -> Nat]
               /\ front' \in Screens \cup {"Elsewhere"} /\ resumed' \in BOOLEAN
               /\ list' \in [Screens -> {"none", "interfaces", "devices"}]
               /\ state' \in {"IDLE", "SNAPSHOT"} /\ scansLeft' \in Nat
               /\ crashed' \in BOOLEAN
  <2>1. UiTyped' /\ JobsTyped' /\ ListsTyped' /\ MeasureTyped' /\ EndTyped'
    BY <1>1, <1>3, <1>4, LineParts
       DEF UiTyped, JobsTyped, ListsTyped, MeasureTyped, EndTyped
  <2> QED
    BY <1>1, <1>4, <2>1, LineParts, PartsStay DEF scanVars
<1>5. /\ front \in Screens \cup {"Elsewhere"} /\ resumed \in BOOLEAN /\ timers \in [Screens -> Nat]
      /\ list \in [Screens -> {"none", "interfaces", "devices"}]
      /\ state \in {"IDLE", "SNAPSHOT"} /\ scansLeft \in Nat /\ crashed \in BOOLEAN
  BY LineParts DEF UiTyped, JobsTyped, ListsTyped, MeasureTyped, EndTyped
<1> DEFINE dismissed == [view EXCEPT ![s] = Dismiss(@)]
           fresh == [view EXCEPT ![s] = Fresh]
<1>6. /\ dismissed \in [Screens -> Views] /\ dismissed[s] = Dismiss(view[s])
      /\ \A t \in Screens : Sound(dismissed[t]) /\ (t # "MainInterface" => dismissed[t].orphans = {})
      /\ view' = dismissed => ViewTypes'
      /\ ~dismissed[s].up
  <2> DEFINE v == Dismiss(view[s])
  <2>1. Sound(v) /\ (s # "MainInterface" => v.orphans = {}) /\ ~v.up
    BY <1>2, ViewChanges, ViewsOf, DismissView
  <2>2. dismissed = [view EXCEPT ![s] = v]
    OBVIOUS
  <2> HIDE DEF v, dismissed
  <2>3. v = Dismiss(view[s])
    BY DEF v
  <2> QED
    BY <1>2, <2>1, <2>2, <2>3, ViewsWith
<1>7. /\ fresh \in [Screens -> Views] /\ fresh[s] = Fresh
      /\ \A t \in Screens : Sound(fresh[t]) /\ (t # "MainInterface" => fresh[t].orphans = {})
  BY <1>2, FreshView, ViewsWith
<1> HIDE DEF dismissed, fresh
<1>8. CASE view' = dismissed /\ UNCHANGED <<resumed, timers, list, state, scansLeft, crashed>>
           /\ front' \in {front, After(s)}
  BY <1>2, <1>5, <1>6, <1>8
<1>9. CASE StartScan(s, dismissed) /\ crashed' = (front # s)
           /\ UNCHANGED <<front, resumed, list, state, scansLeft>>
  BY <1>2, <1>5, <1>6, <1>9, StartsTyped
<1>10. CASE Enter(After(s), internal', fresh) /\ UNCHANGED crashed
  <2>1. ASSUME NEW known \in BOOLEAN, Enter(After(s), known, fresh)
        PROVE  /\ ViewTypes' /\ timers' \in [Screens -> Nat]
               /\ front' \in Screens /\ resumed' \in BOOLEAN
               /\ list' \in [Screens -> {"none", "interfaces", "devices"}]
               /\ state' \in {"IDLE", "SNAPSHOT"} /\ scansLeft' \in Nat
    BY <1>2, <1>7, <2>1, EnterTyped
  <2> QED
    BY <1>1, <1>5, <1>10, <2>1
<1> QED
  BY <1>8, <1>9, <1>10 DEF StoreDone, dismissed, fresh

LEMMA DeliverSnapshotTyped ==
    ASSUME LineInv, cut' \in BOOLEAN, DeliverSnapshot
    PROVE  LineInv'
<1>1. /\ UNCHANGED <<series, sm, working, crashed, asked>> /\ UNCHANGED uiVars /\ UNCHANGED jobVars
      /\ UNCHANGED listVars /\ UNCHANGED sysVars /\ bcast # <<>>
  BY DEF DeliverSnapshot, Arrives
<1>2. "Measurements" \in Screens
  BY DEF Screens
<1>3. EndTyped' /\ MeasureTyped'
  <2>1. scansLeft' \in Nat
    BY LineParts DEF DeliverSnapshot, MeasureTyped
  <2>2. taken' \in Nat
    BY LineParts DEF DeliverSnapshot, MeasureTyped
  <2>3. state' \in {"IDLE", "SNAPSHOT"}
    BY LineParts DEF DeliverSnapshot, MeasureTyped
  <2> QED
    BY <1>1, <2>1, <2>2, <2>3, LineParts DEF EndTyped, MeasureTyped
<1>4. UNCHANGED view \/ view' = [view EXCEPT !["Measurements"] = Dismiss(view["Measurements"])]
  BY DEF DeliverSnapshot
<1>5. ViewTypes'
  <2>1. "scanning" \in Dialogs
    BY DEF Dialogs
  <2> QED
    BY <1>2, <1>4, <2>1, ViewsWith, ViewChanges, ViewsOf, LineParts, PartsStay
<1>6. Reply(<<>>) \/ Reply(<<Request("Measurements")>>)
  BY DEF DeliverSnapshot
<1>7. LineTyped' /\ WorkTyped'
  <2>1. bcast \in Seq(Messages)
    BY LineParts DEF LineTyped
  <2>2. Reply(<<Request("Measurements")>>) => Moved(1, <<Request("Measurements")>>)
    BY <1>1, <1>2, <2>1, RequestTyped, Replied
  <2> QED
    BY <1>1, <1>2, <1>6, <2>2, RequestTyped, OtherSent, TakenTyped
<1> QED
  BY <1>1, <1>3, <1>5, <1>7, LineParts, PartsStay

\* What a response of a stage makes of the rows and the dialog.
LEMMA ProgressTyped ==
    ASSUME LineInv, NEW s \in {"YourDevices", "MissingDevices"}, NEW stage, Progress(s, stage)
    PROVE  /\ ViewTypes' /\ list' \in [Screens -> {"none", "interfaces", "devices"}]
           /\ crashed' \in BOOLEAN
<1>1. s \in Screens /\ "scanning" \in Dialogs
  BY DEF Screens, DeviceScreens, Dialogs
<1>2. list' \in [Screens -> {"none", "interfaces", "devices"}] /\ crashed' \in BOOLEAN
  BY <1>1, LineParts DEF ListsTyped, EndTyped, Progress
<1> DEFINE v == Show(Dismiss(view[s]), "scanning")
<1>3. UNCHANGED view \/ view' = [view EXCEPT ![s] = v]
  BY DEF Progress
<1>4. Sound(v) /\ (s # "MainInterface" => v.orphans = {})
  BY <1>1, ViewChanges
<1> HIDE DEF v
<1>5. ViewTypes'
  BY <1>1, <1>3, <1>4, ViewsWith, LineParts, PartsStay
<1> QED
  BY <1>2, <1>5

LEMMA DeliverRequestTyped ==
    ASSUME LineInv, cut' \in BOOLEAN, DeliverRequest
    PROVE  LineInv'
<1>1. /\ UNCHANGED <<view, crashed, asked>> /\ UNCHANGED uiVars /\ UNCHANGED jobVars
      /\ UNCHANGED listVars /\ UNCHANGED measureVars /\ UNCHANGED sysVars
      /\ bcast # <<>> /\ Reply(<<>>)
  BY DEF DeliverRequest, Arrives
<1>2. EndTyped'
  BY <1>1, LineParts DEF EndTyped
<1>3. CASE UNCHANGED <<sm, working>>
  BY <1>1, <1>2, <1>3, TakenTyped, LineParts, PartsStay
<1>4. CASE ~UNCHANGED <<sm, working>>
  <2>1. sm = "IDLE" /\ sm' = "SCANNING" /\ working' = From
    BY <1>4 DEF DeliverRequest
  <2>2. bcast \in Seq(Messages) /\ <<>> \in Seq(Messages)
    BY LineParts DEF LineTyped
  <2>3. Moved(1, <<>>)
    BY <1>1, <2>2, Replied
  <2>4. \A i \in 1..Len(bcast') : i + 1 \in 1..Len(bcast) /\ bcast'[i] = bcast[i + 1]
    BY <2>2, <2>3, TakenFrom
  <2>5. \A i \in 1..Len(bcast) : bcast[i].kind \notin Stages
    BY <2>1 DEF LineInv, StagesKnown, Stages
  <2>6. LineTyped'
    <3>1. StagesKnown'
      BY <2>4, <2>5 DEF StagesKnown
    <3>2. AnswersKnown'
      BY <2>4 DEF AnswersKnown, LineInv
    <3>3. WorkKnown'
      BY <2>1 DEF WorkKnown
    <3> QED
      BY <2>3, <3>1, <3>2, <3>3 DEF Moved, LineTyped
  <2>7. From \in Screens
    BY <1>1, <2>2, HeadTyped
  <2>8. WorkTyped'
    BY <2>1, <2>7 DEF WorkTyped, Stages, Screens, DeviceScreens
  <2> QED
    BY <1>1, <1>2, <2>6, <2>8, LineParts, PartsStay
<1> QED
  BY <1>3, <1>4

LEMMA StageDoneTyped ==
    ASSUME LineInv, cut' \in BOOLEAN, StageDone
    PROVE  LineInv'
<1>1. /\ UNCHANGED <<view, sm, working, crashed, asked>> /\ UNCHANGED uiVars /\ UNCHANGED jobVars
      /\ UNCHANGED listVars /\ UNCHANGED measureVars /\ UNCHANGED sysVars
  BY DEF StageDone
<1>2. EndTyped'
  BY <1>1, LineParts DEF EndTyped
<1>3. sm \in Stages /\ working \in Screens
  BY LineParts DEF StageDone, WorkTyped
<1> DEFINE m == Message(sm, working)
<1>4. m \in Messages /\ m.kind = sm
  BY <1>3, MessageFields DEF Kinds
<1>5. bcast' = Append(bcast, m) /\ bcast \in Seq(Messages)
  BY LineParts DEF StageDone, LineTyped
<1> HIDE DEF m
<1>6. bcast' \in Seq(Messages) /\ Len(bcast') = Len(bcast) + 1
      /\ \A i \in 1..Len(bcast') : bcast'[i] = IF i = Len(bcast) + 1 THEN m ELSE bcast[i]
  BY <1>4, <1>5
<1>7. \A i \in 1..Len(bcast) : bcast[i].kind \notin Stages
  BY DEF StageDone, InTransit, LineInv, StagesKnown
<1>8. Len(bcast) \in Nat /\ \A i \in 1..Len(bcast') : i \in 1..Len(bcast) \/ i = Len(bcast) + 1
  BY <1>5, <1>6
<1>9. StagesKnown'
  <2>1. \A i \in 1..Len(bcast') : bcast'[i].kind \in Stages => i = Len(bcast) + 1 /\ bcast'[i] = m
    BY <1>6, <1>7, <1>8
  <2> QED
    BY <1>1, <1>4, <2>1 DEF StagesKnown
<1>10. AnswersKnown' /\ WorkKnown'
  <2>1. ASSUME NEW i \in 1..Len(bcast')
        PROVE  /\ bcast'[i].kind = "INTERFACES" => bcast'[i].from \in ScanOnly
               /\ bcast'[i].kind = "DEVICES" => bcast'[i].from \notin ScanOnly
    <3>1. CASE i = Len(bcast) + 1
      BY <1>3, <1>4, <1>6, <3>1 DEF Stages
    <3>2. CASE i \in 1..Len(bcast)
      <4>1. bcast'[i] = bcast[i]
        BY <1>6, <1>8, <3>2
      <4> QED
        BY <3>2, <4>1 DEF LineInv, AnswersKnown
    <3> QED
      BY <1>8, <3>1, <3>2
  <2> QED
    BY <1>1, <2>1 DEF AnswersKnown, WorkKnown, LineInv
<1> QED
  BY <1>1, <1>2, <1>6, <1>9, <1>10, LineParts, PartsStay DEF LineTyped

\* What DeliverStage sends, and leaves for ScanManager to do.
Answer(w) == <<Message(IF w \in ScanOnly THEN "INTERFACES" ELSE "DEVICES", w)>>
Snapshot(w) == <<Message("snapshot", w)>>
StageSends(w, sent) ==
    \/ /\ sm' \in Stages \ {"SCANNING", sm} /\ working' = w /\ w \notin ScanOnly
       /\ sent = <<>> \/ sent = Snapshot(w)
    \/ /\ sm' = "IDLE" /\ working' = "none"
       /\ sent = IF w \in ScanOnly THEN Snapshot(w) \o Answer(w) ELSE Answer(w)

LEMMA SendsTyped ==
    ASSUME NEW w \in Screens
    PROVE  /\ Answer(w) \in Seq(Messages) /\ Len(Answer(w)) = 1
           /\ Answer(w)[1] = Message(IF w \in ScanOnly THEN "INTERFACES" ELSE "DEVICES", w)
           /\ Snapshot(w) \in Seq(Messages) /\ Len(Snapshot(w)) = 1
           /\ Snapshot(w)[1] = Message("snapshot", w)
           /\ Snapshot(w) \o Answer(w) \in Seq(Messages) /\ Len(Snapshot(w) \o Answer(w)) = 2
           /\ (Snapshot(w) \o Answer(w))[1] = Message("snapshot", w)
           /\ (Snapshot(w) \o Answer(w))[2]
                  = Message(IF w \in ScanOnly THEN "INTERFACES" ELSE "DEVICES", w)
<1> DEFINE a == Message(IF w \in ScanOnly THEN "INTERFACES" ELSE "DEVICES", w)
           b == Message("snapshot", w)
<1>1. a \in Messages /\ b \in Messages
  BY MessageFields DEF Kinds
<1>2. Answer(w) = <<a>> /\ Snapshot(w) = <<b>>
  BY DEF Answer, Snapshot
<1> HIDE DEF a, b
<1>3. /\ <<a>> \in Seq(Messages) /\ Len(<<a>>) = 1 /\ <<a>>[1] = a
      /\ <<b>> \in Seq(Messages) /\ Len(<<b>>) = 1 /\ <<b>>[1] = b
  BY <1>1
<1>4. /\ <<b>> \o <<a>> \in Seq(Messages) /\ Len(<<b>> \o <<a>>) = 1 + 1
      /\ \A i \in 1..(1 + 1) :
             (<<b>> \o <<a>>)[i] = IF i <= 1 THEN <<b>>[i] ELSE <<a>>[i - 1]
  BY ONLY <1>3, ConcatProperties
<1>5. (<<b>> \o <<a>>)[1] = b /\ (<<b>> \o <<a>>)[2] = a
  BY <1>3, <1>4
<1> QED
  BY <1>2, <1>3, <1>4, <1>5 DEF a, b

LEMMA StageStep ==
    ASSUME LineInv, DeliverStage
    PROVE  /\ bcast # <<>> /\ sm \in Stages /\ working \in Screens /\ Head(bcast).kind = sm
           /\ \E sent \in Seq(Messages) : Moved(1, sent) /\ StageSends(working, sent)
           /\ \A i \in 1..Len(bcast) : i > 1 => bcast[i].kind \notin Stages
<1>1. bcast # <<>> /\ Head(bcast).kind \in Stages /\ bcast \in Seq(Messages)
  BY LineParts DEF DeliverStage, Arrives, LineTyped
<1>2. 1 \in 1..Len(bcast) /\ Head(bcast) = bcast[1]
  BY <1>1, HeadTyped
<1>3. Head(bcast).kind = sm /\ \A i \in 1..Len(bcast) : i > 1 => bcast[i].kind \notin Stages
  BY <1>1, <1>2 DEF LineInv, StagesKnown
<1>4. sm \in Stages /\ working \in Screens
  BY <1>1, <1>3, LineParts DEF WorkTyped, Stages
<1> DEFINE w == working
           next == NextStage(sm)
<1>5. /\ sm' = next /\ working' = IF next = "IDLE" THEN "none" ELSE w
      /\ Reply((IF sm = "SCANNING" THEN <<Message("snapshot", w)>> ELSE <<>>) \o
               (IF next # "IDLE" THEN <<>>
                ELSE <<Message(IF sm = "SCANNING" THEN "INTERFACES" ELSE "DEVICES", w)>>))
  BY <1>3 DEF DeliverStage
<1>6. sm # "SCANNING" => w \notin ScanOnly
  BY <1>4 DEF LineInv, WorkKnown
<1>7. \/ next \in Stages \ {"SCANNING", sm} /\ w \notin ScanOnly
      \/ next = "IDLE" /\ (sm = "SCANNING" <=> w \in ScanOnly)
  BY <1>4, <1>6 DEF NextStage, Stages, ScanOnly
<1> HIDE DEF next, w
<1>8. "IDLE" \notin Stages
  BY DEF Stages
<1>9. w \in Screens
  BY <1>4 DEF w
<1>10. <<>> \in Seq(Messages) /\ <<>> \o <<>> = <<>>
       /\ \A q \in Seq(Messages) : q \o <<>> = q /\ <<>> \o q = q
  OBVIOUS
<1>11. \E sent \in Seq(Messages) : Reply(sent) /\ StageSends(w, sent)
  <2>1. CASE next # "IDLE" /\ sm = "SCANNING"
    <3>1. Reply(Snapshot(w) \o <<>>)
      BY <1>5, <2>1 DEF Snapshot
    <3>2. Reply(Snapshot(w))
      BY <1>9, <1>10, <3>1, SendsTyped
    <3> QED
      BY <1>5, <1>7, <1>9, <2>1, <3>2, SendsTyped DEF StageSends
  <2>2. CASE next # "IDLE" /\ sm # "SCANNING"
    <3>1. Reply(<<>>)
      BY <1>5, <1>10, <2>2
    <3> QED
      BY <1>5, <1>7, <1>10, <2>2, <3>1 DEF StageSends
  <2>3. CASE next = "IDLE" /\ sm = "SCANNING"
    <3>1. w \in ScanOnly
      BY <1>7, <1>8, <2>3
    <3>2. Reply(Snapshot(w) \o Answer(w))
      BY <1>5, <2>3, <3>1 DEF Snapshot, Answer
    <3> QED
      BY <1>5, <1>9, <2>3, <3>1, <3>2, SendsTyped DEF StageSends
  <2>4. CASE next = "IDLE" /\ sm # "SCANNING"
    <3>1. w \notin ScanOnly
      BY <1>7, <1>8, <2>4
    <3>2. Reply(<<>> \o Answer(w))
      BY <1>5, <2>4, <3>1 DEF Answer
    <3>3. Reply(Answer(w))
      BY <1>9, <1>10, <3>2, SendsTyped
    <3> QED
      BY <1>5, <1>9, <2>4, <3>1, <3>3, SendsTyped DEF StageSends
  <2> QED
    BY <2>1, <2>2, <2>3, <2>4
<1>12. \E sent \in Seq(Messages) : Moved(1, sent) /\ StageSends(working, sent)
  BY <1>1, <1>11, Replied DEF w
<1> QED
  BY <1>1, <1>3, <1>4, <1>12

LEMMA DeliverStageTyped ==
    ASSUME LineInv, cut' \in BOOLEAN, DeliverStage
    PROVE  LineInv'
<1>1. /\ UNCHANGED <<internal, asked>> /\ UNCHANGED uiVars /\ UNCHANGED jobVars
      /\ UNCHANGED measureVars /\ UNCHANGED sysVars
  BY DEF DeliverStage
<1>2. ViewTypes' /\ list' \in [Screens -> {"none", "interfaces", "devices"}] /\ crashed' \in BOOLEAN
  <2>1. CASE UNCHANGED <<view, list, crashed>>
    BY <2>1, LineParts, PartsStay DEF ListsTyped, EndTyped
  <2>2. CASE ~UNCHANGED <<view, list, crashed>>
    BY <2>2, ProgressTyped DEF DeliverStage
  <2> QED
    BY <2>1, <2>2
<1>3. ListsTyped' /\ EndTyped'
  BY <1>1, <1>2, LineParts DEF ListsTyped, EndTyped
<1>4. PICK sent \in Seq(Messages) : Moved(1, sent) /\ StageSends(working, sent)
  BY StageStep
<1> DEFINE w == working
<1>5. /\ bcast \in Seq(Messages) /\ w \in Screens /\ Len(bcast) \in Nat \ {0}
      /\ \A i \in 1..Len(bcast) : i > 1 => bcast[i].kind \notin Stages
  BY StageStep, LineParts DEF LineTyped
<1>6. \A i \in 1..Len(sent) :
          \/ sent[i] = Message("snapshot", w)
          \/ sent[i] = Message(IF w \in ScanOnly THEN "INTERFACES" ELSE "DEVICES", w)
  <2> USE <1>5
  <2>1. CASE sent = <<>>
    BY <2>1
  <2>2. CASE sent = Snapshot(w)
    BY <2>2, SendsTyped
  <2>3. CASE sent = Answer(w)
    BY <2>3, SendsTyped
  <2>4. CASE sent = Snapshot(w) \o Answer(w)
    BY <2>4, SendsTyped
  <2> QED
    BY <1>4, <2>1, <2>2, <2>3, <2>4 DEF StageSends, w
<1>7. \A i \in 1..Len(sent) :
          /\ sent[i].kind \notin Stages
          /\ sent[i].kind = "INTERFACES" => sent[i].from \in ScanOnly
          /\ sent[i].kind = "DEVICES" => sent[i].from \notin ScanOnly
  BY <1>5, <1>6, MessageFields DEF Kinds, Stages
<1> HIDE DEF w
<1>8. ASSUME NEW i \in 1..Len(bcast')
      PROVE  /\ bcast'[i].kind \notin Stages
             /\ bcast'[i].kind = "INTERFACES" => bcast'[i].from \in ScanOnly
             /\ bcast'[i].kind = "DEVICES" => bcast'[i].from \notin ScanOnly
  <2>1. CASE i + 1 \in 1..Len(bcast) /\ bcast'[i] = bcast[i + 1]
    BY <1>5, <2>1 DEF LineInv, AnswersKnown
  <2>2. CASE i - (Len(bcast) - 1) \in 1..Len(sent) /\ bcast'[i] = sent[i - (Len(bcast) - 1)]
    BY <1>7, <2>2
  <2> QED
    BY <1>4, <1>5, <2>1, <2>2, MovedFrom
<1>9. StagesKnown' /\ AnswersKnown'
  BY <1>8 DEF StagesKnown, AnswersKnown
<1>10. WorkKnown' /\ WorkTyped'
  <2>1. "IDLE" \notin Stages /\ "none" \notin Screens
    BY DEF Stages, Screens, DeviceScreens
  <2> QED
    BY <1>4, <1>5, <2>1 DEF StageSends, WorkKnown, WorkTyped, w
<1>11. LineTyped'
  BY <1>4, <1>9, <1>10 DEF Moved, LineTyped
<1> QED
  BY <1>1, <1>2, <1>3, <1>10, <1>11, LineParts, PartsStay

LEMMA DeliverResponseTyped ==
    ASSUME LineInv, cut' \in BOOLEAN, DeliverResponse
    PROVE  LineInv'
<1>1. /\ UNCHANGED <<internal, sm, working, crashed, asked>> /\ UNCHANGED uiVars
      /\ UNCHANGED jobVars /\ UNCHANGED measureVars /\ UNCHANGED sysVars
      /\ bcast # <<>> /\ Reply(<<>>)
  BY DEF DeliverResponse, Arrives
<1>2. CASE UNCHANGED <<view, list>>
  <2>1. ListsTyped' /\ EndTyped'
    BY <1>1, <1>2, LineParts DEF ListsTyped, EndTyped
  <2> QED
    BY <1>1, <1>2, <2>1, TakenTyped, LineParts, PartsStay
<1>3. CASE ~UNCHANGED <<view, list>>
  <2>1. /\ front \in Screens /\ view' = [view EXCEPT ![front] = Dismiss(view[front])]
        /\ \E rows \in {"interfaces", "devices", list[front]} :
               list' = [list EXCEPT ![front] = rows]
    BY <1>3 DEF DeliverResponse
  <2>2. ListsTyped' /\ EndTyped'
    BY <1>1, <2>1, LineParts DEF ListsTyped, EndTyped
  <2>3. ViewTypes'
    <3>1. "scanning" \in Dialogs
      BY DEF Dialogs
    <3>2. PICK s \in Screens : s = front
      BY <2>1
    <3>3. view' = [view EXCEPT ![s] = Dismiss(view[s])]
      BY <2>1, <3>2
    <3>4. Sound(Dismiss(view[s])) /\ (s # "MainInterface" => Dismiss(view[s]).orphans = {})
      BY <3>1, ViewChanges, ViewsOf
    <3> QED
      BY <3>3, <3>4, ViewsWith
  <2> QED
    BY <1>1, <2>2, <2>3, TakenTyped, LineParts, PartsStay
<1> QED
  BY <1>2, <1>3

LEMMA InitLine == Init => LineInv
<1> SUFFICES ASSUME Init PROVE LineInv
  OBVIOUS
<1>1. UiTyped /\ JobsTyped /\ ListsTyped /\ MeasureTyped /\ SysTyped /\ WorkTyped
  BY DEF Init, UiTyped, JobsTyped, ListsTyped, MeasureTyped, SysTyped, WorkTyped, Screens,
         DeviceScreens, Stages
<1>2. EndTyped
  <2>1. crashed = FALSE /\ asked = 0 /\ cut = FALSE
    BY DEF Init
  <2>2. asked \in 0..MaxRequests
    BY <2>1, MaxRequestsAssumption
  <2>3. crashed \in BOOLEAN /\ cut \in BOOLEAN
    BY ONLY <2>1
  <2> QED
    BY ONLY <2>2, <2>3 DEF EndTyped
<1>3. ViewTypes
  <2>1. view = [s \in Screens |-> Fresh] /\ Fresh \in Views
    BY FreshView DEF Init, Sound
  <2> QED
    BY <2>1, FreshView DEF ViewTypes, ViewsKnown
<1>4. LineTyped
  BY DEF Init, LineTyped, StagesKnown, WorkKnown, AnswersKnown, Stages
<1> QED
  BY <1>1, <1>2, <1>3, <1>4, LineParts

LEMMA LineStep ==
    ASSUME LineInv, [Next]_vars
    PROVE  LineInv'
<1>1. CASE UNCHANGED vars
  <2>1. EndTyped'
    BY <1>1, LineParts DEF vars, EndTyped
  <2>2. /\ UNCHANGED uiVars /\ UNCHANGED view /\ UNCHANGED jobVars /\ UNCHANGED listVars
        /\ UNCHANGED measureVars /\ UNCHANGED sysVars /\ UNCHANGED scanVars
    BY <1>1 DEF vars
  <2> QED
    BY <2>1, <2>2, LineParts, PartsStay DEF scanVars
<1>2. CASE Next
  <2>1. cut' \in BOOLEAN /\ Step
    BY <1>2, LineParts DEF Next, Alive, EndTyped, LetGo
  <2>2. CASE User
    BY <2>1, <2>2, UserTyped, OpenTyped, LeaveTyped, ClickTyped, TriggerTyped, DelayedTyped,
       SaveTyped, MarkTyped, PlugTyped DEF User
  <2>3. CASE Deliver
    BY <2>1, <2>3, DeliverInitializedTyped, DeliverShowTyped, DeliverRequestTyped,
       DeliverStageTyped, DeliverSnapshotTyped, DeliverResponseTyped DEF Deliver
  <2>4. CASE Timers \/ Stored \/ Inits
    BY <2>1, <2>4, DelayIsOverTyped, TimerFiresTyped, StoreTyped, InitsTyped DEF Timers, Stored
  <2>5. CASE LibrariesLoaded \/ ServiceBound \/ StageDone
    BY <2>1, <2>5, LibrariesTyped, ServiceBoundTyped, StageDoneTyped
  <2> QED
    BY <2>1, <2>2, <2>3, <2>4, <2>5 DEF Step
<1> QED
  BY <1>1, <1>2

LEMMA LineAlways == Spec => []LineInv
  BY InitLine, LineStep, PTL DEF Spec

\* TypeOK: every variable of the screens keeps its type, for any number of
\* scans, any series and any USB radios.
THEOREM TypeCorrect == Spec => []TypeOK
<1>1. LineInv => TypeOK
  BY DEF LineInv
<1> QED
  BY <1>1, LineAlways, PTL

-----------------------------------------------------------------------------
(* Tokens                                                                  *)

LEMMA MessageTokens ==
    ASSUME NEW s \in Screens
    PROVE  /\ IsToken(Request(s))
           /\ \A kind \in Stages \cup {"show", "cancel", "initialized"} : ~IsToken(Message(kind, s))
           /\ IsToken(Message("snapshot", s)) <=> s = "Measurements"
           /\ IsToken(Message("INTERFACES", s)) <=> s # "Measurements"
           /\ IsToken(Message("DEVICES", s)) <=> s # "Measurements"
  BY DEF IsToken, Request, Message, Awaited, Stages

LEMMA OutstandingIs ==
    ASSUME NEW s \in Screens
    PROVE  /\ Outstanding(s) <=>
                  \/ timers[s] > 0
                  \/ sm # "IDLE" /\ working = s
                  \/ \E i \in 1..Len(bcast) : IsToken(bcast[i]) /\ bcast[i].from = s
           /\ Outstanding(s)' <=>
                  \/ timers'[s] > 0
                  \/ sm' # "IDLE" /\ working' = s
                  \/ \E i \in 1..Len(bcast') : IsToken(bcast'[i]) /\ bcast'[i].from = s
  BY DEF Outstanding, IsToken

\* When nothing is outstanding.
LEMMA NoneOutstanding ==
    ASSUME LineInv, \A t \in Screens : ~Outstanding(t)
    PROVE  /\ sm = "IDLE" /\ \A t \in Screens : timers[t] = 0
           /\ \A i \in 1..Len(bcast) : ~IsToken(bcast[i])
<1>1. timers \in [Screens -> Nat] /\ bcast \in Seq(Messages)
      /\ sm \in {"IDLE"} \cup Stages /\ (sm # "IDLE" => working \in Screens)
  BY LineParts DEF JobsTyped, LineTyped, WorkTyped
<1>2. \A t \in Screens : ~(timers[t] > 0) /\ timers[t] \in Nat
  BY <1>1, OutstandingIs
<1>3. sm = "IDLE"
  BY <1>1, OutstandingIs
<1>4. ASSUME NEW i \in 1..Len(bcast), IsToken(bcast[i]) PROVE FALSE
  <2>1. bcast[i].from \in Screens
    BY <1>1, MessageTyped
  <2>2. Outstanding(bcast[i].from)
    BY <1>4 DEF Outstanding, IsToken
  <2> QED
    BY <2>1, <2>2
<1> QED
  BY <1>2, <1>3, <1>4

\* A screen the user can use: nothing is under way, and nothing is stored.
LEMMA UsableIdle ==
    ASSUME LineInv, TokenInv, NEW s \in Screens, Usable(s)
    PROVE  /\ \A t \in Screens : ~Outstanding(t)
           /\ \A t \in DeviceScreens : storing[t] = "none"
<1>1. front = s /\ Showing(s) = {} /\ ~view[s].up
  BY UsableShows
<1>2. \A t \in Screens : ~Outstanding(t)
  BY <1>1 DEF TokenInv, Shown
<1>3. \A t \in DeviceScreens : storing[t] = "none"
  BY <1>1 DEF TokenInv, StoringShown
<1> QED
  BY <1>2, <1>3

\* No token is added.
LEMMA QuietTokens ==
    ASSUME LineInv, OneToken, NEW d, NEW sent \in Seq(Messages), Moved(d, sent),
           \A i \in 1..Len(sent) : ~IsToken(sent[i]),
           UNCHANGED <<sm, working, timers>>
    PROVE  OneToken' /\ \A t \in Screens : Outstanding(t)' => Outstanding(t)
<1>1. bcast \in Seq(Messages) /\ Len(bcast) \in Nat /\ d \in {0, 1}
  BY LineParts DEF LineTyped, Moved
<1>2. ASSUME NEW i \in 1..Len(bcast'), IsToken(bcast'[i])
      PROVE  i + d \in 1..Len(bcast) /\ bcast'[i] = bcast[i + d] /\ IsToken(bcast[i + d])
  BY <1>1, <1>2, MovedFrom
<1>3. \A i, j \in 1..Len(bcast') : IsToken(bcast'[i]) /\ IsToken(bcast'[j]) => i = j
  <2> SUFFICES ASSUME NEW i \in 1..Len(bcast'), NEW j \in 1..Len(bcast'),
                      IsToken(bcast'[i]), IsToken(bcast'[j])
               PROVE  i = j
    OBVIOUS
  <2>1. i + d = j + d
    BY <1>2 DEF OneToken
  <2> QED
    BY <1>1, <2>1
<1>4. \A i \in 1..Len(bcast') : IsToken(bcast'[i]) => sm' = "IDLE"
  BY <1>2 DEF OneToken
<1>5. \A s \in Screens : timers'[s] > 0 =>
          timers'[s] = 1 /\ sm' = "IDLE" /\ \A i \in 1..Len(bcast') : ~IsToken(bcast'[i])
  BY <1>2 DEF OneToken
<1>6. OneToken'
  BY <1>3, <1>4, <1>5 DEF OneToken, IsToken
<1>7. ASSUME NEW t \in Screens, Outstanding(t)' PROVE Outstanding(t)
  BY <1>2, <1>7, OutstandingIs
<1> QED
  BY <1>6, <1>7

\* Neither do steps that leave the broadcasts alone.
LEMMA StillTokens ==
    ASSUME LineInv, OneToken, UNCHANGED <<bcast, sm, working, timers>>
    PROVE  OneToken' /\ \A t \in Screens : Outstanding(t)' => Outstanding(t)
<1>1. bcast \in Seq(Messages) /\ <<>> \in Seq(Messages) /\ \A i \in 1..Len(<<>>) : ~IsToken(<<>>[i])
  BY LineParts DEF LineTyped
<1> QED
  BY <1>1, NoneMoved, QuietTokens

\* A timer is set.
LEMMA TimerTokens ==
    ASSUME LineInv, NEW s \in Screens, \A t \in Screens : ~Outstanding(t),
           timers' = [timers EXCEPT ![s] = @ + 1], UNCHANGED <<bcast, sm, working>>
    PROVE  OneToken' /\ \A t \in Screens : Outstanding(t)' => t = s
<1>1. /\ sm = "IDLE" /\ \A t \in Screens : timers[t] = 0
      /\ \A i \in 1..Len(bcast) : ~IsToken(bcast[i])
  BY NoneOutstanding
<1>2. \A t \in Screens : timers'[t] = IF t = s THEN 1 ELSE 0
  BY <1>1, LineParts DEF JobsTyped
<1>3. OneToken'
  BY <1>1, <1>2 DEF OneToken, IsToken
<1>4. ASSUME NEW t \in Screens, Outstanding(t)' PROVE t = s
  BY <1>1, <1>2, <1>4, OutstandingIs
<1> QED
  BY <1>3, <1>4

\* A request is sent, when it is all there is.
LEMMA RequestTokens ==
    ASSUME LineInv, NEW s \in Screens, NEW d, Moved(d, <<Request(s)>>), sm = "IDLE",
           \A i \in 1..Len(bcast) : i > d => ~IsToken(bcast[i]),
           \A t \in Screens : timers'[t] = 0, UNCHANGED <<sm, working>>
    PROVE  OneToken' /\ \A t \in Screens : Outstanding(t)' => t = s
<1>1. bcast \in Seq(Messages) /\ Len(bcast) \in Nat /\ d \in {0, 1}
  BY LineParts DEF LineTyped, Moved
<1> DEFINE sent == <<Request(s)>>
<1>a. sent \in Seq(Messages) /\ Len(sent) = 1 /\ sent[1] = Request(s) /\ Moved(d, sent)
  BY RequestTyped
<1> HIDE DEF sent
<1>2. ASSUME NEW i \in 1..Len(bcast'), IsToken(bcast'[i])
      PROVE  i = Len(bcast) - d + 1 /\ bcast'[i].from = s
  <2>1. CASE i + d \in 1..Len(bcast) /\ bcast'[i] = bcast[i + d]
    BY <1>1, <1>2, <2>1
  <2>2. CASE i - (Len(bcast) - d) \in 1..Len(sent) /\ bcast'[i] = sent[i - (Len(bcast) - d)]
    <3>1. i - (Len(bcast) - d) = 1
      BY <1>a, <2>2
    <3> QED
      BY <1>1, <1>a, <2>2, <3>1, RequestTyped
  <2> QED
    BY <1>1, <1>a, <2>1, <2>2, MovedFrom
<1>3. OneToken'
  BY <1>2 DEF OneToken, IsToken
<1>4. ASSUME NEW t \in Screens, Outstanding(t)' PROVE t = s
  BY <1>2, <1>4, OutstandingIs
<1> QED
  BY <1>3, <1>4

\* A token of the screen in front keeps to it, since it is not let go.
LEMMA ShownStays ==
    ASSUME Shown, ~LetGo, \A t \in Screens : Outstanding(t)' => Outstanding(t)
    PROVE  Shown'
  BY DEF Shown, LetGo

LEMMA StoringStays ==
    ASSUME StoringShown, \A t \in Screens : Outstanding(t)' => Outstanding(t), UNCHANGED storing,
           \A s \in DeviceScreens : storing[s] # "none" => front' = front /\ view'[s] = view[s]
    PROVE  StoringShown'
  BY DEF StoringShown

\* A new token is shown by the screen it belongs to.
LEMMA NewShown ==
    ASSUME NEW s \in Screens, \A t \in Screens : Outstanding(t)' => t = s,
           front' = s, "scanning" \in Showing(s)', \A t \in DeviceScreens : storing'[t] = "none"
    PROVE  Shown' /\ StoringShown'
  BY DEF Shown, StoringShown

\* Broadcasts of other kinds leave the answers and snapshots where they are.
LEMMA TrailMoves ==
    ASSUME LineInv, AnswersTrail, SnapshotsTrail,
           NEW d, NEW sent \in Seq(Messages), Moved(d, sent),
           \A i \in 1..Len(sent) : sent[i].kind \notin {"INTERFACES", "snapshot"},
           UNCHANGED <<sm, working>>, front' \in {front, "Elsewhere"}
    PROVE  AnswersTrail' /\ SnapshotsTrail'
<1>1. bcast \in Seq(Messages) /\ Len(bcast) \in Nat /\ d \in {0, 1}
  BY LineParts DEF LineTyped, Moved
<1>2. ASSUME NEW i \in 1..Len(bcast'), bcast'[i].kind \in {"INTERFACES", "snapshot"}
      PROVE  i + d \in 1..Len(bcast) /\ bcast'[i] = bcast[i + d]
  BY <1>1, <1>2, MovedFrom
<1>3. AnswersTrail'
  BY <1>2 DEF AnswersTrail
<1>4. SnapshotsTrail'
  <2> SUFFICES ASSUME NEW i \in 1..Len(bcast'), bcast'[i].kind = "snapshot",
                      bcast'[i].from # "Measurements"
               PROVE  \/ sm' # "IDLE" /\ working' = bcast'[i].from
                      \/ \E j \in 1..Len(bcast') :
                            j > i /\ IsToken(bcast'[j]) /\ bcast'[j].from = bcast'[i].from
    BY DEF SnapshotsTrail, IsToken
  <2>1. i + d \in 1..Len(bcast) /\ bcast'[i] = bcast[i + d]
    BY <1>2
  <2>2. CASE sm # "IDLE" /\ working = bcast[i + d].from
    BY <2>1, <2>2
  <2>3. ASSUME NEW j \in 1..Len(bcast), j > i + d, IsToken(bcast[j]),
               bcast[j].from = bcast[i + d].from
        PROVE  j - d \in 1..Len(bcast') /\ j - d > i /\ bcast'[j - d] = bcast[j]
    <3>1. j > d /\ j - d > i
      BY <1>1, <2>3
    <3> QED
      BY <1>1, <3>1, MovedTo
  <2> QED
    BY <2>1, <2>2, <2>3 DEF SnapshotsTrail
<1> QED
  BY <1>3, <1>4

LEMMA NoBroadcast ==
    /\ <<>> \in Seq(Messages)
    /\ \A i \in 1..Len(<<>>) : ~IsToken(<<>>[i]) /\ <<>>[i].kind \notin {"INTERFACES", "snapshot"}
  OBVIOUS

\* Steps that add nothing to a scan, and do not touch the dialog of storing.
LEMMA QuietKeeps ==
    ASSUME LineInv, TokenInv, ~LetGo, NEW d, NEW sent \in Seq(Messages), Moved(d, sent),
           \A i \in 1..Len(sent) : ~IsToken(sent[i]) /\ sent[i].kind \notin {"INTERFACES", "snapshot"},
           UNCHANGED <<sm, working, timers, storing>>, front' \in {front, "Elsewhere"},
           \A s \in DeviceScreens : storing[s] # "none" => front' = front /\ view'[s] = view[s]
    PROVE  TokenInv' /\ \A t \in Screens : Outstanding(t)' => Outstanding(t)
<1>1. OneToken' /\ \A t \in Screens : Outstanding(t)' => Outstanding(t)
  BY QuietTokens DEF TokenInv
<1>2. AnswersTrail' /\ SnapshotsTrail'
  BY TrailMoves DEF TokenInv
<1>3. Shown' /\ StoringShown'
  BY <1>1, ShownStays, StoringStays DEF TokenInv
<1> QED
  BY <1>1, <1>2, <1>3 DEF TokenInv

LEMMA BcastTyped == ASSUME LineInv PROVE bcast \in Seq(Messages) /\ Len(bcast) \in Nat
  BY LineParts DEF LineTyped

LEMMA UserTokens ==
    ASSUME LineInv, TokenInv, ~LetGo, PressHome \/ Return \/ GiveSettings
    PROVE  TokenInv' /\ \A t \in Screens : Outstanding(t)' => Outstanding(t)
<1>1. UNCHANGED <<front, view, timers, storing, bcast, sm, working>>
  BY DEF PressHome, Return, GiveSettings, jobVars, scanVars, uiVars
<1>2. Moved(0, <<>>)
  BY <1>1, BcastTyped, NoneMoved
<1> QED
  BY <1>1, <1>2, NoBroadcast, QuietKeeps

LEMMA LeaveTokens ==
    ASSUME LineInv, TokenInv, ~LetGo, NEW s \in Screens, Leave(s)
    PROVE  TokenInv'
<1>1. UNCHANGED <<timers, storing, bcast, sm, working>> /\ Usable(s) /\ front' = "Elsewhere"
  BY DEF Leave, jobVars, scanVars
<1>2. Moved(0, <<>>)
  BY <1>1, BcastTyped, NoneMoved
<1>3. \A t \in DeviceScreens : storing[t] = "none"
  BY <1>1, UsableIdle
<1> QED
  BY <1>1, <1>2, <1>3, NoBroadcast, QuietKeeps

\* MainInterface has no thread that stores.
LEMMA MainStoresNot ==
    ASSUME TokenInv, front = "MainInterface"
    PROVE  \A s \in DeviceScreens : storing[s] = "none"
  BY DEF TokenInv, StoringShown, DeviceScreens

LEMMA ServiceBoundTokens ==
    ASSUME LineInv, TokenInv, ~LetGo, ServiceBound
    PROVE  TokenInv' /\ \A t \in Screens : Outstanding(t)' => Outstanding(t)
<1>1. UNCHANGED <<timers, storing, bcast, sm, working>> /\ front = "MainInterface"
  BY DEF ServiceBound, jobVars, scanVars, Registered
<1>2. Moved(0, <<>>)
  BY <1>1, BcastTyped, NoneMoved
<1>3. front' \in {front, "Elsewhere"}
  BY DEF ServiceBound, SystemInitialized
<1> QED
  BY <1>1, <1>2, <1>3, MainStoresNot, NoBroadcast, QuietKeeps

LEMMA DeliverInitializedTokens ==
    ASSUME LineInv, TokenInv, ~LetGo, DeliverInitialized
    PROVE  TokenInv' /\ \A t \in Screens : Outstanding(t)' => Outstanding(t)
<1>1. UNCHANGED <<timers, storing, sm, working>> /\ bcast # <<>> /\ Reply(<<>>)
  BY DEF DeliverInitialized, jobVars, Arrives
<1>2. Moved(1, <<>>)
  BY <1>1, BcastTyped, NoBroadcast, Replied
<1>3. front' \in {front, "Elsewhere"}
  BY DEF DeliverInitialized, SystemInitialized
<1>4. front = "MainInterface" \/ UNCHANGED <<front, view>>
  BY DEF DeliverInitialized, Registered
<1>5. \A s \in DeviceScreens : storing[s] # "none" => front' = front /\ view'[s] = view[s]
  BY <1>4, MainStoresNot
<1> QED
  BY <1>1, <1>2, <1>3, <1>5, NoBroadcast, QuietKeeps

LEMMA DeliverShowTokens ==
    ASSUME LineInv, TokenInv, ~LetGo, DeliverShow \/ DeliverCancel
    PROVE  TokenInv' /\ \A t \in Screens : Outstanding(t)' => Outstanding(t)
<1>1. UNCHANGED <<front, timers, storing, sm, working>> /\ bcast # <<>> /\ Reply(<<>>)
  BY DEF DeliverShow, DeliverCancel, jobVars, uiVars, Arrives
<1>2. Moved(1, <<>>)
  BY <1>1, BcastTyped, NoBroadcast, Replied
<1>3. front = "MainInterface" \/ UNCHANGED view
  BY DEF DeliverShow, DeliverCancel, Registered
<1>4. \A s \in DeviceScreens : storing[s] # "none" => front' = front /\ view'[s] = view[s]
  BY <1>1, <1>3, MainStoresNot
<1> QED
  BY <1>1, <1>2, <1>4, NoBroadcast, QuietKeeps

\* The initialization, the radios and the stages: what they send is no token.
LEMMA OtherTokens ==
    ASSUME LineInv, TokenInv, ~LetGo, UNCHANGED <<front, view, timers, storing, sm, working>>,
           NEW sent \in Seq(Messages), bcast' = bcast \o sent,
           \A i \in 1..Len(sent) : \E kind \in Stages \cup {"show", "cancel", "initialized"},
                                      s \in Screens : sent[i] = Message(kind, s)
    PROVE  TokenInv' /\ \A t \in Screens : Outstanding(t)' => Outstanding(t)
<1>1. Moved(0, sent)
  BY BcastTyped, Sent
<1>2. \A i \in 1..Len(sent) : ~IsToken(sent[i]) /\ sent[i].kind \notin {"INTERFACES", "snapshot"}
  BY MessageTokens, MessageFields DEF Kinds, Stages
<1> QED
  BY <1>1, <1>2, QuietKeeps

LEMMA LibrariesTokens ==
    ASSUME LineInv, TokenInv, ~LetGo, LibrariesLoaded \/ StageDone
    PROVE  TokenInv' /\ \A t \in Screens : Outstanding(t)' => Outstanding(t)
<1>1. UNCHANGED <<front, view, timers, storing, sm, working>>
  BY DEF LibrariesLoaded, StageDone, uiVars, jobVars
<1>2. "MainInterface" \in Screens
  BY DEF Screens
<1>3. PICK kind \in Stages \cup {"initialized"}, s \in Screens : bcast' = Append(bcast, Message(kind, s))
  BY <1>2, LineParts DEF LibrariesLoaded, StageDone, WorkTyped
<1> DEFINE m == Message(kind, s)
<1>4. m \in Messages
  BY MessageFields DEF Kinds
<1> HIDE DEF m
<1>5. <<m>> \in Seq(Messages) /\ bcast' = bcast \o <<m>> /\ \A i \in 1..Len(<<m>>) : <<m>>[i] = m
  BY <1>3, <1>4, BcastTyped DEF m
<1>6. \A i \in 1..Len(<<m>>) : <<m>>[i] = Message(kind, s)
  BY <1>5 DEF m
<1> QED
  BY <1>1, <1>5, <1>6, OtherTokens

LEMMA InitsTokens ==
    ASSUME LineInv, TokenInv, ~LetGo,
           Inits \/ \E radios \in SUBSET UsbRadios : Plug(radios)
    PROVE  TokenInv' /\ \A t \in Screens : Outstanding(t)' => Outstanding(t)
<1>1. UNCHANGED <<front, view, timers, storing, sm, working>>
  BY DEF Inits, InitAsks, InitEnds, Plug, uiVars, jobVars
<1> DEFINE show == Message("show", "MainInterface")
           cancel == Message("cancel", "MainInterface")
<1>2. show \in Messages /\ cancel \in Messages /\ "MainInterface" \in Screens
  BY MessageFields DEF Kinds, Screens
<1>3. \E kind \in Stages \cup {"show", "cancel", "initialized"}, s \in Screens : show = Message(kind, s)
  BY <1>2
<1>4. \E kind \in Stages \cup {"show", "cancel", "initialized"}, s \in Screens : cancel = Message(kind, s)
  BY <1>2
<1>5. \/ bcast' = bcast \o <<cancel, show>>
      \/ bcast' = Append(bcast, cancel)
      \/ \E n \in {1, 2} : bcast' = bcast \o [i \in 1..n |-> show]
  BY DEF Inits, InitAsks, InitEnds, Plug
<1> HIDE DEF show, cancel
<1>6. /\ <<cancel, show>> \in Seq(Messages)
      /\ \A i \in 1..Len(<<cancel, show>>) : <<cancel, show>>[i] \in {show, cancel}
      /\ <<cancel>> \in Seq(Messages) /\ \A i \in 1..Len(<<cancel>>) : <<cancel>>[i] = cancel
      /\ \A n \in {1, 2} : /\ [i \in 1..n |-> show] \in Seq(Messages)
                           /\ \A k \in 1..Len([i \in 1..n |-> show]) : [i \in 1..n |-> show][k] = show
  BY <1>2
<1>7. bcast' = Append(bcast, cancel) => bcast' = bcast \o <<cancel>>
  BY <1>2, BcastTyped
<1>8. \E sent \in Seq(Messages) :
          bcast' = bcast \o sent /\ \A i \in 1..Len(sent) : sent[i] \in {show, cancel}
  BY <1>5, <1>6, <1>7
<1> QED
  BY <1>1, <1>3, <1>4, <1>8, OtherTokens

\* Whose screen is in front with nothing of a scan's before it.
LEMMA DeliverResponseTokens ==
    ASSUME LineInv, TokenInv, ~LetGo, DeliverResponse
    PROVE  TokenInv' /\ \A t \in Screens : Outstanding(t)' => Outstanding(t)
<1>1. /\ UNCHANGED <<front, timers, storing, sm, working>> /\ bcast # <<>> /\ Reply(<<>>)
      /\ Head(bcast).kind \in {"INTERFACES", "DEVICES"}
  BY DEF DeliverResponse, jobVars, uiVars, Arrives
<1>2. Moved(1, <<>>)
  BY <1>1, BcastTyped, NoBroadcast, Replied
<1>3. ASSUME NEW s \in DeviceScreens, storing[s] # "none" PROVE FALSE
  <2>1. front = s /\ \A i \in 1..Len(bcast) : ~IsToken(bcast[i])
    BY <1>3, NoneOutstanding DEF TokenInv, StoringShown
  <2>2. /\ 1 \in 1..Len(bcast) /\ bcast[1].kind \in {"INTERFACES", "DEVICES"} /\ ~IsToken(bcast[1])
    BY <1>1, <2>1, BcastTyped, HeadTyped
  <2>3. bcast[1].from = "Measurements"
    BY <2>2 DEF IsToken, Awaited
  <2>4. bcast[1].kind = "INTERFACES"
    BY <2>2, <2>3 DEF LineInv, AnswersKnown, ScanOnly
  <2>5. front \in {"Measurements", "Elsewhere"}
    BY <2>2, <2>3, <2>4 DEF TokenInv, AnswersTrail
  <2> QED
    BY <2>1, <2>5 DEF DeviceScreens
<1> QED
  BY <1>1, <1>2, <1>3, NoBroadcast, QuietKeeps

\* A snapshot that Measurements listens to while it waits is of its own scan.
LEMMA SnapshotOwn ==
    ASSUME LineInv, TokenInv, Arrives("snapshot"), front = "Measurements"
    PROVE  /\ From = "Measurements" /\ sm = "IDLE" /\ \A t \in Screens : timers[t] = 0
           /\ \A i \in 1..Len(bcast) : i > 1 => ~IsToken(bcast[i])
           /\ Outstanding("Measurements") /\ "scanning" \in Showing("Measurements")
           /\ \A t \in DeviceScreens : storing[t] = "none"
<1>1. /\ 1 \in 1..Len(bcast) /\ bcast[1].kind = "snapshot" /\ From = bcast[1].from
      /\ bcast[1].from \in Screens
  BY BcastTyped, HeadTyped DEF Arrives
<1>2. "Measurements" \in Screens /\ "Measurements" \notin DeviceScreens
  BY DEF Screens, DeviceScreens
<1>3. From = "Measurements"
  <2> SUFFICES ASSUME From # "Measurements" PROVE FALSE
    OBVIOUS
  <2>1. Outstanding(From)
    <3>1. \/ sm # "IDLE" /\ working = From
          \/ \E j \in 1..Len(bcast) : IsToken(bcast[j]) /\ bcast[j].from = From
      BY <1>1 DEF TokenInv, SnapshotsTrail
    <3> QED
      BY <1>1, <3>1, OutstandingIs
  <2> QED
    BY <1>1, <2>1 DEF TokenInv, Shown
<1>4. IsToken(bcast[1])
  BY <1>1, <1>3 DEF IsToken, Awaited
<1>5. Outstanding("Measurements")
  BY <1>1, <1>2, <1>3, <1>4, OutstandingIs
<1>6. \A t \in Screens : timers[t] = 0
  <2>1. \A t \in Screens : timers[t] \in Nat /\ ~(timers[t] > 0)
    BY <1>1, <1>4, LineParts DEF TokenInv, OneToken, JobsTyped
  <2> QED
    BY <2>1
<1>7. sm = "IDLE" /\ \A i \in 1..Len(bcast) : i > 1 => ~IsToken(bcast[i])
  BY <1>1, <1>4 DEF TokenInv, OneToken
<1>8. \A t \in DeviceScreens : storing[t] = "none"
  BY <1>2, <1>5 DEF TokenInv, StoringShown
<1> QED
  BY <1>2, <1>3, <1>5, <1>6, <1>7, <1>8 DEF TokenInv, Shown

LEMMA DeliverSnapshotTokens ==
    ASSUME LineInv, TokenInv, ~LetGo, DeliverSnapshot
    PROVE  TokenInv'
<1>1. /\ UNCHANGED <<front, timers, storing, sm, working>> /\ bcast # <<>> /\ Arrives("snapshot")
      /\ UNCHANGED view \/ view' = [view EXCEPT !["Measurements"] = Dismiss(view["Measurements"])]
  BY DEF DeliverSnapshot, jobVars, uiVars, Arrives
<1>2. CASE Reply(<<>>)
  <2>1. Moved(1, <<>>)
    BY <1>1, <1>2, BcastTyped, NoBroadcast, Replied
  <2>2. \A s \in DeviceScreens : view'[s] = view[s]
    BY <1>1, ViewsOf DEF DeviceScreens, Screens
  <2> QED
    BY <1>1, <2>1, <2>2, NoBroadcast, QuietKeeps
<1>3. CASE ~Reply(<<>>)
  <2>1. front = "Measurements" /\ Reply(<<Request("Measurements")>>) /\ UNCHANGED view
    BY <1>3 DEF DeliverSnapshot, Registered
  <2>2. "Measurements" \in Screens
    BY DEF Screens
  <2>3. Moved(1, <<Request("Measurements")>>)
    BY <1>1, <2>1, <2>2, BcastTyped, RequestTyped, Replied
  <2>4. OneToken' /\ \A t \in Screens : Outstanding(t)' => t = "Measurements"
    BY <1>1, <2>1, <2>2, <2>3, SnapshotOwn, RequestTokens
  <2>5. "scanning" \in Showing("Measurements")'
    BY <1>1, <2>1, SnapshotOwn DEF Showing
  <2>6. Shown' /\ StoringShown'
    BY <1>1, <2>1, <2>2, <2>4, <2>5, SnapshotOwn, NewShown
  <2>7. AnswersTrail' /\ SnapshotsTrail'
    <3>1. \A i \in 1..Len(<<Request("Measurements")>>) :
              <<Request("Measurements")>>[i].kind \notin {"INTERFACES", "snapshot"}
      BY <2>2, RequestTyped
    <3> QED
      BY <1>1, <2>2, <2>3, <3>1, RequestTyped, TrailMoves DEF TokenInv
  <2> QED
    BY <2>4, <2>6, <2>7 DEF TokenInv
<1> QED
  BY <1>2, <1>3

\* When nothing is outstanding, no snapshot is left of another screen's scan,
\* and nothing Measurements does not listen to once another screen is in front.
LEMMA TrailStays ==
    ASSUME LineInv, TokenInv, \A t \in Screens : ~Outstanding(t), UNCHANGED bcast,
           front' = front \/ front \notin {"Measurements", "Elsewhere"} \/ bcast = <<>>
    PROVE  AnswersTrail' /\ SnapshotsTrail'
<1>1. AnswersTrail'
  BY DEF TokenInv, AnswersTrail
<1>2. sm = "IDLE" /\ \A i \in 1..Len(bcast) : ~IsToken(bcast[i])
  BY NoneOutstanding
<1>3. \A i \in 1..Len(bcast) : bcast[i].kind = "snapshot" => bcast[i].from = "Measurements"
  BY <1>2 DEF TokenInv, SnapshotsTrail
<1>4. SnapshotsTrail'
  BY <1>3 DEF SnapshotsTrail
<1> QED
  BY <1>1, <1>4

\* Nothing of a scan is under way, nor will be.
LEMMA IdleStays ==
    ASSUME LineInv, TokenInv, \A t \in Screens : ~Outstanding(t),
           UNCHANGED <<bcast, sm, working, timers>>,
           front' = front \/ front \notin {"Measurements", "Elsewhere"} \/ bcast = <<>>,
           \A t \in DeviceScreens : storing'[t] # "none" =>
               front' = t /\ view'[t].up /\ view'[t].pd = "storing"
    PROVE  TokenInv'
<1>1. OneToken' /\ \A t \in Screens : ~Outstanding(t)'
  BY StillTokens DEF TokenInv
<1>2. AnswersTrail' /\ SnapshotsTrail'
  BY TrailStays
<1>3. Shown' /\ StoringShown'
  BY <1>1 DEF Shown, StoringShown
<1> QED
  BY <1>1, <1>2, <1>3 DEF TokenInv

\* A screen starts a scan, when nothing is outstanding.
LEMMA StartTokens ==
    ASSUME LineInv, TokenInv, \A t \in Screens : ~Outstanding(t),
           NEW s \in Screens, NEW views \in [Screens -> Views], Sound(views[s]), StartScan(s, views),
           UNCHANGED <<bcast, sm, working>>, front' = s,
           front' = front \/ front \notin {"Measurements", "Elsewhere"} \/ bcast = <<>>,
           \A t \in DeviceScreens : storing'[t] = "none"
    PROVE  TokenInv'
<1>1. OneToken' /\ \A t \in Screens : Outstanding(t)' => t = s
  BY TimerTokens DEF StartScan
<1>2. "scanning" \in Showing(s)'
  <2>1. view'[s] = Show(views[s], "scanning") /\ "scanning" \in Dialogs
    BY DEF StartScan, Dialogs
  <2> QED
    BY <2>1, ShowView DEF Showing
<1>3. AnswersTrail' /\ SnapshotsTrail'
  BY TrailStays
<1> QED
  BY <1>1, <1>2, <1>3, NewShown DEF TokenInv

LEMMA EnterTokens ==
    ASSUME LineInv, TokenInv, \A t \in Screens : ~Outstanding(t),
           NEW s \in Screens, NEW known, NEW views \in [Screens -> Views], Enter(s, known, views),
           UNCHANGED <<bcast, sm, working>>,
           front \notin {"Measurements", "Elsewhere"} \/ bcast = <<>>,
           \A t \in DeviceScreens : storing'[t] = "none"
    PROVE  TokenInv'
<1>1. CASE ~ScansAtOnce(s, known)
  BY <1>1, IdleStays DEF Enter
<1>2. CASE ScansAtOnce(s, known)
  <2> DEFINE fresh == [views EXCEPT ![s] = Fresh]
  <2>1. StartScan(s, fresh) /\ front' = s
    BY <1>2 DEF Enter
  <2>2. fresh \in [Screens -> Views] /\ fresh[s] = Fresh /\ Sound(Fresh)
    BY FreshView DEF Sound
  <2> HIDE DEF fresh
  <2> QED
    BY <2>1, <2>2, StartTokens
<1> QED
  BY <1>1, <1>2

LEMMA OpenTokens ==
    ASSUME LineInv, TokenInv, NEW s \in Screens, Open(s)
    PROVE  TokenInv'
<1>1. /\ front = "Elsewhere" /\ bcast = <<>> /\ UNCHANGED <<bcast, sm, working, storing>>
      /\ Enter(s, internal, view)
  BY DEF Open, scanVars
<1>2. "Elsewhere" \notin Screens /\ DeviceScreens \subseteq Screens
  BY DEF Screens, DeviceScreens
<1>3. \A t \in Screens : ~Outstanding(t)
  BY <1>1, <1>2 DEF TokenInv, Shown
<1>4. \A t \in DeviceScreens : storing'[t] = "none"
  BY <1>1, <1>2 DEF TokenInv, StoringShown
<1> QED
  BY <1>1, <1>3, <1>4, EnterTokens, ViewsOf

LEMMA StoreDoneTokens ==
    ASSUME LineInv, TokenInv, NEW s \in DeviceScreens, StoreDone(s)
    PROVE  TokenInv'
<1>1. UNCHANGED <<bcast, sm, working>> /\ storing[s] # "none"
      /\ storing' = [storing EXCEPT ![s] = "none"]
  BY DEF StoreDone, scanVars
<1>2. /\ s \in Screens /\ After(s) \in Screens /\ s \notin {"Measurements", "Elsewhere"}
      /\ s # "MainInterface"
  BY DEF DeviceScreens, Screens, After
<1>3. front = s /\ \A t \in Screens : ~Outstanding(t)
  BY <1>1 DEF TokenInv, StoringShown
<1>4. \A t \in DeviceScreens : storing'[t] = "none"
  BY <1>1, <1>3, LineParts DEF TokenInv, StoringShown, JobsTyped
<1> DEFINE dismissed == [view EXCEPT ![s] = Dismiss(@)]
           fresh == [view EXCEPT ![s] = Fresh]
<1>5. dismissed \in [Screens -> Views] /\ Sound(dismissed[s])
  <2> DEFINE v == Dismiss(view[s])
  <2>1. Sound(v) /\ v.orphans = {}
    BY <1>2, ViewsOf, DismissView
  <2>2. dismissed = [view EXCEPT ![s] = v]
    OBVIOUS
  <2> HIDE DEF v, dismissed
  <2> QED
    BY <1>2, <2>1, <2>2, ViewsWith
<1>6. fresh \in [Screens -> Views]
  BY <1>2, FreshView, ViewsWith
<1>7. \/ UNCHANGED timers
      \/ StartScan(s, dismissed) /\ UNCHANGED front
      \/ Enter(After(s), internal', fresh)
  BY DEF StoreDone
<1> HIDE DEF dismissed, fresh
<1>8. CASE UNCHANGED timers
  BY <1>1, <1>2, <1>3, <1>4, <1>8, IdleStays
<1>9. CASE StartScan(s, dismissed) /\ UNCHANGED front
  BY <1>1, <1>2, <1>3, <1>4, <1>5, <1>9, StartTokens
<1>10. CASE Enter(After(s), internal', fresh)
  BY <1>1, <1>2, <1>3, <1>4, <1>6, <1>10, EnterTokens
<1> QED
  BY <1>7, <1>8, <1>9, <1>10

LEMMA SaveTokens ==
    ASSUME LineInv, TokenInv, NEW s \in DeviceScreens, NEW next, SaveSelections(s, next)
    PROVE  TokenInv'
<1>1. /\ UNCHANGED <<front, bcast, sm, working, timers>> /\ Usable(s)
      /\ storing' = [storing EXCEPT ![s] = next]
      /\ view' = [view EXCEPT ![s] = Show(view[s], "storing")]
  BY DEF SaveSelections, scanVars, uiVars
<1>2. s \in Screens /\ "storing" \in Dialogs
  BY DEF Screens, Dialogs
<1>3. \A t \in Screens : ~Outstanding(t)
  BY <1>1, <1>2, UsableIdle
<1>4. \A t \in DeviceScreens : storing'[t] # "none" => t = s
  BY <1>1, <1>2, UsableIdle, LineParts DEF JobsTyped
<1>5. front = s /\ view'[s].up /\ view'[s].pd = "storing"
  BY <1>1, <1>2, UsableShows, ViewsOf, ShowView
<1> QED
  BY <1>1, <1>3, <1>4, <1>5, IdleStays

\* The buttons that set a timer, on a screen without a dialog.
LEMMA DelayedTokens ==
    ASSUME LineInv, TokenInv, MarkDevice \/ TriggerSnapshotDelayed
    PROVE  TokenInv'
<1>1. PICK s \in {"Measurements", "FinalTraining"} : Usable(s) /\ StartScan(s, view)
  BY DEF MarkDevice, TriggerSnapshotDelayed
<1>2. UNCHANGED <<front, bcast, sm, working, storing>>
  BY DEF MarkDevice, TriggerSnapshotDelayed, uiVars, scanVars
<1>3. s \in Screens
  BY DEF Screens, DeviceScreens
<1>4. front = s /\ \A t \in Screens : ~Outstanding(t)
  BY <1>1, <1>3, UsableIdle, UsableShows
<1>5. \A t \in DeviceScreens : storing'[t] = "none"
  BY <1>1, <1>2, <1>3, UsableIdle
<1> QED
  BY <1>1, <1>2, <1>3, <1>4, <1>5, StartTokens, ViewsOf

\* A screen sends its request.
LEMMA AskTokens ==
    ASSUME LineInv, TokenInv, NEW s \in Screens, bcast' = Append(bcast, Request(s)),
           sm = "IDLE", \A i \in 1..Len(bcast) : ~IsToken(bcast[i]),
           \A t \in Screens : timers'[t] = 0, UNCHANGED <<sm, working, front>>,
           front = s, "scanning" \in Showing(s)', \A t \in DeviceScreens : storing'[t] = "none"
    PROVE  TokenInv'
<1>1. Moved(0, <<Request(s)>>)
  BY BcastTyped, RequestTyped, SentOne
<1>2. OneToken' /\ \A t \in Screens : Outstanding(t)' => t = s
  BY <1>1, RequestTokens
<1>3. AnswersTrail' /\ SnapshotsTrail'
  <2>1. \A i \in 1..Len(<<Request(s)>>) : <<Request(s)>>[i].kind \notin {"INTERFACES", "snapshot"}
    BY RequestTyped
  <2> QED
    BY <1>1, <2>1, RequestTyped, TrailMoves DEF TokenInv
<1> QED
  BY <1>2, <1>3, NewShown DEF TokenInv

LEMMA ClickTokens ==
    ASSUME LineInv, TokenInv, ClickAddNetwork \/ \E n \in 1..MaxSeries : TriggerSnapshots(n)
    PROVE  TokenInv'
<1>1. PICK s \in {"MainInterface", "Measurements"} :
          /\ Usable(s) /\ bcast' = Append(bcast, Request(s))
          /\ view' = [view EXCEPT ![s] = Show(view[s], "scanning")]
  BY DEF ClickAddNetwork, TriggerSnapshots
<1>2. UNCHANGED <<front, sm, working, timers, storing>>
  BY DEF ClickAddNetwork, TriggerSnapshots, uiVars, jobVars
<1>3. s \in Screens /\ "scanning" \in Dialogs
  BY DEF Screens, Dialogs
<1>4. front = s /\ \A t \in Screens : ~Outstanding(t)
  BY <1>1, <1>3, UsableIdle, UsableShows
<1>5. \A t \in DeviceScreens : storing'[t] = "none"
  BY <1>1, <1>2, <1>3, UsableIdle
<1>6. "scanning" \in Showing(s)'
  <2>1. view'[s] = Show(view[s], "scanning") /\ Sound(view[s])
    BY <1>1, <1>3, ViewsOf
  <2> QED
    BY <1>3, <2>1, ShowView DEF Showing
<1>7. /\ sm = "IDLE" /\ \A t \in Screens : timers'[t] = 0
      /\ \A i \in 1..Len(bcast) : ~IsToken(bcast[i])
  BY <1>2, <1>4, NoneOutstanding
<1> QED
  BY <1>1, <1>2, <1>3, <1>4, <1>5, <1>6, <1>7, AskTokens

\* What a timer that is to fire says.
LEMMA TimerOnly ==
    ASSUME LineInv, TokenInv, NEW s \in Screens, timers[s] > 0
    PROVE  /\ sm = "IDLE" /\ \A i \in 1..Len(bcast) : ~IsToken(bcast[i])
           /\ [timers EXCEPT ![s] = @ - 1] = [t \in Screens |-> 0]
           /\ front = s /\ "scanning" \in Showing(s)
           /\ \A t \in DeviceScreens : storing[t] = "none"
<1>1. timers \in [Screens -> Nat] /\ timers[s] = 1
      /\ sm = "IDLE" /\ \A i \in 1..Len(bcast) : ~IsToken(bcast[i])
  BY LineParts DEF JobsTyped, TokenInv, OneToken
<1>2. Outstanding(s)
  BY OutstandingIs
<1>3. front = s /\ "scanning" \in Showing(s)
  BY <1>2 DEF TokenInv, Shown
<1>4. \A t \in DeviceScreens : storing[t] = "none"
  BY <1>2 DEF TokenInv, StoringShown
<1>5. ASSUME NEW t \in Screens, t # s PROVE timers[t] = 0
  <2>1. ~Outstanding(t)
    BY <1>3, <1>5 DEF TokenInv, Shown
  <2> QED
    BY <1>1, <2>1, OutstandingIs
<1>6. [timers EXCEPT ![s] = @ - 1] = [t \in Screens |-> 0]
  <2> DEFINE after == [timers EXCEPT ![s] = @ - 1]
  <2>1. after = [t \in Screens |-> after[t]]
    BY <1>1
  <2>2. ASSUME NEW t \in Screens PROVE after[t] = 0
    BY <1>1, <1>5
  <2> HIDE DEF after
  <2>3. after = [t \in Screens |-> 0]
    BY ONLY <2>1, <2>2
  <2> QED
    BY <2>3 DEF after
<1> QED
  BY <1>1, <1>3, <1>4, <1>6

LEMMA TimerFiresTokens ==
    ASSUME LineInv, TokenInv, NEW s \in Screens, TimerFires(s)
    PROVE  TokenInv'
<1>1. /\ UNCHANGED <<front, view, sm, working, storing>> /\ timers[s] > 0
      /\ timers' = [timers EXCEPT ![s] = @ - 1] /\ bcast' = Append(bcast, Request(s))
  BY DEF TimerFires, uiVars
<1>2. "scanning" \in Showing(s)'
  BY <1>1, TimerOnly DEF Showing
<1>3. \A t \in Screens : timers'[t] = 0
  BY <1>1, TimerOnly
<1> QED
  BY <1>1, <1>2, <1>3, TimerOnly, AskTokens

LEMMA DelayIsOverTokens ==
    ASSUME LineInv, TokenInv, DelayIsOver
    PROVE  TokenInv' /\ UNCHANGED crashed
<1> DEFINE s == "Measurements"
<1>1. s \in Screens /\ "scanning" \in Dialogs
  BY DEF Screens, Dialogs
<1>2. timers[s] > 0 /\ timers' = [timers EXCEPT ![s] = @ - 1]
  BY DEF DelayIsOver
<1>3. front = s
  BY <1>1, <1>2, TimerOnly
<1>4. /\ UNCHANGED <<front, sm, working, storing, crashed>> /\ bcast' = Append(bcast, Request(s))
      /\ view' = [view EXCEPT ![s] = Show(Dismiss(view[s]), "scanning")]
  BY <1>3 DEF DelayIsOver, uiVars
<1> HIDE DEF s
<1>5. "scanning" \in Showing(s)'
  <2>1. view'[s] = Show(Dismiss(view[s]), "scanning") /\ Sound(Dismiss(view[s]))
    BY <1>1, <1>4, ViewsOf, DismissView
  <2> QED
    BY <1>1, <2>1, ShowView DEF Showing
<1>6. \A t \in Screens : timers'[t] = 0
  BY <1>1, <1>2, TimerOnly
<1> QED
  BY <1>1, <1>2, <1>3, <1>4, <1>5, <1>6, TimerOnly, AskTokens

\* ScanManager takes a request up, or drops it.
LEMMA DeliverRequestTokens ==
    ASSUME LineInv, TokenInv, ~LetGo, DeliverRequest
    PROVE  /\ TokenInv' /\ sm = "IDLE"
           /\ \A t \in Screens : Outstanding(t)' => Outstanding(t)
<1>1. UNCHANGED <<front, view, timers, storing>> /\ bcast # <<>> /\ Reply(<<>>)
  BY DEF DeliverRequest, jobVars, uiVars, Arrives
<1>2. Moved(1, <<>>)
  BY <1>1, BcastTyped, NoBroadcast, Replied
<1>3. /\ 1 \in 1..Len(bcast) /\ bcast[1].kind = "request" /\ From = bcast[1].from
      /\ From \in Screens /\ IsToken(bcast[1])
  BY <1>1, BcastTyped, HeadTyped DEF DeliverRequest, Arrives, IsToken
<1>4. /\ sm = "IDLE" /\ \A t \in Screens : ~(timers[t] > 0)
      /\ \A i \in 1..Len(bcast) : i > 1 => ~IsToken(bcast[i])
  BY <1>3 DEF TokenInv, OneToken
<1>5. CASE UNCHANGED <<sm, working>>
  BY <1>1, <1>2, <1>4, <1>5, NoBroadcast, QuietKeeps
<1>6. CASE sm' = "SCANNING" /\ working' = From
  <2>1. \A i \in 1..Len(bcast') : i + 1 \in 1..Len(bcast) /\ i + 1 > 1 /\ bcast'[i] = bcast[i + 1]
    BY <1>2, BcastTyped, TakenFrom
  <2>2. \A i \in 1..Len(bcast') : ~IsToken(bcast'[i])
    BY <1>4, <2>1
  <2>3. OneToken'
    BY <1>1, <1>4, <2>2 DEF OneToken, IsToken
  <2>4. Outstanding(From)
    BY <1>3, OutstandingIs
  <2>5. \A t \in Screens : Outstanding(t)' => Outstanding(t)
    BY <1>1, <1>4, <1>6, <2>2, <2>4, OutstandingIs
  <2>6. Shown' /\ StoringShown'
    BY <1>1, <2>5, ShownStays, StoringStays DEF TokenInv
  <2>7. AnswersTrail'
    BY <1>1, <2>1 DEF TokenInv, AnswersTrail
  <2>8. SnapshotsTrail'
    <3>1. \A i \in 1..Len(bcast) : i > 1 /\ bcast[i].kind = "snapshot" => bcast[i].from = "Measurements"
      BY <1>4 DEF TokenInv, SnapshotsTrail
    <3> QED
      BY <2>1, <3>1 DEF SnapshotsTrail
  <2> QED
    BY <1>4, <2>3, <2>5, <2>6, <2>7, <2>8 DEF TokenInv
<1> QED
  BY <1>4, <1>5, <1>6 DEF DeliverRequest

\* What DeliverStage sends: the answer to the screen ScanManager works for is
\* the only token, and the last.
LEMMA StageSent ==
    ASSUME NEW w \in Screens, NEW sent \in Seq(Messages), StageSends(w, sent)
    PROVE  /\ \A i \in 1..Len(sent) :
                  /\ sent[i].from = w
                  /\ IsToken(sent[i]) => sm' = "IDLE"
                  /\ sent[i].kind = "INTERFACES" => sm' = "IDLE"
           /\ \A i, j \in 1..Len(sent) : IsToken(sent[i]) /\ IsToken(sent[j]) => i = j
           /\ sm' # "IDLE" => sm' \in Stages /\ working' = w
           /\ sm' = "IDLE" /\ w # "Measurements" =>
                  /\ Len(sent) \in 1..Len(sent) /\ IsToken(sent[Len(sent)])
                  /\ sent[Len(sent)].kind # "snapshot"
<1> DEFINE a == Message(IF w \in ScanOnly THEN "INTERFACES" ELSE "DEVICES", w)
           b == Message("snapshot", w)
<1>1. /\ b.from = w /\ b.kind = "snapshot" /\ (IsToken(b) <=> w = "Measurements")
      /\ a.from = w /\ a.kind \in {"INTERFACES", "DEVICES"} /\ (IsToken(a) <=> w # "Measurements")
  BY MessageFields, MessageTokens DEF Kinds
<1>2. /\ Answer(w) \in Seq(Messages) /\ Len(Answer(w)) = 1 /\ Answer(w)[1] = a
      /\ Snapshot(w) \in Seq(Messages) /\ Len(Snapshot(w)) = 1 /\ Snapshot(w)[1] = b
      /\ Len(Snapshot(w) \o Answer(w)) = 2
      /\ (Snapshot(w) \o Answer(w))[1] = b /\ (Snapshot(w) \o Answer(w))[2] = a
  BY SendsTyped
<1>3. "Measurements" \in ScanOnly /\ "IDLE" \notin Stages
  BY DEF ScanOnly, Stages
<1> HIDE DEF a, b
<1>4. CASE sm' # "IDLE"
  <2>1. sm' \in Stages /\ working' = w /\ w \notin ScanOnly /\ (sent = <<>> \/ sent = Snapshot(w))
    BY <1>4 DEF StageSends
  <2>2. \A i \in 1..Len(sent) : i = 1 /\ sent[i] = b
    BY <1>2, <2>1
  <2> QED
    BY <1>1, <1>3, <1>4, <2>1, <2>2
<1>5. CASE sm' = "IDLE"
  <2>1. CASE sent = Answer(w)
    <3>1. Len(sent) = 1 /\ \A i \in 1..Len(sent) : i = 1 /\ sent[i] = a
      BY <1>2, <2>1
    <3> QED
      BY <1>1, <1>5, <3>1
  <2>2. CASE sent = Snapshot(w) \o Answer(w)
    <3>1. Len(sent) = 2 /\ sent[1] = b /\ sent[2] = a
      BY <1>2, <2>2
    <3>2. \A i \in 1..Len(sent) : i = 1 \/ i = 2
      BY <3>1
    <3> QED
      BY <1>1, <1>5, <3>1, <3>2
  <2> QED
    BY <1>3, <1>5, <2>1, <2>2 DEF StageSends
<1> QED
  BY <1>4, <1>5

LEMMA DeliverStageTokens ==
    ASSUME LineInv, TokenInv, ~LetGo, DeliverStage
    PROVE  TokenInv' /\ \A t \in Screens : Outstanding(t)' => Outstanding(t)
<1> DEFINE w == working
<1>1. UNCHANGED <<front, timers, storing>>
  BY DEF DeliverStage, uiVars, jobVars
<1>2. sm \in Stages /\ sm # "IDLE" /\ w \in Screens
  BY StageStep DEF Stages
<1>3. PICK sent \in Seq(Messages) : Moved(1, sent) /\ StageSends(w, sent)
  BY StageStep
<1>4. /\ Outstanding(w) /\ front = w
      /\ \A i \in 1..Len(bcast) : ~IsToken(bcast[i])
      /\ \A t \in Screens : ~(timers[t] > 0)
      /\ \A t \in DeviceScreens : storing[t] = "none"
  <2>1. Outstanding(w)
    BY <1>2, OutstandingIs
  <2> QED
    BY <1>2, <2>1 DEF TokenInv, OneToken, Shown, StoringShown
<1> HIDE DEF w
<1>5. \A i \in 1..Len(sent) :
          /\ sent[i].from = w
          /\ IsToken(sent[i]) => sm' = "IDLE"
          /\ sent[i].kind = "INTERFACES" => sm' = "IDLE"
  BY <1>2, <1>3, StageSent
<1>6. /\ \A i, j \in 1..Len(sent) : IsToken(sent[i]) /\ IsToken(sent[j]) => i = j
      /\ sm' # "IDLE" => sm' \in Stages /\ working' = w
      /\ sm' = "IDLE" /\ w # "Measurements" =>
             /\ Len(sent) \in 1..Len(sent) /\ IsToken(sent[Len(sent)])
             /\ sent[Len(sent)].kind # "snapshot"
  BY <1>2, <1>3, StageSent
<1> DEFINE k == Len(bcast) - 1
<1>7. k \in Nat /\ Len(sent) \in Nat /\ bcast \in Seq(Messages) /\ Len(bcast') = k + Len(sent)
  <2>1. Len(bcast) \in Nat \ {0} /\ Len(sent) \in Nat /\ bcast \in Seq(Messages)
    BY BcastTyped, StageStep
  <2> QED
    BY <1>3, <2>1 DEF Moved
<1>8. ASSUME NEW i \in 1..Len(bcast')
      PROVE  \/ i + 1 \in 1..Len(bcast) /\ bcast'[i] = bcast[i + 1]
             \/ i - k \in 1..Len(sent) /\ bcast'[i] = sent[i - k]
  BY <1>3, <1>7, MovedFrom
<1> HIDE DEF k
<1>9. OneToken'
  <2>1. ASSUME NEW i \in 1..Len(bcast'), IsToken(bcast'[i])
        PROVE  i - k \in 1..Len(sent) /\ IsToken(sent[i - k]) /\ sm' = "IDLE"
    BY <1>4, <1>5, <1>8, <2>1
  <2>2. \A i, j \in 1..Len(bcast') : IsToken(bcast'[i]) /\ IsToken(bcast'[j]) => i = j
    <3> SUFFICES ASSUME NEW i \in 1..Len(bcast'), NEW j \in 1..Len(bcast'),
                        IsToken(bcast'[i]), IsToken(bcast'[j])
                 PROVE  i = j
      OBVIOUS
    <3>1. i - k = j - k
      BY <1>6, <2>1
    <3> QED
      BY <1>7, <3>1
  <2> QED
    BY <1>1, <1>4, <2>1, <2>2 DEF OneToken, IsToken
<1>10. \A t \in Screens : Outstanding(t)' => Outstanding(t)
  <2> SUFFICES ASSUME NEW t \in Screens, Outstanding(t)' PROVE t = w
    BY <1>4
  <2>1. CASE \E i \in 1..Len(bcast') : IsToken(bcast'[i]) /\ bcast'[i].from = t
    BY <1>4, <1>5, <1>8, <2>1
  <2> QED
    BY <1>1, <1>4, <1>6, <2>1, OutstandingIs
<1>11. Shown' /\ StoringShown'
  BY <1>1, <1>4, <1>10, ShownStays, StoringStays DEF TokenInv
<1>12. AnswersTrail'
  <2> SUFFICES ASSUME NEW i \in 1..Len(bcast'), bcast'[i].kind = "INTERFACES",
                      bcast'[i].from = "Measurements"
               PROVE  front' \in {"Measurements", "Elsewhere"}
    BY DEF AnswersTrail
  <2> QED
    BY <1>1, <1>4, <1>5, <1>8 DEF TokenInv, AnswersTrail
<1>13. SnapshotsTrail'
  <2> SUFFICES ASSUME NEW i \in 1..Len(bcast'), bcast'[i].kind = "snapshot",
                      bcast'[i].from # "Measurements"
               PROVE  \/ sm' # "IDLE" /\ working' = bcast'[i].from
                      \/ \E j \in 1..Len(bcast') :
                            j > i /\ IsToken(bcast'[j]) /\ bcast'[j].from = bcast'[i].from
    BY DEF SnapshotsTrail, IsToken
  <2>1. bcast'[i].from = w
    <3>1. ASSUME i + 1 \in 1..Len(bcast), bcast'[i] = bcast[i + 1] PROVE working = bcast[i + 1].from
      BY <1>4, <3>1 DEF TokenInv, SnapshotsTrail
    <3> QED
      BY <1>5, <1>8, <3>1 DEF w
  <2>2. CASE sm' = "IDLE"
    <3> DEFINE j == k + Len(sent)
    <3>1. Len(sent) \in 1..Len(sent) /\ IsToken(sent[Len(sent)]) /\ sent[Len(sent)].kind # "snapshot"
          /\ sent[Len(sent)].from = w
      BY <1>5, <1>6, <2>1, <2>2
    <3>2. j \in 1..Len(bcast') /\ bcast'[j] = sent[Len(sent)]
      BY <1>3, <1>7, <3>1 DEF Moved, k
    <3>3. j = Len(bcast') /\ j # i
      BY <1>7, <3>1, <3>2
    <3>4. j > i
      BY <1>7, <3>3
    <3> QED
      BY <2>1, <3>1, <3>2, <3>4
  <2> QED
    BY <1>6, <2>1, <2>2
<1> QED
  BY <1>9, <1>10, <1>11, <1>12, <1>13 DEF TokenInv

-----------------------------------------------------------------------------
(* Rows and series                                                         *)

LEMMA RowsStay ==
    ASSUME RowsInv, UNCHANGED <<list, crashed>>,
           \A s \in DeviceScreens : front' = s => front = s /\ view'[s] = view[s]
    PROVE  RowsInv'
  BY DEF RowsInv, RowsHidden

LEMMA SeriesStay ==
    ASSUME SeriesInv, UNCHANGED <<state, scansLeft, series, taken>>,
           timers'["Measurements"] = timers["Measurements"] \/ scansLeft = 0,
           state = "SNAPSHOT" =>
               /\ front' = front /\ view'["Measurements"] = view["Measurements"]
               /\ Outstanding("Measurements")' => Outstanding("Measurements")
    PROVE  SeriesInv'
  BY DEF SeriesInv

\* Screens are strings; these are the facts of their names that are needed.
LEMMA Names ==
    /\ DeviceScreens = {"YourDevices", "MissingDevices", "FinalTraining"}
    /\ Screens = {"MainInterface", "Measurements"} \cup DeviceScreens
    /\ "Elsewhere" \notin Screens
    /\ "scanning" \in Dialogs /\ "storing" \in Dialogs
  BY DEF Screens, DeviceScreens, Dialogs

\* Steps on which only MainInterface acts, or that touch no screen at all.
LEMMA QuietRows ==
    ASSUME RowsInv, SeriesInv, UNCHANGED <<list, crashed, timers, state, scansLeft, series, taken>>,
           UNCHANGED front \/ (front = "MainInterface" /\ front' = "Elsewhere"),
           \A s \in Screens \ {"MainInterface"} : view'[s] = view[s],
           \A t \in Screens : Outstanding(t)' => Outstanding(t)
    PROVE  RowsInv' /\ SeriesInv'
<1>1. RowsInv'
  BY RowsStay, Names
<1>2. state = "SNAPSHOT" => UNCHANGED front
  BY DEF SeriesInv
<1>3. SeriesInv'
  BY <1>2, SeriesStay, Names
<1> QED
  BY <1>1, <1>3

LEMMA QuietStepRows ==
    ASSUME LineInv, RowsInv, SeriesInv, \A t \in Screens : Outstanding(t)' => Outstanding(t),
           \/ PressHome \/ Return \/ GiveSettings \/ ServiceBound \/ LibrariesLoaded \/ StageDone
           \/ DeliverInitialized \/ DeliverShow \/ DeliverCancel \/ DeliverRequest
           \/ Inits \/ \E radios \in SUBSET UsbRadios : Plug(radios)
    PROVE  RowsInv' /\ SeriesInv'
<1>1. UNCHANGED <<list, crashed, timers, state, scansLeft, series, taken>>
  <2>1. CASE PressHome \/ Return \/ GiveSettings \/ ServiceBound \/ LibrariesLoaded \/ StageDone
    BY <2>1 DEF PressHome, Return, GiveSettings, ServiceBound, LibrariesLoaded, StageDone,
                listVars, measureVars, jobVars
  <2>2. CASE DeliverInitialized \/ DeliverShow \/ DeliverCancel \/ DeliverRequest
    BY <2>2 DEF DeliverInitialized, DeliverShow, DeliverCancel, DeliverRequest,
                listVars, measureVars, jobVars
  <2>3. CASE Inits \/ \E radios \in SUBSET UsbRadios : Plug(radios)
    BY <2>3 DEF Inits, InitAsks, InitEnds, Plug, listVars, measureVars, jobVars
  <2> QED
    BY <2>1, <2>2, <2>3
<1>2. CASE ServiceBound \/ DeliverInitialized
  <2>1. front' = front \/ (front = "MainInterface" /\ front' = "Elsewhere")
    <3>1. CASE ServiceBound
      <4>1. front = "MainInterface" /\ front' \in {front, "Elsewhere"}
        BY <3>1 DEF ServiceBound, SystemInitialized, Registered
      <4> QED
        BY <4>1
    <3>2. CASE DeliverInitialized
      <4>1. front' = front \/ (front = "MainInterface" /\ front' \in {front, "Elsewhere"})
        BY <3>2 DEF DeliverInitialized, SystemInitialized, Registered
      <4> QED
        BY <4>1
    <3> QED
      BY <1>2, <3>1, <3>2
  <2>2. UNCHANGED view \/ \E v : view' = [view EXCEPT !["MainInterface"] = v]
    BY <1>2 DEF ServiceBound, DeliverInitialized, SystemInitialized
  <2>3. \A s \in Screens \ {"MainInterface"} : view'[s] = view[s]
    BY <2>2, ViewsOf
  <2> QED
    BY <1>1, <2>1, <2>3, QuietRows
<1>3. CASE DeliverShow \/ DeliverCancel
  <2>1. /\ UNCHANGED front
        /\ UNCHANGED view \/ \E v : view' = [view EXCEPT !["MainInterface"] = v]
    BY <1>3 DEF DeliverShow, DeliverCancel, uiVars
  <2>2. \A s \in Screens \ {"MainInterface"} : view'[s] = view[s]
    BY <2>1, ViewsOf
  <2> QED
    BY <1>1, <2>1, <2>2, QuietRows
<1>4. CASE ~(ServiceBound \/ DeliverInitialized \/ DeliverShow \/ DeliverCancel)
  <2>1. UNCHANGED <<front, view>>
    BY <1>4 DEF PressHome, Return, GiveSettings, LibrariesLoaded, StageDone, DeliverRequest,
                Inits, InitAsks, InitEnds, Plug, uiVars
  <2> QED
    BY <1>1, <2>1, QuietRows
<1> QED
  BY <1>2, <1>3, <1>4

\* The screen in front is not Measurements: it waits for no snapshot.
LEMMA NoSeries == ASSUME SeriesInv, LineInv, front # "Measurements" PROVE state = "IDLE" /\ scansLeft = 0
  BY LineParts DEF SeriesInv, MeasureTyped

LEMMA SeriesIdle ==
    ASSUME state' = "IDLE", scansLeft' = 0
    PROVE  SeriesInv'
  BY DEF SeriesInv

LEMMA LeaveRows ==
    ASSUME LineInv, RowsInv, NEW s \in Screens, Leave(s)
    PROVE  RowsInv' /\ SeriesInv'
<1>1. /\ front' = "Elsewhere" /\ state' = "IDLE" /\ scansLeft' = 0 /\ UNCHANGED crashed
      /\ list' = [list EXCEPT ![s] = "devices"]
  BY DEF Leave
<1>2. list'["FinalTraining"] = "devices"
  BY <1>1, Names, LineParts DEF RowsInv, ListsTyped
<1> QED
  BY <1>1, <1>2, SeriesIdle, Names DEF RowsInv, RowsHidden

\* A new screen has rows that are devices, or scans.
LEMMA EnterRows ==
    ASSUME LineInv, RowsInv, SeriesInv, front # "Measurements",
           NEW s \in Screens, NEW known, NEW views \in [Screens -> Views], Enter(s, known, views),
           UNCHANGED crashed
    PROVE  RowsInv' /\ SeriesInv'
<1>1. front' = s /\ list \in [Screens -> {"none", "interfaces", "devices"}]
  BY LineParts DEF Enter, ListsTyped
<1>2. state' = "IDLE" /\ scansLeft' = 0
  BY NoSeries DEF Enter
<1>3. CASE ~ScansAtOnce(s, known)
  <2>1. list' = [list EXCEPT ![s] = "devices"]
    BY <1>3 DEF Enter
  <2>2. list'[s] = "devices" /\ list'["FinalTraining"] = "devices"
    BY <1>1, <2>1, Names DEF RowsInv
  <2> QED
    BY <1>1, <1>2, <2>2, SeriesIdle DEF RowsInv, RowsHidden
<1>4. CASE ScansAtOnce(s, known)
  <2> DEFINE fresh == [views EXCEPT ![s] = Fresh]
  <2>1. StartScan(s, fresh) /\ list' = [list EXCEPT ![s] = "none"] /\ s # "FinalTraining"
    BY <1>4 DEF Enter, ScansAtOnce
  <2>2. fresh \in [Screens -> Views] /\ fresh[s] = Fresh /\ Sound(Fresh)
    BY FreshView DEF Sound
  <2> HIDE DEF fresh
  <2>3. view'[s] = Show(fresh[s], "scanning")
    BY <2>1, <2>2 DEF StartScan
  <2>4. view'[s].up /\ view'[s].pd = "scanning"
    BY <2>2, <2>3, ShowView, Names
  <2>5. list'["FinalTraining"] = "devices"
    BY <1>1, <2>1, Names DEF RowsInv
  <2> QED
    BY <1>1, <1>2, <2>4, <2>5, SeriesIdle DEF RowsInv, RowsHidden
<1> QED
  BY <1>3, <1>4

LEMMA OpenRows ==
    ASSUME LineInv, RowsInv, SeriesInv, NEW s \in Screens, Open(s)
    PROVE  RowsInv' /\ SeriesInv'
<1>1. front = "Elsewhere" /\ Enter(s, internal, view) /\ UNCHANGED crashed
  BY DEF Open
<1> QED
  BY <1>1, EnterRows, ViewsOf

LEMMA ClickRows ==
    ASSUME LineInv, RowsInv, SeriesInv, ClickAddNetwork
    PROVE  RowsInv' /\ SeriesInv'
<1>1. /\ front = "MainInterface" /\ UNCHANGED front
      /\ UNCHANGED <<list, crashed, timers, state, scansLeft, series, taken>>
  BY DEF ClickAddNetwork, Usable, Registered, uiVars, listVars, measureVars, jobVars
<1>2. RowsInv'
  BY <1>1, RowsStay, Names
<1> QED
  BY <1>1, <1>2, NoSeries, SeriesIdle

LEMMA TriggerRows ==
    ASSUME LineInv, TokenInv, RowsInv, SeriesInv, NEW n \in 1..MaxSeries, TriggerSnapshots(n)
    PROVE  RowsInv' /\ SeriesInv'
<1>1. /\ Usable("Measurements") /\ UNCHANGED <<front, timers, list, crashed>>
      /\ view' = [view EXCEPT !["Measurements"] = Show(view["Measurements"], "scanning")]
      /\ state' = "SNAPSHOT" /\ scansLeft' = n - 1 /\ series' = n /\ taken' = 0
  BY DEF TriggerSnapshots, uiVars, listVars, jobVars
<1>2. front = "Measurements" /\ RowsInv'
  BY <1>1, UsableShows, RowsStay, Names
<1>3. view'["Measurements"].up /\ view'["Measurements"].pd = "scanning"
  BY <1>1, Names, ViewsOf, ShowView
<1>4. timers'["Measurements"] = 0
  BY <1>1, Names, UsableIdle, NoneOutstanding
<1>5. n \in Nat
  BY MaxSeriesAssumption
<1> QED
  BY <1>1, <1>2, <1>3, <1>4, <1>5 DEF SeriesInv

LEMMA DelayedRows ==
    ASSUME LineInv, RowsInv, SeriesInv, TriggerSnapshotDelayed
    PROVE  RowsInv' /\ SeriesInv'
<1>1. /\ Usable("Measurements") /\ UNCHANGED <<front, list, crashed, scansLeft>>
      /\ view' = [view EXCEPT !["Measurements"] = Show(view["Measurements"], "scanning")]
      /\ state' = "SNAPSHOT" /\ series' = 1 /\ taken' = 0
  BY DEF TriggerSnapshotDelayed, StartScan, uiVars, listVars
<1>2. front = "Measurements" /\ RowsInv' /\ ~view["Measurements"].up
  BY <1>1, UsableShows, RowsStay, Names
<1>3. view'["Measurements"].up /\ view'["Measurements"].pd = "scanning"
  BY <1>1, Names, ViewsOf, ShowView
<1>4. scansLeft' = 0
  BY <1>1, <1>2, LineParts DEF SeriesInv, MeasureTyped
<1> QED
  BY <1>1, <1>2, <1>3, <1>4 DEF SeriesInv

LEMMA SaveRows ==
    ASSUME LineInv, RowsInv, SeriesInv, NEW s \in DeviceScreens, NEW next, SaveSelections(s, next)
    PROVE  RowsInv' /\ SeriesInv'
<1>1. /\ front = s /\ ~view[s].up
      /\ UNCHANGED <<front, list, state, scansLeft>>
      /\ crashed' \in (IF list[s] = "devices" THEN {FALSE} ELSE BOOLEAN)
  BY UsableShows DEF SaveSelections, uiVars, listVars, measureVars
<1>2. list[s] = "devices"
  BY <1>1 DEF RowsInv, RowsHidden
<1>3. RowsInv'
  BY <1>1, <1>2 DEF RowsInv, RowsHidden
<1> QED
  BY <1>1, <1>3, NoSeries, SeriesIdle, Names

LEMMA MarkRows ==
    ASSUME LineInv, RowsInv, SeriesInv, MarkDevice
    PROVE  RowsInv' /\ SeriesInv'
<1>1. front = "FinalTraining" /\ UNCHANGED <<front, list, state, scansLeft, crashed>>
  BY UsableShows DEF MarkDevice, uiVars, listVars, measureVars
<1> QED
  BY <1>1, NoSeries, SeriesIdle DEF RowsInv, RowsHidden

LEMMA TimerFiresRows ==
    ASSUME LineInv, TokenInv, RowsInv, SeriesInv, NEW s \in Screens, TimerFires(s)
    PROVE  RowsInv' /\ SeriesInv'
<1>1. /\ s # "Measurements" /\ timers[s] > 0
      /\ UNCHANGED <<front, view, list, state, scansLeft, crashed>>
  BY DEF TimerFires, uiVars, listVars, measureVars
<1>2. front = s
  BY <1>1, TimerOnly
<1> QED
  BY <1>1, <1>2, NoSeries, SeriesIdle DEF RowsInv, RowsHidden

LEMMA StoreDoneRows ==
    ASSUME LineInv, TokenInv, RowsInv, SeriesInv, NEW s \in DeviceScreens, StoreDone(s)
    PROVE  RowsInv' /\ SeriesInv'
<1>1. front = s /\ view[s].pd = "storing"
  BY DEF StoreDone, TokenInv, StoringShown
<1>2. list[s] = "devices" /\ state = "IDLE" /\ scansLeft = 0
  BY <1>1, NoSeries, Names DEF RowsInv, RowsHidden
<1>3. s \in Screens /\ After(s) \in Screens
  BY Names DEF After
<1> DEFINE fresh == [view EXCEPT ![s] = Fresh]
<1>4. \/ /\ UNCHANGED <<list, state, scansLeft>> /\ front' \in {s, "MainInterface"}
         /\ UNCHANGED crashed \/ crashed' = (front # s)
      \/ Enter(After(s), internal', fresh) /\ UNCHANGED crashed
  BY <1>1 DEF StoreDone, After
<1>5. fresh \in [Screens -> Views]
  BY <1>3, FreshView, ViewsWith
<1> HIDE DEF fresh
<1>6. CASE UNCHANGED <<list, state, scansLeft>> /\ front' \in {s, "MainInterface"}
           /\ (UNCHANGED crashed \/ crashed' = (front # s))
  <2>1. ~crashed'
    BY <1>1, <1>6 DEF RowsInv
  <2>2. RowsInv'
    BY <1>2, <1>6, <2>1, Names DEF RowsInv, RowsHidden
  <2> QED
    BY <1>2, <1>6, <2>2, SeriesIdle
<1>7. CASE Enter(After(s), internal', fresh) /\ UNCHANGED crashed
  BY <1>1, <1>3, <1>5, <1>7, EnterRows, Names
<1> QED
  BY <1>4, <1>6, <1>7

LEMMA DelayIsOverRows ==
    ASSUME LineInv, TokenInv, RowsInv, SeriesInv, DelayIsOver
    PROVE  RowsInv' /\ SeriesInv'
<1>1. /\ timers["Measurements"] > 0 /\ "Measurements" \in Screens
      /\ UNCHANGED <<front, list, state, series, taken>>
  BY Names DEF DelayIsOver, uiVars, listVars
<1>2. front = "Measurements" /\ scansLeft = 0 /\ Outstanding("Measurements")
  BY <1>1, TimerOnly, OutstandingIs DEF SeriesInv
<1>3. /\ scansLeft' = 0 /\ UNCHANGED crashed
      /\ view' = [view EXCEPT !["Measurements"] = Show(Dismiss(view["Measurements"]), "scanning")]
  BY <1>2 DEF DelayIsOver
<1>4. view'["Measurements"].up /\ view'["Measurements"].pd = "scanning"
  <2>1. view'["Measurements"] = Show(Dismiss(view["Measurements"]), "scanning")
    BY <1>1, <1>3, ViewsOf
  <2> QED
    BY <1>1, <2>1, ViewsOf, DismissView, ShowView, Names
<1>5. RowsInv'
  BY <1>1, <1>2, <1>3, RowsStay, Names
<1> QED
  BY <1>1, <1>2, <1>3, <1>4, <1>5 DEF SeriesInv

LEMMA DeliverSnapshotRows ==
    ASSUME LineInv, TokenInv, RowsInv, SeriesInv, ~LetGo, DeliverSnapshot
    PROVE  RowsInv' /\ SeriesInv'
<1>1. /\ UNCHANGED <<front, timers, list, crashed, series>> /\ Arrives("snapshot")
      /\ UNCHANGED <<storing, sm, working>>
  BY DEF DeliverSnapshot, uiVars, jobVars, listVars
<1>2. \A s \in Screens \ {"Measurements"} : view'[s] = view[s]
  BY ViewsOf DEF DeliverSnapshot
<1>3. RowsInv'
  BY <1>1, <1>2, RowsStay, Names
<1>4. CASE Registered("Measurements") /\ state = "SNAPSHOT"
  <2>1. /\ front = "Measurements" /\ From = "Measurements" /\ Outstanding("Measurements")
        /\ timers["Measurements"] = 0
    BY <1>1, <1>4, SnapshotOwn, Names DEF Registered
  <2>2. /\ view["Measurements"].up /\ view["Measurements"].pd = "scanning"
        /\ taken + scansLeft + 1 = series /\ taken' = taken + 1
        /\ taken \in Nat /\ scansLeft \in Nat
    BY <1>4, <2>1, LineParts DEF SeriesInv, DeliverSnapshot, MeasureTyped
  <2>3. CASE scansLeft > 0
    <3>1. scansLeft' = scansLeft - 1 /\ UNCHANGED <<view, state>>
      BY <1>4, <2>3 DEF DeliverSnapshot
    <3>2. taken' + scansLeft' + 1 = series'
      BY <1>1, <2>2, <3>1
    <3> QED
      BY <1>1, <1>3, <1>4, <2>1, <2>2, <3>1, <3>2 DEF SeriesInv
  <2>4. CASE ~(scansLeft > 0)
    <3>1. state' = "IDLE" /\ scansLeft' = 0
      BY <1>4, <2>2, <2>4 DEF DeliverSnapshot
    <3> QED
      BY <1>3, <3>1, SeriesIdle
  <2> QED
    BY <2>3, <2>4
<1>5. CASE ~(Registered("Measurements") /\ state = "SNAPSHOT")
  <2>1. Reply(<<>>) /\ bcast # <<>> /\ UNCHANGED <<view, state, scansLeft, taken>>
    BY <1>5 DEF DeliverSnapshot, Arrives
  <2>2. Moved(1, <<>>)
    BY <2>1, BcastTyped, NoBroadcast, Replied
  <2>3. \A t \in Screens : Outstanding(t)' => Outstanding(t)
    BY <1>1, <2>2, NoBroadcast, QuietTokens DEF TokenInv
  <2> QED
    BY <1>1, <1>3, <2>1, <2>3, SeriesStay, Names
<1> QED
  BY <1>4, <1>5

\* The answer that a screen with rows hears is to its own scan.
LEMMA DeliverResponseRows ==
    ASSUME LineInv, TokenInv, RowsInv, SeriesInv, DeliverResponse,
           \A t \in Screens : Outstanding(t)' => Outstanding(t)
    PROVE  RowsInv' /\ SeriesInv'
<1>1. /\ UNCHANGED <<front, timers, crashed, state, scansLeft, series, taken>>
      /\ bcast # <<>> /\ Head(bcast).kind \in {"INTERFACES", "DEVICES"}
  BY DEF DeliverResponse, Arrives, uiVars, jobVars, measureVars
<1>2. CASE UNCHANGED <<view, list>>
  BY <1>1, <1>2, RowsStay, SeriesStay, Names
<1>3. CASE ~UNCHANGED <<view, list>>
  <2>1. /\ front \in Screens \ {"Measurements"}
        /\ list' = [list EXCEPT ![front] =
               IF front = "YourDevices" /\ Arrives("INTERFACES") THEN "interfaces"
               ELSE IF front \in {"YourDevices", "MissingDevices"} /\ Arrives("DEVICES")
                    THEN "devices" ELSE list[front]]
    BY <1>3 DEF DeliverResponse
  <2>2. ASSUME front \in {"YourDevices", "MissingDevices"} PROVE Arrives("DEVICES")
    <3>1. /\ 1 \in 1..Len(bcast) /\ Head(bcast) = bcast[1] /\ bcast[1].from \in Screens
      BY <1>1, BcastTyped, HeadTyped
    <3> SUFFICES ASSUME bcast[1].kind = "INTERFACES" PROVE FALSE
      BY <1>1, <3>1 DEF Arrives
    <3>2. bcast[1].from \in ScanOnly
      BY <3>1 DEF LineInv, AnswersKnown
    <3>3. bcast[1].from # "Measurements"
      BY <2>2, <3>1 DEF TokenInv, AnswersTrail
    <3>4. IsToken(bcast[1]) /\ bcast[1].from = "FinalTraining"
      BY <3>2, <3>3 DEF IsToken, Awaited, ScanOnly
    <3>5. front = "FinalTraining"
      BY <3>1, <3>4, OutstandingIs DEF TokenInv, Shown
    <3> QED
      BY <2>2, <3>5
  <2>3. ~(Arrives("INTERFACES") /\ Arrives("DEVICES"))
    BY DEF Arrives
  <2>4. list \in [Screens -> {"none", "interfaces", "devices"}]
    BY LineParts DEF ListsTyped
  <2>5. list'["FinalTraining"] = "devices"
    BY <2>1, <2>4, Names DEF RowsInv
  <2>6. front \in DeviceScreens => list'[front] = "devices"
    <3>1. CASE front \in {"YourDevices", "MissingDevices"}
      BY <2>1, <2>2, <2>3, <2>4, <3>1
    <3> QED
      BY <2>5, <3>1, Names
  <2>7. RowsInv'
    BY <1>1, <2>5, <2>6 DEF RowsInv, RowsHidden
  <2> QED
    BY <1>1, <2>1, <2>7, NoSeries, SeriesIdle
<1> QED
  BY <1>2, <1>3

\* The screen that hears of a stage started the scan, and shows its dialog.
LEMMA DeliverStageRows ==
    ASSUME LineInv, TokenInv, RowsInv, SeriesInv, DeliverStage,
           \A t \in Screens : Outstanding(t)' => Outstanding(t)
    PROVE  RowsInv' /\ SeriesInv'
<1>1. UNCHANGED <<front, timers, state, scansLeft, series, taken>>
  BY DEF DeliverStage, uiVars, jobVars, measureVars
<1>2. CASE UNCHANGED <<view, list, crashed>>
  BY <1>1, <1>2, RowsStay, SeriesStay, Names
<1>3. CASE ~UNCHANGED <<view, list, crashed>>
  <2>1. front \in {"YourDevices", "MissingDevices"} /\ \E stage : Progress(front, stage)
    BY <1>3 DEF DeliverStage
  <2>2. front \in Screens \ {"MainInterface"} /\ sm # "IDLE" /\ working \in Screens
    BY <2>1, Names, StageStep DEF Stages
  <2>3. Outstanding(working)
    BY <2>2, OutstandingIs
  <2>4. "scanning" \in Showing(front)
    BY <2>2, <2>3 DEF TokenInv, Shown
  <2>5. view[front].up /\ view[front].pd = "scanning"
    BY <2>2, <2>4, ViewsOf DEF Showing
  <2>6. /\ view' = [view EXCEPT ![front] = Show(Dismiss(view[front]), "scanning")]
        /\ UNCHANGED crashed /\ \E rows : list' = [list EXCEPT ![front] = rows]
    BY <2>1, <2>5 DEF Progress
  <2>7. view'[front].up /\ view'[front].pd = "scanning"
    <3>1. view'[front] = Show(Dismiss(view[front]), "scanning")
      BY <2>2, <2>6, ViewsOf
    <3> QED
      BY <2>2, <3>1, ViewsOf, DismissView, ShowView, Names
  <2>8. list'["FinalTraining"] = "devices"
    BY <2>1, <2>6, Names, LineParts DEF RowsInv, ListsTyped
  <2>9. RowsInv'
    BY <1>1, <2>6, <2>7, <2>8 DEF RowsInv, RowsHidden
  <2> QED
    BY <1>1, <2>1, <2>9, NoSeries, SeriesIdle
<1> QED
  BY <1>2, <1>3

-----------------------------------------------------------------------------
(* The invariant and what follows from it                                  *)

LEMMA InitInv == Init => Inv
<1> SUFFICES ASSUME Init PROVE LineInv /\ TokenInv /\ RowsInv /\ SeriesInv
  BY DEF Inv
<1>1. /\ \A s \in Screens : ~(timers[s] > 0) /\ list[s] = "devices"
      /\ \A s \in DeviceScreens : storing[s] = "none"
      /\ sm = "IDLE" /\ Len(bcast) = 0 /\ state = "IDLE" /\ scansLeft = 0 /\ ~crashed
  BY DEF Init, Screens
<1>2. \A s \in Screens : ~Outstanding(s)
  BY <1>1, OutstandingIs
<1>3. TokenInv
  BY <1>1, <1>2
     DEF TokenInv, OneToken, Shown, StoringShown, AnswersTrail, SnapshotsTrail
<1>4. RowsInv /\ SeriesInv
  BY <1>1, Names DEF RowsInv, RowsHidden, SeriesInv
<1> QED
  BY <1>3, <1>4, InitLine

\* A step that lets nobody go too early preserves it.
LEMMA TokenStep ==
    ASSUME LineInv, TokenInv, RowsInv, SeriesInv, Step, ~LetGo
    PROVE  TokenInv' /\ RowsInv' /\ SeriesInv'
<1> DEFINE goal == TokenInv' /\ RowsInv' /\ SeriesInv'
<1> SUFFICES goal
  OBVIOUS
<1>1. CASE \/ PressHome \/ Return \/ GiveSettings \/ ServiceBound \/ LibrariesLoaded \/ StageDone
           \/ DeliverInitialized \/ DeliverShow \/ DeliverCancel \/ DeliverRequest
           \/ Inits \/ \E radios \in SUBSET UsbRadios : Plug(radios)
  <2>1. TokenInv' /\ \A t \in Screens : Outstanding(t)' => Outstanding(t)
    <3>1. CASE PressHome \/ Return \/ GiveSettings \/ ServiceBound
      BY <3>1, UserTokens, ServiceBoundTokens
    <3>2. CASE LibrariesLoaded \/ StageDone \/ Inits \/ \E radios \in SUBSET UsbRadios : Plug(radios)
      BY <3>2, LibrariesTokens, InitsTokens
    <3>3. CASE DeliverInitialized \/ DeliverShow \/ DeliverCancel \/ DeliverRequest
      BY <3>3, DeliverInitializedTokens, DeliverShowTokens, DeliverRequestTokens
    <3> QED
      BY <1>1, <3>1, <3>2, <3>3
  <2> QED
    BY <1>1, <2>1, QuietStepRows
<1>2. CASE \E s \in Screens : Open(s) \/ Leave(s)
  BY <1>2, OpenTokens, OpenRows, LeaveTokens, LeaveRows
<1>3. CASE ClickAddNetwork \/ \E n \in 1..MaxSeries : TriggerSnapshots(n)
  BY <1>3, ClickTokens, ClickRows, TriggerRows
<1>4. CASE TriggerSnapshotDelayed \/ MarkDevice
  BY <1>4, DelayedTokens, DelayedRows, MarkRows
<1>5. CASE \E s \in DeviceScreens, next \in {"stay", "scan", "window"} : SaveSelections(s, next)
  BY <1>5, SaveTokens, SaveRows
<1>6. CASE DeliverStage \/ DeliverResponse
  BY <1>6, DeliverStageTokens, DeliverStageRows, DeliverResponseTokens, DeliverResponseRows
<1>7. CASE DeliverSnapshot
  BY <1>7, DeliverSnapshotTokens, DeliverSnapshotRows
<1>8. CASE Timers
  BY <1>8, DelayIsOverTokens, DelayIsOverRows, TimerFiresTokens, TimerFiresRows DEF Timers
<1>9. CASE Stored
  BY <1>9, StoreDoneTokens, StoreDoneRows DEF Stored
<1> HIDE DEF goal
<1> QED
  BY <1>1, <1>2, <1>3, <1>4, <1>5, <1>6, <1>7, <1>8, <1>9 DEF Step, User, Deliver

LEMMA StillStep ==
    ASSUME LineInv, TokenInv, RowsInv, SeriesInv, UNCHANGED vars
    PROVE  TokenInv' /\ RowsInv' /\ SeriesInv'
<1>1. UNCHANGED <<front, view, timers, storing, list, crashed, state, scansLeft, series, taken,
                  bcast, sm, working>>
  BY DEF vars, uiVars, jobVars, listVars, measureVars, scanVars
<1>2. ~LetGo
  BY <1>1 DEF LetGo, Showing
<1>3. Moved(0, <<>>)
  BY <1>1, BcastTyped, NoneMoved
<1>4. TokenInv' /\ \A t \in Screens : Outstanding(t)' => Outstanding(t)
  BY <1>1, <1>2, <1>3, NoBroadcast, QuietKeeps
<1> QED
  BY <1>1, <1>4, QuietRows

LEMMA InvStep ==
    ASSUME Inv, [Next]_vars
    PROVE  Inv'
<1>1. LineInv'
  BY LineStep DEF Inv
<1>2. ASSUME ~cut' PROVE TokenInv' /\ RowsInv' /\ SeriesInv'
  <2>1. CASE UNCHANGED vars
    BY <1>2, <2>1, StillStep DEF Inv, vars
  <2>2. CASE Next
    <3>1. Step /\ ~cut /\ ~LetGo
      BY <1>2, <2>2 DEF Next, Alive
    <3> QED
      BY <3>1, TokenStep DEF Inv
  <2> QED
    BY <2>1, <2>2
<1> QED
  BY <1>1, <1>2 DEF Inv

LEMMA InvAlways == Spec => []Inv
  BY InitInv, InvStep, PTL DEF Spec

\* RequestsFindIdle: as long as no dialog has let the user go before his scan
\* was over, no request reaches a ScanManager that works and drops it
\* (ScanManager.java:110), for series of any length.
THEOREM RequestsIdle == Spec => []RequestsFindIdle
<1>1. ASSUME Inv, ~cut, Arrives("request") PROVE sm = "IDLE"
  <2>1. 1 \in 1..Len(bcast) /\ Head(bcast) = bcast[1] /\ bcast[1].kind = "request"
    BY <1>1, BcastTyped, HeadTyped DEF Inv, Arrives
  <2> QED
    BY <1>1, <2>1 DEF Inv, TokenInv, OneToken, IsToken
<1>2. Inv => RequestsFindIdle
  BY <1>1 DEF RequestsFindIdle
<1> QED
  BY <1>2, InvAlways, PTL

\* NoSurprises: so long, the rows that can be ticked are the devices that
\* saving marks, and no screen dereferences the dialog it has not got
\* (YourDevices.java:161, 448).
THEOREM RowsAreDevices == Spec => []NoSurprises
<1>1. Inv => NoSurprises
  <2> SUFFICES ASSUME Inv, ~cut
               PROVE  /\ ~crashed
                      /\ \A s \in DeviceScreens : Usable(s) /\ storing[s] = "none" => list[s] = "devices"
    BY DEF NoSurprises
  <2>1. ASSUME NEW s \in DeviceScreens, Usable(s) PROVE list[s] = "devices"
    BY <2>1, UsableShows DEF Inv, RowsInv, RowsHidden
  <2> QED
    BY <2>1 DEF Inv, RowsInv
<1> QED
  BY <1>1, InvAlways, PTL

\* SeriesComplete: a series of any length ends when each of its snapshots has
\* been taken, and not earlier (Measurements.java:246).
THEOREM SeriesWhole == Spec => SeriesComplete
<1>1. ASSUME Inv, Next, state = "SNAPSHOT", state' = "IDLE", front' = "Measurements", ~cut'
      PROVE  taken' = series
  <2>1. Step /\ ~cut
    BY <1>1 DEF Next, Alive
  <2>2. LineInv /\ TokenInv /\ SeriesInv /\ front = "Measurements"
    BY <1>1, <2>1 DEF Inv, SeriesInv
  <2>3. "Elsewhere" # "Measurements" /\ "Measurements" \notin DeviceScreens
    BY DEF DeviceScreens
  <2>4. CASE DeliverSnapshot
    <3>1. Registered("Measurements") /\ ~(scansLeft > 0) /\ Arrives("snapshot")
      BY <1>1, <2>4 DEF DeliverSnapshot
    <3>2. From = "Measurements" /\ Outstanding("Measurements")
      BY <2>2, <3>1, SnapshotOwn
    <3>3. taken' = taken + 1 /\ taken + scansLeft + 1 = series
      BY <1>1, <2>2, <2>4, <3>1, <3>2 DEF DeliverSnapshot, SeriesInv
    <3> QED
      BY <2>2, <3>1, <3>3, LineParts DEF MeasureTyped
  <2>5. CASE \E s \in Screens : Open(s) \/ Leave(s)
    BY <1>1, <2>2, <2>3, <2>5 DEF Open, Leave
  <2>6. CASE Stored
    BY <2>2, <2>3, <2>6 DEF Stored, StoreDone, TokenInv, StoringShown
  <2>7. CASE \/ PressHome \/ Return \/ GiveSettings \/ ClickAddNetwork \/ TriggerSnapshotDelayed
             \/ MarkDevice \/ \E n \in 1..MaxSeries : TriggerSnapshots(n)
             \/ \E s \in DeviceScreens, next \in {"stay", "scan", "window"} : SaveSelections(s, next)
             \/ \E radios \in SUBSET UsbRadios : Plug(radios)
    <3>1. UNCHANGED state \/ state' = "SNAPSHOT"
      BY <2>7 DEF PressHome, Return, GiveSettings, ClickAddNetwork, TriggerSnapshotDelayed,
                  MarkDevice, TriggerSnapshots, SaveSelections, Plug, measureVars
    <3> QED
      BY <1>1, <3>1
  <2>8. CASE Timers \/ Inits \/ LibrariesLoaded \/ ServiceBound \/ StageDone
    <3>1. UNCHANGED state
      BY <2>8 DEF Timers, DelayIsOver, TimerFires, Inits, InitAsks, InitEnds, LibrariesLoaded,
                  ServiceBound, StageDone, measureVars
    <3> QED
      BY <1>1, <3>1
  <2>9. CASE DeliverInitialized \/ DeliverShow \/ DeliverCancel \/ DeliverRequest \/ DeliverStage
             \/ DeliverResponse
    <3>1. UNCHANGED state
      BY <2>9 DEF DeliverInitialized, DeliverShow, DeliverCancel, DeliverRequest, DeliverStage,
                  DeliverResponse, measureVars
    <3> QED
      BY <1>1, <3>1
  <2> QED
    BY <2>1, <2>4, <2>5, <2>6, <2>7, <2>8, <2>9 DEF Step, User, Deliver
<1>2. ASSUME Inv, [Next]_vars
      PROVE  [state = "SNAPSHOT" /\ state' = "IDLE" /\ front' = "Measurements" /\ ~cut'
                  => taken' = series]_vars
  BY <1>1, <1>2
<1> QED
  BY <1>2, InvAlways, PTL DEF Spec, SeriesComplete

-----------------------------------------------------------------------------
(* What a dialog waits for                                                 *)

\* A dialog of Measurements is one of a series; a dialog of the USB monitor
\* that is about to be shown is one that an init task will take away, or has.
MeasureShown ==
    view["Measurements"].up => front = "Measurements" /\ state = "SNAPSHOT"
Asking == \E r \in UsbRadios : inits[r] \in {"queued", "reset"}
ShowsEnd ==
    \A i \in 1..Len(bcast) : bcast[i].kind = "show" =>
        Asking \/ \E j \in 1..Len(bcast) : j > i /\ bcast[j].kind = "cancel"
WaitInv == Inv /\ ShowsEnd /\ (~cut => MeasureShown)

LEMMA ShowsMove ==
    ASSUME bcast \in Seq(Messages), ShowsEnd, UNCHANGED inits,
           NEW d, NEW sent \in Seq(Messages), Moved(d, sent),
           \A i \in 1..Len(sent) : sent[i].kind # "show"
    PROVE  ShowsEnd'
<1> SUFFICES ASSUME NEW i \in 1..Len(bcast'), bcast'[i].kind = "show", ~Asking
             PROVE  \E j \in 1..Len(bcast') : j > i /\ bcast'[j].kind = "cancel"
  BY DEF ShowsEnd, Asking
<1>1. Len(bcast) \in Nat /\ d \in {0, 1}
  BY DEF Moved
<1>2. i + d \in 1..Len(bcast) /\ bcast'[i] = bcast[i + d]
  BY MovedFrom
<1>3. PICK j \in 1..Len(bcast) : j > i + d /\ bcast[j].kind = "cancel"
  BY <1>2 DEF ShowsEnd
<1>4. j > d /\ j - d > i
  BY <1>1, <1>3
<1>5. j - d \in 1..Len(bcast') /\ bcast'[j - d] = bcast[j]
  BY <1>4, MovedTo
<1> QED
  BY <1>3, <1>4, <1>5

\* The broadcasts a step takes and sends.
LEMMA Sends ==
    ASSUME LineInv, Step
    PROVE  \E sent \in Seq(Messages) :
               /\ Moved(0, sent) \/ Moved(1, sent)
               /\ \/ \A i \in 1..Len(sent) : sent[i].kind # "show"
                  \/ InitAsks \/ \E radios \in SUBSET UsbRadios : Plug(radios)
<1> DEFINE goal == \E sent \in Seq(Messages) :
                       /\ Moved(0, sent) \/ Moved(1, sent)
                       /\ \/ \A i \in 1..Len(sent) : sent[i].kind # "show"
                          \/ InitAsks \/ \E radios \in SUBSET UsbRadios : Plug(radios)
<1> SUFFICES goal
  OBVIOUS
<1>1. /\ bcast \in Seq(Messages) /\ <<>> \in Seq(Messages)
      /\ \A i \in 1..Len(<<>>) : <<>>[i].kind # "show"
  BY LineParts DEF LineTyped
<1>2. ASSUME NEW m \in Messages
      PROVE  /\ <<m>> \in Seq(Messages)
             /\ m.kind # "show" => \A i \in 1..Len(<<m>>) : <<m>>[i].kind # "show"
  BY <1>2
<1>3. CASE UNCHANGED bcast
  BY <1>1, <1>3, NoneMoved
<1>4. CASE bcast # <<>> /\ Reply(<<>>)
  BY <1>1, <1>4, Replied
<1>5. ASSUME NEW m \in Messages, m.kind # "show", bcast' = Append(bcast, m)
      PROVE  goal
  <2>1. Moved(0, <<m>>)
    BY <1>1, <1>5, SentOne
  <2> QED
    BY <1>2, <1>5, <2>1
<1>6. CASE InitAsks \/ \E radios \in SUBSET UsbRadios : Plug(radios)
  <2>1. \E sent \in Seq(Messages) : bcast' = bcast \o sent
    <3>1. Message("show", "MainInterface") \in Messages /\ Message("cancel", "MainInterface") \in Messages
      BY MessageFields, Names DEF Kinds
    <3>2. CASE InitAsks
      <4>1. <<Message("cancel", "MainInterface"), Message("show", "MainInterface")>> \in Seq(Messages)
        BY <3>1
      <4> QED
        BY <3>2, <4>1 DEF InitAsks
    <3>3. ASSUME NEW radios \in SUBSET UsbRadios, Plug(radios)
          PROVE  \E sent \in Seq(Messages) : bcast' = bcast \o sent
      <4> DEFINE n == IF radios = {"Wifi", "ZigBee"} THEN 2 ELSE 1
                 m == Message("show", "MainInterface")
                 sent == [i \in 1..n |-> m]
      <4>1. bcast' = bcast \o sent
        BY <3>3 DEF Plug
      <4>2. n \in Nat /\ m \in Messages
        BY <3>1
      <4> HIDE DEF n, m
      <4>3. sent \in Seq(Messages)
        BY <4>2
      <4> QED
        BY <4>1, <4>3
    <3> QED
      BY <1>6, <3>2, <3>3
  <2> QED
    BY <1>1, <1>6, <2>1, Sent
<1>7. CASE DeliverStage
  <2>1. PICK sent \in Seq(Messages) : Moved(1, sent) /\ StageSends(working, sent)
    BY <1>7, StageStep
  <2>2. working \in Screens
    BY <1>7, StageStep
  <2>3. \A i \in 1..Len(sent) : sent[i].kind # "show"
    <3>1. /\ Message("snapshot", working).kind # "show"
          /\ Message("INTERFACES", working).kind # "show"
          /\ Message("DEVICES", working).kind # "show"
      BY <2>2, MessageFields DEF Kinds
    <3>2. CASE sent = <<>>
      BY <1>1, <3>2
    <3>3. CASE sent = Snapshot(working) \/ sent = Answer(working)
      <4>1. Len(sent) = 1 /\ sent[1].kind # "show"
        BY <2>2, <3>1, <3>3, SendsTyped
      <4> QED
        BY <4>1
    <3>4. CASE sent = Snapshot(working) \o Answer(working)
      <4>1. Len(sent) = 2 /\ sent[1].kind # "show" /\ sent[2].kind # "show"
        BY <2>2, <3>1, <3>4, SendsTyped
      <4> QED
        BY <4>1
    <3> QED
      BY <2>1, <3>2, <3>3, <3>4 DEF StageSends
  <2> QED
    BY <2>1, <2>3
<1>8. CASE DeliverSnapshot
  <2>1. bcast # <<>> /\ (Reply(<<>>) \/ Reply(<<Request("Measurements")>>))
    BY <1>8 DEF DeliverSnapshot, Arrives
  <2>2. CASE Reply(<<Request("Measurements")>>)
    <3> DEFINE m == Request("Measurements")
    <3>1. m \in Messages /\ m.kind = "request"
      BY RequestTyped, Names
    <3>2. Moved(1, <<m>>)
      BY <1>1, <1>2, <2>1, <2>2, <3>1, Replied
    <3> HIDE DEF m
    <3> QED
      BY <1>2, <3>1, <3>2
  <2> QED
    BY <1>4, <2>1, <2>2
<1>9. CASE ClickAddNetwork \/ Timers \/ \E n \in 1..MaxSeries : TriggerSnapshots(n)
  <2>1. UNCHANGED bcast \/ \E s \in Screens : bcast' = Append(bcast, Request(s))
    BY <1>9, Names DEF ClickAddNetwork, TriggerSnapshots, Timers, DelayIsOver, TimerFires
  <2>2. ASSUME NEW s \in Screens, bcast' = Append(bcast, Request(s)) PROVE goal
    BY <1>5, <2>2, RequestTyped
  <2> QED
    BY <1>3, <2>1, <2>2
<1>10. CASE LibrariesLoaded \/ StageDone \/ \E r \in UsbRadios : InitEnds(r)
  <2>1. CASE LibrariesLoaded
    BY <1>5, <2>1, MessageFields, Names DEF LibrariesLoaded, Kinds
  <2>2. CASE StageDone
    <3>1. sm \in Stages /\ working \in Screens
      BY <2>2, LineParts DEF StageDone, WorkTyped
    <3> QED
      BY <1>5, <2>2, <3>1, MessageFields DEF StageDone, Kinds, Stages
  <2>3. CASE \E r \in UsbRadios : InitEnds(r)
    BY <1>5, <2>3, MessageFields, Names DEF InitEnds, Kinds
  <2> QED
    BY <1>10, <2>1, <2>2, <2>3
<1>11. CASE DeliverInitialized \/ DeliverShow \/ DeliverCancel \/ DeliverRequest \/ DeliverResponse
  BY <1>4, <1>11
     DEF DeliverInitialized, DeliverShow, DeliverCancel, DeliverRequest, DeliverResponse, Arrives
<1>12. CASE \/ PressHome \/ Return \/ GiveSettings \/ TriggerSnapshotDelayed \/ MarkDevice
            \/ \E s \in Screens : Open(s) \/ Leave(s)
            \/ \E s \in DeviceScreens, next \in {"stay", "scan", "window"} : SaveSelections(s, next)
            \/ Stored \/ ServiceBound
  BY <1>3, <1>12
     DEF PressHome, Return, GiveSettings, TriggerSnapshotDelayed, MarkDevice, Open, Leave,
         SaveSelections, Stored, StoreDone, ServiceBound, scanVars
<1> HIDE DEF goal
<1> QED
  BY <1>6, <1>7, <1>8, <1>9, <1>10, <1>11, <1>12 DEF Step, User, Deliver, Inits

\* Every step keeps it: an init task that ends sends the broadcast that takes
\* the dialog away.
LEMMA ShowsStep ==
    ASSUME LineInv, ShowsEnd, Step
    PROVE  ShowsEnd'
<1>1. bcast \in Seq(Messages) /\ inits \in [UsbRadios -> {"none", "queued", "reset", "done"}]
  BY LineParts DEF LineTyped, SysTyped
<1>2. CASE InitAsks \/ \E radios \in SUBSET UsbRadios : Plug(radios)
  <2>1. Asking'
    BY <1>1, <1>2 DEF InitAsks, Plug, Asking
  <2> QED
    BY <2>1 DEF ShowsEnd, Asking
<1>3. CASE \E r \in UsbRadios : InitEnds(r)
  <2> DEFINE m == Message("cancel", "MainInterface")
  <2>1. m \in Messages /\ m.kind = "cancel" /\ bcast' = Append(bcast, m)
    BY <1>3, MessageFields, Names DEF InitEnds, Kinds
  <2> HIDE DEF m
  <2>2. /\ Len(bcast) \in Nat /\ Len(bcast') = Len(bcast) + 1
        /\ bcast'[Len(bcast) + 1] = m
        /\ \A i \in 1..Len(bcast) : bcast'[i] = bcast[i]
    BY <1>1, <2>1
  <2>3. ASSUME NEW i \in 1..Len(bcast'), bcast'[i].kind = "show"
        PROVE  \E j \in 1..Len(bcast') : j > i /\ bcast'[j].kind = "cancel"
    <3>1. i # Len(bcast) + 1
      BY <2>1, <2>2, <2>3
    <3>2. Len(bcast) + 1 \in 1..Len(bcast') /\ Len(bcast) + 1 > i
      BY <2>2, <3>1
    <3> QED
      BY <2>1, <2>2, <3>2
  <2> QED
    BY <2>3 DEF ShowsEnd
<1>4. CASE ~(InitAsks \/ \E radios \in SUBSET UsbRadios : Plug(radios))
           /\ ~\E r \in UsbRadios : InitEnds(r)
  <2>1. UNCHANGED inits
    BY <1>4
       DEF Step, User, Deliver, Timers, Stored, Inits, PressHome, Return, GiveSettings, Open, Leave,
           ClickAddNetwork, TriggerSnapshotDelayed, MarkDevice, TriggerSnapshots, SaveSelections,
           DeliverInitialized, DeliverShow, DeliverCancel, DeliverRequest, DeliverStage,
           DeliverSnapshot, DeliverResponse, DelayIsOver, TimerFires, StoreDone, LibrariesLoaded,
           ServiceBound, StageDone, sysVars
  <2>2. PICK sent \in Seq(Messages) :
            (Moved(0, sent) \/ Moved(1, sent)) /\ \A i \in 1..Len(sent) : sent[i].kind # "show"
    BY <1>4, Sends
  <2> QED
    BY <1>1, <2>1, <2>2, ShowsMove
<1> QED
  BY <1>2, <1>3, <1>4

LEMMA MeasureStays ==
    ASSUME MeasureShown, view'["Measurements"] = view["Measurements"],
           front = "Measurements" => UNCHANGED <<front, state>>
    PROVE  MeasureShown'
  BY DEF MeasureShown

\* The dialogs of one screen are replaced; those of the others stay.
LEMMA OthersStay ==
    ASSUME LineInv, NEW s \in Screens, NEW t \in Screens, NEW v
    PROVE  [view EXCEPT ![s] = v][t] = IF t = s THEN v ELSE view[t]
  BY ViewsOf

\* Measurements shows a dialog while its series goes on, and no longer.
LEMMA MeasureStep ==
    ASSUME LineInv, TokenInv, MeasureShown, Step
    PROVE  MeasureShown'
<1> DEFINE m == "Measurements"
<1>1. m \in Screens /\ m \notin DeviceScreens /\ m # "MainInterface" /\ "MainInterface" \in Screens
  BY Names
<1>2. front \notin Screens => ~view[m].up
  BY <1>1 DEF MeasureShown
<1>3. CASE \/ PressHome \/ Return \/ GiveSettings \/ LibrariesLoaded \/ StageDone \/ DeliverRequest
           \/ Inits \/ \E radios \in SUBSET UsbRadios : Plug(radios)
           \/ \E s \in Screens : TimerFires(s)
  <2>1. UNCHANGED <<view, front, state>>
    BY <1>3
       DEF PressHome, Return, GiveSettings, LibrariesLoaded, StageDone, DeliverRequest, Inits,
           InitAsks, InitEnds, Plug, TimerFires, uiVars, measureVars
  <2> QED
    BY <2>1, MeasureStays
<1>4. CASE ServiceBound \/ DeliverInitialized \/ DeliverShow \/ DeliverCancel
  <2>1. UNCHANGED state /\ (front = m => UNCHANGED front)
    BY <1>1, <1>4
       DEF ServiceBound, DeliverInitialized, DeliverShow, DeliverCancel, SystemInitialized,
           Registered, uiVars, measureVars
  <2>2. UNCHANGED view \/ \E v : view' = [view EXCEPT !["MainInterface"] = v]
    BY <1>4
       DEF ServiceBound, DeliverInitialized, DeliverShow, DeliverCancel, SystemInitialized
  <2>3. view'[m] = view[m]
    BY <1>1, <2>2, OthersStay
  <2> QED
    BY <2>1, <2>3, MeasureStays
<1>5. CASE \/ ClickAddNetwork \/ MarkDevice
           \/ \E s \in DeviceScreens, next \in {"stay", "scan", "window"} : SaveSelections(s, next)
  <2>1. UNCHANGED <<front, state>>
    BY <1>5 DEF ClickAddNetwork, MarkDevice, SaveSelections, uiVars, measureVars
  <2>2. \E s \in Screens : s # m /\ \E v : view' = [view EXCEPT ![s] = v]
    <3>1. CASE ClickAddNetwork
      <4>1. view' = [view EXCEPT !["MainInterface"] = Show(view["MainInterface"], "scanning")]
        BY <3>1 DEF ClickAddNetwork
      <4>2. "MainInterface" \in Screens /\ "MainInterface" # m
        BY <1>1, Names
      <4> QED
        BY <4>1, <4>2
    <3>2. CASE MarkDevice
      <4>1. view' = [view EXCEPT !["FinalTraining"] = Show(view["FinalTraining"], "scanning")]
        BY <3>2 DEF MarkDevice, StartScan
      <4>2. "FinalTraining" \in Screens /\ "FinalTraining" # m
        BY <1>1, Names
      <4> QED
        BY <4>1, <4>2
    <3>3. CASE \E s \in DeviceScreens, next \in {"stay", "scan", "window"} : SaveSelections(s, next)
      <4>1. PICK s \in DeviceScreens, next \in {"stay", "scan", "window"} : SaveSelections(s, next)
        BY <3>3
      <4>2. view' = [view EXCEPT ![s] = Show(view[s], "storing")]
        BY <4>1 DEF SaveSelections
      <4>3. s \in Screens /\ s # m
        BY <1>1, Names
      <4> QED
        BY <4>2, <4>3
    <3> QED
      BY <1>5, <3>1, <3>2, <3>3
  <2>3. view'[m] = view[m]
    BY <1>1, <2>2, OthersStay
  <2> QED
    BY <2>1, <2>3, MeasureStays
<1>6. CASE TriggerSnapshotDelayed \/ \E n \in 1..MaxSeries : TriggerSnapshots(n)
  <2>1. front' = m /\ state' = "SNAPSHOT"
    BY <1>6 DEF TriggerSnapshotDelayed, TriggerSnapshots, Usable, Registered, uiVars
  <2> QED
    BY <2>1 DEF MeasureShown
<1>7. CASE DelayIsOver
  <2>1. Outstanding(m)
    BY <1>1, <1>7, OutstandingIs DEF DelayIsOver
  <2>2. front = m /\ "scanning" \in Showing(m)
    BY <1>1, <2>1 DEF TokenInv, Shown
  <2>3. view[m].up
    BY <1>1, <2>2, ViewsOf DEF Showing
  <2> QED
    BY <1>7, <2>2, <2>3 DEF DelayIsOver, MeasureShown, uiVars
<1>8. CASE DeliverSnapshot
  <2>1. CASE UNCHANGED <<view, state>>
    BY <1>8, <2>1, MeasureStays DEF DeliverSnapshot, uiVars
  <2>2. CASE view' = [view EXCEPT ![m] = Dismiss(view[m])]
    <3>1. view'[m] = Dismiss(view[m])
      BY <1>1, <2>2, OthersStay
    <3>2. ~view'[m].up
      BY <1>1, <3>1, ViewsOf, DismissView
    <3> QED
      BY <3>2 DEF MeasureShown
  <2> QED
    BY <1>8, <2>1, <2>2 DEF DeliverSnapshot
<1>9. CASE DeliverStage \/ DeliverResponse
  <2>1. UNCHANGED <<front, state>>
    BY <1>9 DEF DeliverStage, DeliverResponse, uiVars, measureVars
  <2>2. UNCHANGED view \/ \E s \in Screens : s # m /\ \E v : view' = [view EXCEPT ![s] = v]
    <3>1. CASE DeliverStage
      BY <1>1, <3>1, Names DEF DeliverStage, Progress
    <3>2. CASE DeliverResponse
      BY <3>2 DEF DeliverResponse
    <3> QED
      BY <1>9, <3>1, <3>2
  <2>3. view'[m] = view[m]
    BY <1>1, <2>2, OthersStay
  <2> QED
    BY <2>1, <2>3, MeasureStays
<1>10. CASE \E s \in Screens : Leave(s)
  <2>1. PICK s \in Screens : Leave(s)
    BY <1>10
  <2>2. front = s /\ ~view[s].up
    BY <2>1, UsableShows DEF Leave
  <2>3. ~view[m].up
    BY <2>2 DEF MeasureShown
  <2>4. UNCHANGED view \/ view' = [view EXCEPT ![s] = Fresh]
    BY <2>1 DEF Leave
  <2>5. ~view'[m].up
    <3>1. CASE UNCHANGED view
      BY <2>3, <3>1
    <3>2. CASE view' = [view EXCEPT ![s] = Fresh]
      <4>1. view'[m] = IF m = s THEN Fresh ELSE view[m]
        BY <1>1, <3>2, OthersStay
      <4> QED
        BY <2>3, <4>1, FreshView
    <3> QED
      BY <2>4, <3>1, <3>2
  <2> QED
    BY <2>5 DEF MeasureShown
<1>11. ASSUME NEW s \in Screens, NEW known, NEW views \in [Screens -> Views], Enter(s, known, views),
              ~views[m].up
       PROVE  MeasureShown'
  <2>1. views[m] = view'[m] \/ view'[m] = Fresh
    <3>1. [views EXCEPT ![s] = Fresh] \in [Screens -> Views]
      BY FreshView DEF Sound
    <3>2. ASSUME NEW v
          PROVE  /\ [views EXCEPT ![s] = Fresh][m] = IF m = s THEN Fresh ELSE views[m]
                 /\ [[views EXCEPT ![s] = Fresh] EXCEPT ![s] = v][m] = IF m = s THEN v ELSE views[m]
      BY <1>1, <3>1
    <3>3. CASE ScansAtOnce(s, known)
      <4>1. s # m
        BY <3>3 DEF ScansAtOnce
      <4>2. \E v : view' = [[views EXCEPT ![s] = Fresh] EXCEPT ![s] = v]
        BY <1>11, <3>3 DEF Enter, StartScan
      <4> QED
        BY <3>2, <4>1, <4>2
    <3>4. CASE ~ScansAtOnce(s, known)
      <4>1. view' = views \/ view' = [views EXCEPT ![s] = Fresh]
        BY <1>11, <3>4 DEF Enter
      <4> QED
        BY <3>2, <4>1
    <3> QED
      BY <3>3, <3>4
  <2> QED
    BY <1>11, <2>1, FreshView DEF MeasureShown
<1>12. CASE \E s \in Screens : Open(s)
  <2>1. PICK s \in Screens : Open(s)
    BY <1>12
  <2>2. ~view[m].up
    BY <2>1 DEF Open, MeasureShown
  <2> QED
    BY <1>11, <2>1, <2>2, ViewsOf DEF Open
<1>13. CASE Stored
  <2>1. PICK s \in DeviceScreens : StoreDone(s)
    BY <1>13 DEF Stored
  <2>2. s \in Screens /\ s # m /\ front = s
    BY <1>1, <2>1, Names DEF StoreDone, TokenInv, StoringShown
  <2>3. ~view[m].up
    BY <2>2 DEF MeasureShown
  <2>4. ASSUME NEW v, NEW w
        PROVE  /\ [view EXCEPT ![s] = v][m] = view[m]
               /\ [[view EXCEPT ![s] = v] EXCEPT ![s] = w][m] = view[m]
    BY <1>1, <2>2, ViewsOf
  <2>5. CASE \E v, w : view' = [view EXCEPT ![s] = v] \/ view' = [[view EXCEPT ![s] = v] EXCEPT ![s] = w]
    BY <2>3, <2>4, <2>5 DEF MeasureShown
  <2>6. CASE Enter(After(s), internal', [view EXCEPT ![s] = Fresh]) /\ s # "FinalTraining"
    <3>1. After(s) \in Screens
      BY <2>1, <2>6, Names DEF After
    <3>2. [view EXCEPT ![s] = Fresh] \in [Screens -> Views]
      BY <2>2, ViewsWith, FreshView
    <3> QED
      BY <1>11, <2>3, <2>4, <2>6, <3>1, <3>2
  <2> QED
    BY <2>1, <2>5, <2>6 DEF StoreDone, StartScan
<1> QED
  BY <1>3, <1>4, <1>5, <1>6, <1>7, <1>8, <1>9, <1>10, <1>12, <1>13 DEF Step, User, Deliver, Timers

LEMMA WaitInvInit == Init => WaitInv
<1> SUFFICES ASSUME Init PROVE ShowsEnd /\ MeasureShown
  BY InitInv DEF WaitInv
<1>1. Len(bcast) = 0 /\ view["Measurements"] = Fresh
  BY Names DEF Init
<1> QED
  BY <1>1, FreshView DEF ShowsEnd, MeasureShown

LEMMA WaitInvStep ==
    ASSUME WaitInv, [Next]_vars
    PROVE  WaitInv'
<1>1. Inv'
  BY InvStep DEF WaitInv
<1>2. CASE UNCHANGED vars
  BY <1>1, <1>2
     DEF WaitInv, ShowsEnd, MeasureShown, Asking, vars, uiVars, measureVars, sysVars, scanVars
<1>3. CASE Next
  <2>1. Step /\ ~cut => LineInv /\ TokenInv
    BY DEF WaitInv, Inv
  <2>2. Step /\ (~cut' => ~cut)
    BY <1>3 DEF Next, Alive
  <2> QED
    BY <1>1, <2>1, <2>2, ShowsStep, MeasureStep DEF WaitInv, Inv
<1> QED
  BY <1>2, <1>3

\* The broadcasts that a dialog of the screen waits for.
Concerns(m, s) ==
    \/ m = Request(s)
    \/ s # "Measurements" /\ m.kind \in {"INTERFACES", "DEVICES"}
    \/ s = "Measurements" /\ m.kind = "snapshot" /\ state = "SNAPSHOT"
    \/ s = "MainInterface" /\ m.kind = "cancel"

LEMMA TransitKept ==
    ASSUME bcast \in Seq(Messages), NEW d, NEW sent \in Seq(Messages), Moved(d, sent), d \in {0, 1},
           NEW kind, InTransit(kind), d = 1 => bcast[1].kind # kind
    PROVE  InTransit(kind)'
<1>1. PICK i \in 1..Len(bcast) : bcast[i].kind = kind
  BY DEF InTransit
<1>2. i > d
  BY <1>1
<1>3. i - d \in 1..Len(bcast') /\ bcast'[i - d] = bcast[i]
  BY <1>2, MovedTo
<1> QED
  BY <1>1, <1>3 DEF InTransit

\* Hope is lost only when what it rests on changes.
LEMMA HopeKept ==
    ASSUME bcast \in Seq(Messages), NEW s \in Screens, Hope(s),
           NEW d, NEW sent \in Seq(Messages), Moved(d, sent), d \in {0, 1},
           d = 1 => ~Concerns(bcast[1], s),
           timers'[s] = timers[s], s # "Measurements" => UNCHANGED sm,
           s \in DeviceScreens => storing'[s] = storing[s],
           s = "Measurements" =>
               UNCHANGED state /\ (sm = "SCANNING" => sm' = "SCANNING" \/ InTransit("snapshot")'),
           s = "MainInterface" => (bound' => bound) /\ (system' = "IDLE" => system = "IDLE")
                                  /\ (Asking => Asking')
    PROVE  Hope(s)'
<1>1. ASSUME NEW i \in 1..Len(bcast), bcast[i] = Request(s)
      PROVE  \E j \in 1..Len(bcast') : bcast'[j] = Request(s)
  <2>1. i > d
    BY <1>1 DEF Concerns
  <2> QED
    BY <1>1, <2>1, MovedTo
<1>2. s # "Measurements" => \A kind \in {"INTERFACES", "DEVICES"} : InTransit(kind) => InTransit(kind)'
  BY TransitKept DEF Concerns
<1>3. s = "Measurements" /\ state = "SNAPSHOT" => (InTransit("snapshot") => InTransit("snapshot")')
  BY TransitKept DEF Concerns
<1>4. s = "MainInterface" => (InTransit("cancel") => InTransit("cancel")')
  BY TransitKept DEF Concerns
<1>5. CASE timers[s] > 0 \/ (s \in DeviceScreens /\ storing[s] # "none")
  BY <1>5 DEF Hope
<1>6. CASE \E i \in 1..Len(bcast) : bcast[i] = Request(s)
  BY <1>1, <1>6 DEF Hope, Request, Message
<1>7. CASE s # "Measurements" /\ (sm # "IDLE" \/ InTransit("INTERFACES") \/ InTransit("DEVICES"))
  BY <1>2, <1>7 DEF Hope
<1>8. CASE s = "Measurements" /\ state = "SNAPSHOT" /\ (sm = "SCANNING" \/ InTransit("snapshot"))
  BY <1>3, <1>8 DEF Hope
<1>9. CASE s = "MainInterface" /\ (~bound \/ system # "IDLE" \/ InTransit("cancel") \/ Asking)
  BY <1>4, <1>9 DEF Hope, Asking
<1> QED
  BY <1>5, <1>6, <1>7, <1>8, <1>9 DEF Hope, Asking

LEMMA HopeStays ==
    ASSUME bcast \in Seq(Messages), NEW s \in Screens, Hope(s),
           NEW sent \in Seq(Messages), Moved(0, sent),
           timers'[s] = timers[s], UNCHANGED sm,
           s \in DeviceScreens => storing'[s] = storing[s],
           s = "Measurements" => UNCHANGED state,
           s = "MainInterface" => (bound' => bound) /\ (system' = "IDLE" => system = "IDLE")
                                  /\ (Asking => Asking')
    PROVE  Hope(s)'
<1> DEFINE d == 0
<1>1. Moved(d, sent) /\ d \in {0, 1} /\ d # 1
  OBVIOUS
<1> HIDE DEF d
<1> QED
  BY <1>1, HopeKept

LEMMA HopeOutlasts ==
    ASSUME bcast \in Seq(Messages), NEW s \in Screens, Hope(s),
           NEW sent \in Seq(Messages), Moved(1, sent), ~Concerns(bcast[1], s),
           timers'[s] = timers[s], s # "Measurements" => UNCHANGED sm,
           s \in DeviceScreens => storing'[s] = storing[s],
           s = "Measurements" =>
               UNCHANGED state /\ (sm = "SCANNING" => sm' = "SCANNING" \/ InTransit("snapshot")'),
           s = "MainInterface" => (bound' => bound) /\ (system' = "IDLE" => system = "IDLE")
                                  /\ (Asking => Asking')
    PROVE  Hope(s)'
<1> DEFINE d == 1
<1>1. Moved(d, sent) /\ d \in {0, 1}
  OBVIOUS
<1> HIDE DEF d
<1> QED
  BY <1>1, HopeKept

\* A request sent, or a timer set, is hope.
LEMMA Asked ==
    ASSUME bcast \in Seq(Messages), NEW s \in Screens,
           bcast' = Append(bcast, Request(s)) \/ (timers[s] \in Nat /\ timers'[s] = timers[s] + 1)
    PROVE  Hope(s)'
<1>1. CASE timers[s] \in Nat /\ timers'[s] = timers[s] + 1
  BY <1>1 DEF Hope
<1>2. CASE bcast' = Append(bcast, Request(s))
  <2>1. Request(s) \in Messages
    BY RequestTyped
  <2>2. Len(bcast) + 1 \in 1..Len(bcast') /\ bcast'[Len(bcast) + 1] = Request(s)
    BY <1>2, <2>1
  <2> QED
    BY <2>2 DEF Hope, Request, Message
<1> QED
  BY <1>1, <1>2

\* A step after which the dialog _pd refers to, on the screen in front, waits in
\* vain, and that dialog did not before.
Strands(s) ==
    Registered(s) /\ view'[s].up /\ ~Hope(s)' /\ (view'[s] = view[s] => Hope(s))

LEMMA StrandsFacts ==
    ASSUME LineInv, NEW s \in Screens, Strands(s)
    PROVE  /\ s = front /\ resumed /\ bcast \in Seq(Messages) /\ timers \in [Screens -> Nat]
           /\ view'[s].up /\ ~Hope(s)'
           /\ view'[s] = view[s] => Hope(s)
  BY LineParts DEF Strands, Registered, LineTyped, JobsTyped

\* What the user does strands nobody.
LEMMA UserStrands ==
    ASSUME LineInv, User, NEW s \in Screens, Strands(s)
    PROVE  FALSE
<1>1. /\ s = front /\ bcast \in Seq(Messages) /\ timers \in [Screens -> Nat]
      /\ view'[s].up /\ ~Hope(s)' /\ (view'[s] = view[s] => Hope(s))
  BY StrandsFacts
<1>2. <<>> \in Seq(Messages) /\ (UNCHANGED bcast => Moved(0, <<>>))
  BY <1>1, NoneMoved
<1>3. CASE PressHome \/ Return \/ GiveSettings
  <2>1. /\ UNCHANGED <<view, timers, storing, bcast, sm, state, system, inits>>
        /\ bound' => bound
    BY <1>3 DEF PressHome, Return, GiveSettings, uiVars, jobVars, measureVars, sysVars, scanVars
  <2>2. Asking => Asking'
    BY <2>1 DEF Asking
  <2>3. Moved(0, <<>>) /\ Hope(s)
    BY <1>1, <1>2, <2>1
  <2> QED
    BY <1>1, <1>2, <2>1, <2>2, <2>3, HopeStays
<1>4. CASE \E t \in Screens : Open(t)
  BY <1>1, <1>4, Names DEF Open
<1>5. CASE \E t \in Screens : Leave(t)
  <2>1. Leave(s)
    BY <1>1, <1>5 DEF Leave, Usable, Registered
  <2>2. CASE s = "MainInterface"
    BY <1>1, <2>1, <2>2 DEF Leave, Hope
  <2>3. CASE s # "MainInterface"
    <3>1. view'[s] = Fresh
      BY <2>1, <2>3, OthersStay DEF Leave
    <3> QED
      BY <1>1, <3>1, FreshView
  <2> QED
    BY <2>2, <2>3
<1>6. CASE ClickAddNetwork \/ \E n \in 1..MaxSeries : TriggerSnapshots(n)
  <2>1. bcast' = Append(bcast, Request(s))
    BY <1>1, <1>6 DEF ClickAddNetwork, TriggerSnapshots, Usable, Registered
  <2> QED
    BY <1>1, <2>1, Asked
<1>7. CASE TriggerSnapshotDelayed \/ MarkDevice
  <2>1. timers'[s] = timers[s] + 1
    BY <1>1, <1>7 DEF TriggerSnapshotDelayed, MarkDevice, StartScan, Usable, Registered
  <2> QED
    BY <1>1, <2>1, Asked
<1>8. CASE \E t \in DeviceScreens, next \in {"stay", "scan", "window"} : SaveSelections(t, next)
  <2>1. PICK next \in {"stay", "scan", "window"} : s \in DeviceScreens /\ SaveSelections(s, next)
    BY <1>1, <1>8 DEF Usable, Registered, SaveSelections
  <2>2. storing'[s] = next /\ next # "none"
    BY <2>1, LineParts DEF SaveSelections, JobsTyped
  <2> QED
    BY <1>1, <2>1, <2>2 DEF Hope
<1>9. CASE \E radios \in SUBSET UsbRadios : Plug(radios)
  <2>1. PICK radios \in SUBSET UsbRadios : Plug(radios)
    BY <1>9
  <2>2. UNCHANGED <<view, timers, storing, sm, state, bound, system>>
    BY <2>1 DEF Plug, uiVars, jobVars, measureVars
  <2>3. Asking => Asking'
    BY <2>1, LineParts DEF Plug, Asking, SysTyped
  <2>4. PICK sent \in Seq(Messages) : Moved(0, sent)
    <3> DEFINE n == IF radios = {"Wifi", "ZigBee"} THEN 2 ELSE 1
               m == Message("show", "MainInterface")
               sent == [i \in 1..n |-> m]
    <3>1. n \in Nat /\ m \in Messages /\ bcast' = bcast \o sent
      BY <2>1, MessageFields, Names DEF Plug, Kinds
    <3> HIDE DEF n, m
    <3>2. sent \in Seq(Messages)
      BY <3>1
    <3> HIDE DEF sent
    <3> QED
      BY <1>1, <3>1, <3>2, Sent
  <2> QED
    BY <1>1, <2>2, <2>3, <2>4, HopeStays
<1> QED
  BY <1>3, <1>4, <1>5, <1>6, <1>7, <1>8, <1>9 DEF User

\* Nor does what the service does by itself.
LEMMA ServiceStrands ==
    ASSUME LineInv, Inits \/ LibrariesLoaded \/ ServiceBound \/ StageDone, NEW s \in Screens, Strands(s)
    PROVE  FALSE
<1>1. /\ s = front /\ bcast \in Seq(Messages)
      /\ view'[s].up /\ ~Hope(s)' /\ (view'[s] = view[s] => Hope(s))
  BY StrandsFacts
<1>2. UNCHANGED <<timers, storing, sm, state>>
  BY DEF Inits, InitAsks, InitEnds, LibrariesLoaded, ServiceBound, StageDone, jobVars, measureVars,
         scanVars
<1>3. CASE InitAsks \/ \E r \in UsbRadios : InitEnds(r)
  <2> DEFINE cancel == Message("cancel", "MainInterface")
             show == Message("show", "MainInterface")
  <2>1. cancel \in Messages /\ cancel.kind = "cancel" /\ show \in Messages
    BY MessageFields, Names DEF Kinds
  <2>2. \/ bcast' = bcast \o <<cancel, show>>
        \/ bcast' = Append(bcast, cancel)
    BY <1>3 DEF InitAsks, InitEnds
  <2>3. UNCHANGED <<view, bound, system>>
    BY <1>3 DEF InitAsks, InitEnds, uiVars
  <2> HIDE DEF cancel, show
  <2>4. <<cancel, show>> \in Seq(Messages) /\ <<cancel>> \in Seq(Messages)
    BY <2>1
  <2>5. \E sent \in Seq(Messages) : Moved(0, sent)
    BY <1>1, <2>1, <2>2, <2>4, Sent, SentOne
  <2>6. InTransit("cancel")'
    <3>1. Len(bcast) + 1 \in 1..Len(bcast') /\ bcast'[Len(bcast) + 1] = cancel
      <4>1. CASE bcast' = Append(bcast, cancel)
        BY <1>1, <2>1, <4>1
      <4>2. CASE bcast' = bcast \o <<cancel, show>>
        <5>1. Moved(0, <<cancel, show>>) /\ Len(<<cancel, show>>) = 2 /\ <<cancel, show>>[1] = cancel
          BY <1>1, <2>4, <4>2, Sent
        <5> QED
          BY <1>1, <5>1 DEF Moved
      <4> QED
        BY <2>2, <4>1, <4>2
    <3> QED
      BY <2>1, <3>1 DEF InTransit
  <2>7. s # "MainInterface"
    BY <1>1, <2>6 DEF Hope
  <2> QED
    BY <1>1, <1>2, <2>3, <2>5, <2>7, HopeStays
<1>4. CASE LibrariesLoaded \/ StageDone
  <2>1. \E m \in Messages : bcast' = Append(bcast, m)
    <3>1. StageDone => sm \in Stages /\ working \in Screens
      BY LineParts DEF StageDone, WorkTyped
    <3>2. StageDone => Message(sm, working) \in Messages
      BY <3>1, MessageFields DEF Kinds
    <3>3. Message("initialized", "MainInterface") \in Messages
      BY MessageFields, Names DEF Kinds
    <3> QED
      BY <1>4, <3>2, <3>3 DEF LibrariesLoaded, StageDone
  <2>2. \E sent \in Seq(Messages) : Moved(0, sent)
    <3>1. PICK m \in Messages : bcast' = Append(bcast, m)
      BY <2>1
    <3>2. Moved(0, <<m>>) /\ <<m>> \in Seq(Messages)
      BY <1>1, <3>1, SentOne
    <3> QED
      BY <3>2
  <2>3. /\ UNCHANGED <<view, bound, inits>> /\ (system' = "IDLE" => system = "IDLE")
    BY <1>4 DEF LibrariesLoaded, StageDone, uiVars, sysVars
  <2>4. Asking => Asking'
    BY <2>3 DEF Asking
  <2> QED
    BY <1>1, <1>2, <2>2, <2>3, <2>4, HopeStays
<1>5. CASE ServiceBound
  <2>1. s = "MainInterface"
    BY <1>1, <1>5 DEF ServiceBound, Registered
  <2>2. CASE system = "IDLE"
    <3>1. view'[s] = Dismiss(view[s])
      BY <1>5, <2>1, <2>2, OthersStay DEF ServiceBound, SystemInitialized
    <3> QED
      BY <1>1, <3>1, ViewsOf, DismissView
  <2>3. CASE system # "IDLE"
    <3>1. system' # "IDLE"
      BY <1>5, <2>3 DEF ServiceBound, sysVars
    <3> QED
      BY <1>1, <2>1, <3>1 DEF Hope
  <2> QED
    BY <2>2, <2>3
<1> QED
  BY <1>3, <1>4, <1>5 DEF Inits

\* Timers send what they were set for; what follows a store is a new screen, a
\* scan, or the dialog gone.
LEMMA TimersStrand ==
    ASSUME LineInv, Timers \/ Stored, NEW s \in Screens, Strands(s)
    PROVE  FALSE
<1>1. /\ s = front /\ bcast \in Seq(Messages) /\ timers \in [Screens -> Nat]
      /\ view'[s].up /\ ~Hope(s)' /\ (view'[s] = view[s] => Hope(s))
  BY StrandsFacts
<1>2. <<>> \in Seq(Messages) /\ (UNCHANGED bcast => Moved(0, <<>>))
  BY <1>1, NoneMoved
<1>3. CASE Timers
  <2>1. CASE DelayIsOver
    <3>1. CASE s = "Measurements"
      BY <1>1, <2>1, <3>1, Asked DEF DelayIsOver
    <3>2. CASE s # "Measurements"
      <4>1. UNCHANGED <<view, bound, storing, sm, system, inits, bcast>> /\ timers'[s] = timers[s]
        BY <1>1, <2>1, <3>2 DEF DelayIsOver, uiVars, sysVars
      <4>2. Asking => Asking'
        BY <4>1 DEF Asking
      <4>3. Moved(0, <<>>) /\ Hope(s)
        BY <1>1, <1>2, <4>1
      <4> QED
        BY <1>1, <1>2, <3>2, <4>1, <4>2, <4>3, HopeStays
    <3> QED
      BY <3>1, <3>2
  <2>2. ASSUME NEW t \in Screens, TimerFires(t) PROVE FALSE
    <3>1. CASE s = t
      BY <1>1, <2>2, <3>1, Asked DEF TimerFires
    <3>2. CASE s # t
      <4>1. /\ UNCHANGED <<view, bound, storing, state, sm, system, inits>> /\ timers'[s] = timers[s]
            /\ bcast' = Append(bcast, Request(t))
        BY <1>1, <2>2, <3>2 DEF TimerFires, uiVars, sysVars, measureVars
      <4>2. Asking => Asking'
        BY <4>1 DEF Asking
      <4>3. Moved(0, <<Request(t)>>) /\ <<Request(t)>> \in Seq(Messages) /\ Hope(s)
        BY <1>1, <4>1, RequestTyped, SentOne
      <4> QED
        BY <1>1, <4>1, <4>2, <4>3, HopeStays
    <3> QED
      BY <3>1, <3>2
  <2> QED
    BY <1>3, <2>1, <2>2 DEF Timers
<1>4. CASE Stored
  <2>1. PICK t \in DeviceScreens : StoreDone(t)
    BY <1>4 DEF Stored
  <2>2. /\ UNCHANGED <<bound, bcast, sm, system, inits>> /\ t \in Screens
        /\ s # t => (s \in DeviceScreens => storing'[s] = storing[s])
    BY <2>1, Names, LineParts DEF StoreDone, scanVars, sysVars, JobsTyped
  <2>3. Asking => Asking'
    BY <2>2 DEF Asking
  <2>4. ASSUME s # t, view'[s] = view[s], timers'[s] = timers[s], s = "Measurements" => UNCHANGED state
        PROVE  FALSE
    <3>1. Moved(0, <<>>) /\ Hope(s)
      BY <1>1, <1>2, <2>2, <2>4
    <3> QED
      BY <1>1, <1>2, <2>2, <2>3, <2>4, <3>1, HopeStays
  <2>5. ASSUME NEW v
        PROVE  /\ [view EXCEPT ![t] = v][s] = IF s = t THEN v ELSE view[s]
               /\ \A w : [[view EXCEPT ![t] = v] EXCEPT ![t] = w][s] = IF s = t THEN w ELSE view[s]
               /\ [view EXCEPT ![t] = v] \in [Screens -> Views] <=> v \in Views
    BY <2>2, ViewsOf
  <2>6. ASSUME view' = [view EXCEPT ![t] = Dismiss(view[t])], UNCHANGED <<timers, state>>
        PROVE  FALSE
    <3>1. CASE s = t
      <4>1. view'[s] = Dismiss(view[s])
        BY <2>5, <2>6, <3>1
      <4> QED
        BY <1>1, <4>1, ViewsOf, DismissView
    <3> QED
      BY <2>4, <2>5, <2>6, <3>1
  <2>7. CASE StartScan(t, [view EXCEPT ![t] = Dismiss(view[t])]) /\ UNCHANGED state
    <3>1. CASE s = t
      BY <1>1, <2>2, <2>7, <3>1, Asked DEF StartScan
    <3>2. CASE s # t
      <4>1. \E v, w : view' = [[view EXCEPT ![t] = v] EXCEPT ![t] = w]
        BY <2>7 DEF StartScan
      <4>2. view'[s] = view[s]
        BY <2>5, <3>2, <4>1
      <4>3. timers'[s] = timers[s]
        <5>1. timers' = [timers EXCEPT ![t] = timers[t] + 1]
          BY <2>7 DEF StartScan
        <5> QED
          BY <1>1, <2>2, <3>2, <5>1
      <4> QED
        BY <2>4, <2>7, <3>2, <4>2, <4>3
    <3> QED
      BY <3>1, <3>2
  <2>8. CASE Enter(After(t), internal', [view EXCEPT ![t] = Fresh]) /\ t # "FinalTraining"
    <3> DEFINE u == After(t)
               views == [view EXCEPT ![t] = Fresh]
    <3>1. u \in DeviceScreens /\ u \in Screens /\ u # t /\ u # "Measurements" /\ u # "MainInterface"
      BY <2>1, <2>8, Names DEF After
    <3>2. views \in [Screens -> Views] /\ views[s] = IF s = t THEN Fresh ELSE view[s]
      BY <2>5, FreshView DEF Sound
    <3> HIDE DEF views, u
    <3>3. /\ [views EXCEPT ![u] = Fresh][s] = IF s = u THEN Fresh ELSE views[s]
          /\ \A w : [[views EXCEPT ![u] = Fresh] EXCEPT ![u] = w][s] = IF s = u THEN w ELSE views[s]
      <4>1. [views EXCEPT ![u] = Fresh] \in [Screens -> Views]
        BY <3>2, FreshView DEF Sound
      <4> QED
        BY <3>1, <3>2, <4>1
    <3>4. Enter(u, internal', views) /\ UNCHANGED state
      BY <2>8, <3>1 DEF u, views, Enter
    <3>5. CASE ScansAtOnce(u, internal')
      <4>1. StartScan(u, [views EXCEPT ![u] = Fresh])
        BY <3>4, <3>5 DEF Enter
      <4>2. CASE s = u
        BY <1>1, <4>1, <4>2, Asked DEF StartScan
      <4>3. CASE s # u
        <5>1. view'[s] = views[s] /\ timers'[s] = timers[s]
          <6>1. \E w : view' = [[views EXCEPT ![u] = Fresh] EXCEPT ![u] = w]
            BY <4>1 DEF StartScan
          <6>2. view'[s] = views[s]
            BY <3>3, <4>3, <6>1
          <6>3. timers'[s] = timers[s]
            BY <1>1, <3>1, <4>1, <4>3 DEF StartScan
          <6> QED
            BY <6>2, <6>3
        <5> QED
          BY <1>1, <2>4, <3>2, <3>4, <5>1, FreshView
      <4> QED
        BY <4>2, <4>3
    <3>6. CASE ~ScansAtOnce(u, internal')
      <4>1. view' = [views EXCEPT ![u] = Fresh] /\ UNCHANGED timers
        BY <3>1, <3>4, <3>6 DEF Enter
      <4>2. view'[s] = Fresh \/ (s # t /\ view'[s] = view[s])
        BY <3>2, <3>3, <4>1
      <4> QED
        BY <1>1, <2>4, <3>4, <4>1, <4>2, FreshView
    <3> QED
      BY <3>5, <3>6
  <2> QED
    BY <2>1, <2>6, <2>7, <2>8 DEF StoreDone
<1> QED
  BY <1>3, <1>4

\* What is sent is on its way.
LEMMA OnItsWay ==
    ASSUME bcast \in Seq(Messages), NEW d, NEW sent \in Seq(Messages), Moved(d, sent),
           NEW k \in 1..Len(sent)
    PROVE  \E i \in 1..Len(bcast') : bcast'[i] = sent[k]
<1>1. Len(bcast) \in Nat /\ Len(sent) \in Nat /\ d \in {0, 1} /\ d <= Len(bcast)
  BY DEF Moved
<1>2. Len(bcast) - d + k \in 1..Len(bcast')
  BY <1>1 DEF Moved
<1> QED
  BY <1>2 DEF Moved

\* The end of SCANNING sends a snapshot, and the end of a scan an answer.
LEMMA StageSnapshot ==
    ASSUME LineInv, DeliverStage, sm = "SCANNING"
    PROVE  InTransit("snapshot")'
<1> DEFINE m == Message("snapshot", working)
           a == Message("INTERFACES", working)
           b == Message("DEVICES", working)
<1>1. bcast \in Seq(Messages) /\ bcast # <<>> /\ working \in Screens /\ Head(bcast).kind = sm
  BY StageStep, BcastTyped
<1>2. m \in Messages /\ a \in Messages /\ b \in Messages /\ m.kind = "snapshot"
  BY <1>1, MessageFields DEF Kinds
<1>3. Reply(<<m>> \o <<>>) \/ Reply(<<m>> \o <<a>>) \/ Reply(<<m>> \o <<b>>)
  BY <1>1 DEF DeliverStage
<1> HIDE DEF m, a, b
<1>4. ASSUME NEW x \in Seq(Messages), Reply(<<m>> \o x) PROVE InTransit("snapshot")'
  <2> DEFINE sent == <<m>> \o x
  <2>1. <<m>> \in Seq(Messages) /\ Len(<<m>>) = 1 /\ <<m>>[1] = m /\ Len(x) \in Nat
    BY <1>2
  <2>2. /\ sent \in Seq(Messages) /\ Len(sent) = 1 + Len(x)
        /\ \A i \in 1..(1 + Len(x)) : sent[i] = IF i <= 1 THEN <<m>>[i] ELSE x[i - 1]
    BY ONLY <2>1, <1>4, ConcatProperties
  <2>3. Reply(sent)
    BY <1>4
  <2>4. 1 \in 1..Len(sent) /\ sent[1] = m
    BY <2>1, <2>2
  <2> HIDE DEF sent
  <2>5. \E i \in 1..Len(bcast') : bcast'[i] = m
    BY <1>1, <2>2, <2>3, <2>4, Replied, OnItsWay
  <2> QED
    BY <1>2, <2>5 DEF InTransit
<1>5. <<>> \in Seq(Messages) /\ <<a>> \in Seq(Messages) /\ <<b>> \in Seq(Messages)
  BY <1>2
<1> QED
  BY <1>3, <1>4, <1>5

LEMMA StageAnswer ==
    ASSUME LineInv, DeliverStage, sm' = "IDLE"
    PROVE  InTransit("INTERFACES")' \/ InTransit("DEVICES")'
<1>1. bcast \in Seq(Messages) /\ working \in Screens
  BY StageStep, BcastTyped
<1>2. PICK sent \in Seq(Messages) : Moved(1, sent) /\ StageSends(working, sent)
  BY StageStep
<1> DEFINE m == Message(IF working \in ScanOnly THEN "INTERFACES" ELSE "DEVICES", working)
<1>3. m.kind \in {"INTERFACES", "DEVICES"}
  BY <1>1, MessageFields DEF Kinds
<1>4. \E k \in 1..Len(sent) : sent[k] = m
  <2>1. sent = IF working \in ScanOnly THEN Snapshot(working) \o Answer(working) ELSE Answer(working)
    BY <1>2 DEF StageSends, Stages
  <2> HIDE DEF m
  <2>2. CASE working \in ScanOnly
    <3>1. Len(sent) = 2 /\ sent[2] = m
      BY <1>1, <2>1, <2>2, SendsTyped DEF m
    <3> QED
      BY <3>1
  <2>3. CASE working \notin ScanOnly
    <3>1. Len(sent) = 1 /\ sent[1] = m
      BY <1>1, <2>1, <2>3, SendsTyped DEF m
    <3> QED
      BY <3>1
  <2> QED
    BY <2>2, <2>3
<1> HIDE DEF m
<1>5. \E i \in 1..Len(bcast') : bcast'[i] = m
  BY <1>1, <1>2, <1>4, OnItsWay
<1> QED
  BY <1>3, <1>5 DEF InTransit

\* The ways in which a broadcast delivered can leave a dialog.
Excused(s) ==
    \/ Arrives("request") /\ From = s /\ system # "IDLE"
    \/ s = "Measurements" /\ cut

LEMMA DeliverFacts ==
    ASSUME LineInv, Deliver, NEW s \in Screens, Strands(s)
    PROVE  /\ s = front /\ Registered(s) /\ bcast \in Seq(Messages) /\ bcast # <<>>
           /\ 1 \in 1..Len(bcast) /\ Head(bcast) = bcast[1] /\ From = bcast[1].from
           /\ UNCHANGED <<timers, storing, inits>> /\ (Asking => Asking')
           /\ ~DeliverInitialized => UNCHANGED <<bound, system>>
<1>1. s = front /\ bcast \in Seq(Messages) /\ Registered(s)
  BY StrandsFacts DEF Strands
<1>2. UNCHANGED <<timers, storing, inits>>
  BY DEF Deliver, DeliverInitialized, DeliverShow, DeliverCancel, DeliverRequest, DeliverStage,
         DeliverSnapshot, DeliverResponse, jobVars, sysVars
<1>3. ~DeliverInitialized => UNCHANGED <<bound, system>>
  BY DEF Deliver, DeliverShow, DeliverCancel, DeliverRequest, DeliverStage,
         DeliverSnapshot, DeliverResponse, uiVars, sysVars
<1>4. bcast # <<>>
  BY DEF Deliver, DeliverInitialized, DeliverShow, DeliverCancel, DeliverRequest, DeliverStage,
         DeliverSnapshot, DeliverResponse, Arrives
<1>5. Asking => Asking'
  BY <1>2 DEF Asking
<1> QED
  BY <1>1, <1>2, <1>3, <1>4, <1>5, HeadTyped

\* A broadcast that no dialog of the screen waits for, or that takes it away.
LEMMA NotConcerned ==
    ASSUME LineInv, Deliver, NEW s \in Screens, Strands(s),
           s # "MainInterface" \/ ~DeliverInitialized,
           Reply(<<>>), view'[s] = view[s], ~Concerns(bcast[1], s), UNCHANGED <<sm, state>>
    PROVE  FALSE
<1>1. Hope(s) /\ ~Hope(s)'
  BY StrandsFacts
<1>2. <<>> \in Seq(Messages)
  OBVIOUS
<1>3. bcast \in Seq(Messages) /\ Moved(1, <<>>)
  BY <1>2, DeliverFacts, Replied
<1>4. /\ UNCHANGED <<timers, storing>> /\ (Asking => Asking')
      /\ s = "MainInterface" => UNCHANGED <<bound, system>>
  BY DeliverFacts
<1> DEFINE sent == <<>>
<1>5. sent \in Seq(Messages) /\ Moved(1, sent)
  BY <1>2, <1>3
<1> HIDE DEF sent
<1>6. s = "MainInterface" => (bound' => bound) /\ (system' = "IDLE" => system = "IDLE")
                             /\ (Asking => Asking')
  BY <1>4
<1> QED
  BY <1>1, <1>3, <1>4, <1>5, <1>6, HopeOutlasts

LEMMA Dismissed ==
    ASSUME LineInv, NEW s \in Screens, Strands(s), view'[s] = Dismiss(view[s])
    PROVE  FALSE
  BY StrandsFacts, ViewsOf, DismissView

LEMMA CancelStrands ==
    ASSUME LineInv, DeliverInitialized \/ DeliverCancel, NEW s \in Screens, Strands(s)
    PROVE  FALSE
<1>1. /\ Registered(s) /\ Head(bcast) = bcast[1] /\ s = front /\ Deliver
      /\ Reply(<<>>) /\ UNCHANGED <<sm, state>>
  BY DeliverFacts DEF Deliver, DeliverInitialized, DeliverCancel, measureVars
<1>2. CASE s = "MainInterface"
  <2>1. view' = [view EXCEPT !["MainInterface"] = Dismiss(view["MainInterface"])]
    BY <1>1, <1>2 DEF DeliverInitialized, DeliverCancel, SystemInitialized
  <2> QED
    BY <1>2, <2>1, OthersStay, Dismissed
<1>3. CASE s # "MainInterface"
  <2>1. UNCHANGED view
    BY <1>1, <1>3 DEF DeliverInitialized, DeliverCancel, Registered
  <2>2. bcast[1].kind \in {"initialized", "cancel"}
    BY <1>1 DEF DeliverInitialized, DeliverCancel, Arrives
  <2>3. ~Concerns(bcast[1], s)
    BY <1>3, <2>2, RequestTyped DEF Concerns
  <2> QED
    BY <1>1, <1>3, <2>1, <2>3, NotConcerned
<1> QED
  BY <1>2, <1>3

LEMMA ShowStrands ==
    ASSUME LineInv, ShowsEnd, DeliverShow, NEW s \in Screens, Strands(s)
    PROVE  FALSE
<1>1. /\ Registered(s) /\ Head(bcast) = bcast[1] /\ s = front /\ Deliver /\ ~DeliverInitialized
      /\ 1 \in 1..Len(bcast) /\ bcast \in Seq(Messages) /\ bcast # <<>>
      /\ UNCHANGED inits /\ (Asking => Asking')
  <2>1. Deliver /\ ~DeliverInitialized
    BY DEF Deliver, DeliverShow, DeliverInitialized, Arrives
  <2> QED
    BY <2>1, DeliverFacts
<1>2. bcast[1].kind = "show" /\ Reply(<<>>) /\ UNCHANGED <<sm, state>>
  BY <1>1 DEF DeliverShow, Arrives, measureVars
<1>3. CASE s = "MainInterface" /\ Asking
  BY <1>1, <1>3, StrandsFacts DEF Hope, Asking
<1>4. CASE s = "MainInterface" /\ ~Asking
  <2>1. PICK j \in 1..Len(bcast) : j > 1 /\ bcast[j].kind = "cancel"
    BY <1>1, <1>2, <1>4 DEF ShowsEnd
  <2>2. <<>> \in Seq(Messages)
    OBVIOUS
  <2>3. j - 1 \in 1..Len(bcast') /\ bcast'[j - 1] = bcast[j]
    BY <1>1, <1>2, <2>1, <2>2, Replied, MovedTo
  <2> QED
    BY <1>4, <2>1, <2>3, StrandsFacts DEF Hope, InTransit
<1>5. CASE s # "MainInterface"
  <2>1. UNCHANGED view
    BY <1>1, <1>5 DEF DeliverShow, Registered
  <2>2. ~Concerns(bcast[1], s)
    BY <1>2, RequestTyped DEF Concerns
  <2> QED
    BY <1>1, <1>2, <2>1, <2>2, NotConcerned
<1> QED
  BY <1>3, <1>4, <1>5

\* The request that ScanManager drops is that of a screen let go, or of a
\* system that is not initialized.
LEMMA RequestStrands ==
    ASSUME WaitInv, DeliverRequest, NEW s \in Screens, Strands(s)
    PROVE  Excused(s)
<1>1. LineInv /\ Deliver /\ ~DeliverInitialized
  BY DEF WaitInv, Inv, Deliver, DeliverRequest, DeliverInitialized, Arrives
<1>2. /\ Head(bcast) = bcast[1] /\ From = bcast[1].from /\ 1 \in 1..Len(bcast)
      /\ view'[s].up /\ ~Hope(s)'
  BY <1>1, DeliverFacts, StrandsFacts
<1>3. Reply(<<>>) /\ UNCHANGED <<view, state>> /\ Arrives("request") /\ bcast[1].kind = "request"
  BY <1>2 DEF DeliverRequest, Arrives, measureVars
<1>4. s # "Measurements" => sm' = "IDLE"
  BY <1>2 DEF Hope
<1>5. CASE s = "Measurements" /\ ~cut
  <2>1. sm = "IDLE" /\ state = "SNAPSHOT"
    BY <1>2, <1>3, <1>5 DEF WaitInv, Inv, TokenInv, OneToken, IsToken, MeasureShown
  <2>2. sm' # "SCANNING"
    BY <1>2, <1>3, <1>5, <2>1 DEF Hope
  <2>3. system # "IDLE" /\ UNCHANGED sm
    BY <2>1, <2>2 DEF DeliverRequest
  <2>4. CASE Concerns(bcast[1], s)
    BY <1>2, <1>3, <2>3, <2>4, RequestTyped DEF Concerns, Excused
  <2> QED
    BY <1>1, <1>3, <2>3, <2>4, NotConcerned
<1>6. CASE s # "Measurements"
  <2>1. UNCHANGED sm /\ ~(system = "IDLE" /\ sm = "IDLE")
    BY <1>4, <1>6 DEF DeliverRequest
  <2>2. system # "IDLE"
    BY <1>4, <1>6, <2>1
  <2>3. CASE Concerns(bcast[1], s)
    BY <1>2, <1>3, <1>6, <2>2, <2>3, RequestTyped DEF Concerns, Excused
  <2> QED
    BY <1>1, <1>3, <2>1, <2>3, NotConcerned
<1> QED
  BY <1>5, <1>6 DEF Excused

\* A stage is followed by another, or by an answer.
LEMMA StageStrands ==
    ASSUME LineInv, DeliverStage, NEW s \in Screens, Strands(s)
    PROVE  FALSE
<1>1. Deliver /\ ~DeliverInitialized
  BY DEF Deliver, DeliverStage, DeliverInitialized, Arrives, Stages
<1>2. /\ Head(bcast) = bcast[1] /\ s = front /\ bcast \in Seq(Messages)
      /\ UNCHANGED <<timers, storing, bound, system>> /\ (Asking => Asking') /\ ~Hope(s)'
  BY <1>1, DeliverFacts, StrandsFacts
<1>3. CASE s # "Measurements"
  <2>1. CASE sm' = "IDLE"
    BY <1>2, <1>3, <2>1, StageAnswer DEF Hope
  <2>2. CASE sm' # "IDLE"
    BY <1>2, <1>3, <2>2 DEF Hope
  <2> QED
    BY <2>1, <2>2
<1>4. CASE s = "Measurements"
  <2>1. UNCHANGED <<view, state>>
    BY <1>2, <1>4 DEF DeliverStage, measureVars
  <2>2. Hope(s)
    BY <2>1, StrandsFacts
  <2>3. bcast[1].kind \in Stages
    BY <1>2, StageStep
  <2>4. ~Concerns(bcast[1], s)
    BY <1>4, <2>3, RequestTyped DEF Concerns, Stages
  <2>5. \E sent \in Seq(Messages) : Moved(1, sent)
    BY StageStep
  <2> QED
    BY <1>2, <1>4, <2>1, <2>2, <2>4, <2>5, StageSnapshot, HopeOutlasts, Names
<1> QED
  BY <1>3, <1>4

LEMMA AnswerStrands ==
    ASSUME LineInv, DeliverSnapshot \/ DeliverResponse, NEW s \in Screens, Strands(s)
    PROVE  FALSE
<1>1. Deliver /\ ~DeliverInitialized
  BY DEF Deliver, DeliverSnapshot, DeliverResponse, DeliverInitialized, Arrives
<1>2. /\ Head(bcast) = bcast[1] /\ s = front /\ bcast \in Seq(Messages) /\ bcast # <<>>
      /\ Registered(s) /\ ~Hope(s)'
  BY <1>1, DeliverFacts, StrandsFacts
<1>3. CASE DeliverSnapshot /\ s = "Measurements" /\ state = "SNAPSHOT"
  <2>1. CASE scansLeft > 0
    <3>1. Moved(1, <<Request(s)>>)
      BY <1>2, <1>3, <2>1, RequestTyped, Replied DEF DeliverSnapshot
    <3>2. \E i \in 1..Len(bcast') : bcast'[i] = Request(s)
      <4>1. /\ <<Request(s)>> \in Seq(Messages) /\ Len(<<Request(s)>>) = 1
            /\ <<Request(s)>>[1] = Request(s)
        BY RequestTyped
      <4> DEFINE sent == <<Request(s)>>
      <4>2. sent \in Seq(Messages) /\ 1 \in 1..Len(sent) /\ sent[1] = Request(s) /\ Moved(1, sent)
        BY <3>1, <4>1
      <4> HIDE DEF sent
      <4> QED
        BY <1>2, <4>2, OnItsWay
    <3> QED
      BY <1>2, <3>2 DEF Hope, Request, Message
  <2>2. CASE ~(scansLeft > 0)
    <3>1. view' = [view EXCEPT ![s] = Dismiss(view[s])]
      BY <1>2, <1>3, <2>2 DEF DeliverSnapshot
    <3> QED
      BY <3>1, OthersStay, Dismissed
  <2> QED
    BY <2>1, <2>2
<1>4. CASE DeliverSnapshot /\ ~(s = "Measurements" /\ state = "SNAPSHOT")
  <2>1. Reply(<<>>) /\ UNCHANGED <<view, state, sm>> /\ bcast[1].kind = "snapshot"
    BY <1>2, <1>4 DEF DeliverSnapshot, Registered, Arrives
  <2>2. ~Concerns(bcast[1], s)
    BY <1>4, <2>1, RequestTyped DEF Concerns
  <2> QED
    BY <1>1, <2>1, <2>2, NotConcerned
<1>5. CASE DeliverResponse /\ s # "Measurements"
  <2>1. view' = [view EXCEPT ![s] = Dismiss(view[s])]
    BY <1>2, <1>5 DEF DeliverResponse
  <2> QED
    BY <2>1, OthersStay, Dismissed
<1>6. CASE DeliverResponse /\ s = "Measurements"
  <2>1. Reply(<<>>) /\ UNCHANGED <<view, state, sm>> /\ bcast[1].kind \in {"INTERFACES", "DEVICES"}
    BY <1>2, <1>6 DEF DeliverResponse, Arrives, measureVars
  <2>2. ~Concerns(bcast[1], s)
    BY <1>6, <2>1, RequestTyped DEF Concerns
  <2> QED
    BY <1>1, <2>1, <2>2, NotConcerned
<1> QED
  BY <1>3, <1>4, <1>5, <1>6

LEMMA StepStrands ==
    ASSUME WaitInv, Next, NEW s \in Screens, Strands(s)
    PROVE  Excused(s)
<1>1. LineInv /\ ShowsEnd /\ Step
  BY DEF WaitInv, Inv, Next, Alive
<1> QED
  BY <1>1, UserStrands, ServiceStrands, TimersStrand, CancelStrands, ShowStrands, RequestStrands,
     StageStrands, AnswerStrands DEF Step, Deliver

\* Only what is shown while another dialog shows leaves that one behind.
LEMMA ShownOver ==
    ASSUME NEW v, NEW what, NEW d \in Show(v, what).orphans, d \notin v.orphans
    PROVE  v.up /\ d = v.pd
  BY DEF Show

\* What happens to the dialogs of other screens leaves MainInterface's alone.
LEMMA OtherViews ==
    ASSUME LineInv, NEW s \in Screens, s # "MainInterface",
           NEW views \in [Screens -> Views], views["MainInterface"] = view["MainInterface"],
           \/ view' = views \/ \E v : view' = [views EXCEPT ![s] = v]
           \/ StartScan(s, views)
           \/ \E known \in BOOLEAN : Enter(s, known, views)
    PROVE  view'["MainInterface"] = view["MainInterface"]
<1>1. ASSUME NEW w \in [Screens -> Views], w["MainInterface"] = view["MainInterface"],
             NEW v, view' = [w EXCEPT ![s] = v]
      PROVE  view'["MainInterface"] = view["MainInterface"]
  BY <1>1, Names
<1>2. ASSUME NEW w \in [Screens -> Views], w["MainInterface"] = view["MainInterface"],
             StartScan(s, w)
      PROVE  view'["MainInterface"] = view["MainInterface"]
  BY <1>1, <1>2 DEF StartScan
<1>3. ASSUME NEW known \in BOOLEAN, Enter(s, known, views)
      PROVE  view'["MainInterface"] = view["MainInterface"]
  <2> DEFINE fresh == [views EXCEPT ![s] = Fresh]
  <2>1. fresh \in [Screens -> Views] /\ fresh["MainInterface"] = view["MainInterface"]
    BY FreshView, Names DEF Sound
  <2>2. StartScan(s, fresh) \/ view' = fresh
    BY <1>3 DEF Enter
  <2> HIDE DEF fresh
  <2> QED
    BY <1>2, <2>1, <2>2
<1> QED
  BY <1>1, <1>2, <1>3

\* On MainInterface two actions show a dialog while another may be shown.
LEMMA MainOrphans ==
    ASSUME LineInv, Step, NEW d \in view'["MainInterface"].orphans,
           d \notin view["MainInterface"].orphans
    PROVE  /\ view["MainInterface"].up /\ d = view["MainInterface"].pd
           /\ DeliverShow \/ ServiceBound
<1> DEFINE m == "MainInterface"
<1>1. view \in [Screens -> Views] /\ Sound(view[m]) /\ m \in Screens
  BY ViewsOf, Names
<1>2. view'[m] # view[m] /\ view'[m] # Dismiss(view[m])
  BY <1>1, DismissView
<1>3. ASSUME NEW what, view' = [view EXCEPT ![m] = Show(view[m], what)]
      PROVE  view[m].up /\ d = view[m].pd
  <2>1. view'[m] = Show(view[m], what)
    BY <1>1, <1>3
  <2> QED
    BY <2>1, ShownOver
<1>4. view' # [view EXCEPT ![m] = Dismiss(view[m])]
  BY <1>1, <1>2
<1>5. ASSUME NEW s \in Screens, s # m
      PROVE  /\ \A v : view' # [view EXCEPT ![s] = v]
             /\ ~StartScan(s, view)
             /\ ~StartScan(s, [view EXCEPT ![s] = Dismiss(view[s])])
             /\ \A known \in BOOLEAN : ~Enter(s, known, view)
  <2> DEFINE w == [view EXCEPT ![s] = Dismiss(view[s])]
  <2>1. w \in [Screens -> Views] /\ w[m] = view[m]
    BY <1>1, <1>5, ViewsOf, DismissView DEF Sound
  <2> HIDE DEF w
  <2>2. ~StartScan(s, w)
    BY <1>2, <1>5, <2>1, OtherViews
  <2>3. /\ \A v : view' # [view EXCEPT ![s] = v]
        /\ ~StartScan(s, view)
        /\ \A known \in BOOLEAN : ~Enter(s, known, view)
    BY <1>1, <1>2, <1>5, OtherViews
  <2> QED
    BY <2>2, <2>3 DEF w
<1>6. CASE User
  <2>1. CASE PressHome \/ Return \/ GiveSettings \/ \E radios \in SUBSET UsbRadios : Plug(radios)
    BY <1>2, <2>1 DEF PressHome, Return, GiveSettings, Plug
  <2>2. CASE \E s \in Screens : Open(s)
    <3>1. PICK s \in Screens : Open(s)
      BY <2>2
    <3>2. Enter(s, internal, view) /\ internal \in BOOLEAN
      BY <3>1, LineParts DEF Open, ListsTyped
    <3>3. s = m => view' = view
      BY <3>2, Names DEF Enter, ScansAtOnce
    <3> QED
      BY <1>2, <1>5, <3>2, <3>3
  <2>3. CASE \E s \in Screens : Leave(s)
    <3>1. PICK s \in Screens : Leave(s)
      BY <2>3
    <3> QED
      BY <1>2, <1>5, <3>1 DEF Leave
  <2>4. CASE ClickAddNetwork
    <3>1. ~view[m].up /\ view' = [view EXCEPT ![m] = Show(view[m], "scanning")]
      BY <2>4 DEF ClickAddNetwork, Usable, Showing
    <3> QED
      BY <1>3, <3>1
  <2>5. CASE TriggerSnapshotDelayed \/ MarkDevice \/ \E n \in 1..MaxSeries : TriggerSnapshots(n)
    BY <1>5, <2>5, Names DEF TriggerSnapshotDelayed, MarkDevice, TriggerSnapshots
  <2>6. CASE \E s \in DeviceScreens, next \in {"stay", "scan", "window"} : SaveSelections(s, next)
    BY <1>5, <2>6, Names DEF SaveSelections
  <2> QED
    BY <1>6, <2>1, <2>2, <2>3, <2>4, <2>5, <2>6 DEF User
<1>7. CASE Deliver
  <2>1. CASE DeliverInitialized \/ DeliverCancel
    BY <1>2, <1>4, <2>1 DEF DeliverInitialized, DeliverCancel, SystemInitialized
  <2>2. CASE DeliverShow
    BY <1>2, <1>3, <2>2 DEF DeliverShow
  <2>3. CASE DeliverRequest
    BY <1>2, <2>3 DEF DeliverRequest
  <2>4. CASE DeliverStage
    <3>1. view' = view \/ \E s \in Screens \ {m} : \E v : view' = [view EXCEPT ![s] = v]
      BY <2>4, Names DEF DeliverStage, Progress
    <3> QED
      BY <1>2, <1>5, <3>1
  <2>5. CASE DeliverSnapshot
    BY <1>2, <1>5, <2>5, Names DEF DeliverSnapshot
  <2>6. CASE DeliverResponse
    <3>1. view' = view \/ \E s \in Screens : view' = [view EXCEPT ![s] = Dismiss(view[s])]
      BY <2>6 DEF DeliverResponse
    <3> QED
      BY <1>2, <1>4, <1>5, <3>1
  <2> QED
    BY <1>7, <2>1, <2>2, <2>3, <2>4, <2>5, <2>6 DEF Deliver
<1>8. CASE Timers \/ Inits \/ LibrariesLoaded \/ StageDone
  BY <1>2, <1>5, <1>8, Names DEF Timers, DelayIsOver, TimerFires, Inits, InitAsks, InitEnds,
     LibrariesLoaded, StageDone
<1>9. CASE Stored
  <2>1. PICK s \in DeviceScreens : StoreDone(s)
    BY <1>9 DEF Stored
  <2>2. s \in Screens /\ s # m
    BY <2>1, Names
  <2>3. CASE storing[s] = "window" /\ s # "FinalTraining"
    <3> DEFINE w == [view EXCEPT ![s] = Fresh]
    <3>1. w \in [Screens -> Views] /\ w[m] = view[m]
      BY <1>1, <2>2, FreshView DEF Sound
    <3>2. After(s) \in Screens /\ After(s) # m
      BY <2>1, <2>3, Names DEF After, DeviceScreens
    <3>3. Enter(After(s), internal', w) /\ internal' \in BOOLEAN
      BY <2>1, <2>3 DEF StoreDone
    <3> HIDE DEF w
    <3> QED
      BY <1>2, <3>1, <3>2, <3>3, OtherViews
  <2>4. CASE ~(storing[s] = "window" /\ s # "FinalTraining")
    BY <1>5, <2>1, <2>2, <2>4 DEF StoreDone
  <2> QED
    BY <2>3, <2>4
<1>10. CASE ServiceBound
  BY <1>3, <1>4, <1>10 DEF ServiceBound, SystemInitialized
<1> QED
  BY <1>6, <1>7, <1>8, <1>9, <1>10 DEF Step

\* WaitsInVain: a dialog of a screen in front comes to stay only when a request
\* was sent to a system not initialized, on Measurements when a dialog has let
\* the user go too early, or on MainInterface when another is shown over it;
\* else its answer is always under way, for any number of scans, any series and
\* any USB radios.
THEOREM NoneInVain == Spec => WaitsInVain
<1> DEFINE A == \A s \in Screens : \A d \in Stranded(s)' \ Stranded(s) :
                    \/ ~Registered(s)
                    \/ Arrives("request") /\ From = s /\ system # "IDLE"
                    \/ s = "Measurements" /\ cut
                    \/ s = "MainInterface" /\ view[s].up /\ d = view[s].pd
                       /\ (DeliverShow \/ ServiceBound)
<1>1. ASSUME WaitInv, [Next]_vars
      PROVE  [A]_vars
  <2>1. ASSUME Next, NEW s \in Screens, NEW d \in Stranded(s)' \ Stranded(s), Registered(s)
        PROVE  \/ Excused(s)
               \/ s = "MainInterface" /\ view[s].up /\ d = view[s].pd /\ (DeliverShow \/ ServiceBound)
    <3>1. LineInv /\ LineInv' /\ Step
      BY <1>1, <2>1, WaitInvStep DEF WaitInv, Inv, Next, Alive
    <3>2. CASE d \in view'[s].orphans
      <4>1. d \notin view[s].orphans
        BY <2>1 DEF Stranded
      <4>2. s = "MainInterface"
        BY <3>1, <3>2 DEF LineInv, ViewsKnown
      <4> QED
        BY <3>1, <3>2, <4>1, <4>2, MainOrphans
    <3>3. CASE d \notin view'[s].orphans
      <4>1. view'[s].up /\ ~Hope(s)' /\ d = view'[s].pd
        BY <2>1, <3>3 DEF Stranded
      <4>2. view'[s] = view[s] => Hope(s)
        BY <2>1, <4>1 DEF Stranded
      <4> QED
        BY <1>1, <2>1, <4>1, <4>2, StepStrands DEF Strands
    <3> QED
      BY <3>2, <3>3
  <2>2. Next => A
    BY <2>1 DEF Excused
  <2> HIDE DEF A
  <2> QED
    BY <1>1, <2>2
<1>2. Spec => []WaitInv
  BY WaitInvInit, WaitInvStep, PTL DEF Spec
<1> QED
  BY <1>1, <1>2, PTL DEF Spec, WaitsInVain

=============================================================================
