----------------------------- MODULE ScanScreens -----------------------------
(***************************************************************************)
(* The screens from which the user starts scans, in front of the scan      *)
(* service.  A screen that waits for a scan shows a progress dialog that   *)
(* cannot be cancelled and so keeps the user from everything else; the     *)
(* broadcast it waits for dismisses it.  A screen hears broadcasts only    *)
(* while it is resumed, broadcasts say nothing of the request they answer, *)
(* and _pd holds one dialog, whatever is shown.  ScanManager drops what is *)
(* asked of it while it works: that it is not asked is up to the dialogs.  *)
(*                                                                         *)
(* The stages of a scan are those of ScanPipeline, each as a whole.  An    *)
(* action is a callback of the main thread, or what the user does between. *)
(***************************************************************************)
EXTENDS Integers, Sequences

CONSTANTS
    MaxRequests,  \* bound on the scans the user asks for
    MaxSeries,    \* bound on the snapshots of one series
    UsbRadios     \* the radios the user plugs in, each once

ASSUME MaxRequestsAssumption == MaxRequests \in Nat
ASSUME MaxSeriesAssumption == MaxSeries \in Nat
ASSUME UsbRadiosAssumption == UsbRadios \subseteq {"Wifi", "ZigBee"}

DeviceScreens == {"YourDevices", "MissingDevices", "FinalTraining"}
Screens == {"MainInterface", "Measurements"} \cup DeviceScreens
Dialogs == {"initializing", "usb", "scanning", "storing"}
Stages == {"SCANNING", "NAME_RESOLUTION", "INTERFACE_MERGING", "DEVICE_FILTERING"}

VARIABLES
    front,      \* the screen in front, or Elsewhere: one that does not scan
    resumed,    \* it is resumed: the user has not gone to another application
    bound,      \* MainInterface.mBound
    view,       \* the dialogs on each screen, see Views
    timers,     \* timers of startScan and triggerSnapshotDelayed to fire
    storing,    \* what each screen's UpdateDevicesThread will do when done
    list,       \* what the rows of YourDevices and MissingDevices are
    internal,   \* the database has devices of the user
    state,      \* Measurements._state
    scansLeft,  \* Measurements._scansLeft
    system,     \* BackgroundService._serviceState, loaded once it is about to change
    settings,   \* haveUserSettings
    inits,      \* the init tasks of the USB radios
    bcast,      \* broadcasts sent and not yet delivered
    sm,         \* ScanManager._state
    working,    \* the screen whose request ScanManager works on, or "none"
    crashed,    \* an exception has ended the process
    asked,      \* number of scans the user has asked for
    series,     \* history: snapshots the user asked Measurements for
    taken,      \* history: snapshots taken for that and received
    cut         \* history: the user was let go while his scan went on

uiVars   == <<front, resumed, bound>>
jobVars  == <<timers, storing>>
listVars == <<list, internal>>
measureVars == <<state, scansLeft, series, taken>>
sysVars  == <<system, settings, inits>>
scanVars == <<bcast, sm, working>>
vars == <<uiVars, view, jobVars, listVars, measureVars, sysVars, scanVars, crashed, asked, cut>>

-----------------------------------------------------------------------------
(* Dialogs and broadcasts                                                  *)

\* pd is the dialog _pd refers to and up whether it shows.  What is shown while
\* another shows leaves that one on the screen, with no reference to it.
Views == [pd : Dialogs \cup {"null"}, up : BOOLEAN, orphans : SUBSET Dialogs]
Fresh == [pd |-> "null", up |-> FALSE, orphans |-> {}]

Show(v, what) ==
    [pd |-> what, up |-> TRUE, orphans |-> IF v.up THEN v.orphans \cup {v.pd} ELSE v.orphans]

Dismiss(v) == [v EXCEPT !.up = FALSE]

Showing(s) == view[s].orphans \cup IF view[s].up THEN {view[s].pd} ELSE {}

\* The screen's receivers are registered; its buttons can be pressed.
Registered(s) == front = s /\ resumed
Usable(s) == Registered(s) /\ Showing(s) = {}

\* "from" is history: the screen whose request a broadcast belongs to.
Message(kind, from) == [kind |-> kind, from |-> from]
Kinds == {"request", "snapshot", "INTERFACES", "DEVICES", "show", "cancel", "initialized"} \cup Stages
Messages == [kind : Kinds, from : Screens]

Arrives(kind) == bcast # <<>> /\ Head(bcast).kind = kind
From == Head(bcast).from
Reply(sent) == bcast' = Tail(bcast) \o sent
Request(s) == Message("request", s)
InTransit(kind) == \E i \in 1..Len(bcast) : bcast[i].kind = kind

\* startScan shows the dialog and sets the timer that will send the request.
StartScan(s, views) ==
    /\ view' = [views EXCEPT ![s] = Show(@, "scanning")]
    /\ timers' = [timers EXCEPT ![s] = @ + 1]

-----------------------------------------------------------------------------
(* The user moves between screens                                          *)

\* onPause and onStop, which unbinds; onResume.
PressHome ==
    /\ front \in Screens /\ resumed
    /\ resumed' = FALSE
    /\ bound' = FALSE
    /\ UNCHANGED <<front, view, jobVars, listVars, measureVars, sysVars, scanVars, crashed, asked>>
Return ==
    /\ ~resumed
    /\ resumed' = TRUE
    /\ UNCHANGED <<front, bound, view, jobVars, listVars, measureVars, sysVars, scanVars, crashed, asked>>

\* onCreate of a new instance; MainInterface stays beneath the other screens.
ScansAtOnce(s, known) == s \in {"YourDevices", "MissingDevices"} /\ ~known
Enter(s, known, views) ==
    /\ front' = s
    /\ resumed' = TRUE
    /\ IF ScansAtOnce(s, known)
       THEN /\ StartScan(s, [views EXCEPT ![s] = Fresh])
            /\ list' = [list EXCEPT ![s] = "none"]
       ELSE /\ view' = IF s = "MainInterface" THEN views ELSE [views EXCEPT ![s] = Fresh]
            /\ list' = [list EXCEPT ![s] = "devices"]
            /\ UNCHANGED timers
    /\ IF s = "Measurements" THEN state' = "IDLE" /\ scansLeft' = 0 ELSE UNCHANGED <<state, scansLeft>>

\* Through screens that do not scan, which takes longer than the delivery of
\* what has been broadcast.
Open(s) ==
    /\ front = "Elsewhere"
    /\ bcast = <<>>
    /\ s \in {"MainInterface", "Measurements", "YourDevices"}
    /\ asked' = IF ScansAtOnce(s, internal) THEN asked + 1 ELSE asked
    /\ asked' <= MaxRequests
    /\ Enter(s, internal, view)
    /\ UNCHANGED <<bound, storing, internal, series, taken, sysVars, scanVars, crashed>>

\* Back, which finishes the screen, or a button of MainInterface.
Leave(s) ==
    /\ Usable(s)
    /\ front' = "Elsewhere"
    /\ bound' = FALSE
    /\ view' = IF s = "MainInterface" THEN view ELSE [view EXCEPT ![s] = Fresh]
    /\ list' = [list EXCEPT ![s] = "devices"]
    /\ state' = "IDLE" /\ scansLeft' = 0 /\ series' = 0 /\ taken' = 0
    /\ UNCHANGED <<resumed, jobVars, internal, sysVars, scanVars, crashed, asked>>

\* The user goes through Welcome.
GiveSettings ==
    /\ front = "Elsewhere"
    /\ settings' = TRUE
    /\ UNCHANGED <<uiVars, view, jobVars, listVars, measureVars, system, inits, scanVars, crashed, asked>>

-----------------------------------------------------------------------------
(* MainInterface and the initialization of the system                      *)

\* MainInterface.systemInitialized: without settings Welcome is started.
SystemInitialized ==
    /\ view' = [view EXCEPT !["MainInterface"] = Dismiss(@)]
    /\ front' = IF settings THEN front ELSE "Elsewhere"

\* serviceBound, some time after onStart.
ServiceBound ==
    /\ Registered("MainInterface") /\ ~bound
    /\ IF system = "IDLE"
       THEN SystemInitialized
       ELSE /\ view' = [view EXCEPT !["MainInterface"] = Show(@, "initializing")]
            /\ UNCHANGED front
    /\ bound' = (front' = "MainInterface")
    /\ UNCHANGED <<resumed, jobVars, listVars, measureVars, sysVars, scanVars, crashed, asked>>

\* InitLibraries.onPostExecute.
LibrariesLoaded ==
    /\ system = "INITIALIZING"
    /\ system' = "loaded"
    /\ bcast' = Append(bcast, Message("initialized", "MainInterface"))
    /\ UNCHANGED <<uiVars, view, jobVars, listVars, measureVars, settings, inits, sm, working, crashed, asked>>

DeliverInitialized ==
    /\ Arrives("initialized")
    /\ Reply(<<>>)
    /\ system' = "IDLE"
    /\ IF Registered("MainInterface") THEN SystemInitialized ELSE UNCHANGED <<front, view>>
    /\ bound' = (bound /\ front' = "MainInterface")
    /\ UNCHANGED <<resumed, jobVars, listVars, measureVars, settings, inits, sm, working, crashed, asked>>

\* USBMon reports new radios: each shows a dialog and has its init task queued.
Plug(radios) ==
    /\ system = "IDLE"
    /\ radios # {} /\ \A r \in radios : inits[r] = "none"
    /\ inits' = [r \in UsbRadios |-> IF r \in radios THEN "queued" ELSE inits[r]]
    /\ bcast' = bcast \o [i \in 1..(IF radios = {"Wifi", "ZigBee"} THEN 2 ELSE 1)
                             |-> Message("show", "MainInterface")]
    /\ UNCHANGED <<uiVars, view, jobVars, listVars, measureVars, system, settings, sm, working, crashed, asked>>

\* ZigBeeInit has opened the port and asks the user to press the reset button.
InitAsks ==
    /\ "ZigBee" \in UsbRadios /\ inits["ZigBee"] = "queued"
    /\ inits' = [inits EXCEPT !["ZigBee"] = "reset"]
    /\ bcast' = bcast \o <<Message("cancel", "MainInterface"), Message("show", "MainInterface")>>
    /\ UNCHANGED <<uiVars, view, jobVars, listVars, measureVars, system, settings, sm, working, crashed, asked>>

\* onPostExecute of WifiInit and ZigBeeInit, whether it failed or not.
InitEnds(r) ==
    /\ inits[r] \in {"queued", "reset"}
    /\ inits' = [inits EXCEPT ![r] = "done"]
    /\ bcast' = Append(bcast, Message("cancel", "MainInterface"))
    /\ UNCHANGED <<uiVars, view, jobVars, listVars, measureVars, system, settings, sm, working, crashed, asked>>

\* MainInterface._messageReceiver.
DeliverShow ==
    /\ Arrives("show")
    /\ Reply(<<>>)
    /\ view' = IF Registered("MainInterface") THEN [view EXCEPT !["MainInterface"] = Show(@, "usb")] ELSE view
    /\ UNCHANGED <<uiVars, jobVars, listVars, measureVars, sysVars, sm, working, crashed, asked>>
DeliverCancel ==
    /\ Arrives("cancel")
    /\ Reply(<<>>)
    /\ view' = IF Registered("MainInterface") THEN [view EXCEPT !["MainInterface"] = Dismiss(@)] ELSE view
    /\ UNCHANGED <<uiVars, jobVars, listVars, measureVars, sysVars, sm, working, crashed, asked>>

ClickAddNetwork ==
    /\ Usable("MainInterface")
    /\ asked < MaxRequests
    /\ asked' = asked + 1
    /\ bcast' = Append(bcast, Request("MainInterface"))
    /\ view' = [view EXCEPT !["MainInterface"] = Show(@, "scanning")]
    /\ UNCHANGED <<uiVars, jobVars, listVars, measureVars, sysVars, sm, working, crashed>>

-----------------------------------------------------------------------------
(* Measurements                                                            *)

\* Mutation: the request just sent is counted twice.
TriggerSnapshotsOneLess(n) ==
    /\ Usable("Measurements")
    /\ asked + n <= MaxRequests
    /\ asked' = asked + n
    /\ state' = "SNAPSHOT"
    /\ view' = [view EXCEPT !["Measurements"] = Show(@, "scanning")]
    /\ bcast' = Append(bcast, Request("Measurements"))
    /\ scansLeft' = n - 2
    /\ series' = n /\ taken' = 0
    /\ UNCHANGED <<uiVars, jobVars, listVars, sysVars, sm, working, crashed>>

\* triggerSnapshot and triggerMultiSnapshot.
TriggerSnapshots(n) ==
    /\ Usable("Measurements")
    /\ asked + n <= MaxRequests
    /\ asked' = asked + n
    /\ state' = "SNAPSHOT"
    /\ view' = [view EXCEPT !["Measurements"] = Show(@, "scanning")]
    /\ bcast' = Append(bcast, Request("Measurements"))
    /\ scansLeft' = n - 1
    /\ series' = n /\ taken' = 0
    /\ UNCHANGED <<uiVars, jobVars, listVars, sysVars, sm, working, crashed>>

TriggerSnapshotDelayed ==
    /\ Usable("Measurements")
    /\ asked < MaxRequests
    /\ asked' = asked + 1
    /\ StartScan("Measurements", view)
    /\ state' = "SNAPSHOT"
    /\ series' = 1 /\ taken' = 0
    /\ UNCHANGED <<uiVars, storing, listVars, scansLeft, sysVars, scanVars, crashed>>

\* Its dialog is replaced by another, which fails when the screen is gone.
DelayIsOver ==
    /\ timers["Measurements"] > 0
    /\ timers' = [timers EXCEPT !["Measurements"] = @ - 1]
    /\ IF front # "Measurements"
       THEN crashed' = TRUE /\ UNCHANGED <<view, bcast, scansLeft>>
       ELSE /\ view' = [view EXCEPT !["Measurements"] = Show(Dismiss(@), "scanning")]
            /\ bcast' = Append(bcast, Request("Measurements"))
            /\ scansLeft' = 0
            /\ UNCHANGED crashed
    /\ UNCHANGED <<uiVars, storing, listVars, state, series, taken, sysVars, sm, working, asked>>

\* Mutation: the next request waits for nothing.
DeliverSnapshotTwice ==
    /\ Arrives("snapshot")
    /\ IF Registered("Measurements") /\ state = "SNAPSHOT"
       THEN /\ taken' = IF From = "Measurements" THEN taken + 1 ELSE taken
            /\ IF scansLeft > 0
               THEN /\ Reply(<<Request("Measurements"), Request("Measurements")>>)
                    /\ scansLeft' = scansLeft - 1
                    /\ UNCHANGED <<view, state>>
               ELSE /\ Reply(<<>>)
                    /\ view' = [view EXCEPT !["Measurements"] = Dismiss(@)]
                    /\ state' = "IDLE"
                    /\ UNCHANGED scansLeft
       ELSE Reply(<<>>) /\ UNCHANGED <<view, state, scansLeft, taken>>
    /\ UNCHANGED <<uiVars, jobVars, listVars, series, sysVars, sm, working, crashed, asked>>

\* Measurements.incomingEvent takes any snapshot for the one it waits for.
DeliverSnapshot ==
    /\ Arrives("snapshot")
    /\ IF Registered("Measurements") /\ state = "SNAPSHOT"
       THEN /\ taken' = IF From = "Measurements" THEN taken + 1 ELSE taken
            /\ IF scansLeft > 0
               THEN /\ Reply(<<Request("Measurements")>>)
                    /\ scansLeft' = scansLeft - 1
                    /\ UNCHANGED <<view, state>>
               ELSE /\ Reply(<<>>)
                    /\ view' = [view EXCEPT !["Measurements"] = Dismiss(@)]
                    /\ state' = "IDLE"
                    /\ UNCHANGED scansLeft
       ELSE Reply(<<>>) /\ UNCHANGED <<view, state, scansLeft, taken>>
    /\ UNCHANGED <<uiVars, jobVars, listVars, series, sysVars, sm, working, crashed, asked>>

-----------------------------------------------------------------------------
(* YourDevices, MissingDevices and FinalTraining                           *)

\* saveDeviceSelections marks the devices as the rows are ticked: rows that are
\* no devices mark others, or run past the end of the list.  The scan that may
\* follow is counted here.
SaveSelections(s, next) ==
    /\ Usable(s)
    /\ storing[s] = "none"
    /\ asked < MaxRequests
    /\ asked' = asked + 1
    /\ next \in (IF s = "FinalTraining" THEN {"stay", "window"} ELSE {"scan", "window"})
    /\ storing' = [storing EXCEPT ![s] = next]
    /\ view' = [view EXCEPT ![s] = Show(@, "storing")]
    /\ crashed' \in (IF list[s] = "devices" THEN {FALSE} ELSE BOOLEAN)
    /\ UNCHANGED <<uiVars, timers, listVars, measureVars, sysVars, scanVars>>

\* FinalTraining: the user says whether a device moves, which is trained by a scan.
MarkDevice ==
    /\ Usable("FinalTraining")
    /\ internal
    /\ asked < MaxRequests
    /\ asked' = asked + 1
    /\ StartScan("FinalTraining", view)
    /\ UNCHANGED <<uiVars, storing, listVars, measureVars, sysVars, scanVars, crashed>>

After(s) == CASE s = "YourDevices"    -> "MissingDevices"
              [] s = "MissingDevices" -> "FinalTraining"
              [] s = "FinalTraining"  -> "MainInterface"

\* UpdateDevicesThread has stored the devices and cancels the dialog.
StoreDone(s) ==
    /\ storing[s] # "none"
    /\ storing' = [storing EXCEPT ![s] = "none"]
    /\ internal' \in BOOLEAN
    /\ UNCHANGED <<bound, series, taken, sysVars, scanVars, asked>>
    /\ \/ /\ storing[s] = "stay"
          /\ view' = [view EXCEPT ![s] = Dismiss(@)]
          /\ UNCHANGED <<front, resumed, timers, list, state, scansLeft, crashed>>
       \/ /\ storing[s] = "scan"
          /\ StartScan(s, [view EXCEPT ![s] = Dismiss(@)])
          /\ crashed' = (front # s)
          /\ UNCHANGED <<front, resumed, list, state, scansLeft>>
       \/ /\ storing[s] = "window" /\ s # "FinalTraining"
          /\ Enter(After(s), internal', [view EXCEPT ![s] = Fresh])
          /\ UNCHANGED crashed
       \/ /\ storing[s] = "window" /\ s = "FinalTraining"
          /\ view' = [view EXCEPT ![s] = Dismiss(@)]
          /\ front' = IF front = s THEN After(s) ELSE front
          /\ UNCHANGED <<resumed, timers, list, state, scansLeft, crashed>>

\* The timer of startScan.
TimerFires(s) ==
    /\ s # "Measurements" /\ timers[s] > 0
    /\ timers' = [timers EXCEPT ![s] = @ - 1]
    /\ bcast' = Append(bcast, Request(s))
    /\ UNCHANGED <<uiVars, view, storing, listVars, measureVars, sysVars, sm, working, crashed, asked>>

\* incomingEvent: the rows and the dialog follow the stages, whoever's they are.
\* Without a dialog there is a null pointer.
Progress(s, stage) ==
    /\ list' = [list EXCEPT ![s] = IF s = "MissingDevices" THEN @
                                   ELSE IF stage = "INTERFACE_MERGING" THEN "devices" ELSE "interfaces"]
    /\ IF view[s].pd = "null"
       THEN crashed' = TRUE /\ UNCHANGED view
       ELSE /\ view' = [view EXCEPT ![s] = Show(Dismiss(@), "scanning")]
            /\ UNCHANGED crashed

-----------------------------------------------------------------------------
(* ScanManager                                                             *)

\* Mutation: the last stage is asked for again.
NextStageAgain(stage) ==
    CASE stage = "SCANNING" /\ working \in {"Measurements", "FinalTraining"} -> "IDLE"
      [] stage = "SCANNING" /\ working \notin {"Measurements", "FinalTraining"} -> "NAME_RESOLUTION"
      [] stage = "NAME_RESOLUTION" -> "INTERFACE_MERGING"
      [] stage \in {"INTERFACE_MERGING", "DEVICE_FILTERING"} -> "DEVICE_FILTERING"

\* The stages each screen asks for.
NextStage(stage) ==
    CASE stage = "SCANNING" /\ working \in {"Measurements", "FinalTraining"} -> "IDLE"
      [] stage = "SCANNING" /\ working \notin {"Measurements", "FinalTraining"} -> "NAME_RESOLUTION"
      [] stage = "NAME_RESOLUTION" -> "INTERFACE_MERGING"
      [] stage = "INTERFACE_MERGING" /\ working = "MainInterface" -> "IDLE"
      [] stage = "INTERFACE_MERGING" /\ working # "MainInterface" -> "DEVICE_FILTERING"
      [] stage = "DEVICE_FILTERING" -> "IDLE"

\* Dropped while ScanManager works; unheard before the system is initialized.
DeliverRequest ==
    /\ Arrives("request")
    /\ Reply(<<>>)
    /\ IF system = "IDLE" /\ sm = "IDLE"
       THEN sm' = "SCANNING" /\ working' = From
       ELSE UNCHANGED <<sm, working>>
    /\ UNCHANGED <<uiVars, view, jobVars, listVars, measureVars, sysVars, crashed, asked>>

\* The manager of the stage broadcasts its response.
StageDone ==
    /\ sm # "IDLE" /\ ~InTransit(sm)
    /\ bcast' = Append(bcast, Message(sm, working))
    /\ UNCHANGED <<uiVars, view, jobVars, listVars, measureVars, sysVars, sm, working, crashed, asked>>

\* Mutation: ScanManager answers before it is IDLE again.
DeliverStageBusy ==
    /\ \E stage \in Stages : Arrives(stage)
    /\ LET stage == Head(bcast).kind
           next  == NextStage(stage)
       IN  /\ sm' = IF next = "IDLE" /\ stage = "SCANNING" THEN "DEVICE_FILTERING" ELSE next
           /\ Reply((IF stage = "SCANNING" THEN <<Message("snapshot", working)>> ELSE <<>>) \o
                    (IF next # "IDLE" THEN <<>>
                     ELSE <<Message(IF stage = "SCANNING" THEN "INTERFACES" ELSE "DEVICES", working)>>))
           /\ IF Registered(front) /\ front \in {"YourDevices", "MissingDevices"} /\ stage # "DEVICE_FILTERING"
              THEN Progress(front, stage)
              ELSE UNCHANGED <<view, list, crashed>>
    /\ UNCHANGED <<uiVars, jobVars, internal, measureVars, sysVars, working, asked>>

\* ScanManager takes the response of a stage, and the screen in front does.
DeliverStage ==
    /\ \E stage \in Stages : Arrives(stage)
    /\ LET stage == Head(bcast).kind
           next  == NextStage(stage)
       IN  /\ sm' = next /\ working' = IF next = "IDLE" THEN "none" ELSE working
           /\ Reply((IF stage = "SCANNING" THEN <<Message("snapshot", working)>> ELSE <<>>) \o
                    (IF next # "IDLE" THEN <<>>
                     ELSE <<Message(IF stage = "SCANNING" THEN "INTERFACES" ELSE "DEVICES", working)>>))
           /\ IF Registered(front) /\ front \in {"YourDevices", "MissingDevices"} /\ stage # "DEVICE_FILTERING"
              THEN Progress(front, stage)
              ELSE UNCHANGED <<view, list, crashed>>
    /\ UNCHANGED <<uiVars, jobVars, internal, measureVars, sysVars, asked>>

\* Mutation: YourDevices takes no notice of the devices.
DeliverResponseKeepsRows ==
    /\ Arrives("INTERFACES") \/ Arrives("DEVICES")
    /\ Reply(<<>>)
    /\ IF Registered(front) /\ front \in Screens \ {"Measurements"}
       THEN /\ view' = [view EXCEPT ![front] = Dismiss(@)]
            /\ list' = [list EXCEPT ![front] =
                   IF front = "YourDevices" /\ Arrives("INTERFACES") THEN "interfaces"
                   ELSE IF front = "MissingDevices" /\ Arrives("DEVICES") THEN "devices" ELSE @]
       ELSE UNCHANGED <<view, list>>
    /\ UNCHANGED <<uiVars, jobVars, internal, measureVars, sysVars, sm, working, crashed, asked>>

\* _deviceScanReceiver of the screen in front: MissingDevices lists devices only.
DeliverResponse ==
    /\ Arrives("INTERFACES") \/ Arrives("DEVICES")
    /\ Reply(<<>>)
    /\ IF Registered(front) /\ front \in Screens \ {"Measurements"}
       THEN /\ view' = [view EXCEPT ![front] = Dismiss(@)]
            /\ list' = [list EXCEPT ![front] =
                   IF front = "YourDevices" /\ Arrives("INTERFACES") THEN "interfaces"
                   ELSE IF front \in {"YourDevices", "MissingDevices"} /\ Arrives("DEVICES") THEN "devices" ELSE @]
       ELSE UNCHANGED <<view, list>>
    /\ UNCHANGED <<uiVars, jobVars, internal, measureVars, sysVars, sm, working, crashed, asked>>

-----------------------------------------------------------------------------
(* Behaviour                                                               *)

\* What a screen waits for; Measurements does not listen to responses.
Awaited(s) == IF s = "Measurements" THEN {"snapshot"} ELSE {"INTERFACES", "DEVICES"}

\* A scan the screen asked for is not over: about to be asked for, asked for,
\* worked on, or its result under way.
Outstanding(s) ==
    \/ timers[s] > 0
    \/ sm # "IDLE" /\ working = s
    \/ \E i \in 1..Len(bcast) : bcast[i].from = s /\ bcast[i].kind \in Awaited(s) \cup {"request"}

\* The dialog of a scan goes, or the screen it is on, before the scan is over.
LetGo ==
    \E s \in Screens :
        /\ front = s /\ "scanning" \in Showing(s)
        /\ ~(front' = s /\ "scanning" \in Showing(s)')
        /\ Outstanding(s)'

Init ==
    /\ front = "MainInterface" /\ resumed = TRUE /\ bound = FALSE
    /\ view = [s \in Screens |-> Fresh]
    /\ timers = [s \in Screens |-> 0]
    /\ storing = [s \in DeviceScreens |-> "none"]
    /\ list = [s \in Screens |-> "devices"]
    /\ internal \in BOOLEAN
    /\ state = "IDLE" /\ scansLeft = 0 /\ series = 0 /\ taken = 0
    /\ system = "INITIALIZING" /\ settings \in BOOLEAN
    /\ inits = [r \in UsbRadios |-> "none"]
    /\ bcast = <<>> /\ sm = "IDLE" /\ working = "none"
    /\ crashed = FALSE /\ asked = 0 /\ cut = FALSE

User ==
    \/ PressHome \/ Return \/ GiveSettings
    \/ \E s \in Screens : Open(s) \/ Leave(s)
    \/ ClickAddNetwork \/ TriggerSnapshotDelayed \/ MarkDevice
    \/ \E n \in 1..MaxSeries : TriggerSnapshots(n)
    \/ \E s \in DeviceScreens, next \in {"stay", "scan", "window"} : SaveSelections(s, next)
    \/ \E radios \in SUBSET UsbRadios : Plug(radios)

Deliver ==
    \/ DeliverInitialized \/ DeliverShow \/ DeliverCancel
    \/ DeliverRequest \/ DeliverStage \/ DeliverSnapshot \/ DeliverResponse

Timers == DelayIsOver \/ \E s \in Screens : TimerFires(s)
Stored == \E s \in DeviceScreens : StoreDone(s)
Inits == InitAsks \/ \E r \in UsbRadios : InitEnds(r)

Step == User \/ Deliver \/ Timers \/ Stored \/ Inits \/ LibrariesLoaded \/ ServiceBound \/ StageDone

\* A crash ends the process, and the service with it: what follows begins anew.
Alive(action) == ~crashed /\ action /\ cut' = (cut \/ LetGo)
Next == Alive(Step)
Spec == Init /\ [][Next]_vars

\* The looper delivers, timers fire, threads and tasks end, the service is
\* bound, a scan's stages end (ScanPipeline), and the user presses the reset
\* button that ZigBeeInit asks for.
Fairness ==
    /\ WF_vars(Alive(Deliver)) /\ WF_vars(Alive(Timers)) /\ WF_vars(Alive(Stored))
    /\ WF_vars(Alive(LibrariesLoaded)) /\ WF_vars(Alive(ServiceBound)) /\ WF_vars(Alive(StageDone))
    /\ \A r \in UsbRadios : WF_vars(Alive(InitEnds(r)))
FairSpec == Spec /\ Fairness

-----------------------------------------------------------------------------
(* Types                                                                   *)

\* The type invariant.
TypeOK ==
    /\ front \in Screens \cup {"Elsewhere"}
    /\ resumed \in BOOLEAN /\ bound \in BOOLEAN
    /\ view \in [Screens -> Views]
    /\ timers \in [Screens -> Nat]
    /\ storing \in [DeviceScreens -> {"none", "stay", "scan", "window"}]
    /\ list \in [Screens -> {"none", "interfaces", "devices"}]
    /\ internal \in BOOLEAN
    /\ state \in {"IDLE", "SNAPSHOT"}
    /\ scansLeft \in Nat /\ series \in Nat /\ taken \in Nat
    /\ system \in {"INITIALIZING", "loaded", "IDLE"}
    /\ settings \in BOOLEAN
    /\ inits \in [UsbRadios -> {"none", "queued", "reset", "done"}]
    /\ bcast \in Seq(Messages)
    /\ sm \in {"IDLE"} \cup Stages
    /\ working \in Screens \cup {"none"} /\ (working = "none" <=> sm = "IDLE")
    /\ crashed \in BOOLEAN /\ cut \in BOOLEAN
    /\ asked \in 0..MaxRequests

-----------------------------------------------------------------------------
(* Safety                                                                  *)

\* ScanManager loses a request that comes while it works (ScanManager.java:110)
\* and the screen is not told.  As long as no dialog has let the user go before
\* his scan was over, none comes: also the requests of a series, which
\* Measurements sends on hearing of the snapshot of the last, find it IDLE.
RequestsFindIdle ==
    ~cut /\ Arrives("request") => sm = "IDLE"

\* The rows the user can tick are the devices that saving marks, and a screen
\* that hears of another's scan is not surprised (YourDevices.java:161, 448),
\* as long as no dialog has let him go too early.
NoSurprises ==
    ~cut =>
        /\ ~crashed
        /\ \A s \in DeviceScreens : Usable(s) /\ storing[s] = "none" => list[s] = "devices"

\* A series is over when each of its snapshots has been taken, of a scan of its
\* own, and not earlier (Measurements.java:246).
SeriesComplete ==
    [][state = "SNAPSHOT" /\ state' = "IDLE" /\ front' = "Measurements" /\ ~cut' => taken' = series]_vars

\* Something is under way that will take the dialog off the screen.  When
\* MainInterface is bound again it dismisses what is left.
Hope(s) ==
    \/ timers[s] > 0
    \/ \E i \in 1..Len(bcast) : bcast[i] = Request(s)
    \/ s \in DeviceScreens /\ storing[s] # "none"
    \/ s # "Measurements" /\ (sm # "IDLE" \/ InTransit("INTERFACES") \/ InTransit("DEVICES"))
    \/ s = "Measurements" /\ state = "SNAPSHOT" /\ (sm = "SCANNING" \/ InTransit("snapshot"))
    \/ s = "MainInterface" /\ \/ ~bound \/ system # "IDLE" \/ InTransit("cancel")
                              \/ \E r \in UsbRadios : inits[r] \in {"queued", "reset"}

\* The dialogs on a screen that nothing will take off it: the one _pd refers to
\* without hope, and those another was shown over (MainInterface.java:89).
Stranded(s) == view[s].orphans \cup IF view[s].up /\ ~Hope(s) THEN {view[s].pd} ELSE {}

\* A dialog comes to stay on a screen in one of four ways only: the user was in
\* another application when the answer came; ScanManager was not there yet when
\* the request did; it was busy, which a screen that waits for a response
\* survives, and which takes a dialog that went too early; or, on MainInterface,
\* a radio or the service that is bound again had another dialog shown over it.
WaitsInVain ==
    [][\A s \in Screens : \A d \in Stranded(s)' \ Stranded(s) :
           \/ ~Registered(s)
           \/ Arrives("request") /\ From = s /\ system # "IDLE"
           \/ s = "Measurements" /\ cut
           \/ s = "MainInterface" /\ view[s].up /\ d = view[s].pd /\ (DeliverShow \/ ServiceBound)]_vars

-----------------------------------------------------------------------------
(* Liveness                                                                *)

Waits(s) == Registered(s) /\ view[s].up /\ Hope(s)

\* The dialog _pd refers to, of a screen that stays in front, is dismissed, unless
\* it comes to stay in one of those ways.
WaitsEnd == []<>(crashed \/ \A s \in Screens : ~Waits(s))

=============================================================================
