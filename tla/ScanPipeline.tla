---------------------------- MODULE ScanPipeline ----------------------------
(***************************************************************************)
(* The scan pipeline of the background service.  A screen broadcasts a     *)
(* SCAN_REQUEST; ScanManager walks it through hardware scanning, name      *)
(* resolution, interface merging and device filtering, and broadcasts a    *)
(* SCAN_RESPONSE.  Every stage is a manager that runs a chain of           *)
(* AsyncTasks and talks to the others by broadcasts only.                  *)
(*                                                                         *)
(* All onReceive and onPostExecute code runs on the main thread, one       *)
(* callback at a time: an action is one callback.  Broadcasts arrive in    *)
(* the order they were sent.  AsyncTask.execute (targetSdkVersion 16) runs *)
(* the tasks of the whole process one after the other, in the order they   *)
(* were submitted; finished tasks wait for the main thread.                *)
(***************************************************************************)
EXTENDS Integers, Sequences, FiniteSets

CONSTANTS
    MaxRequests,   \* bound on the SCAN_REQUESTs the screens send
    MaxPolls,      \* bound on the polls of the USB bus
    Profiles,      \* the flag combinations the screens put in a request
    AlwaysOn       \* radios the environment never disconnects

Flags == [doNameResolution : BOOLEAN, doMerging : BOOLEAN, doFiltering : BOOLEAN]

Radios == {"Wifi", "ZigBee", "Bluetooth", "LAN"}
UsbRadios == {"Wifi", "ZigBee"}

ASSUME MaxRequestsAssumption == MaxRequests \in Nat
ASSUME MaxPollsAssumption == MaxPolls \in Nat
ASSUME ProfilesAssumption == Profiles \subseteq Flags
ASSUME AlwaysOnAssumption == AlwaysOn \subseteq Radios \ UsbRadios

(* The three managers that run a chain of steps are named by the state     *)
(* ScanManager is in while it waits for them.                              *)
Managers == {"NAME_RESOLUTION", "INTERFACE_MERGING", "DEVICE_FILTERING"}

\* Each manager pushes its classes on a stack: these are the orders they pop.
Resolvers == <<"OUI", "DNSHostName", "SSDP", "Zeroconf">>
Heuristics == <<"APGatewayInterface", "ThisPhone", "SameMAC", "AdjacentMACs",
                "SimilarInterfaceNames">>
Filters == <<"NotOnWifiNetwork">>

Chain(m) == CASE m = "NAME_RESOLUTION"   -> Resolvers
              [] m = "INTERFACE_MERGING" -> Heuristics
              [] m = "DEVICE_FILTERING"  -> Filters

Elements(s) == {s[i] : i \in 1..Len(s)}
Steps == UNION {Elements(Chain(m)) : m \in Managers}

VARIABLES
    bcast,           \* broadcasts sent and not yet delivered
    jobs,            \* AsyncTasks submitted whose onPostExecute has not run
    ran,             \* how many of them have finished doInBackground
    sm,              \* ScanManager._state
    working,         \* ScanManager._workingRequest
    ism,             \* InterfaceScanManager._state
    scanQueue,       \* InterfaceScanManager._scanQueue
    pendingResults,  \* InterfaceScanManager._pendingResults
    found,           \* radios whose interfaces are in _interfaceScanResults
    radio,           \* InternalRadio._state
    connected,       \* radios for which isConnected() holds
    initialized,     \* history: USB radios with an init task finished since they were plugged in
    replugged,       \* history: USB radios plugged in since the interface scan was requested
    mgr,             \* _state of each of the three managers
    stack,           \* _nameResolverQueue, _heuristicQueue, _filterQueue
    pending,         \* _pendingResults of each of the three managers
    outcome,         \* history: what became of each request
    polls            \* number of USB polls so far

smVars    == <<sm, working, outcome>>
ismVars   == <<ism, scanQueue, pendingResults, found>>
radioVars == <<radio, connected, initialized, replugged>>
mgrVars   == <<mgr, stack, pending>>
taskVars  == <<jobs, ran>>
vars == <<bcast, taskVars, smVars, ismVars, radioVars, mgrVars, polls>>

-----------------------------------------------------------------------------
(* Broadcasts and tasks                                                    *)

Ids == 1..MaxRequests
Requests == [id : Ids, flags : Profiles]
NoRequest == [id |-> 0, flags |-> [doNameResolution |-> FALSE, doMerging |-> FALSE,
                                   doFiltering |-> FALSE]]

\* What travels down the pipeline: the radios whose interfaces it holds and
\* the resolvers, heuristics and filters that have processed it.
Payload == [radios : SUBSET Radios, steps : Seq(Steps)]

SCAN_REQUEST(req) == [stage |-> "CLIENT", act |-> "request", body |-> req]
\* "to" is history: the broadcast does not name the request it answers.
SCAN_RESPONSE(type, payload) ==
    [stage |-> "CLIENT", act |-> "response",
     body |-> [type |-> type, radios |-> payload.radios, steps |-> payload.steps, to |-> working]]
SNAPSHOT_DATA(payload) ==
    [stage |-> "CLIENT", act |-> "snapshot", body |-> [radios |-> payload.radios, name |-> working.id]]
USBMON_DEVICELIST(devices) == [stage |-> "CLIENT", act |-> "usb", body |-> devices]

INTERFACE_SCAN_REQUEST == [stage |-> "SCANNING", act |-> "request", body |-> {}]
HW_SCAN_RESULT(r) == [stage |-> "SCANNING", act |-> "step", body |-> r]
INTERFACE_SCAN_RESULT(radios) ==
    [stage |-> "SCANNING", act |-> "response", body |-> [radios |-> radios, steps |-> <<>>]]

StageRequest(m, payload)  == [stage |-> m, act |-> "request", body |-> payload]
StageResponse(m, payload) == [stage |-> m, act |-> "response", body |-> payload]
StepResponse(m, s, payload) ==
    [stage |-> m, act |-> "step", body |-> [step |-> s, payload |-> payload]]

ScannerTask(r) == [stage |-> "SCANNING", step |-> r, body |-> {}]
InitTask(r) == [stage |-> "INIT", step |-> r, body |-> {}]
StepTask(m, s, payload) == [stage |-> m, step |-> s, body |-> payload]

\* The main thread delivers the oldest broadcast; its receiver sends more.
Arrives(stage, act) ==
    /\ bcast # <<>>
    /\ Head(bcast).stage = stage
    /\ Head(bcast).act = act
Reply(sent) == bcast' = Tail(bcast) \o sent
Body == Head(bcast).body

\* The states in which a receiver's switch has a case for the broadcast.
Awaited(msg) ==
    CASE msg.stage = "CLIENT"   -> msg.act = "request" => sm = "IDLE"
      [] msg.stage = "SCANNING" -> /\ msg.act = "request" => ism = "IDLE"
                                   /\ msg.act = "step" => ism = "SCANNING"
      [] msg.stage \in Managers -> /\ msg.act = "request" => mgr[msg.stage] = "IDLE"
                                   /\ msg.act = "step" => mgr[msg.stage] = "BUSY"
                                   /\ msg.act = "response" => sm = msg.stage

\* In every other state the broadcast is lost, a scan request too.
Ignore ==
    /\ bcast # <<>>
    /\ ~Awaited(Head(bcast))
    /\ bcast' = Tail(bcast)
    /\ outcome' = IF Head(bcast).stage = "CLIENT"
                  THEN [outcome EXCEPT ![Body.id] = "dropped"] ELSE outcome
    /\ UNCHANGED <<taskVars, sm, working, ismVars, radioVars, mgrVars, polls>>

-----------------------------------------------------------------------------
(* Screens and the environment                                             *)

Issued == {i \in Ids : outcome[i] # "none"}

\* ScanRequest.send: a screen asks for a scan.
Send(p) ==
    /\ Cardinality(Issued) < MaxRequests
    /\ LET id == Cardinality(Issued) + 1
       IN  /\ outcome' = [outcome EXCEPT ![id] = "sent"]
           /\ bcast' = Append(bcast, SCAN_REQUEST([id |-> id, flags |-> p]))
    /\ UNCHANGED <<taskVars, sm, working, ismVars, radioVars, mgrVars, polls>>

\* A screen receives a response or a snapshot.
ScreenReceives ==
    /\ Arrives("CLIENT", "response") \/ Arrives("CLIENT", "snapshot")
    /\ Reply(<<>>)
    /\ UNCHANGED <<taskVars, smVars, ismVars, radioVars, mgrVars, polls>>

\* USBMon.usbPoll, on a timer thread: broadcast the devices on the bus.
UsbPoll(devices) ==
    /\ polls < MaxPolls
    /\ polls' = polls + 1
    /\ bcast' = Append(bcast, USBMON_DEVICELIST(devices))
    /\ UNCHANGED <<taskVars, smVars, ismVars, radioVars, mgrVars>>

\* A radio that was missing at the last poll is hardware nobody has initialized.
PluggedIn ==
    /\ connected' = (connected \ UsbRadios) \cup Body
    /\ initialized' = initialized \ (Body \ connected)
    /\ replugged' = replugged \cup (Body \ connected)

\* Mutation: connected() forgets ZigBee's init task.
UsbUpdateNoZigBeeInit ==
    /\ Arrives("CLIENT", "usb")
    /\ Reply(<<>>)
    /\ jobs' = jobs \o IF "Wifi" \in Body \ connected THEN <<InitTask("Wifi")>> ELSE <<>>
    /\ PluggedIn
    /\ UNCHANGED <<ran, smVars, ismVars, radio, mgrVars, polls>>

\* The usbUpdate receivers of Wifi and ZigBee, in the order they registered:
\* a newly listed radio is connected() and its init task submitted, a missing
\* one is disconnected().
UsbUpdate ==
    /\ Arrives("CLIENT", "usb")
    /\ Reply(<<>>)
    /\ LET Init(r) == IF r \in Body \ connected THEN <<InitTask(r)>> ELSE <<>>
       IN  jobs' = jobs \o Init("Wifi") \o Init("ZigBee")
    /\ PluggedIn
    /\ UNCHANGED <<ran, smVars, ismVars, radio, mgrVars, polls>>

\* The user switches Bluetooth, or the phone joins or leaves the home network:
\* isConnected of these two reads the platform.
ToggleBuiltIn(r) ==
    /\ r \in Radios \ (UsbRadios \cup AlwaysOn)
    /\ connected' = IF r \in connected THEN connected \ {r} ELSE connected \cup {r}
    /\ UNCHANGED <<bcast, taskVars, smVars, ismVars, radio, initialized, replugged, mgrVars, polls>>

-----------------------------------------------------------------------------
(* AsyncTasks                                                              *)

\* The serial executor finishes doInBackground of the oldest unfinished task.
RunTask ==
    /\ ran < Len(jobs)
    /\ ran' = ran + 1
    /\ initialized' = IF jobs[ran + 1].stage = "INIT"
                      THEN initialized \cup {jobs[ran + 1].step} ELSE initialized
    /\ UNCHANGED <<bcast, jobs, smVars, ismVars, radio, connected, replugged, mgrVars, polls>>

\* onPostExecute of the oldest finished task, which belongs to the stage.
PostExecute(stage, sent) ==
    /\ ran > 0
    /\ Head(jobs).stage = stage
    /\ jobs' = Tail(jobs)
    /\ ran' = ran - 1
    /\ bcast' = bcast \o sent

\* InterfaceScanner.onPostExecute: the radio is IDLE again, the result is out.
ScannerDone ==
    /\ PostExecute("SCANNING", <<HW_SCAN_RESULT(Head(jobs).step)>>)
    /\ radio' = [radio EXCEPT ![Head(jobs).step] = "IDLE"]
    /\ UNCHANGED <<smVars, ismVars, connected, initialized, replugged, mgrVars, polls>>

\* onPostExecute of NameResolver, MergeHeuristic and DeviceFilter.
StepDone(m) ==
    /\ LET task == Head(jobs)
       IN  PostExecute(m, <<StepResponse(m, task.step,
               [task.body EXCEPT !.steps = Append(@, task.step)])>>)
    /\ UNCHANGED <<smVars, ismVars, radioVars, mgrVars, polls>>

\* WifiInit and ZigBeeInit only dismiss their dialog.
InitDone ==
    /\ PostExecute("INIT", <<>>)
    /\ UNCHANGED <<smVars, ismVars, radioVars, mgrVars, polls>>

-----------------------------------------------------------------------------
(* ScanManager                                                             *)

AcceptRequest ==
    /\ sm = "IDLE"
    /\ Arrives("CLIENT", "request")
    /\ Reply(<<INTERFACE_SCAN_REQUEST>>)
    /\ working' = Body
    /\ sm' = "SCANNING"
    /\ outcome' = [outcome EXCEPT ![Body.id] = "accepted"]
    /\ UNCHANGED <<taskVars, ismVars, radioVars, mgrVars, polls>>

\* broadcastResults and back to IDLE.
Answered == outcome' = [outcome EXCEPT ![working.id] = "answered"]

\* A snapshot of every interface scan is handed to a thread that stores it, and
\* broadcast, whatever the state; then the scan's results are answered or passed
\* on.  The snapshot tables themselves are not part of this module.
ScanFinished ==
    /\ Arrives("SCANNING", "response")
    /\ Reply(<<SNAPSHOT_DATA(Body)>> \o
           IF sm # "SCANNING" THEN <<>>
           ELSE IF working.flags.doNameResolution
                THEN <<StageRequest("NAME_RESOLUTION", Body)>>
                ELSE <<SCAN_RESPONSE("INTERFACES", Body)>>)
    /\ IF sm # "SCANNING" THEN UNCHANGED <<sm, outcome>>
       ELSE IF working.flags.doNameResolution
            THEN sm' = "NAME_RESOLUTION" /\ UNCHANGED outcome
            ELSE sm' = "IDLE" /\ Answered
    /\ UNCHANGED <<taskVars, working, ismVars, radioVars, mgrVars, polls>>

\* Mutation: the filtering flag decides about merging.
ResolutionFinishedWrongFlag ==
    /\ sm = "NAME_RESOLUTION"
    /\ Arrives("NAME_RESOLUTION", "response")
    /\ Reply(IF working.flags.doFiltering
             THEN <<StageRequest("INTERFACE_MERGING", Body)>>
             ELSE <<SCAN_RESPONSE("INTERFACES", Body)>>)
    /\ IF working.flags.doFiltering
       THEN sm' = "INTERFACE_MERGING" /\ UNCHANGED outcome
       ELSE sm' = "IDLE" /\ Answered
    /\ UNCHANGED <<taskVars, working, ismVars, radioVars, mgrVars, polls>>

ResolutionFinished ==
    /\ sm = "NAME_RESOLUTION"
    /\ Arrives("NAME_RESOLUTION", "response")
    /\ Reply(IF working.flags.doMerging
             THEN <<StageRequest("INTERFACE_MERGING", Body)>>
             ELSE <<SCAN_RESPONSE("INTERFACES", Body)>>)
    /\ IF working.flags.doMerging
       THEN sm' = "INTERFACE_MERGING" /\ UNCHANGED outcome
       ELSE sm' = "IDLE" /\ Answered
    /\ UNCHANGED <<taskVars, working, ismVars, radioVars, mgrVars, polls>>

MergingFinished ==
    /\ sm = "INTERFACE_MERGING"
    /\ Arrives("INTERFACE_MERGING", "response")
    /\ Reply(IF working.flags.doFiltering
             THEN <<StageRequest("DEVICE_FILTERING", Body)>>
             ELSE <<SCAN_RESPONSE("DEVICES", Body)>>)
    /\ IF working.flags.doFiltering
       THEN sm' = "DEVICE_FILTERING" /\ UNCHANGED outcome
       ELSE sm' = "IDLE" /\ Answered
    /\ UNCHANGED <<taskVars, working, ismVars, radioVars, mgrVars, polls>>

\* Mutation: ScanManager does not return to IDLE.
FilteringFinishedStaysBusy ==
    /\ sm = "DEVICE_FILTERING"
    /\ Arrives("DEVICE_FILTERING", "response")
    /\ Reply(<<SCAN_RESPONSE("DEVICES", Body)>>)
    /\ Answered
    /\ UNCHANGED <<taskVars, sm, working, ismVars, radioVars, mgrVars, polls>>

\* updateDevices runs before the answer is sent; what it does to the database is
\* the module DeviceStore.
FilteringFinished ==
    /\ sm = "DEVICE_FILTERING"
    /\ Arrives("DEVICE_FILTERING", "response")
    /\ Reply(<<SCAN_RESPONSE("DEVICES", Body)>>)
    /\ sm' = "IDLE"
    /\ Answered
    /\ UNCHANGED <<taskVars, working, ismVars, radioVars, mgrVars, polls>>

-----------------------------------------------------------------------------
(* InterfaceScanManager                                                    *)

\* triggerNextInterfaceScan takes the head of the queue, and Bluetooth too
\* when it comes right behind.
Triggered(q) ==
    SubSeq(q, 1, IF q = <<>> THEN 0
                 ELSE IF Len(q) > 1 /\ q[2] = "Bluetooth" THEN 2 ELSE 1)

\* startDeviceScan on each: only an IDLE radio gets a scanner, and the caller
\* does not look at the result.
StartScan(r) == IF radio[r] = "IDLE" THEN <<ScannerTask(r)>> ELSE <<>>
\* Mutation: Bluetooth leaves the queue without being started.
StartScansFirstOnly(t) == IF t = <<>> THEN <<>> ELSE StartScan(t[1])
StartScans(t) == CASE Len(t) = 0 -> <<>>
                   [] Len(t) = 1 -> StartScan(t[1])
                   [] Len(t) = 2 -> StartScan(t[1]) \o StartScan(t[2])

TriggerNextInterfaceScan(q) ==
    LET t == Triggered(q)
    IN  /\ scanQueue' = SubSeq(q, Len(t) + 1, Len(q))
        /\ jobs' = jobs \o StartScans(t)
        /\ radio' = [r \in Radios |-> IF r \in Elements(t) THEN "SCANNING" ELSE radio[r]]

\* The connected radios, in the order of _internalRadios.
Only(r) == IF r \in connected THEN <<r>> ELSE <<>>
ConnectedRadios == Only("Wifi") \o Only("ZigBee") \o Only("Bluetooth") \o Only("LAN")

InterfaceScanRequested ==
    /\ ism = "IDLE"
    /\ Arrives("SCANNING", "request")
    /\ Reply(<<>>)
    /\ found' = {}
    /\ pendingResults' = connected
    /\ TriggerNextInterfaceScan(ConnectedRadios)
    /\ ism' = "SCANNING"
    /\ replugged' = {}
    /\ UNCHANGED <<ran, smVars, connected, initialized, mgrVars, polls>>

\* Mutation: the scan ends with the queue, not with the last result.
HardwareScanFinishedEarly ==
    /\ ism = "SCANNING"
    /\ Arrives("SCANNING", "step")
    /\ pendingResults' = pendingResults \ {Body}
    /\ found' = found \cup {Body}
    /\ Reply(IF scanQueue = <<>> THEN <<INTERFACE_SCAN_RESULT(found')>> ELSE <<>>)
    /\ ism' = IF scanQueue = <<>> THEN "IDLE" ELSE "SCANNING"
    /\ TriggerNextInterfaceScan(scanQueue)
    /\ UNCHANGED <<ran, smVars, connected, initialized, replugged, mgrVars, polls>>

\* Mutation: radios that were unplugged meanwhile are no longer awaited.
HardwareScanFinishedConnectedOnly ==
    /\ ism = "SCANNING"
    /\ Arrives("SCANNING", "step")
    /\ LET left == (pendingResults \ {Body}) \cap connected
       IN  /\ pendingResults' = left
           /\ found' = found \cup {Body}
           /\ Reply(IF left = {} THEN <<INTERFACE_SCAN_RESULT(found')>> ELSE <<>>)
           /\ ism' = IF left = {} THEN "IDLE" ELSE "SCANNING"
    /\ TriggerNextInterfaceScan(scanQueue)
    /\ UNCHANGED <<ran, smVars, connected, initialized, replugged, mgrVars, polls>>

HardwareScanFinished ==
    /\ ism = "SCANNING"
    /\ Arrives("SCANNING", "step")
    /\ LET left == pendingResults \ {Body}
       IN  /\ pendingResults' = left
           /\ found' = found \cup {Body}
           /\ Reply(IF left = {} THEN <<INTERFACE_SCAN_RESULT(found')>> ELSE <<>>)
           /\ ism' = IF left = {} THEN "IDLE" ELSE "SCANNING"
    /\ TriggerNextInterfaceScan(scanQueue)
    /\ UNCHANGED <<ran, smVars, connected, initialized, replugged, mgrVars, polls>>

-----------------------------------------------------------------------------
(* NameResolutionManager, InterfaceMergingManager, DeviceFilteringManager  *)

\* triggerNext...: pop a class off the stack, if there is one, and execute it.
TriggerNext(m, st, payload) ==
    /\ stack' = [stack EXCEPT ![m] = IF st = <<>> THEN <<>> ELSE Tail(st)]
    /\ jobs' = IF st = <<>> THEN jobs ELSE Append(jobs, StepTask(m, Head(st), payload))

StageRequested(m) ==
    /\ mgr[m] = "IDLE"
    /\ Arrives(m, "request")
    /\ Reply(<<>>)
    /\ mgr' = [mgr EXCEPT ![m] = "BUSY"]
    /\ pending' = [pending EXCEPT ![m] = Elements(Chain(m))]
    /\ TriggerNext(m, Chain(m), Body)
    /\ UNCHANGED <<ran, smVars, ismVars, radioVars, polls>>

StepFinished(m) ==
    /\ mgr[m] = "BUSY"
    /\ Arrives(m, "step")
    /\ LET left == pending[m] \ {Body.step}
       IN  /\ pending' = [pending EXCEPT ![m] = left]
           /\ Reply(IF left = {} THEN <<StageResponse(m, Body.payload)>> ELSE <<>>)
           /\ mgr' = [mgr EXCEPT ![m] = IF left = {} THEN "IDLE" ELSE "BUSY"]
    /\ TriggerNext(m, stack[m], Body.payload)
    /\ UNCHANGED <<ran, smVars, ismVars, radioVars, polls>>

ResolutionRequested == StageRequested("NAME_RESOLUTION")
ResolverFinished    == StepFinished("NAME_RESOLUTION")
ResolverDone        == StepDone("NAME_RESOLUTION")
MergeRequested      == StageRequested("INTERFACE_MERGING")
HeuristicFinished   == StepFinished("INTERFACE_MERGING")
HeuristicDone       == StepDone("INTERFACE_MERGING")
FilteringRequested  == StageRequested("DEVICE_FILTERING")
FilterFinished      == StepFinished("DEVICE_FILTERING")
FilterDone          == StepDone("DEVICE_FILTERING")

-----------------------------------------------------------------------------
Init ==
    /\ bcast = <<>>
    /\ jobs = <<>> /\ ran = 0
    /\ sm = "IDLE" /\ working = NoRequest
    /\ outcome = [i \in Ids |-> "none"]
    /\ ism = "IDLE" /\ scanQueue = <<>> /\ pendingResults = {} /\ found = {}
    /\ radio = [r \in Radios |-> "IDLE"]
    /\ connected \in {on \in SUBSET (Radios \ UsbRadios) : AlwaysOn \subseteq on}
    /\ initialized = {} /\ replugged = {}
    /\ mgr = [m \in Managers |-> "IDLE"]
    /\ stack = [m \in Managers |-> <<>>]
    /\ pending = [m \in Managers |-> {}]
    /\ polls = 0

Environment ==
    \/ \E p \in Profiles : Send(p)
    \/ \E devices \in SUBSET UsbRadios : UsbPoll(devices)
    \/ \E r \in Radios : ToggleBuiltIn(r)

\* Everything the main thread does: a broadcast or an onPostExecute.
Receive ==
    \/ AcceptRequest \/ Ignore \/ ScreenReceives \/ UsbUpdate
    \/ InterfaceScanRequested \/ HardwareScanFinished \/ ScanFinished
    \/ ResolutionRequested \/ ResolverFinished \/ ResolutionFinished
    \/ MergeRequested \/ HeuristicFinished \/ MergingFinished
    \/ FilteringRequested \/ FilterFinished \/ FilteringFinished
TaskDone == ScannerDone \/ InitDone \/ ResolverDone \/ HeuristicDone \/ FilterDone

Next == Environment \/ RunTask \/ Receive \/ TaskDone
Spec == Init /\ [][Next]_vars

\* Tasks whose doInBackground waits for hardware: BluetoothScanner for the ends of
\* two discoveries (BluetoothScanner.java:51), which do not come when Bluetooth has
\* been switched off, and ZigBee's init task and scanner for bytes from the serial
\* line (ZigBee.java:113, ZigBeeScanner.java:79).
WaitsForHardware(task) ==
    \/ task.stage = "SCANNING" /\ task.step \in {"Bluetooth", "ZigBee"}
    \/ task.stage = "INIT" /\ task.step = "ZigBee"

\* The looper serves both kinds of callbacks; every other task ends by itself.
Fairness ==
    /\ WF_vars(Receive) /\ WF_vars(TaskDone)
    /\ WF_vars(RunTask /\ ~WaitsForHardware(jobs[ran + 1]))

\* What the code does not see to: no task waits for hardware for ever.
HardwareAnswers == WF_vars(RunTask)

FairSpec == Spec /\ Fairness

-----------------------------------------------------------------------------
(* Types                                                                   *)

Answers == [type : {"INTERFACES", "DEVICES"}, radios : SUBSET Radios,
            steps : Seq(Steps), to : Requests]
Messages ==
    [stage : {"CLIENT"}, act : {"request"}, body : Requests]
      \cup [stage : {"CLIENT"}, act : {"response"}, body : Answers]
      \cup [stage : {"CLIENT"}, act : {"snapshot"}, body : [radios : SUBSET Radios, name : Ids]]
      \cup [stage : {"CLIENT"}, act : {"usb"}, body : SUBSET UsbRadios]
      \cup [stage : {"SCANNING"}, act : {"request"}, body : {{}}]
      \cup [stage : {"SCANNING"}, act : {"step"}, body : Radios]
      \cup [stage : {"SCANNING"}, act : {"response"}, body : Payload]
      \cup [stage : Managers, act : {"request", "response"}, body : Payload]
      \cup [stage : Managers, act : {"step"}, body : [step : Steps, payload : Payload]]
Tasks ==
    [stage : {"SCANNING"}, step : Radios, body : {{}}]
      \cup [stage : {"INIT"}, step : UsbRadios, body : {{}}]
      \cup [stage : Managers, step : Steps, body : Payload]

\* The type invariant.
TypeOK ==
    /\ bcast \in Seq(Messages)
    /\ jobs \in Seq(Tasks)
    /\ ran \in 0..Len(jobs)
    /\ sm \in {"IDLE", "SCANNING"} \cup Managers
    /\ working \in Requests \cup {NoRequest}
    /\ sm # "IDLE" => working \in Requests
    /\ outcome \in [Ids -> {"none", "sent", "accepted", "dropped", "answered"}]
    /\ ism \in {"IDLE", "SCANNING"}
    /\ scanQueue \in Seq(Radios)
    /\ pendingResults \subseteq Radios
    /\ found \subseteq Radios
    /\ radio \in [Radios -> {"IDLE", "SCANNING"}]
    /\ connected \subseteq Radios
    /\ initialized \subseteq UsbRadios /\ replugged \subseteq UsbRadios
    /\ mgr \in [Managers -> {"IDLE", "BUSY"}]
    /\ stack \in [Managers -> Seq(Steps)]
    /\ pending \in [Managers -> SUBSET Steps]
    /\ polls \in 0..MaxPolls

-----------------------------------------------------------------------------
(* Safety                                                                  *)

\* Every broadcast in flight and every submitted task belongs to a screen, to
\* a radio's initialization or to the stage ScanManager is waiting for, and so
\* does every busy manager: an answered request leaves nothing behind, so the
\* next one cannot be handed results of the last (ScanManager.java:106).
StageOwnsWork ==
    /\ \A i \in 1..Len(bcast) : bcast[i].stage \in {"CLIENT", sm}
    /\ \A i \in 1..Len(jobs) : jobs[i].stage \in {"INIT", sm}
    /\ ism = "SCANNING" => sm = "SCANNING"
    /\ \A m \in Managers : mgr[m] = "BUSY" => sm = m

\* While ScanManager waits for a manager exactly one thing of that manager is
\* in flight: its request, the task or the reply of one step, or its response.
\* With none the pipeline would hang, with two a step would be applied to
\* results that another step is still working on.
OneStepInFlight ==
    \A m \in Managers :
        Cardinality({i \in 1..Len(bcast) : bcast[i].stage = m})
          + Cardinality({i \in 1..Len(jobs) : jobs[i].stage = m})
        = IF sm = m THEN 1 ELSE 0

IsScanner(task, r) == task.stage = "SCANNING" /\ task.step = r
IsScanResult(msg, r) == msg.stage = "SCANNING" /\ msg.act = "step" /\ msg.body = r

\* A radio whose result InterfaceScanManager still waits for is in exactly one
\* place: in the scan queue, with a scanner, or in a HW_SCAN_RESULT under way;
\* a radio it does not wait for is in none (InterfaceScanManager.java:97-105).
RadiosAccountedFor ==
    \A r \in Radios :
        Cardinality({i \in 1..Len(scanQueue) : scanQueue[i] = r})
          + Cardinality({i \in 1..Len(jobs) : IsScanner(jobs[i], r)})
          + Cardinality({i \in 1..Len(bcast) : IsScanResult(bcast[i], r)})
        = IF ism = "SCANNING" /\ r \in pendingResults THEN 1 ELSE 0

\* A USB radio counts as connected before its init task has run (Wifi.java:75,
\* ZigBee.java:58), yet no scanner starts on hardware that no init task has
\* touched since it was plugged in: one has finished, or is to run before the
\* scanner.  This does not hold for a radio that is plugged in again while a scan
\* goes on in which it has its place already: its scanner runs before the new
\* init task.
InitBeforeScan ==
    \A i \in (ran + 1)..Len(jobs) :
        jobs[i].stage = "SCANNING" /\ jobs[i].step \in UsbRadios \ (initialized \cup replugged)
            => \E j \in (ran + 1)..(i - 1) : jobs[j].stage = "INIT" /\ jobs[j].step = jobs[i].step

\* The steps a request asks for: merging needs names, filtering needs devices.
StepsFor(flags) ==
    IF ~flags.doNameResolution THEN <<>>
    ELSE IF ~flags.doMerging THEN Resolvers
    ELSE IF ~flags.doFiltering THEN Resolvers \o Heuristics
    ELSE Resolvers \o Heuristics \o Filters

\* A response has been through exactly the resolvers, heuristics and filters
\* that the request it answers asked for, in order and each once, and is of the
\* type those produce.
AnswerFitsRequest ==
    \A i \in 1..Len(bcast) :
        bcast[i].stage = "CLIENT" /\ bcast[i].act = "response" =>
            LET answer == bcast[i].body
                flags  == answer.to.flags
            IN  /\ answer.steps = StepsFor(flags)
                /\ answer.type = "DEVICES" <=> flags.doNameResolution /\ flags.doMerging

\* No step makes a running interface scan forget a radio: what was found or is
\* awaited stays found or awaited, also when a radio is unplugged meanwhile,
\* and the scan ends only when nothing is awaited.
NoRadioForgotten ==
    [][ism = "SCANNING" =>
        /\ found' \cup pendingResults' = found \cup pendingResults
        /\ ism' = "IDLE" => pendingResults' = {}]_vars

-----------------------------------------------------------------------------
(* Liveness                                                                *)

\* Every request a screen sends is eventually dropped or answered, provided a
\* radio is connected whenever a scan starts and none of the tasks that wait for
\* hardware waits for ever: they keep the one executor from everyone else.
RequestsSettle ==
    HardwareAnswers =>
        \A i \in Ids : outcome[i] = "sent" ~> outcome[i] \in {"dropped", "answered"}

\* InterfaceScanManager.java:119-120: "To trigger the next scan, we pull the
\* next device from the queue.  If there are no devices left, the scan is
\* complete."
NoDevicesLeftCompletes ==
    ism = "SCANNING" /\ scanQueue = <<>> /\ pendingResults = {} ~> ism = "IDLE"

=============================================================================
