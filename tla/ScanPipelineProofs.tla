------------------------- MODULE ScanPipelineProofs -------------------------
(***************************************************************************)
(* Theorems about ScanPipeline for every number of requests and polls and  *)
(* every set of request profiles.                                          *)
(*                                                                         *)
(* The types, StageOwnsWork and Work, which says what is in flight, are    *)
(* inductive together (IInv).  Three more invariants build on IInv: Ready, *)
(* the init tasks; Trail, what a payload has been through; Placed, where the*)
(* radios of a hardware scan are.  A fourth, Line, is what makes the       *)
(* pipeline an implementation of ScanService.                              *)
(***************************************************************************)
EXTENDS ScanPipeline, SequenceTheorems, FiniteSetTheorems, TLAPS

-----------------------------------------------------------------------------
(* The operators the model is built from                                   *)

LEMMA SeqOfElements ==
    ASSUME NEW S, NEW s \in Seq(S)
    PROVE  s \in Seq(Elements(s))
<1>1. Len(s) \in Nat /\ s \in [1..Len(s) -> S] /\ DOMAIN s = 1..Len(s)
  BY LenProperties
<1>2. s \in [1..Len(s) -> Elements(s)]
  BY <1>1 DEF Elements
<1>3. QED BY <1>1, <1>2

LEMMA SingletonSeq ==
    ASSUME NEW S, NEW e \in S
    PROVE  <<e>> \in Seq(S) /\ Len(<<e>>) = 1 /\ <<e>>[1] = e
OBVIOUS

(* What the proofs use of the chains of steps.                             *)
LEMMA ChainType ==
    ASSUME NEW m \in Managers
    PROVE  /\ Chain(m) \in Seq(Steps)
           /\ Chain(m) # <<>>
           /\ Elements(Chain(m)) \subseteq Steps
<1>1. Elements(Chain(m)) \subseteq Steps
  BY DEF Steps
<1>2. Resolvers \in Seq(Elements(Resolvers)) /\ Resolvers # <<>>
  <2>1. Resolvers \in Seq({"OUI", "DNSHostName", "SSDP", "Zeroconf"}) /\ Resolvers # <<>>
    BY DEF Resolvers
  <2>2. QED BY <2>1, SeqOfElements
<1>3. Heuristics \in Seq(Elements(Heuristics)) /\ Heuristics # <<>>
  <2>1. Heuristics \in Seq({"APGatewayInterface", "ThisPhone", "SameMAC", "AdjacentMACs",
                            "SimilarInterfaceNames"}) /\ Heuristics # <<>>
    BY DEF Heuristics
  <2>2. QED BY <2>1, SeqOfElements
<1>4. Filters \in Seq(Elements(Filters)) /\ Filters # <<>>
  <2>1. Filters \in Seq({"NotOnWifiNetwork"}) /\ Filters # <<>>
    BY DEF Filters
  <2>2. QED BY <2>1, SeqOfElements
<1>5. Chain(m) \in Seq(Elements(Chain(m))) /\ Chain(m) # <<>>
  BY <1>2, <1>3, <1>4, Zenon DEF Chain, Managers
<1>6. Chain(m) \in Seq(Steps)
  BY <1>1, <1>5, SeqMonotonic
<1>7. QED BY <1>1, <1>5, <1>6

LEMMA ConnectedRadiosType ==
    ASSUME connected \subseteq Radios
    PROVE  ConnectedRadios \in Seq(Radios)
<1>1. \A r \in Radios : Only(r) \in Seq(Radios)
  BY DEF Only
<1>2. QED BY <1>1 DEF ConnectedRadios, Radios

LEMMA TriggeredType ==
    ASSUME NEW q \in Seq(Radios)
    PROVE  /\ Triggered(q) \in Seq(Radios)
           /\ Len(Triggered(q)) \in 0..2
           /\ Len(Triggered(q)) <= Len(q)
           /\ \A i \in 1..Len(Triggered(q)) : Triggered(q)[i] = q[i]
           /\ q # <<>> => Len(Triggered(q)) > 0
<1> DEFINE n == IF q = <<>> THEN 0 ELSE IF Len(q) > 1 /\ q[2] = "Bluetooth" THEN 2 ELSE 1
<1>1. n \in 0..2 /\ n <= Len(q) /\ (q # <<>> => n > 0)
  OBVIOUS
<1>2. Triggered(q) = SubSeq(q, 1, n)
  BY DEF Triggered
<1> HIDE DEF n
<1>3. QED BY <1>1, <1>2

LEMMA StartScansType ==
    ASSUME NEW t \in Seq(Radios), Len(t) \in 0..2
    PROVE  StartScans(t) \in Seq(Tasks)
<1>1. ASSUME NEW r \in Radios PROVE StartScan(r) \in Seq(Tasks)
  <2>1. ScannerTask(r) \in Tasks
    BY DEF ScannerTask, Tasks
  <2>2. <<ScannerTask(r)>> \in Seq(Tasks)
    BY <2>1, SingletonSeq
  <2>3. QED BY <2>2, EmptySeq DEF StartScan
<1>2. CASE Len(t) = 0 BY <1>2, EmptySeq DEF StartScans
<1>3. CASE Len(t) = 1
  <2>1. 1 \in 1..Len(t) BY <1>3
  <2>2. t[1] \in Radios BY <2>1, ElementOfSeq
  <2>3. QED BY <2>2, <1>1, <1>3 DEF StartScans
<1>4. CASE Len(t) = 2
  <2>0. 1 \in 1..Len(t) /\ 2 \in 1..Len(t) BY <1>4
  <2>1. t[1] \in Radios /\ t[2] \in Radios BY <2>0, ElementOfSeq
  <2>2. StartScan(t[1]) \o StartScan(t[2]) \in Seq(Tasks)
    BY <2>1, <1>1, ConcatProperties
  <2>3. QED BY <2>2, <1>4 DEF StartScans
<1>5. QED BY <1>2, <1>3, <1>4

-----------------------------------------------------------------------------
(* Messages and tasks                                                      *)

LEMMA BodyType ==
    ASSUME NEW msg \in Messages
    PROVE  /\ msg.stage = "CLIENT" /\ msg.act = "request" => msg.body \in Requests
           /\ msg.stage = "CLIENT" /\ msg.act = "usb" => msg.body \in SUBSET UsbRadios
           /\ msg.stage = "SCANNING" /\ msg.act = "step" => msg.body \in Radios
           /\ msg.stage = "SCANNING" /\ msg.act = "response" => msg.body \in Payload
           /\ \A m \in Managers : msg.stage = m =>
                /\ msg.act \in {"request", "response"} => msg.body \in Payload
                /\ msg.act = "step" => /\ msg.body.step \in Steps
                                       /\ msg.body.payload \in Payload
BY DEF Messages, Managers

LEMMA TaskType ==
    ASSUME NEW task \in Tasks
    PROVE  /\ task.stage = "SCANNING" => task.step \in Radios
           /\ task.stage = "INIT" => task.step \in UsbRadios
           /\ \A m \in Managers : task.stage = m => task.step \in Steps /\ task.body \in Payload
BY DEF Tasks, Managers

LEMMA Delivered ==
    ASSUME bcast \in Seq(Messages), bcast # <<>>
    PROVE  Head(bcast) \in Messages /\ Tail(bcast) \in Seq(Messages)
BY HeadTailProperties

LEMMA ReplyType ==
    ASSUME bcast \in Seq(Messages), bcast # <<>>, NEW sent \in Seq(Messages), Reply(sent)
    PROVE  bcast' \in Seq(Messages)
BY Delivered, ConcatProperties DEF Reply

(* What a receiver or onPostExecute may send.                              *)
LEMMA SentType ==
    /\ <<INTERFACE_SCAN_REQUEST>> \in Seq(Messages)
    /\ \A req \in Requests : <<SCAN_REQUEST(req)>> \in Seq(Messages)
    /\ \A devices \in SUBSET UsbRadios : <<USBMON_DEVICELIST(devices)>> \in Seq(Messages)
    /\ \A r \in Radios : <<HW_SCAN_RESULT(r)>> \in Seq(Messages)
    /\ \A radios \in SUBSET Radios : <<INTERFACE_SCAN_RESULT(radios)>> \in Seq(Messages)
    /\ \A m \in Managers, payload \in Payload :
          /\ <<StageRequest(m, payload)>> \in Seq(Messages)
          /\ <<StageResponse(m, payload)>> \in Seq(Messages)
          /\ \A s \in Steps : <<StepResponse(m, s, payload)>> \in Seq(Messages)
    /\ <<>> \in Seq(Messages)
<1>1. INTERFACE_SCAN_REQUEST \in Messages
  BY DEF INTERFACE_SCAN_REQUEST, Messages
<1>2. \A req \in Requests : SCAN_REQUEST(req) \in Messages
  BY DEF SCAN_REQUEST, Messages
<1>3. \A devices \in SUBSET UsbRadios : USBMON_DEVICELIST(devices) \in Messages
  BY DEF USBMON_DEVICELIST, Messages
<1>4. \A r \in Radios : HW_SCAN_RESULT(r) \in Messages
  BY DEF HW_SCAN_RESULT, Messages
<1>5. ASSUME NEW radios \in SUBSET Radios PROVE INTERFACE_SCAN_RESULT(radios) \in Messages
  <2>1. [radios |-> radios, steps |-> <<>>] \in Payload
    BY EmptySeq DEF Payload
  <2>2. QED BY <2>1 DEF INTERFACE_SCAN_RESULT, Messages
<1>6. \A m \in Managers, payload \in Payload :
          /\ StageRequest(m, payload) \in Messages
          /\ StageResponse(m, payload) \in Messages
          /\ \A s \in Steps : StepResponse(m, s, payload) \in Messages
  BY DEF StageRequest, StageResponse, StepResponse, Messages
<1>7. QED BY <1>1, <1>2, <1>3, <1>4, <1>5, <1>6, SingletonSeq, EmptySeq

(* What ScanManager broadcasts while it works on a request.                *)
LEMMA AnswerType ==
    ASSUME working \in Requests, NEW payload \in Payload
    PROVE  \A type \in {"INTERFACES", "DEVICES"} :
                <<SCAN_RESPONSE(type, payload)>> \in Seq(Messages)
<1>1. \A type \in {"INTERFACES", "DEVICES"} : SCAN_RESPONSE(type, payload) \in Messages
  BY DEF SCAN_RESPONSE, Messages, Answers, Payload
<1>2. QED BY <1>1, SingletonSeq

LEMMA SnapshotType ==
    ASSUME working \in Requests, NEW payload \in Payload
    PROVE  <<SNAPSHOT_DATA(payload)>> \in Seq(Messages)
<1>1. SNAPSHOT_DATA(payload) \in Messages
  BY DEF SNAPSHOT_DATA, Messages, Payload, Requests
<1>2. QED BY <1>1, SingletonSeq

LEMMA PostExecuteType ==
    ASSUME jobs \in Seq(Tasks), ran \in 0..Len(jobs), bcast \in Seq(Messages),
           NEW stage, NEW sent \in Seq(Messages), PostExecute(stage, sent)
    PROVE  /\ jobs # <<>> /\ Head(jobs) \in Tasks
           /\ bcast' \in Seq(Messages) /\ jobs' \in Seq(Tasks) /\ ran' \in 0..Len(jobs')
<1>1. ran > 0 /\ Len(jobs) > 0
  BY DEF PostExecute
<1>2. jobs # <<>>
  BY <1>1
<1>3. Head(jobs) \in Tasks /\ Tail(jobs) \in Seq(Tasks) /\ Len(Tail(jobs)) = Len(jobs) - 1
  BY <1>2, HeadTailProperties
<1>4. bcast \o sent \in Seq(Messages)
  BY ConcatProperties
<1>5. QED BY <1>1, <1>2, <1>3, <1>4 DEF PostExecute

LEMMA TriggerScanType ==
    ASSUME NEW q \in Seq(Radios), jobs \in Seq(Tasks), ran \in 0..Len(jobs),
           radio \in [Radios -> {"IDLE", "SCANNING"}], TriggerNextInterfaceScan(q)
    PROVE  /\ scanQueue' \in Seq(Radios)
           /\ jobs' \in Seq(Tasks)
           /\ ran \in 0..Len(jobs')
           /\ radio' \in [Radios -> {"IDLE", "SCANNING"}]
<1> DEFINE t == Triggered(q)
<1>1. t \in Seq(Radios) /\ Len(t) \in 0..2
  BY TriggeredType
<1>2. StartScans(t) \in Seq(Tasks)
  BY <1>1, StartScansType
<1>3. jobs' = jobs \o StartScans(t) /\ scanQueue' = SubSeq(q, Len(t) + 1, Len(q))
  BY DEF TriggerNextInterfaceScan
<1>4. scanQueue' \in Seq(Radios)
  <2> HIDE DEF t
  <2>1. Len(t) + 1 \in Nat \ {0} /\ Len(q) \in Nat
    BY <1>1
  <2>2. \A i \in (Len(t) + 1)..Len(q) : q[i] \in Radios
    BY <2>1, ElementOfSeq
  <2>3. QED BY <1>3, <2>1, <2>2, SubSeqProperties
<1>5. jobs' \in Seq(Tasks) /\ Len(jobs') = Len(jobs) + Len(StartScans(t))
  BY <1>2, <1>3, ConcatProperties
<1>6. Len(StartScans(t)) \in Nat /\ Len(jobs) \in Nat
  BY <1>2, LenProperties
<1>7. ran \in 0..Len(jobs')
  BY <1>5, <1>6
<1>8. radio' \in [Radios -> {"IDLE", "SCANNING"}]
  BY DEF TriggerNextInterfaceScan
<1>9. QED BY <1>4, <1>5, <1>7, <1>8

LEMMA TriggerType ==
    ASSUME NEW m \in Managers, NEW st \in Seq(Steps), NEW payload \in Payload,
           jobs \in Seq(Tasks), ran \in 0..Len(jobs),
           stack \in [Managers -> Seq(Steps)], TriggerNext(m, st, payload)
    PROVE  /\ stack' \in [Managers -> Seq(Steps)]
           /\ jobs' \in Seq(Tasks)
           /\ ran \in 0..Len(jobs')
<1>1. CASE st = <<>>
  BY <1>1 DEF TriggerNext
<1>2. CASE st # <<>>
  <2>1. Head(st) \in Steps /\ Tail(st) \in Seq(Steps)
    BY <1>2, HeadTailProperties
  <2>2. StepTask(m, Head(st), payload) \in Tasks
    BY <2>1 DEF StepTask, Tasks
  <2>3. jobs' = Append(jobs, StepTask(m, Head(st), payload))
    BY <1>2 DEF TriggerNext
  <2>4. jobs' \in Seq(Tasks) /\ Len(jobs') = Len(jobs) + 1
    BY <2>2, <2>3, AppendProperties
  <2>5. stack' \in [Managers -> Seq(Steps)]
    BY <1>2, <2>1 DEF TriggerNext
  <2>6. QED BY <2>4, <2>5
<1>3. QED BY <1>1, <1>2

-----------------------------------------------------------------------------
(* Type correctness                                                        *)

LEMMA InitTypeOK == Init => TypeOK
<1> SUFFICES ASSUME Init PROVE TypeOK
  OBVIOUS
<1>1. bcast = <<>> /\ jobs = <<>> /\ ran = 0 /\ scanQueue = <<>>
  BY DEF Init
<1>2. \A S : <<>> \in Seq(S) /\ Len(<<>>) = 0
  BY EmptySeq
<1>3. bcast \in Seq(Messages) /\ jobs \in Seq(Tasks) /\ ran \in 0..Len(jobs)
      /\ scanQueue \in Seq(Radios)
  BY <1>1, <1>2
<1>4. stack \in [Managers -> Seq(Steps)]
  BY <1>2 DEF Init
<1>5. polls \in 0..MaxPolls
  BY MaxPollsAssumption DEF Init
<1>6. QED BY <1>3, <1>4, <1>5 DEF Init, TypeOK

(* A snapshot is named after the request being worked on, so that it has a *)
(* name rests on StageOwnsWork.                                            *)
LEMMA NextTypeOK == TypeOK /\ StageOwnsWork /\ [Next]_vars => TypeOK'
<1> SUFFICES ASSUME TypeOK, StageOwnsWork, [Next]_vars PROVE TypeOK'
  OBVIOUS
<1> USE DEF TypeOK
<1> USE DEF smVars, ismVars, radioVars, mgrVars, taskVars
<1>1. ASSUME NEW p \in Profiles, Send(p) PROVE TypeOK'
  <2> DEFINE id == Cardinality(Issued) + 1
             req == [id |-> id, flags |-> p]
  <2>1. IsFiniteSet(Issued)
    <3>1. IsFiniteSet(Ids) BY MaxRequestsAssumption, FS_Interval DEF Ids
    <3>2. QED BY <3>1, FS_Subset DEF Issued
  <2>2. id \in Ids
    BY <1>1, <2>1, FS_CardinalityType, MaxRequestsAssumption DEF Send, Ids
  <2>3. req \in Requests
    BY <2>2 DEF Requests
  <2>4. bcast' = Append(bcast, SCAN_REQUEST(req)) /\ outcome' = [outcome EXCEPT ![id] = "sent"]
    BY <1>1 DEF Send
  <2>5. SCAN_REQUEST(req) \in Messages
    BY <2>3 DEF SCAN_REQUEST, Messages
  <2>6. bcast' \in Seq(Messages)
    BY <2>4, <2>5, AppendProperties
  <2>7. QED BY <1>1, <2>2, <2>4, <2>6 DEF Send
<1>2. ASSUME NEW devices \in SUBSET UsbRadios, UsbPoll(devices) PROVE TypeOK'
  <2>1. USBMON_DEVICELIST(devices) \in Messages
    BY DEF USBMON_DEVICELIST, Messages
  <2>2. bcast' \in Seq(Messages)
    BY <1>2, <2>1, AppendProperties DEF UsbPoll
  <2>3. polls' \in 0..MaxPolls
    BY <1>2, MaxPollsAssumption DEF UsbPoll
  <2>4. QED BY <1>2, <2>2, <2>3 DEF UsbPoll
<1>3. ASSUME NEW r \in Radios, ToggleBuiltIn(r) PROVE TypeOK'
  BY <1>3 DEF ToggleBuiltIn
<1>4. CASE RunTask
  <2>1. ran + 1 \in 1..Len(jobs) /\ Len(jobs) \in Nat
    BY <1>4, LenProperties DEF RunTask
  <2>2. jobs[ran + 1] \in Tasks
    BY <2>1, ElementOfSeq
  <2>3. initialized' \subseteq UsbRadios
    BY <1>4, <2>2, TaskType DEF RunTask
  <2>4. QED BY <1>4, <2>1, <2>3 DEF RunTask
<1>5. CASE Ignore
  <2>1. bcast' \in Seq(Messages) /\ Head(bcast) \in Messages
    BY <1>5, Delivered DEF Ignore
  <2>2. Head(bcast).stage = "CLIENT" => Body \in Requests
    BY <1>5, <2>1, BodyType DEF Ignore, Awaited, Body, Managers
  <2>3. outcome' \in [Ids -> {"none", "sent", "accepted", "dropped", "answered"}]
    BY <1>5, <2>2 DEF Ignore, Requests
  <2>4. QED BY <1>5, <2>1, <2>3 DEF Ignore
<1>6. CASE ScreenReceives
  <2>1. bcast' \in Seq(Messages)
    BY <1>6, SentType, ReplyType DEF ScreenReceives, Arrives
  <2>2. QED BY <1>6, <2>1 DEF ScreenReceives
<1>7. CASE UsbUpdate
  <2>1. bcast' \in Seq(Messages)
    BY <1>7, SentType, ReplyType DEF UsbUpdate, Arrives
  <2>2. Body \subseteq UsbRadios
    BY <1>7, Delivered, BodyType DEF UsbUpdate, Arrives, Body
  <2> DEFINE I(r) == IF r \in Body \ connected THEN <<InitTask(r)>> ELSE <<>>
  <2>3. ASSUME NEW r \in UsbRadios PROVE I(r) \in Seq(Tasks)
    <3>1. InitTask(r) \in Tasks
      BY DEF InitTask, Tasks
    <3>2. QED BY <3>1, SingletonSeq, EmptySeq
  <2>4. jobs' = jobs \o I("Wifi") \o I("ZigBee")
    BY <1>7 DEF UsbUpdate
  <2>5. I("Wifi") \in Seq(Tasks) /\ I("ZigBee") \in Seq(Tasks)
    BY <2>3 DEF UsbRadios
  <2> HIDE DEF I
  <2>6. jobs \o I("Wifi") \in Seq(Tasks) /\ Len(jobs \o I("Wifi")) = Len(jobs) + Len(I("Wifi"))
    BY <2>5, ConcatProperties
  <2>7. jobs' \in Seq(Tasks) /\ Len(jobs') = Len(jobs) + Len(I("Wifi")) + Len(I("ZigBee"))
    BY <2>4, <2>5, <2>6, ConcatProperties
  <2>8. ran \in 0..Len(jobs')
    BY <2>5, <2>7, LenProperties
  <2>9. connected' \subseteq Radios
    BY <1>7, <2>2 DEF UsbUpdate, PluggedIn, UsbRadios, Radios
  <2>10. initialized' \subseteq UsbRadios /\ replugged' \subseteq UsbRadios
    BY <1>7, <2>2 DEF UsbUpdate, PluggedIn
  <2>11. QED BY <1>7, <2>1, <2>7, <2>8, <2>9, <2>10 DEF UsbUpdate
<1>8. CASE ScannerDone
  <2>1. ran > 0 /\ jobs # <<>>
    BY <1>8 DEF ScannerDone, PostExecute
  <2>2. Head(jobs).step \in Radios
    BY <1>8, <2>1, HeadTailProperties, TaskType DEF ScannerDone, PostExecute
  <2>3. bcast' \in Seq(Messages) /\ jobs' \in Seq(Tasks) /\ ran' \in 0..Len(jobs')
    BY <1>8, <2>2, SentType, PostExecuteType DEF ScannerDone
  <2>4. QED BY <1>8, <2>3 DEF ScannerDone
<1>9. CASE InitDone
  <2>1. bcast' \in Seq(Messages) /\ jobs' \in Seq(Tasks) /\ ran' \in 0..Len(jobs')
    BY <1>9, SentType, PostExecuteType DEF InitDone
  <2>2. QED BY <1>9, <2>1 DEF InitDone
<1>10. ASSUME NEW m \in Managers, StepDone(m) PROVE TypeOK'
  <2> DEFINE task == Head(jobs)
             payload == [task.body EXCEPT !.steps = Append(@, task.step)]
  <2>1. ran > 0 /\ jobs # <<>>
    BY <1>10 DEF StepDone, PostExecute
  <2>2. task.step \in Steps /\ task.body \in Payload
    BY <1>10, <2>1, HeadTailProperties, TaskType DEF StepDone, PostExecute
  <2>3. payload \in Payload
    BY <2>2, AppendProperties DEF Payload
  <2>4. <<StepResponse(m, task.step, payload)>> \in Seq(Messages)
    BY <2>2, <2>3, SentType
  <2>5. bcast' \in Seq(Messages) /\ jobs' \in Seq(Tasks) /\ ran' \in 0..Len(jobs')
    BY <1>10, <2>4, PostExecuteType DEF StepDone
  <2>6. QED BY <1>10, <2>5 DEF StepDone
<1>11. CASE AcceptRequest
  <2>1. bcast' \in Seq(Messages)
    BY <1>11, SentType, ReplyType DEF AcceptRequest, Arrives
  <2>2. Body \in Requests
    BY <1>11, Delivered, BodyType DEF AcceptRequest, Arrives, Body
  <2>3. QED BY <1>11, <2>1, <2>2 DEF AcceptRequest, Requests
<1>12. CASE ScanFinished
  <2>1. Body \in Payload
    BY <1>12, Delivered, BodyType DEF ScanFinished, Arrives, Body
  <2>2. sm = "SCANNING"
    <3>1. bcast # <<>> /\ Head(bcast).stage = "SCANNING"
      BY <1>12 DEF ScanFinished, Arrives
    <3>2. 1 \in 1..Len(bcast) /\ Head(bcast) = bcast[1]
      BY <3>1
    <3>3. bcast[1].stage \in {"CLIENT", sm}
      BY <3>2 DEF StageOwnsWork
    <3>4. QED BY <3>1, <3>2, <3>3
  <2>3. working \in Requests
    BY <2>2
  <2> DEFINE next == IF working.flags.doNameResolution
                     THEN <<StageRequest("NAME_RESOLUTION", Body)>>
                     ELSE <<SCAN_RESPONSE("INTERFACES", Body)>>
  <2>4. next \in Seq(Messages)
    BY <2>1, <2>3, SentType, AnswerType DEF Managers
  <2>5. <<SNAPSHOT_DATA(Body)>> \o next \in Seq(Messages)
    BY <2>1, <2>3, <2>4, SnapshotType, ConcatProperties
  <2>6. bcast' \in Seq(Messages)
    BY <1>12, <2>2, <2>5, ReplyType DEF ScanFinished, Arrives
  <2>7. QED BY <1>12, <2>2, <2>3, <2>6 DEF ScanFinished, Answered, Requests, Managers
<1>13. CASE ResolutionFinished
  <2>1. Body \in Payload /\ working \in Requests
    BY <1>13, Delivered, BodyType DEF ResolutionFinished, Arrives, Body, Managers
  <2>2. bcast' \in Seq(Messages)
    BY <1>13, <2>1, SentType, AnswerType, ReplyType DEF ResolutionFinished, Arrives, Managers
  <2>3. QED BY <1>13, <2>1, <2>2 DEF ResolutionFinished, Answered, Requests, Managers
<1>14. CASE MergingFinished
  <2>1. Body \in Payload /\ working \in Requests
    BY <1>14, Delivered, BodyType DEF MergingFinished, Arrives, Body, Managers
  <2>2. bcast' \in Seq(Messages)
    BY <1>14, <2>1, SentType, AnswerType, ReplyType DEF MergingFinished, Arrives, Managers
  <2>3. QED BY <1>14, <2>1, <2>2 DEF MergingFinished, Answered, Requests, Managers
<1>15. CASE FilteringFinished
  <2>1. Body \in Payload /\ working \in Requests
    BY <1>15, Delivered, BodyType DEF FilteringFinished, Arrives, Body, Managers
  <2>2. bcast' \in Seq(Messages)
    BY <1>15, <2>1, AnswerType, ReplyType DEF FilteringFinished, Arrives
  <2>3. QED BY <1>15, <2>1, <2>2 DEF FilteringFinished, Answered, Requests
<1>16. CASE InterfaceScanRequested
  <2>1. bcast' \in Seq(Messages)
    BY <1>16, SentType, ReplyType DEF InterfaceScanRequested, Arrives
  <2>2. ConnectedRadios \in Seq(Radios)
    BY ConnectedRadiosType
  <2>3. /\ scanQueue' \in Seq(Radios) /\ jobs' \in Seq(Tasks) /\ ran \in 0..Len(jobs')
        /\ radio' \in [Radios -> {"IDLE", "SCANNING"}]
    BY <1>16, <2>2, TriggerScanType DEF InterfaceScanRequested
  <2>4. QED BY <1>16, <2>1, <2>3 DEF InterfaceScanRequested
<1>17. CASE HardwareScanFinished
  <2>1. Body \in Radios
    BY <1>17, Delivered, BodyType DEF HardwareScanFinished, Arrives, Body
  <2>2. found' \subseteq Radios /\ pendingResults' \subseteq Radios
    BY <1>17, <2>1 DEF HardwareScanFinished
  <2>3. bcast' \in Seq(Messages)
    BY <1>17, <2>2, SentType, ReplyType DEF HardwareScanFinished, Arrives
  <2>4. /\ scanQueue' \in Seq(Radios) /\ jobs' \in Seq(Tasks) /\ ran \in 0..Len(jobs')
        /\ radio' \in [Radios -> {"IDLE", "SCANNING"}]
    BY <1>17, TriggerScanType DEF HardwareScanFinished
  <2>5. QED BY <1>17, <2>2, <2>3, <2>4 DEF HardwareScanFinished
<1>18. ASSUME NEW m \in Managers, StageRequested(m) PROVE TypeOK'
  <2>1. Body \in Payload
    BY <1>18, Delivered, BodyType DEF StageRequested, Arrives, Body
  <2>2. bcast' \in Seq(Messages)
    BY <1>18, SentType, ReplyType DEF StageRequested, Arrives
  <2>3. Chain(m) \in Seq(Steps) /\ Elements(Chain(m)) \subseteq Steps
    BY ChainType
  <2>4. stack' \in [Managers -> Seq(Steps)] /\ jobs' \in Seq(Tasks) /\ ran \in 0..Len(jobs')
    BY <1>18, <2>1, <2>3, TriggerType DEF StageRequested
  <2>5. QED BY <1>18, <2>2, <2>3, <2>4 DEF StageRequested
<1>19. ASSUME NEW m \in Managers, StepFinished(m) PROVE TypeOK'
  <2>1. Body.payload \in Payload
    BY <1>19, Delivered, BodyType DEF StepFinished, Arrives, Body
  <2>2. bcast' \in Seq(Messages)
    BY <1>19, <2>1, SentType, ReplyType DEF StepFinished, Arrives
  <2>3. stack' \in [Managers -> Seq(Steps)] /\ jobs' \in Seq(Tasks) /\ ran \in 0..Len(jobs')
    BY <1>19, <2>1, TriggerType DEF StepFinished
  <2>4. QED BY <1>19, <2>2, <2>3 DEF StepFinished
<1>20. CASE UNCHANGED vars
  BY <1>20 DEF vars
<1>21. QED
  BY <1>1, <1>2, <1>3, <1>4, <1>5, <1>6, <1>7, <1>8, <1>9, <1>10, <1>11, <1>12, <1>13, <1>14,
     <1>15, <1>16, <1>17, <1>18, <1>19, <1>20
  DEF Next, Environment, Receive, TaskDone, Managers, ResolutionRequested, ResolverFinished,
      ResolverDone, MergeRequested, HeuristicFinished, HeuristicDone, FilteringRequested,
      FilterFinished, FilterDone

-----------------------------------------------------------------------------
(* The inductive invariant                                                 *)

OnlyBroadcast(i) ==
    /\ \A j \in 1..Len(bcast) : j # i => bcast[j].stage = "CLIENT"
    /\ \A k \in 1..Len(jobs) : jobs[k].stage = "INIT"

OnlyTask(k) ==
    /\ \A j \in 1..Len(jobs) : j # k => jobs[j].stage = "INIT"
    /\ \A i \in 1..Len(bcast) : bcast[i].stage = "CLIENT"

\* Manager m is busy with step s: what it awaits besides is on its stack.
BusyWith(m, s) == mgr[m] = "BUSY" /\ pending[m] \ {s} = Elements(stack[m])

\* A manager's request or response finds it idle, its steps find it busy.
StepBroadcast(m) ==
    \E i \in 1..Len(bcast) :
        /\ bcast[i].stage = m
        /\ OnlyBroadcast(i)
        /\ IF bcast[i].act = "step" THEN BusyWith(m, bcast[i].body.step) ELSE mgr[m] = "IDLE"

StepTasked(m) ==
    \E k \in 1..Len(jobs) :
        /\ jobs[k].stage = m
        /\ OnlyTask(k)
        /\ BusyWith(m, jobs[k].step)

\* InterfaceScanManager is idle while its request or its result is under way.
ScanBroadcast ==
    /\ ism = "IDLE"
    /\ \E i \in 1..Len(bcast) :
        bcast[i].stage = "SCANNING" /\ bcast[i].act # "step" /\ OnlyBroadcast(i)

\* While it scans, every radio it works on is awaited and in one place only.
ScanRunning ==
    /\ ism = "SCANNING"
    /\ \A i \in 1..Len(bcast) : bcast[i].stage = "SCANNING" =>
        /\ bcast[i].act = "step"
        /\ bcast[i].body \in pendingResults \ Elements(scanQueue)
        /\ \A j \in 1..Len(bcast) :
              bcast[j].stage = "SCANNING" /\ bcast[j].body = bcast[i].body => j = i
        /\ \A k \in 1..Len(jobs) : ~IsScanner(jobs[k], bcast[i].body)
    /\ \A k \in 1..Len(jobs) : jobs[k].stage = "SCANNING" =>
        /\ jobs[k].step \in pendingResults \ Elements(scanQueue)
        /\ \A j \in 1..Len(jobs) : IsScanner(jobs[j], jobs[k].step) => j = k
    /\ Elements(scanQueue) \subseteq pendingResults

Distinct(s) == \A i, j \in 1..Len(s) : s[i] = s[j] => i = j

Work ==
    /\ sm \in Managers => StepBroadcast(sm) \/ StepTasked(sm)
    /\ sm = "SCANNING" => ScanBroadcast \/ ScanRunning
    /\ Distinct(scanQueue)
    /\ \A m \in Managers : Distinct(stack[m])

IInv == TypeOK /\ StageOwnsWork /\ Work

LEMMA InitIInv == Init => IInv
<1> SUFFICES ASSUME Init PROVE StageOwnsWork /\ Work
  BY InitTypeOK DEF IInv
<1>1. Len(bcast) = 0 /\ Len(jobs) = 0 /\ Len(scanQueue) = 0 /\ \A m \in Managers : Len(stack[m]) = 0
  BY DEF Init
<1>2. StageOwnsWork
  BY <1>1 DEF Init, StageOwnsWork
<1>3. Work
  BY <1>1 DEF Init, Work, Managers, Distinct
<1>4. QED BY <1>2, <1>3

LEMMA ReplyShape ==
    ASSUME bcast \in Seq(Messages), bcast # <<>>, NEW sent \in Seq(Messages), Reply(sent)
    PROVE  /\ Len(bcast) \in Nat \ {0} /\ Len(sent) \in Nat
           /\ Len(bcast') = Len(bcast) - 1 + Len(sent)
           /\ \A i \in 1..(Len(bcast) - 1) : bcast'[i] = bcast[i + 1]
           /\ \A i \in 1..Len(sent) : bcast'[Len(bcast) - 1 + i] = sent[i]
<1> DEFINE t == Tail(bcast)
<1>1. Len(bcast) \in Nat \ {0} /\ Len(sent) \in Nat
  BY EmptySeq, LenProperties
<1>2. t \in Seq(Messages) /\ Len(t) = Len(bcast) - 1 /\ \A i \in 1..Len(t) : t[i] = bcast[i + 1]
  BY HeadTailProperties
<1>3. bcast' = t \o sent
  BY DEF Reply
<1> HIDE DEF t
<1>4. /\ Len(bcast') = Len(t) + Len(sent)
      /\ \A i \in 1..(Len(t) + Len(sent)) :
            bcast'[i] = IF i <= Len(t) THEN t[i] ELSE sent[i - Len(t)]
  BY <1>2, <1>3, ConcatProperties
<1>5. \A i \in 1..(Len(bcast) - 1) : bcast'[i] = bcast[i + 1]
  BY <1>1, <1>2, <1>4
<1>6. ASSUME NEW i \in 1..Len(sent) PROVE bcast'[Len(bcast) - 1 + i] = sent[i]
  <2>1. Len(t) + i \in 1..(Len(t) + Len(sent)) /\ ~(Len(t) + i <= Len(t)) /\ Len(t) + i - Len(t) = i
    BY <1>1, <1>2
  <2>2. QED BY <2>1, <1>2, <1>4
<1>7. QED BY <1>1, <1>2, <1>4, <1>5, <1>6

(* The only broadcast at work is received: what remains of it is the last  *)
(* one that its receiver sent.                                             *)
LEMMA RelayShape ==
    ASSUME bcast \in Seq(Messages), bcast # <<>>, NEW sent \in Seq(Messages), Reply(sent),
           OnlyBroadcast(1),
           \A i \in 1..(Len(sent) - 1) : sent[i].stage = "CLIENT"
    PROVE  /\ Len(bcast') \in Nat
           /\ \A i \in 1..Len(bcast') : i # Len(bcast') \/ sent = <<>> => bcast'[i].stage = "CLIENT"
           /\ sent # <<>> => Len(bcast') \in 1..Len(bcast') /\ bcast'[Len(bcast')] = sent[Len(sent)]
<1> DEFINE n == Len(bcast) - 1
<1>1. /\ n \in Nat /\ Len(sent) \in Nat /\ Len(bcast') = n + Len(sent)
      /\ \A i \in 1..n : bcast'[i] = bcast[i + 1]
      /\ \A i \in 1..Len(sent) : bcast'[n + i] = sent[i]
  BY ReplyShape
<1>2. \A i \in 1..n : bcast'[i].stage = "CLIENT"
  <2>1. \A i \in 1..n : i + 1 \in 1..Len(bcast) /\ i + 1 # 1
    BY <1>1
  <2>2. QED BY <2>1, <1>1 DEF OnlyBroadcast
<1>3. sent # <<>> => Len(sent) > 0
  BY EmptySeq
<1>4. sent = <<>> => Len(sent) = 0
  BY EmptySeq
<1> HIDE DEF n
<1>5. ASSUME NEW i \in 1..Len(bcast'), i # Len(bcast'), i > n PROVE bcast'[i].stage = "CLIENT"
  <2>1. i - n \in 1..(Len(sent) - 1) /\ i - n \in 1..Len(sent) /\ n + (i - n) = i
    BY <1>1, <1>5
  <2>2. QED BY <2>1, <1>1
<1>6. sent # <<>> => bcast'[Len(bcast')] = sent[Len(sent)]
  <2>1. sent # <<>> => Len(sent) \in 1..Len(sent)
    BY <1>1, <1>3
  <2>2. QED BY <2>1, <1>1
<1>7. QED BY <1>1, <1>2, <1>3, <1>4, <1>5, <1>6

LEMMA PostExecuteShape ==
    ASSUME jobs \in Seq(Tasks), ran \in 0..Len(jobs), bcast \in Seq(Messages),
           NEW stage, NEW sent \in Seq(Messages), PostExecute(stage, sent)
    PROVE  /\ jobs # <<>> /\ Len(jobs) \in Nat \ {0} /\ Head(jobs) = jobs[1] /\ jobs[1].stage = stage
           /\ Len(jobs') = Len(jobs) - 1
           /\ \A k \in 1..Len(jobs') : jobs'[k] = jobs[k + 1]
           /\ Len(bcast) \in Nat /\ Len(sent) \in Nat
           /\ Len(bcast') = Len(bcast) + Len(sent)
           /\ \A i \in 1..Len(bcast) : bcast'[i] = bcast[i]
           /\ \A i \in 1..Len(sent) : bcast'[Len(bcast) + i] = sent[i]
<1>1. Len(jobs) \in Nat \ {0} /\ jobs # <<>> /\ Len(bcast) \in Nat /\ Len(sent) \in Nat
  BY PostExecuteType, LenProperties DEF PostExecute
<1>2. Head(jobs) = jobs[1] /\ jobs[1].stage = stage
  BY <1>1 DEF PostExecute
<1>3. Len(jobs') = Len(jobs) - 1 /\ \A k \in 1..Len(jobs') : jobs'[k] = jobs[k + 1]
  BY <1>1, HeadTailProperties DEF PostExecute
<1>4. /\ Len(bcast') = Len(bcast) + Len(sent)
      /\ \A i \in 1..(Len(bcast) + Len(sent)) :
            bcast'[i] = IF i <= Len(bcast) THEN bcast[i] ELSE sent[i - Len(bcast)]
  BY ConcatProperties DEF PostExecute
<1>5. ASSUME NEW i \in 1..Len(sent) PROVE bcast'[Len(bcast) + i] = sent[i]
  <2>1. /\ Len(bcast) + i \in 1..(Len(bcast) + Len(sent))
        /\ ~(Len(bcast) + i <= Len(bcast)) /\ Len(bcast) + i - Len(bcast) = i
    BY <1>1
  <2>2. QED BY <2>1, <1>4
<1>6. \A i \in 1..Len(bcast) : bcast'[i] = bcast[i]
  BY <1>1, <1>4
<1>7. QED BY <1>1, <1>2, <1>3, <1>4, <1>5, <1>6

(* A step that touches only what belongs to the screens and to the radios' *)
(* initialization: what is at work moves up or stays.                      *)
LEMMA QuietStep ==
    ASSUME TypeOK, StageOwnsWork, Work, NEW d \in {0, 1}, NEW e \in {0, 1},
           Len(bcast') \in Nat, Len(jobs') \in Nat,
           \A i \in 1..Len(bcast) : i <= d => bcast[i].stage = "CLIENT",
           \A i \in 1..Len(bcast) : i > d => i - d \in 1..Len(bcast') /\ bcast'[i - d] = bcast[i],
           \A i \in 1..Len(bcast') : i + d > Len(bcast) => bcast'[i].stage = "CLIENT",
           \A k \in 1..Len(jobs) : k <= e => jobs[k].stage = "INIT",
           \A k \in 1..Len(jobs) : k > e => k - e \in 1..Len(jobs') /\ jobs'[k - e] = jobs[k],
           \A k \in 1..Len(jobs') : k + e > Len(jobs) => jobs'[k].stage = "INIT",
           UNCHANGED <<sm, ism, scanQueue, pendingResults, mgr, stack, pending>>
    PROVE  StageOwnsWork' /\ Work'
<1>0. Len(bcast) \in Nat /\ Len(jobs) \in Nat
  BY LenProperties DEF TypeOK
<1>1. \A i \in 1..Len(bcast') : bcast'[i].stage # "CLIENT" =>
        i + d \in 1..Len(bcast) /\ bcast'[i] = bcast[i + d]
  <2> SUFFICES ASSUME NEW i \in 1..Len(bcast'), bcast'[i].stage # "CLIENT"
               PROVE  i + d \in 1..Len(bcast) /\ bcast'[i] = bcast[i + d]
    OBVIOUS
  <2>1. i + d \in 1..Len(bcast) /\ i + d > d /\ (i + d) - d = i
    BY <1>0
  <2>2. QED BY <2>1
<1>2. \A k \in 1..Len(jobs') : jobs'[k].stage # "INIT" =>
        k + e \in 1..Len(jobs) /\ jobs'[k] = jobs[k + e]
  <2> SUFFICES ASSUME NEW k \in 1..Len(jobs'), jobs'[k].stage # "INIT"
               PROVE  k + e \in 1..Len(jobs) /\ jobs'[k] = jobs[k + e]
    OBVIOUS
  <2>1. k + e \in 1..Len(jobs) /\ k + e > e /\ (k + e) - e = k
    BY <1>0
  <2>2. QED BY <2>1
<1>3. StageOwnsWork'
  BY <1>1, <1>2 DEF StageOwnsWork
<1>4. \A i \in 1..Len(bcast) : i > d /\ OnlyBroadcast(i) => OnlyBroadcast(i - d)'
  <2> SUFFICES ASSUME NEW i \in 1..Len(bcast), i > d, OnlyBroadcast(i)
               PROVE  OnlyBroadcast(i - d)'
    OBVIOUS
  <2>1. ASSUME NEW j \in 1..Len(bcast'), j # i - d PROVE bcast'[j].stage = "CLIENT"
    <3>1. j + d # i BY <1>0, <2>1
    <3>2. CASE bcast'[j].stage # "CLIENT"
      <4>1. j + d \in 1..Len(bcast) /\ bcast'[j] = bcast[j + d]
        BY <1>1, <3>2
      <4>2. \A l \in 1..Len(bcast) : l # i => bcast[l].stage = "CLIENT"
        BY DEF OnlyBroadcast
      <4>3. QED BY <3>1, <4>1, <4>2
    <3>3. QED BY <3>2
  <2>2. ASSUME NEW k \in 1..Len(jobs'), jobs'[k].stage # "INIT" PROVE FALSE
    <3>1. k + e \in 1..Len(jobs) /\ jobs'[k] = jobs[k + e] BY <1>2, <2>2
    <3>2. QED BY <3>1, <2>2 DEF OnlyBroadcast
  <2>3. QED BY <2>1, <2>2 DEF OnlyBroadcast
<1>5. \A k \in 1..Len(jobs) : k > e /\ OnlyTask(k) => OnlyTask(k - e)'
  <2> SUFFICES ASSUME NEW k \in 1..Len(jobs), k > e, OnlyTask(k)
               PROVE  OnlyTask(k - e)'
    OBVIOUS
  <2>1. ASSUME NEW j \in 1..Len(jobs'), j # k - e, jobs'[j].stage # "INIT" PROVE FALSE
    <3>1. j + e \in 1..Len(jobs) /\ jobs'[j] = jobs[j + e] BY <1>2, <2>1
    <3>2. j + e # k BY <1>0, <2>1
    <3>3. QED BY <3>1, <3>2, <2>1 DEF OnlyTask
  <2>2. ASSUME NEW i \in 1..Len(bcast'), bcast'[i].stage # "CLIENT" PROVE FALSE
    <3>1. i + d \in 1..Len(bcast) /\ bcast'[i] = bcast[i + d] BY <1>1, <2>2
    <3>2. QED BY <3>1, <2>2 DEF OnlyTask
  <2>3. QED BY <2>1, <2>2 DEF OnlyTask
<1>6. ASSUME NEW m \in Managers, StepBroadcast(m) PROVE StepBroadcast(m)'
  <2>1. PICK i \in 1..Len(bcast) :
            /\ bcast[i].stage = m
            /\ OnlyBroadcast(i)
            /\ IF bcast[i].act = "step" THEN BusyWith(m, bcast[i].body.step) ELSE mgr[m] = "IDLE"
    BY <1>6 DEF StepBroadcast
  <2>2. i > d /\ i - d \in 1..Len(bcast') /\ bcast'[i - d] = bcast[i] /\ OnlyBroadcast(i - d)'
    BY <2>1, <1>0, <1>4 DEF Managers
  <2>3. /\ bcast'[i - d].stage = m
        /\ IF bcast'[i - d].act = "step"
           THEN mgr'[m] = "BUSY" /\ pending'[m] \ {bcast'[i - d].body.step} = Elements(stack'[m])
           ELSE mgr'[m] = "IDLE"
    BY <2>1, <2>2 DEF BusyWith
  <2>4. QED BY ONLY <2>2, <2>3 DEF StepBroadcast, BusyWith
<1>7. ASSUME NEW m \in Managers, StepTasked(m) PROVE StepTasked(m)'
  <2>1. PICK k \in 1..Len(jobs) :
            jobs[k].stage = m /\ OnlyTask(k) /\ BusyWith(m, jobs[k].step)
    BY <1>7 DEF StepTasked
  <2>2. k > e /\ k - e \in 1..Len(jobs') /\ jobs'[k - e] = jobs[k] /\ OnlyTask(k - e)'
    BY <2>1, <1>0, <1>5 DEF Managers
  <2>3. QED BY <2>1, <2>2 DEF StepTasked, BusyWith
<1>8. ASSUME ScanBroadcast PROVE ScanBroadcast'
  <2>1. PICK i \in 1..Len(bcast) :
            bcast[i].stage = "SCANNING" /\ bcast[i].act # "step" /\ OnlyBroadcast(i)
    BY <1>8 DEF ScanBroadcast
  <2>2. i > d /\ i - d \in 1..Len(bcast') /\ bcast'[i - d] = bcast[i] /\ OnlyBroadcast(i - d)'
    BY <2>1, <1>0, <1>4
  <2>3. QED BY <1>8, <2>1, <2>2 DEF ScanBroadcast
<1>9. ASSUME ScanRunning PROVE ScanRunning'
  <2>1. ASSUME NEW i \in 1..Len(bcast'), bcast'[i].stage = "SCANNING"
        PROVE  /\ bcast'[i].act = "step"
               /\ bcast'[i].body \in pendingResults \ Elements(scanQueue)
               /\ \A j \in 1..Len(bcast') :
                    bcast'[j].stage = "SCANNING" /\ bcast'[j].body = bcast'[i].body => j = i
               /\ \A k \in 1..Len(jobs') : ~IsScanner(jobs'[k], bcast'[i].body)
    <3>1. i + d \in 1..Len(bcast) /\ bcast'[i] = bcast[i + d]
      BY <2>1, <1>1
    <3>2. ASSUME NEW j \in 1..Len(bcast'), bcast'[j].stage = "SCANNING",
                 bcast'[j].body = bcast'[i].body
          PROVE  j = i
      <4>1. j + d \in 1..Len(bcast) /\ bcast'[j] = bcast[j + d]
        BY <3>2, <1>1
      <4>2. j + d = i + d
        <5>1. /\ bcast[i + d].stage = "SCANNING" /\ bcast[j + d].stage = "SCANNING"
              /\ bcast[j + d].body = bcast[i + d].body
          BY <2>1, <3>1, <3>2, <4>1
        <5>2. QED BY ONLY <1>9, <3>1, <4>1, <5>1 DEF ScanRunning
      <4>3. QED BY <4>2
    <3>3. ASSUME NEW k \in 1..Len(jobs'), IsScanner(jobs'[k], bcast'[i].body) PROVE FALSE
      <4>1. k + e \in 1..Len(jobs) /\ jobs'[k] = jobs[k + e]
        BY <3>3, <1>2 DEF IsScanner
      <4>2. QED BY <1>9, <2>1, <3>1, <3>3, <4>1 DEF ScanRunning
    <3>4. QED BY <1>9, <2>1, <3>1, <3>2, <3>3 DEF ScanRunning
  <2>2. ASSUME NEW k \in 1..Len(jobs'), jobs'[k].stage = "SCANNING"
        PROVE  /\ jobs'[k].step \in pendingResults \ Elements(scanQueue)
               /\ \A j \in 1..Len(jobs') : IsScanner(jobs'[j], jobs'[k].step) => j = k
    <3>1. k + e \in 1..Len(jobs) /\ jobs'[k] = jobs[k + e]
      BY <2>2, <1>2
    <3>2. ASSUME NEW j \in 1..Len(jobs'), IsScanner(jobs'[j], jobs'[k].step) PROVE j = k
      <4>1. j + e \in 1..Len(jobs) /\ jobs'[j] = jobs[j + e]
        BY <3>2, <1>2 DEF IsScanner
      <4>2. \A l \in 1..Len(jobs) : IsScanner(jobs[l], jobs[k + e].step) => l = k + e
        BY <1>9, <2>2, <3>1 DEF ScanRunning
      <4>3. j + e = k + e
        BY <3>1, <3>2, <4>1, <4>2
      <4>4. QED BY <4>3
    <3>3. QED BY <1>9, <2>2, <3>1, <3>2 DEF ScanRunning
  <2>3. QED BY <1>9, <2>1, <2>2 DEF ScanRunning, IsScanner
<1>10. Distinct(scanQueue)' /\ \A m \in Managers : Distinct(stack[m])'
  BY DEF Work, Distinct
<1>11. Work'
  BY <1>6, <1>7, <1>8, <1>9, <1>10 DEF Work
<1>12. QED BY <1>3, <1>11

(* What the head of the broadcasts and the head of the tasks tell.         *)
LEMMA HeadAtWork ==
    ASSUME IInv, bcast # <<>>, Head(bcast).stage # "CLIENT"
    PROVE  /\ 1 \in 1..Len(bcast) /\ Head(bcast) = bcast[1] /\ sm = Head(bcast).stage
           /\ sm \in Managers => /\ OnlyBroadcast(1)
                                 /\ IF Head(bcast).act = "step"
                                    THEN BusyWith(sm, Head(bcast).body.step)
                                    ELSE mgr[sm] = "IDLE"
           /\ sm = "SCANNING" => IF Head(bcast).act = "step" THEN ScanRunning
                                 ELSE OnlyBroadcast(1) /\ ScanBroadcast
<1>1. 1 \in 1..Len(bcast) /\ Head(bcast) = bcast[1]
  BY EmptySeq DEF IInv, TypeOK
<1>2. sm = Head(bcast).stage
  BY <1>1 DEF IInv, StageOwnsWork
<1>3. ASSUME sm \in Managers
      PROVE  /\ OnlyBroadcast(1)
             /\ IF bcast[1].act = "step" THEN BusyWith(sm, bcast[1].body.step)
                ELSE mgr[sm] = "IDLE"
  <2>1. ~StepTasked(sm)
    BY <1>1 DEF StepTasked, OnlyTask
  <2>2. PICK i \in 1..Len(bcast) :
            /\ bcast[i].stage = sm
            /\ OnlyBroadcast(i)
            /\ IF bcast[i].act = "step" THEN BusyWith(sm, bcast[i].body.step)
               ELSE mgr[sm] = "IDLE"
    BY <1>3, <2>1 DEF IInv, Work, StepBroadcast
  <2>3. i = 1
    BY <1>1, <2>2 DEF OnlyBroadcast
  <2>4. QED BY <2>2, <2>3
<1>4. ASSUME sm = "SCANNING"
      PROVE  IF bcast[1].act = "step" THEN ScanRunning ELSE OnlyBroadcast(1) /\ ScanBroadcast
  <2>1. CASE ScanBroadcast
    <3>1. PICK i \in 1..Len(bcast) : bcast[i].act # "step" /\ OnlyBroadcast(i)
      BY <2>1 DEF ScanBroadcast
    <3>2. i = 1
      BY <1>1, <3>1 DEF OnlyBroadcast
    <3>3. QED BY <2>1, <3>1, <3>2
  <2>2. CASE ScanRunning
    BY <2>2, <1>1, <1>2, <1>4 DEF ScanRunning
  <2>3. QED BY <2>1, <2>2, <1>4 DEF IInv, Work
<1>5. QED BY <1>1, <1>2, <1>3, <1>4

LEMMA TaskAtWork ==
    ASSUME IInv, 1 \in 1..Len(jobs), jobs[1].stage \in Managers
    PROVE  sm = jobs[1].stage /\ OnlyTask(1) /\ BusyWith(sm, jobs[1].step)
<1>1. sm = jobs[1].stage
  BY DEF IInv, StageOwnsWork, Managers
<1>2. ~StepBroadcast(sm)
  BY DEF StepBroadcast, OnlyBroadcast, Managers
<1>3. PICK k \in 1..Len(jobs) : OnlyTask(k) /\ BusyWith(sm, jobs[k].step)
  BY <1>1, <1>2 DEF IInv, Work, StepTasked
<1>4. k = 1
  BY <1>3 DEF OnlyTask, Managers
<1>5. QED BY <1>1, <1>3, <1>4

(* Nothing at work is ever lost: only a scan request can be ignored.       *)
LEMMA OnlyRequestsIgnored ==
    ASSUME IInv, Ignore
    PROVE  Head(bcast).stage = "CLIENT"
<1> SUFFICES ASSUME Head(bcast).stage # "CLIENT" PROVE FALSE
  OBVIOUS
<1>1. bcast # <<>> /\ ~Awaited(Head(bcast))
  BY DEF Ignore
<1>2. Head(bcast) \in Messages
  BY <1>1, Delivered DEF IInv, TypeOK
<1>3. CASE Head(bcast).stage \in Managers
  <2>1. sm = Head(bcast).stage /\ IF Head(bcast).act = "step" THEN mgr[sm] = "BUSY" ELSE mgr[sm] = "IDLE"
    BY <1>1, <1>3, HeadAtWork DEF BusyWith
  <2>2. Awaited(Head(bcast))
    BY <1>3, <2>1 DEF Awaited, Managers
  <2>3. QED BY <1>1, <2>2
<1>4. CASE Head(bcast).stage = "SCANNING"
  <2>1. IF Head(bcast).act = "step" THEN ism = "SCANNING" ELSE ism = "IDLE"
    BY <1>1, <1>4, HeadAtWork DEF ScanRunning, ScanBroadcast
  <2>2. Awaited(Head(bcast))
    BY <1>4, <2>1 DEF Awaited, Managers
  <2>3. QED BY <1>1, <2>2
<1>5. QED BY <1>2, <1>3, <1>4 DEF Messages

(* Sequences without repetitions.                                          *)
LEMMA ElementsOfTail ==
    ASSUME NEW S, NEW s \in Seq(S), s # <<>>, Distinct(s)
    PROVE  Elements(s) \ {Head(s)} = Elements(Tail(s)) /\ Distinct(Tail(s))
<1> DEFINE t == Tail(s)
<1>1. Len(s) \in Nat \ {0} /\ Head(s) = s[1]
  BY EmptySeq
<1>2. Len(t) = Len(s) - 1 /\ \A i \in 1..Len(t) : t[i] = s[i + 1]
  BY HeadTailProperties
<1> HIDE DEF t
<1>3. Distinct(t)
  <2>1. \A i \in 1..Len(t) : i + 1 \in 1..Len(s)
    BY <1>1, <1>2
  <2>2. ASSUME NEW i \in 1..Len(t), NEW j \in 1..Len(t), t[i] = t[j] PROVE i = j
    <3>1. s[i + 1] = s[j + 1] BY <1>2, <2>2
    <3>2. i + 1 = j + 1 BY <2>1, <3>1 DEF Distinct
    <3>3. QED BY <3>2
  <2>3. QED BY <2>2 DEF Distinct
<1>4. ASSUME NEW e \in Elements(s), e # Head(s) PROVE e \in Elements(t)
  <2>1. PICK i \in 1..Len(s) : s[i] = e
    BY DEF Elements
  <2>2. i # 1 BY <1>1, <1>4, <2>1
  <2>3. i - 1 \in 1..Len(t) /\ (i - 1) + 1 = i
    BY <1>1, <1>2, <2>2
  <2>4. t[i - 1] = e BY <1>2, <2>1, <2>3
  <2>5. QED BY <2>3, <2>4 DEF Elements
<1>5. ASSUME NEW e \in Elements(t) PROVE e \in Elements(s) /\ e # Head(s)
  <2>1. PICK i \in 1..Len(t) : t[i] = e
    BY DEF Elements
  <2>2. i + 1 \in 1..Len(s) /\ s[i + 1] = e /\ i + 1 # 1 /\ 1 \in 1..Len(s)
    BY <1>1, <1>2, <2>1
  <2>3. QED BY <1>1, <2>2 DEF Elements, Distinct
<1>6. QED BY <1>3, <1>4, <1>5 DEF t

LEMMA ElementsOfConcat ==
    ASSUME NEW S, NEW s \in Seq(S), NEW t \in Seq(S), Distinct(s), Distinct(t),
           Elements(s) \cap Elements(t) = {}
    PROVE  /\ s \o t \in Seq(S)
           /\ Elements(s \o t) = Elements(s) \cup Elements(t)
           /\ Distinct(s \o t)
<1> DEFINE u == s \o t
<1>1. /\ u \in Seq(S)
      /\ Len(u) = Len(s) + Len(t)
      /\ \A i \in 1..(Len(s) + Len(t)) : u[i] = IF i <= Len(s) THEN s[i] ELSE t[i - Len(s)]
  BY ConcatProperties
<1>2. Len(s) \in Nat /\ Len(t) \in Nat
  BY LenProperties
<1> HIDE DEF u
<1>3. ASSUME NEW i \in 1..Len(u)
      PROVE  \/ i \in 1..Len(s) /\ u[i] = s[i]
             \/ ~(i <= Len(s)) /\ i - Len(s) \in 1..Len(t) /\ u[i] = t[i - Len(s)]
  BY <1>1, <1>2
<1>4. ASSUME NEW i \in 1..Len(s) PROVE i \in 1..Len(u) /\ u[i] = s[i]
  BY <1>1, <1>2
<1>5. ASSUME NEW i \in 1..Len(t) PROVE Len(s) + i \in 1..Len(u) /\ u[Len(s) + i] = t[i]
  <2>1. Len(s) + i \in 1..(Len(s) + Len(t)) /\ ~(Len(s) + i <= Len(s)) /\ (Len(s) + i) - Len(s) = i
    BY <1>2
  <2>2. QED BY <2>1, <1>1
<1>6. Elements(u) = Elements(s) \cup Elements(t)
  <2>1. Elements(u) \subseteq Elements(s) \cup Elements(t)
    BY <1>3 DEF Elements
  <2>2. Elements(s) \subseteq Elements(u)
    BY <1>4 DEF Elements
  <2>3. Elements(t) \subseteq Elements(u)
    BY <1>5 DEF Elements
  <2>4. QED BY <2>1, <2>2, <2>3
<1>7. ASSUME NEW i \in 1..Len(u), NEW j \in 1..Len(u), u[i] = u[j] PROVE i = j
  <2>1. CASE i \in 1..Len(s) /\ j \in 1..Len(s)
    BY <2>1, <1>4, <1>7 DEF Distinct
  <2>2. CASE ~(i <= Len(s)) /\ ~(j <= Len(s))
    <3>1. i - Len(s) \in 1..Len(t) /\ j - Len(s) \in 1..Len(t) /\ t[i - Len(s)] = t[j - Len(s)]
      BY <2>2, <1>3, <1>7
    <3>2. i - Len(s) = j - Len(s) BY <3>1 DEF Distinct
    <3>3. QED BY <3>2, <1>2
  <2>3. CASE i \in 1..Len(s) /\ ~(j <= Len(s))
    <3>1. u[i] \in Elements(s) /\ u[j] \in Elements(t)
      BY <2>3, <1>3 DEF Elements
    <3>2. QED BY <3>1, <1>7
  <2>4. CASE j \in 1..Len(s) /\ ~(i <= Len(s))
    <3>1. u[j] \in Elements(s) /\ u[i] \in Elements(t)
      BY <2>4, <1>3 DEF Elements
    <3>2. QED BY <3>1, <1>7
  <2>5. QED BY <2>1, <2>2, <2>3, <2>4, <1>2, <1>3
<1>8. QED BY <1>1, <1>6, <1>7 DEF Distinct, u

LEMMA ChainDistinct ==
    ASSUME NEW m \in Managers
    PROVE  Distinct(Chain(m))
<1>1. Distinct(Resolvers)
  BY DEF Resolvers, Distinct
<1>2. Distinct(Heuristics)
  BY DEF Heuristics, Distinct
<1>3. Distinct(Filters)
  BY DEF Filters, Distinct
<1>4. QED BY <1>1, <1>2, <1>3, Zenon DEF Chain, Managers

LEMMA ConnectedRadiosShape ==
    ASSUME connected \subseteq Radios
    PROVE  Elements(ConnectedRadios) = connected /\ Distinct(ConnectedRadios)
<1>1. ASSUME NEW r \in Radios
      PROVE  Only(r) \in Seq(Radios) /\ Distinct(Only(r)) /\ Elements(Only(r)) = {r} \cap connected
  <2>1. CASE r \in connected
    <3>1. Only(r) = <<r>> /\ Len(Only(r)) = 1
      BY <2>1 DEF Only
    <3>2. 1..1 = {1}
      OBVIOUS
    <3>3. Elements(Only(r)) = {r}
      BY <3>1, <3>2 DEF Elements
    <3>4. QED BY <2>1, <3>1, <3>3 DEF Distinct
  <2>2. CASE r \notin connected
    <3>1. Only(r) = <<>> /\ Len(Only(r)) = 0 /\ 1..0 = {}
      BY <2>2 DEF Only
    <3>2. Elements(Only(r)) = {}
      BY <3>1 DEF Elements
    <3>3. QED BY <2>2, <3>1, <3>2, EmptySeq DEF Distinct
  <2>3. QED BY <2>1, <2>2
<1> DEFINE a == Only("Wifi") \o Only("ZigBee")
           b == a \o Only("Bluetooth")
<1>2. "Wifi" \in Radios /\ "ZigBee" \in Radios /\ "Bluetooth" \in Radios /\ "LAN" \in Radios
  BY DEF Radios
<1>3. a \in Seq(Radios) /\ Distinct(a) /\ Elements(a) = {"Wifi", "ZigBee"} \cap connected
  BY <1>1, <1>2, ElementsOfConcat
<1> HIDE DEF a
<1>4. b \in Seq(Radios) /\ Distinct(b) /\ Elements(b) = {"Wifi", "ZigBee", "Bluetooth"} \cap connected
  <2>1. /\ Only("Bluetooth") \in Seq(Radios) /\ Distinct(Only("Bluetooth"))
        /\ Elements(Only("Bluetooth")) = {"Bluetooth"} \cap connected
    BY <1>1, <1>2
  <2>2. Elements(a) \cap Elements(Only("Bluetooth")) = {}
    BY <1>3, <2>1
  <2>3. /\ b \in Seq(Radios) /\ Distinct(b)
        /\ Elements(b) = Elements(a) \cup Elements(Only("Bluetooth"))
    BY <1>3, <2>1, <2>2, ElementsOfConcat
  <2>4. QED BY <1>3, <2>1, <2>3
<1> HIDE DEF b
<1>5. Distinct(b \o Only("LAN")) /\ Elements(b \o Only("LAN")) = connected
  <2>1. /\ Only("LAN") \in Seq(Radios) /\ Distinct(Only("LAN"))
        /\ Elements(Only("LAN")) = {"LAN"} \cap connected
    BY <1>1, <1>2
  <2>2. Elements(b) \cap Elements(Only("LAN")) = {}
    BY <1>4, <2>1
  <2>3. Distinct(b \o Only("LAN")) /\ Elements(b \o Only("LAN")) = Elements(b) \cup Elements(Only("LAN"))
    BY <1>4, <2>1, <2>2, ElementsOfConcat
  <2>4. QED BY <1>4, <2>1, <2>3 DEF Radios
<1>6. QED BY <1>5 DEF ConnectedRadios, a, b

LEMMA StartScansShape ==
    ASSUME NEW t \in Seq(Radios), Len(t) \in 0..2
    PROVE  \/ StartScans(t) = <<>>
           \/ \E p \in 1..Len(t) : StartScans(t) = <<ScannerTask(t[p])>>
           \/ Len(t) = 2 /\ StartScans(t) = <<ScannerTask(t[1]), ScannerTask(t[2])>>
<1>1. CASE Len(t) = 0 BY <1>1 DEF StartScans
<1>2. CASE Len(t) = 1 BY <1>2 DEF StartScans, StartScan
<1>3. CASE Len(t) = 2
  <2>1. StartScans(t) = StartScan(t[1]) \o StartScan(t[2])
    BY <1>3 DEF StartScans
  <2>2. 1 \in 1..Len(t) /\ 2 \in 1..Len(t)
    BY <1>3
  <2> DEFINE T(p) == ScannerTask(t[p])
  <2>3. T(1) \in Tasks /\ T(2) \in Tasks
    BY <2>2, ElementOfSeq DEF ScannerTask, Tasks
  <2>4. \A p \in {1, 2} : StartScan(t[p]) = <<>> \/ StartScan(t[p]) = <<T(p)>>
    BY DEF StartScan
  <2> HIDE DEF T
  <2>5. /\ <<>> \o <<>> = <<>> /\ <<>> \o <<T(2)>> = <<T(2)>> /\ <<T(1)>> \o <<>> = <<T(1)>>
        /\ <<T(1)>> \o <<T(2)>> = <<T(1), T(2)>>
    <3>1. ASSUME NEW a \in Tasks, NEW b \in Tasks PROVE <<a>> \o <<b>> = <<a, b>>
      <4>1. <<a>> \in Seq(Tasks) /\ <<b>> \in Seq(Tasks) /\ <<a, b>> \in Seq(Tasks)
        OBVIOUS
      <4>2. Len(<<a, b>>) = 2 /\ <<a, b>>[1] = a /\ <<a, b>>[2] = b
        OBVIOUS
      <4>3. /\ <<a>> \o <<b>> \in Seq(Tasks) /\ Len(<<a>> \o <<b>>) = 2
            /\ (<<a>> \o <<b>>)[1] = a /\ (<<a>> \o <<b>>)[2] = b
        BY <4>1, ConcatProperties, SingletonSeq
      <4> DEFINE u == <<a>> \o <<b>>
                 v == <<a, b>>
      <4>4. \A i \in 1..2 : u[i] = v[i]
        BY <4>2, <4>3
      <4>5. u \in Seq(Tasks) /\ v \in Seq(Tasks) /\ Len(u) = 2 /\ Len(v) = 2
        BY <4>1, <4>2, <4>3
      <4> HIDE DEF u, v
      <4>6. u = v
        BY <4>4, <4>5, SeqEqual
      <4>7. QED BY <4>6 DEF u, v
    <3>2. <<>> \in Seq(Tasks) /\ <<T(1)>> \in Seq(Tasks) /\ <<T(2)>> \in Seq(Tasks)
      BY <2>3, SingletonSeq, EmptySeq
    <3>3. QED BY <2>3, <3>1, <3>2, ConcatEmptySeq
  <2>6. StartScans(t) \in {<<>>, <<T(1)>>, <<T(2)>>, <<T(1), T(2)>>}
    BY <2>1, <2>4, <2>5
  <2>7. QED BY <1>3, <2>2, <2>6 DEF T
<1>4. QED BY <1>1, <1>2, <1>3

(* triggerNextInterfaceScan on queue q: what it starts comes from q and is *)
(* not left in the queue.                                                  *)
LEMMA TriggerScanShape ==
    ASSUME NEW q \in Seq(Radios), Distinct(q), jobs \in Seq(Tasks), TriggerNextInterfaceScan(q)
    PROVE  /\ Len(jobs) \in Nat /\ Len(jobs') \in Nat /\ Len(jobs) <= Len(jobs')
           /\ \A k \in 1..Len(jobs) : jobs'[k] = jobs[k]
           /\ \A k \in 1..Len(jobs') : k > Len(jobs) =>
                /\ jobs'[k].stage = "SCANNING"
                /\ jobs'[k].step \in Elements(q) \ Elements(scanQueue')
                /\ \A j \in 1..Len(jobs') : j > Len(jobs) /\ jobs'[j].step = jobs'[k].step => j = k
           /\ Elements(scanQueue') \subseteq Elements(q)
           /\ Distinct(scanQueue')
           /\ q = <<>> => scanQueue' = <<>> /\ Len(jobs') = Len(jobs)
<1> DEFINE t == Triggered(q)
           n == Len(t)
           ss == StartScans(t)
<1>1. /\ t \in Seq(Radios) /\ n \in 0..2 /\ n <= Len(q) /\ Len(q) \in Nat
      /\ \A i \in 1..n : t[i] = q[i]
  BY TriggeredType, LenProperties
<1>2. scanQueue' = SubSeq(q, n + 1, Len(q)) /\ jobs' = jobs \o ss
  BY DEF TriggerNextInterfaceScan
<1>3. ss \in Seq(Tasks)
  BY <1>1, StartScansType
<1>4. /\ Len(ss) \in Nat
      /\ \A i \in 1..Len(ss) : /\ ss[i].stage = "SCANNING"
                               /\ \E p \in 1..n : ss[i].step = q[p]
      /\ \A i, j \in 1..Len(ss) : ss[i].step = ss[j].step => i = j
      /\ n = 0 => Len(ss) = 0
  <2>1. CASE ss = <<>>
    BY <2>1
  <2>2. ASSUME NEW p \in 1..n, ss = <<ScannerTask(t[p])>> PROVE <1>4
    BY <1>1, <2>2 DEF ScannerTask
  <2>3. CASE n = 2 /\ ss = <<ScannerTask(t[1]), ScannerTask(t[2])>>
    <3>1. q[1] # q[2]
      BY <1>1, <2>3 DEF Distinct
    <3>2. Len(ss) = 2 /\ ss[1] = ScannerTask(q[1]) /\ ss[2] = ScannerTask(q[2])
      BY <1>1, <2>3
    <3>3. ss[1].step = q[1] /\ ss[2].step = q[2] /\ ss[1].stage = "SCANNING" /\ ss[2].stage = "SCANNING"
      BY <3>2 DEF ScannerTask
    <3>4. 1 \in 1..n /\ 2 \in 1..n /\ 1..Len(ss) = {1, 2}
      BY <2>3, <3>2
    <3> HIDE DEF t, ss
    <3>5. QED BY <2>3, <3>1, <3>2, <3>3, <3>4
  <2>4. QED BY <2>1, <2>2, <2>3, <1>1, StartScansShape
<1> HIDE DEF t, ss, n
<1>5. /\ Len(jobs) \in Nat /\ Len(jobs') = Len(jobs) + Len(ss)
      /\ \A k \in 1..(Len(jobs) + Len(ss)) :
            jobs'[k] = IF k <= Len(jobs) THEN jobs[k] ELSE ss[k - Len(jobs)]
  BY <1>2, <1>3, ConcatProperties, LenProperties
<1>6. /\ Len(scanQueue') = Len(q) - n
      /\ \A i \in 1..(Len(q) - n) : i + n \in 1..Len(q) /\ scanQueue'[i] = q[i + n]
  <2>1. \A i \in (n + 1)..Len(q) : q[i] \in Radios
    BY <1>1, ElementOfSeq
  <2>2. n + 1 \in Int /\ Len(q) \in Int
    BY <1>1
  <2>3. /\ Len(scanQueue') = IF n + 1 <= Len(q) THEN Len(q) - (n + 1) + 1 ELSE 0
        /\ \A i \in 1..(Len(q) - (n + 1) + 1) : scanQueue'[i] = q[(n + 1) + i - 1]
    BY <1>2, <2>1, <2>2, SubSeqProperties
  <2>4. QED BY <1>1, <2>3
<1>7. Elements(scanQueue') \subseteq Elements(q)
  BY <1>6 DEF Elements
<1>8. Distinct(scanQueue')
  <2>1. ASSUME NEW i \in 1..Len(scanQueue'), NEW j \in 1..Len(scanQueue'), scanQueue'[i] = scanQueue'[j]
        PROVE  i = j
    <3>1. q[i + n] = q[j + n] /\ i + n \in 1..Len(q) /\ j + n \in 1..Len(q)
      BY <1>6, <2>1
    <3>2. i + n = j + n BY <3>1 DEF Distinct
    <3>3. QED BY <1>1, <3>2
  <2>2. QED BY <2>1 DEF Distinct
<1>9. \A p \in 1..n : q[p] \in Elements(q) \ Elements(scanQueue')
  <2>1. ASSUME NEW p \in 1..n, NEW i \in 1..Len(scanQueue'), scanQueue'[i] = q[p] PROVE FALSE
    <3>1. i + n \in 1..Len(q) /\ q[i + n] = q[p]
      BY <1>6, <2>1
    <3>2. p \in 1..Len(q) /\ i + n # p
      BY <1>1, <1>6
    <3>3. QED BY <3>1, <3>2 DEF Distinct
  <2>2. QED BY <2>1, <1>1 DEF Elements
<1>10. ASSUME NEW k \in 1..Len(jobs'), k > Len(jobs)
       PROVE  /\ jobs'[k].stage = "SCANNING"
              /\ jobs'[k].step \in Elements(q) \ Elements(scanQueue')
              /\ \A j \in 1..Len(jobs') : j > Len(jobs) /\ jobs'[j].step = jobs'[k].step => j = k
  <2>1. \A j \in 1..Len(jobs') : j > Len(jobs) =>
            j - Len(jobs) \in 1..Len(ss) /\ jobs'[j] = ss[j - Len(jobs)]
    BY <1>4, <1>5
  <2>2. k - Len(jobs) \in 1..Len(ss) /\ jobs'[k] = ss[k - Len(jobs)]
    BY <1>10, <2>1
  <2>3. ASSUME NEW j \in 1..Len(jobs'), j > Len(jobs), jobs'[j].step = jobs'[k].step PROVE j = k
    <3>1. j - Len(jobs) \in 1..Len(ss) /\ jobs'[j] = ss[j - Len(jobs)]
      BY <2>1, <2>3
    <3>2. j - Len(jobs) = k - Len(jobs)
      BY <1>4, <2>2, <2>3, <3>1
    <3>3. QED BY <1>5, <3>2
  <2>4. QED BY <1>4, <1>9, <2>2, <2>3
<1>11. q = <<>> => scanQueue' = <<>> /\ Len(jobs') = Len(jobs)
  <2>1. q = <<>> => n = 0 /\ Len(q) = 0
    BY <1>1
  <2>2. q = <<>> => SubSeq(q, n + 1, Len(q)) = <<>>
    BY <2>1, SubSeqEmpty
  <2>3. QED BY <1>2, <1>4, <1>5, <2>1, <2>2
<1>12. /\ Len(jobs') \in Nat /\ Len(jobs) <= Len(jobs')
       /\ \A k \in 1..Len(jobs) : jobs'[k] = jobs[k]
  BY <1>4, <1>5
<1>13. QED BY <1>5, <1>7, <1>8, <1>10, <1>11, <1>12

(* The scan goes on with queue q: what was at work is awaited and outside  *)
(* of q, so the scanners it starts are for other radios.                   *)
LEMMA ScanGoesOn ==
    ASSUME TypeOK, NEW q \in Seq(Radios), Distinct(q), TriggerNextInterfaceScan(q),
           ism' = "SCANNING", Elements(q) \subseteq pendingResults',
           \A i \in 1..Len(bcast') : bcast'[i].stage = "SCANNING" =>
             /\ bcast'[i].act = "step"
             /\ bcast'[i].body \in pendingResults' \ Elements(q)
             /\ \A j \in 1..Len(bcast') :
                   bcast'[j].stage = "SCANNING" /\ bcast'[j].body = bcast'[i].body => j = i
             /\ \A k \in 1..Len(jobs) : ~IsScanner(jobs[k], bcast'[i].body),
           \A k \in 1..Len(jobs) : jobs[k].stage = "SCANNING" =>
             /\ jobs[k].step \in pendingResults' \ Elements(q)
             /\ \A j \in 1..Len(jobs) : IsScanner(jobs[j], jobs[k].step) => j = k
    PROVE  ScanRunning'
<1>1. /\ Len(jobs) \in Nat /\ Len(jobs') \in Nat /\ Len(jobs) <= Len(jobs')
      /\ \A k \in 1..Len(jobs) : jobs'[k] = jobs[k]
      /\ \A k \in 1..Len(jobs') : k > Len(jobs) =>
           /\ jobs'[k].stage = "SCANNING"
           /\ jobs'[k].step \in Elements(q) \ Elements(scanQueue')
           /\ \A j \in 1..Len(jobs') : j > Len(jobs) /\ jobs'[j].step = jobs'[k].step => j = k
      /\ Elements(scanQueue') \subseteq Elements(q)
  BY TriggerScanShape DEF TypeOK
<1>2. \A k \in 1..Len(jobs') :
          \/ k \in 1..Len(jobs) /\ jobs'[k] = jobs[k]
          \/ k > Len(jobs) /\ jobs'[k].step \in Elements(q)
  BY <1>1
<1>3. ASSUME NEW i \in 1..Len(bcast'), bcast'[i].stage = "SCANNING",
             NEW k \in 1..Len(jobs'), IsScanner(jobs'[k], bcast'[i].body)
      PROVE  FALSE
  BY <1>2, <1>3 DEF IsScanner
<1>4. ASSUME NEW k \in 1..Len(jobs'), jobs'[k].stage = "SCANNING"
      PROVE  /\ jobs'[k].step \in pendingResults' \ Elements(scanQueue')
             /\ \A j \in 1..Len(jobs') : IsScanner(jobs'[j], jobs'[k].step) => j = k
  <2>1. CASE k \in 1..Len(jobs) /\ jobs'[k] = jobs[k]
    <3>1. jobs[k].step \in pendingResults' \ Elements(q)
      BY <1>4, <2>1
    <3>2. ASSUME NEW j \in 1..Len(jobs'), IsScanner(jobs'[j], jobs'[k].step) PROVE j = k
      <4>1. j \in 1..Len(jobs) /\ jobs'[j] = jobs[j]
        BY <1>2, <2>1, <3>1, <3>2 DEF IsScanner
      <4>2. QED BY <1>4, <2>1, <3>2, <4>1
    <3>3. QED BY <1>1, <2>1, <3>1, <3>2
  <2>2. CASE k > Len(jobs)
    <3>1. jobs'[k].step \in Elements(q) \ Elements(scanQueue')
      BY <1>1, <2>2
    <3>2. ASSUME NEW j \in 1..Len(jobs'), IsScanner(jobs'[j], jobs'[k].step) PROVE j = k
      <4>1. jobs'[j].step = jobs'[k].step /\ jobs'[j].stage = "SCANNING"
        BY <3>2 DEF IsScanner
      <4>2. ~(j \in 1..Len(jobs) /\ jobs'[j] = jobs[j])
        BY <3>1, <4>1
      <4>3. j > Len(jobs)
        BY <1>2, <4>2
      <4>4. QED BY <1>1, <2>2, <4>1, <4>3
    <3>3. QED BY <3>1, <3>2
  <2>3. QED BY <1>2, <2>1, <2>2
<1>5. QED BY <1>1, <1>3, <1>4 DEF ScanRunning

(* A manager starts the next step: its task is all that is at work.        *)
LEMMA StepStarts ==
    ASSUME TypeOK, bcast # <<>>, OnlyBroadcast(1), Reply(<<>>),
           NEW m \in Managers, NEW st \in Seq(Steps), NEW payload \in Payload,
           st # <<>>, Distinct(st), TriggerNext(m, st, payload),
           mgr'[m] = "BUSY", pending'[m] = Elements(st)
    PROVE  /\ StepTasked(m)'
           /\ \A i \in 1..Len(bcast') : bcast'[i].stage = "CLIENT"
           /\ \A k \in 1..Len(jobs') : jobs'[k].stage \in {"INIT", m}
           /\ stack' = [stack EXCEPT ![m] = Tail(st)] /\ Distinct(Tail(st))
<1> DEFINE task == StepTask(m, Head(st), payload)
<1>1. \A i \in 1..Len(bcast') : bcast'[i].stage = "CLIENT"
  <2>1. <<>> \in Seq(Messages) /\ Len(<<>>) = 0
    BY EmptySeq
  <2>2. \A i \in 1..(Len(<<>>) - 1) : <<>>[i].stage = "CLIENT"
    BY <2>1
  <2>3. QED BY <2>1, <2>2, RelayShape DEF TypeOK
<1>2. jobs' = Append(jobs, task) /\ stack' = [stack EXCEPT ![m] = Tail(st)]
  BY DEF TriggerNext
<1>3. Head(st) \in Steps /\ Tail(st) \in Seq(Steps)
  BY HeadTailProperties
<1>4. task \in Tasks /\ task.stage = m /\ task.step = Head(st)
  BY <1>3 DEF StepTask, Tasks
<1> HIDE DEF task
<1>5. /\ Len(jobs') \in 1..Len(jobs') /\ jobs'[Len(jobs')] = task
      /\ \A k \in 1..Len(jobs') : k # Len(jobs') => k \in 1..Len(jobs) /\ jobs'[k] = jobs[k]
  BY <1>2, <1>4, AppendProperties, LenProperties DEF TypeOK
<1>6. \A k \in 1..Len(jobs') : k # Len(jobs') => jobs'[k].stage = "INIT"
  BY <1>5 DEF OnlyBroadcast
<1>7. OnlyTask(Len(jobs))'
  BY <1>1, <1>6 DEF OnlyTask
<1>8. Elements(st) \ {Head(st)} = Elements(Tail(st)) /\ Distinct(Tail(st))
  BY ElementsOfTail
<1>9. stack'[m] = Tail(st)
  BY <1>2 DEF TypeOK
<1>10. BusyWith(m, jobs[Len(jobs)].step)'
  BY <1>4, <1>5, <1>8, <1>9 DEF BusyWith
<1>11. StepTasked(m)'
  BY <1>4, <1>5, <1>7, <1>10 DEF StepTasked
<1>12. \A k \in 1..Len(jobs') : jobs'[k].stage \in {"INIT", m}
  BY <1>4, <1>5, <1>6
<1>13. QED BY <1>1, <1>2, <1>8, <1>11, <1>12

(* A receiver sends one broadcast on: it is all that is at work.           *)
LEMMA Relayed ==
    ASSUME TypeOK, bcast # <<>>, OnlyBroadcast(1),
           NEW sent \in Seq(Messages), sent # <<>>, Reply(sent), UNCHANGED jobs,
           \A i \in 1..(Len(sent) - 1) : sent[i].stage = "CLIENT"
    PROVE  /\ Len(bcast') \in 1..Len(bcast') /\ bcast'[Len(bcast')] = sent[Len(sent)]
           /\ OnlyBroadcast(Len(bcast))'
           /\ \A i \in 1..Len(bcast') : bcast'[i].stage \in {"CLIENT", sent[Len(sent)].stage}
           /\ \A k \in 1..Len(jobs') : jobs'[k].stage = "INIT"
<1>1. /\ \A i \in 1..Len(bcast') : i # Len(bcast') => bcast'[i].stage = "CLIENT"
      /\ Len(bcast') \in 1..Len(bcast') /\ bcast'[Len(bcast')] = sent[Len(sent)]
  BY RelayShape DEF TypeOK
<1>2. \A k \in 1..Len(jobs') : jobs'[k].stage = "INIT"
  BY DEF OnlyBroadcast
<1>3. QED BY <1>1, <1>2 DEF OnlyBroadcast

LEMMA RelayedOne ==
    ASSUME TypeOK, bcast # <<>>, OnlyBroadcast(1), NEW msg \in Messages, Reply(<<msg>>), UNCHANGED jobs
    PROVE  /\ Len(bcast') \in 1..Len(bcast') /\ bcast'[Len(bcast')] = msg
           /\ OnlyBroadcast(Len(bcast))'
           /\ \A i \in 1..Len(bcast') : bcast'[i].stage \in {"CLIENT", msg.stage}
           /\ \A k \in 1..Len(jobs') : jobs'[k].stage = "INIT"
<1> DEFINE sent == <<msg>>
<1>1. sent \in Seq(Messages) /\ sent # <<>> /\ Len(sent) = 1 /\ sent[1] = msg /\ Reply(sent)
  BY SingletonSeq
<1> HIDE DEF sent
<1>2. \A i \in 1..(Len(sent) - 1) : sent[i].stage = "CLIENT"
  BY <1>1
<1>3. sent[Len(sent)] = msg
  BY <1>1
<1>4. QED BY <1>1, <1>2, <1>3, Relayed

LEMMA RelayedTwo ==
    ASSUME TypeOK, bcast # <<>>, OnlyBroadcast(1), NEW note \in Messages, note.stage = "CLIENT",
           NEW msg \in Messages, Reply(<<note>> \o <<msg>>), UNCHANGED jobs
    PROVE  /\ Len(bcast') \in 1..Len(bcast') /\ bcast'[Len(bcast')] = msg
           /\ OnlyBroadcast(Len(bcast))'
           /\ \A i \in 1..Len(bcast') : bcast'[i].stage \in {"CLIENT", msg.stage}
           /\ \A k \in 1..Len(jobs') : jobs'[k].stage = "INIT"
<1> DEFINE sent == <<note>> \o <<msg>>
<1>1. /\ sent \in Seq(Messages) /\ Len(sent) = 2 /\ sent[1] = note /\ sent[2] = msg
      /\ Reply(sent)
  BY SingletonSeq, ConcatProperties
<1> HIDE DEF sent
<1>2. \A i \in 1..(Len(sent) - 1) : sent[i].stage = "CLIENT"
  BY <1>1
<1>3. sent[Len(sent)] = msg /\ sent # <<>>
  BY <1>1, EmptySeq
<1>4. QED BY <1>1, <1>2, <1>3, Relayed

LEMMA StagesAtWork ==
    ASSUME TypeOK
    PROVE  /\ \A i \in 1..Len(bcast) : bcast[i].stage \in {"CLIENT", "SCANNING"} \cup Managers
           /\ \A k \in 1..Len(jobs) : jobs[k].stage \in {"INIT", "SCANNING"} \cup Managers
<1>1. \A msg \in Messages : msg.stage \in {"CLIENT", "SCANNING"} \cup Managers
  BY DEF Messages
<1>2. \A task \in Tasks : task.stage \in {"INIT", "SCANNING"} \cup Managers
  BY DEF Tasks
<1>3. QED BY <1>1, <1>2, ElementOfSeq DEF TypeOK

(* ScanManager hands its work to manager m.                                *)
LEMMA HandedOver ==
    ASSUME NEW m \in Managers, NEW msg \in Messages, msg.stage = m, msg.act = "request",
           Len(bcast') \in 1..Len(bcast'), bcast'[Len(bcast')] = msg, OnlyBroadcast(Len(bcast))',
           \A i \in 1..Len(bcast') : bcast'[i].stage \in {"CLIENT", msg.stage},
           \A k \in 1..Len(jobs') : jobs'[k].stage = "INIT",
           sm' = m, ism' = "IDLE", \A n \in Managers : mgr'[n] = "IDLE",
           Distinct(scanQueue)', \A n \in Managers : Distinct(stack[n])'
    PROVE  StageOwnsWork' /\ Work'
<1>1. StageOwnsWork'
  BY DEF StageOwnsWork
<1>2. StepBroadcast(m)'
  BY DEF StepBroadcast
<1>3. QED BY <1>1, <1>2 DEF Work, Managers

(* ScanManager answers the request and is idle.                            *)
LEMMA NothingLeft ==
    ASSUME \A i \in 1..Len(bcast') : bcast'[i].stage = "CLIENT",
           \A k \in 1..Len(jobs') : jobs'[k].stage = "INIT",
           sm' = "IDLE", ism' = "IDLE", \A n \in Managers : mgr'[n] = "IDLE",
           Distinct(scanQueue)', \A n \in Managers : Distinct(stack[n])'
    PROVE  StageOwnsWork' /\ Work'
<1>1. StageOwnsWork'
  BY DEF StageOwnsWork
<1>2. QED BY <1>1 DEF Work, Managers

LEMMA NextWork == IInv /\ [Next]_vars => StageOwnsWork' /\ Work'
<1> SUFFICES ASSUME IInv, [Next]_vars PROVE StageOwnsWork' /\ Work'
  OBVIOUS
<1> USE DEF smVars, ismVars, radioVars, mgrVars, taskVars
<1>0. /\ TypeOK /\ StageOwnsWork /\ Work
      /\ bcast \in Seq(Messages) /\ Len(bcast) \in Nat
      /\ jobs \in Seq(Tasks) /\ Len(jobs) \in Nat /\ ran \in 0..Len(jobs)
  BY LenProperties DEF IInv, TypeOK
<1>0a. \A m \in Managers : m # sm => mgr[m] = "IDLE"
  BY <1>0 DEF TypeOK, StageOwnsWork
<1>0b. sm # "SCANNING" => ism = "IDLE"
  BY <1>0 DEF TypeOK, StageOwnsWork
<1>0c. /\ Distinct(scanQueue) /\ \A m \in Managers : Distinct(stack[m])
       /\ scanQueue \in Seq(Radios)
  BY <1>0 DEF Work, TypeOK
\* Broadcasts to the screens and the radios.
<1>1. ASSUME NEW p \in Profiles, Send(p) PROVE StageOwnsWork' /\ Work'
  <2>1. \E req : bcast' = Append(bcast, SCAN_REQUEST(req))
    BY <1>1 DEF Send
  <2>2. /\ Len(bcast') = Len(bcast) + 1
        /\ \A i \in 1..Len(bcast) : bcast'[i] = bcast[i]
        /\ bcast'[Len(bcast) + 1].stage = "CLIENT"
    BY <2>1, <1>0 DEF SCAN_REQUEST
  <2>3. \A i \in 1..Len(bcast') : i + 0 > Len(bcast) => bcast'[i].stage = "CLIENT"
    BY <1>0, <2>2
  <2>4. QED BY <1>0, <1>1, <2>2, <2>3, QuietStep DEF Send
<1>2. ASSUME NEW devices \in SUBSET UsbRadios, UsbPoll(devices) PROVE StageOwnsWork' /\ Work'
  <2>1. bcast' = Append(bcast, USBMON_DEVICELIST(devices))
    BY <1>2 DEF UsbPoll
  <2>2. /\ Len(bcast') = Len(bcast) + 1
        /\ \A i \in 1..Len(bcast) : bcast'[i] = bcast[i]
        /\ bcast'[Len(bcast) + 1].stage = "CLIENT"
    BY <2>1, <1>0 DEF USBMON_DEVICELIST
  <2>3. \A i \in 1..Len(bcast') : i + 0 > Len(bcast) => bcast'[i].stage = "CLIENT"
    BY <1>0, <2>2
  <2>4. QED BY <1>0, <1>2, <2>2, <2>3, QuietStep DEF UsbPoll
<1>3. ASSUME NEW r \in Radios, ToggleBuiltIn(r) PROVE StageOwnsWork' /\ Work'
  <2>1. UNCHANGED <<bcast, jobs, sm, ism, scanQueue, pendingResults, mgr, stack, pending>>
    BY <1>3 DEF ToggleBuiltIn
  <2>2. /\ \A i \in 1..Len(bcast) : i > 0 => i - 0 \in 1..Len(bcast') /\ bcast'[i - 0] = bcast[i]
        /\ \A k \in 1..Len(jobs) : k > 0 => k - 0 \in 1..Len(jobs') /\ jobs'[k - 0] = jobs[k]
    BY <1>0, <2>1
  <2>3. /\ Len(bcast') \in Nat /\ Len(jobs') \in Nat
        /\ \A i \in 1..Len(bcast) : ~(i <= 0)
        /\ \A k \in 1..Len(jobs) : ~(k <= 0)
        /\ \A i \in 1..Len(bcast') : ~(i + 0 > Len(bcast))
        /\ \A k \in 1..Len(jobs') : ~(k + 0 > Len(jobs))
    BY <1>0, <2>1
  <2>4. QED BY <1>0, <2>1, <2>2, <2>3, QuietStep
<1>4. CASE RunTask
  BY <1>0, <1>4, QuietStep DEF RunTask
<1>5. ASSUME bcast # <<>>, Head(bcast).stage = "CLIENT", bcast' = Tail(bcast), UNCHANGED jobs,
             UNCHANGED <<sm, ism, scanQueue, pendingResults, mgr, stack, pending>>
      PROVE  StageOwnsWork' /\ Work'
  <2>1. /\ Len(bcast') = Len(bcast) - 1 /\ Len(bcast) > 0 /\ bcast[1].stage = "CLIENT"
        /\ \A i \in 1..Len(bcast') : bcast'[i] = bcast[i + 1]
    BY <1>0, <1>5, HeadTailProperties
  <2>2. /\ Len(bcast') \in Nat
        /\ \A i \in 1..Len(bcast) : i <= 1 => bcast[i].stage = "CLIENT"
        /\ \A i \in 1..Len(bcast) : i > 1 => i - 1 \in 1..Len(bcast') /\ bcast'[i - 1] = bcast[i]
        /\ \A i \in 1..Len(bcast') : i + 1 > Len(bcast) => bcast'[i].stage = "CLIENT"
    BY <1>0, <2>1
  <2>3. QED BY <1>0, <1>5, <2>2, QuietStep
<1>6. CASE Ignore
  BY <1>5, <1>6, OnlyRequestsIgnored DEF Ignore
<1>7. CASE ScreenReceives
  <2>1. bcast' = Tail(bcast)
    BY <1>0, <1>7, HeadTailProperties, ConcatEmptySeq DEF ScreenReceives, Reply, Arrives
  <2>2. QED BY <1>5, <1>7, <2>1 DEF ScreenReceives, Arrives
<1>8. CASE UsbUpdate
  <2> DEFINE I(r) == IF r \in Body \ connected THEN <<InitTask(r)>> ELSE <<>>
             more == I("Wifi") \o I("ZigBee")
  <2>1. ASSUME NEW r \in UsbRadios
        PROVE  I(r) \in Seq(Tasks) /\ \A k \in 1..Len(I(r)) : I(r)[k].stage = "INIT"
    <3>1. InitTask(r) \in Tasks /\ InitTask(r).stage = "INIT"
      BY DEF InitTask, Tasks
    <3>2. CASE r \in Body \ connected
      BY <3>1, <3>2, SingletonSeq
    <3>3. CASE ~(r \in Body \ connected)
      BY <3>3, EmptySeq
    <3>4. QED BY <3>2, <3>3
  <2>2. /\ I("Wifi") \in Seq(Tasks) /\ \A k \in 1..Len(I("Wifi")) : I("Wifi")[k].stage = "INIT"
        /\ I("ZigBee") \in Seq(Tasks) /\ \A k \in 1..Len(I("ZigBee")) : I("ZigBee")[k].stage = "INIT"
    BY <2>1 DEF UsbRadios
  <2>3. jobs' = (jobs \o I("Wifi")) \o I("ZigBee")
    BY <1>8 DEF UsbUpdate
  <2> HIDE DEF I
  <2>4. more \in Seq(Tasks) /\ \A k \in 1..Len(more) : more[k].stage = "INIT"
    <3>1. /\ more \in Seq(Tasks) /\ Len(more) = Len(I("Wifi")) + Len(I("ZigBee"))
          /\ Len(I("Wifi")) \in Nat /\ Len(I("ZigBee")) \in Nat
          /\ \A k \in 1..(Len(I("Wifi")) + Len(I("ZigBee"))) :
                more[k] = IF k <= Len(I("Wifi")) THEN I("Wifi")[k] ELSE I("ZigBee")[k - Len(I("Wifi"))]
      BY <2>2, ConcatProperties, LenProperties
    <3> HIDE DEF more
    <3>2. ASSUME NEW k \in 1..Len(more) PROVE more[k].stage = "INIT"
      <4>1. CASE k <= Len(I("Wifi"))
        BY <2>2, <3>1, <4>1
      <4>2. CASE ~(k <= Len(I("Wifi")))
        <5>1. k - Len(I("Wifi")) \in 1..Len(I("ZigBee"))
          BY <3>1, <4>2
        <5>2. QED BY <2>2, <3>1, <4>2, <5>1
      <4>3. QED BY <4>1, <4>2
    <3>3. QED BY <3>1, <3>2
  <2>5. jobs' = jobs \o more
    <3>1. jobs \in Seq(Tasks) /\ I("Wifi") \in Seq(Tasks) /\ I("ZigBee") \in Seq(Tasks)
      BY <1>0, <2>2
    <3>2. \A s, t, u \in Seq(Tasks) : (s \o t) \o u = s \o (t \o u)
      BY ConcatAssociative
    <3>3. (jobs \o I("Wifi")) \o I("ZigBee") = jobs \o (I("Wifi") \o I("ZigBee"))
      BY <3>1, <3>2
    <3>4. QED BY <2>3, <3>3
  <2> HIDE DEF more
  <2>6. /\ Len(jobs') \in Nat /\ Len(jobs') >= Len(jobs)
        /\ \A k \in 1..Len(jobs) : jobs'[k] = jobs[k]
        /\ \A k \in 1..Len(jobs') : k > Len(jobs) => jobs'[k].stage = "INIT"
    <3>1. /\ Len(jobs') = Len(jobs) + Len(more) /\ Len(more) \in Nat
          /\ \A k \in 1..(Len(jobs) + Len(more)) :
                jobs'[k] = IF k <= Len(jobs) THEN jobs[k] ELSE more[k - Len(jobs)]
      BY <1>0, <2>4, <2>5, ConcatProperties, LenProperties
    <3>2. \A k \in 1..Len(jobs') : k > Len(jobs) => k - Len(jobs) \in 1..Len(more)
      BY <1>0, <3>1
    <3>3. QED BY <1>0, <2>4, <3>1, <3>2
  <2>7. /\ Len(bcast') \in Nat
        /\ \A i \in 1..Len(bcast) : i <= 1 => bcast[i].stage = "CLIENT"
        /\ \A i \in 1..Len(bcast) : i > 1 => i - 1 \in 1..Len(bcast') /\ bcast'[i - 1] = bcast[i]
        /\ \A i \in 1..Len(bcast') : i + 1 > Len(bcast) => bcast'[i].stage = "CLIENT"
    <3>1. bcast' = Tail(bcast) /\ bcast # <<>>
      BY <1>0, <1>8, HeadTailProperties, ConcatEmptySeq DEF UsbUpdate, Reply, Arrives
    <3>2. /\ Len(bcast') = Len(bcast) - 1 /\ Len(bcast) > 0 /\ bcast[1].stage = "CLIENT"
          /\ \A i \in 1..Len(bcast') : bcast'[i] = bcast[i + 1]
      BY <1>0, <1>8, <3>1, HeadTailProperties DEF UsbUpdate, Arrives
    <3>3. QED BY <1>0, <3>2
  <2>8. /\ \A k \in 1..Len(jobs) : k <= 0 => jobs[k].stage = "INIT"
        /\ \A k \in 1..Len(jobs) : k > 0 => k - 0 \in 1..Len(jobs') /\ jobs'[k - 0] = jobs[k]
        /\ \A k \in 1..Len(jobs') : k + 0 > Len(jobs) => jobs'[k].stage = "INIT"
    BY <1>0, <2>6
  <2>9. QED BY <1>0, <1>8, <2>6, <2>7, <2>8, QuietStep DEF UsbUpdate
<1>9. CASE InitDone
  <2>1. /\ Len(jobs) \in Nat \ {0} /\ jobs[1].stage = "INIT" /\ Len(jobs') = Len(jobs) - 1
        /\ \A k \in 1..Len(jobs') : jobs'[k] = jobs[k + 1]
        /\ Len(bcast') = Len(bcast) + 0
        /\ \A i \in 1..Len(bcast) : bcast'[i] = bcast[i]
    BY <1>0, <1>9, PostExecuteShape, EmptySeq DEF InitDone
  <2>2. /\ Len(jobs') \in Nat
        /\ \A k \in 1..Len(jobs) : k <= 1 => jobs[k].stage = "INIT"
        /\ \A k \in 1..Len(jobs) : k > 1 => k - 1 \in 1..Len(jobs') /\ jobs'[k - 1] = jobs[k]
        /\ \A k \in 1..Len(jobs') : k + 1 > Len(jobs) => jobs'[k].stage = "INIT"
    BY <2>1
  <2>3. /\ Len(bcast') \in Nat
        /\ \A i \in 1..Len(bcast) : i <= 0 => bcast[i].stage = "CLIENT"
        /\ \A i \in 1..Len(bcast) : i > 0 => i - 0 \in 1..Len(bcast') /\ bcast'[i - 0] = bcast[i]
        /\ \A i \in 1..Len(bcast') : i + 0 > Len(bcast) => bcast'[i].stage = "CLIENT"
    BY <1>0, <2>1
  <2>4. QED BY <1>0, <1>9, <2>2, <2>3, QuietStep DEF InitDone
\* ScanManager: the request it takes up and the results it passes on.
<1>10. CASE AcceptRequest
  <2>1. sm = "IDLE" /\ sm' = "SCANNING" /\ bcast # <<>> /\ UNCHANGED <<jobs, ism, scanQueue, mgr, stack>>
        /\ Reply(<<INTERFACE_SCAN_REQUEST>>)
    BY <1>10 DEF AcceptRequest, Arrives
  <2>2. OnlyBroadcast(1)
    BY <1>0, <2>1, StagesAtWork DEF StageOwnsWork, OnlyBroadcast, Managers
  <2>3. INTERFACE_SCAN_REQUEST \in Messages
    BY DEF INTERFACE_SCAN_REQUEST, Messages
  <2>4. /\ Len(bcast') \in 1..Len(bcast') /\ bcast'[Len(bcast')] = INTERFACE_SCAN_REQUEST
        /\ OnlyBroadcast(Len(bcast))'
        /\ \A i \in 1..Len(bcast') : bcast'[i].stage \in {"CLIENT", INTERFACE_SCAN_REQUEST.stage}
        /\ \A k \in 1..Len(jobs') : jobs'[k].stage = "INIT"
    BY <1>0, <2>1, <2>2, <2>3, RelayedOne
  <2>5. INTERFACE_SCAN_REQUEST.stage = "SCANNING" /\ INTERFACE_SCAN_REQUEST.act = "request"
    BY DEF INTERFACE_SCAN_REQUEST
  <2>6. ism' = "IDLE" /\ \A m \in Managers : mgr'[m] = "IDLE"
    BY <1>0a, <1>0b, <2>1 DEF Managers
  <2>7. ScanBroadcast'
    BY <2>4, <2>5, <2>6 DEF ScanBroadcast
  <2>8. StageOwnsWork'
    BY <2>1, <2>4, <2>5, <2>6 DEF StageOwnsWork
  <2>9. Work'
    BY <1>0c, <2>1, <2>7 DEF Work, Managers
  <2>10. QED BY <2>8, <2>9
<1>11. CASE ScanFinished
  <2>1. bcast # <<>> /\ Head(bcast).stage = "SCANNING" /\ Head(bcast).act = "response"
    BY <1>11 DEF ScanFinished, Arrives
  <2>2. sm = "SCANNING" /\ OnlyBroadcast(1) /\ ism = "IDLE"
    BY <2>1, HeadAtWork DEF ScanBroadcast
  <2>3. Body \in Payload /\ working \in Requests
    BY <1>0, <2>1, <2>2, Delivered, BodyType DEF Body, TypeOK
  <2>4. SNAPSHOT_DATA(Body) \in Messages /\ SNAPSHOT_DATA(Body).stage = "CLIENT"
    BY <2>3 DEF SNAPSHOT_DATA, Messages, Payload, Requests
  <2>5. UNCHANGED <<jobs, ism, scanQueue, mgr, stack>>
    BY <1>11 DEF ScanFinished
  <2>6. ism' = "IDLE" /\ \A n \in Managers : mgr'[n] = "IDLE"
    BY <1>0a, <2>2, <2>5 DEF Managers
  <2>7. CASE working.flags.doNameResolution
    <3> DEFINE msg == StageRequest("NAME_RESOLUTION", Body)
    <3>1. /\ msg \in Messages /\ msg.stage = "NAME_RESOLUTION" /\ msg.act = "request"
          /\ "NAME_RESOLUTION" \in Managers
      BY <2>3 DEF StageRequest, Messages, Managers
    <3>2. Reply(<<SNAPSHOT_DATA(Body)>> \o <<msg>>) /\ sm' = "NAME_RESOLUTION"
      BY <1>11, <2>2, <2>7 DEF ScanFinished
    <3> HIDE DEF msg
    <3>3. /\ Len(bcast') \in 1..Len(bcast') /\ bcast'[Len(bcast')] = msg
          /\ OnlyBroadcast(Len(bcast))'
          /\ \A i \in 1..Len(bcast') : bcast'[i].stage \in {"CLIENT", msg.stage}
          /\ \A k \in 1..Len(jobs') : jobs'[k].stage = "INIT"
      BY <1>0, <2>1, <2>2, <2>4, <2>5, <3>1, <3>2, RelayedTwo
    <3>4. QED BY <1>0c, <2>5, <2>6, <3>1, <3>2, <3>3, HandedOver
  <2>8. CASE ~working.flags.doNameResolution
    <3> DEFINE msg == SCAN_RESPONSE("INTERFACES", Body)
    <3>1. msg \in Messages /\ msg.stage = "CLIENT"
      BY <2>3 DEF SCAN_RESPONSE, Messages, Answers, Payload
    <3>2. Reply(<<SNAPSHOT_DATA(Body)>> \o <<msg>>) /\ sm' = "IDLE"
      BY <1>11, <2>2, <2>8 DEF ScanFinished
    <3> HIDE DEF msg
    <3>3. /\ \A i \in 1..Len(bcast') : bcast'[i].stage \in {"CLIENT", msg.stage}
          /\ \A k \in 1..Len(jobs') : jobs'[k].stage = "INIT"
      BY <1>0, <2>1, <2>2, <2>4, <2>5, <3>1, <3>2, RelayedTwo
    <3>4. QED BY <1>0c, <2>5, <2>6, <3>1, <3>2, <3>3, NothingLeft
  <2>9. QED BY <2>7, <2>8
<1>12. CASE ResolutionFinished
  <2>1. bcast # <<>> /\ Head(bcast).stage = "NAME_RESOLUTION" /\ Head(bcast).act = "response"
    BY <1>12 DEF ResolutionFinished, Arrives
  <2>2. sm = "NAME_RESOLUTION" /\ sm \in Managers /\ OnlyBroadcast(1) /\ mgr[sm] = "IDLE"
    BY <2>1, HeadAtWork DEF Managers
  <2>3. Body \in Payload /\ working \in Requests
    BY <1>0, <2>1, <2>2, Delivered, BodyType DEF Body, TypeOK
  <2>4. UNCHANGED <<jobs, ism, scanQueue, mgr, stack>>
    BY <1>12 DEF ResolutionFinished
  <2>5. ism' = "IDLE" /\ \A n \in Managers : mgr'[n] = "IDLE"
    BY <1>0a, <1>0b, <2>2, <2>4
  <2>6. CASE working.flags.doMerging
    <3> DEFINE msg == StageRequest("INTERFACE_MERGING", Body)
    <3>1. /\ msg \in Messages /\ msg.stage = "INTERFACE_MERGING" /\ msg.act = "request"
          /\ "INTERFACE_MERGING" \in Managers
      BY <2>3 DEF StageRequest, Messages, Managers
    <3>2. Reply(<<msg>>) /\ sm' = "INTERFACE_MERGING"
      BY <1>12, <2>6 DEF ResolutionFinished
    <3> HIDE DEF msg
    <3>3. /\ Len(bcast') \in 1..Len(bcast') /\ bcast'[Len(bcast')] = msg
          /\ OnlyBroadcast(Len(bcast))'
          /\ \A i \in 1..Len(bcast') : bcast'[i].stage \in {"CLIENT", msg.stage}
          /\ \A k \in 1..Len(jobs') : jobs'[k].stage = "INIT"
      BY <1>0, <2>1, <2>2, <2>4, <3>1, <3>2, RelayedOne
    <3>4. QED BY <1>0c, <2>4, <2>5, <3>1, <3>2, <3>3, HandedOver
  <2>7. CASE ~working.flags.doMerging
    <3> DEFINE msg == SCAN_RESPONSE("INTERFACES", Body)
    <3>1. msg \in Messages /\ msg.stage = "CLIENT"
      BY <2>3 DEF SCAN_RESPONSE, Messages, Answers, Payload
    <3>2. Reply(<<msg>>) /\ sm' = "IDLE"
      BY <1>12, <2>7 DEF ResolutionFinished
    <3> HIDE DEF msg
    <3>3. /\ \A i \in 1..Len(bcast') : bcast'[i].stage \in {"CLIENT", msg.stage}
          /\ \A k \in 1..Len(jobs') : jobs'[k].stage = "INIT"
      BY <1>0, <2>1, <2>2, <2>4, <3>1, <3>2, RelayedOne
    <3>4. QED BY <1>0c, <2>4, <2>5, <3>1, <3>2, <3>3, NothingLeft
  <2>8. QED BY <2>6, <2>7
<1>13. CASE MergingFinished
  <2>1. bcast # <<>> /\ Head(bcast).stage = "INTERFACE_MERGING" /\ Head(bcast).act = "response"
    BY <1>13 DEF MergingFinished, Arrives
  <2>2. sm = "INTERFACE_MERGING" /\ sm \in Managers /\ OnlyBroadcast(1) /\ mgr[sm] = "IDLE"
    BY <2>1, HeadAtWork DEF Managers
  <2>3. Body \in Payload /\ working \in Requests
    BY <1>0, <2>1, <2>2, Delivered, BodyType DEF Body, TypeOK
  <2>4. UNCHANGED <<jobs, ism, scanQueue, mgr, stack>>
    BY <1>13 DEF MergingFinished
  <2>5. ism' = "IDLE" /\ \A n \in Managers : mgr'[n] = "IDLE"
    BY <1>0a, <1>0b, <2>2, <2>4
  <2>6. CASE working.flags.doFiltering
    <3> DEFINE msg == StageRequest("DEVICE_FILTERING", Body)
    <3>1. /\ msg \in Messages /\ msg.stage = "DEVICE_FILTERING" /\ msg.act = "request"
          /\ "DEVICE_FILTERING" \in Managers
      BY <2>3 DEF StageRequest, Messages, Managers
    <3>2. Reply(<<msg>>) /\ sm' = "DEVICE_FILTERING"
      BY <1>13, <2>6 DEF MergingFinished
    <3> HIDE DEF msg
    <3>3. /\ Len(bcast') \in 1..Len(bcast') /\ bcast'[Len(bcast')] = msg
          /\ OnlyBroadcast(Len(bcast))'
          /\ \A i \in 1..Len(bcast') : bcast'[i].stage \in {"CLIENT", msg.stage}
          /\ \A k \in 1..Len(jobs') : jobs'[k].stage = "INIT"
      BY <1>0, <2>1, <2>2, <2>4, <3>1, <3>2, RelayedOne
    <3>4. QED BY <1>0c, <2>4, <2>5, <3>1, <3>2, <3>3, HandedOver
  <2>7. CASE ~working.flags.doFiltering
    <3> DEFINE msg == SCAN_RESPONSE("DEVICES", Body)
    <3>1. msg \in Messages /\ msg.stage = "CLIENT"
      BY <2>3 DEF SCAN_RESPONSE, Messages, Answers, Payload
    <3>2. Reply(<<msg>>) /\ sm' = "IDLE"
      BY <1>13, <2>7 DEF MergingFinished
    <3> HIDE DEF msg
    <3>3. /\ \A i \in 1..Len(bcast') : bcast'[i].stage \in {"CLIENT", msg.stage}
          /\ \A k \in 1..Len(jobs') : jobs'[k].stage = "INIT"
      BY <1>0, <2>1, <2>2, <2>4, <3>1, <3>2, RelayedOne
    <3>4. QED BY <1>0c, <2>4, <2>5, <3>1, <3>2, <3>3, NothingLeft
  <2>8. QED BY <2>6, <2>7
<1>14. CASE FilteringFinished
  <2>1. bcast # <<>> /\ Head(bcast).stage = "DEVICE_FILTERING" /\ Head(bcast).act = "response"
    BY <1>14 DEF FilteringFinished, Arrives
  <2>2. sm = "DEVICE_FILTERING" /\ sm \in Managers /\ OnlyBroadcast(1) /\ mgr[sm] = "IDLE"
    BY <2>1, HeadAtWork DEF Managers
  <2>3. Body \in Payload /\ working \in Requests
    BY <1>0, <2>1, <2>2, Delivered, BodyType DEF Body, TypeOK
  <2>4. UNCHANGED <<jobs, ism, scanQueue, mgr, stack>>
    BY <1>14 DEF FilteringFinished
  <2>5. ism' = "IDLE" /\ \A n \in Managers : mgr'[n] = "IDLE"
    BY <1>0a, <1>0b, <2>2, <2>4
  <2> DEFINE msg == SCAN_RESPONSE("DEVICES", Body)
  <2>6. msg \in Messages /\ msg.stage = "CLIENT"
    BY <2>3 DEF SCAN_RESPONSE, Messages, Answers, Payload
  <2>7. Reply(<<msg>>) /\ sm' = "IDLE"
    BY <1>14 DEF FilteringFinished
  <2> HIDE DEF msg
  <2>8. /\ \A i \in 1..Len(bcast') : bcast'[i].stage \in {"CLIENT", msg.stage}
        /\ \A k \in 1..Len(jobs') : jobs'[k].stage = "INIT"
    BY <1>0, <2>1, <2>2, <2>4, <2>6, <2>7, RelayedOne
  <2>9. QED BY <1>0c, <2>4, <2>5, <2>6, <2>7, <2>8, NothingLeft
\* The managers: one step after the other.
<1>15. ASSUME NEW m \in Managers, sm = m, UNCHANGED <<sm, ism, scanQueue>>, StepTasked(m)',
              \A i \in 1..Len(bcast') : bcast'[i].stage = "CLIENT",
              \A k \in 1..Len(jobs') : jobs'[k].stage \in {"INIT", m},
              NEW st \in Seq(Steps), stack' = [stack EXCEPT ![m] = Tail(st)], Distinct(Tail(st)),
              \A n \in Managers \ {m} : mgr'[n] = mgr[n]
       PROVE  StageOwnsWork' /\ Work'
  <2>1. ism' = "IDLE"
    BY <1>0b, <1>15 DEF Managers
  <2>2. StageOwnsWork'
    BY <1>0a, <1>15, <2>1 DEF StageOwnsWork
  <2>3. \A n \in Managers : Distinct(stack'[n])
    BY <1>0, <1>0c, <1>15 DEF TypeOK
  <2>4. Distinct(scanQueue)'
    BY <1>0c, <1>15
  <2>5. QED BY <1>15, <2>2, <2>3, <2>4 DEF Work, Managers
<1>16. ASSUME NEW m \in Managers, StageRequested(m) PROVE StageOwnsWork' /\ Work'
  <2>1. bcast # <<>> /\ Head(bcast).stage = m /\ Head(bcast).act = "request" /\ Reply(<<>>)
    BY <1>16 DEF StageRequested, Arrives
  <2>2. sm = m /\ OnlyBroadcast(1)
    BY <2>1, HeadAtWork DEF Managers
  <2>3. Body \in Payload
    BY <1>0, <2>1, Delivered, BodyType DEF Body
  <2>4. Chain(m) \in Seq(Steps) /\ Chain(m) # <<>> /\ Distinct(Chain(m))
    BY ChainType, ChainDistinct
  <2>5. TriggerNext(m, Chain(m), Body) /\ mgr'[m] = "BUSY" /\ pending'[m] = Elements(Chain(m))
        /\ (\A n \in Managers \ {m} : mgr'[n] = mgr[n]) /\ UNCHANGED <<sm, ism, scanQueue>>
    BY <1>0, <1>16 DEF StageRequested, TypeOK
  <2>6. /\ StepTasked(m)'
        /\ \A i \in 1..Len(bcast') : bcast'[i].stage = "CLIENT"
        /\ \A k \in 1..Len(jobs') : jobs'[k].stage \in {"INIT", m}
        /\ stack' = [stack EXCEPT ![m] = Tail(Chain(m))] /\ Distinct(Tail(Chain(m)))
    BY <1>0, <2>1, <2>2, <2>3, <2>4, <2>5, StepStarts
  <2>7. QED BY <1>15, <2>2, <2>4, <2>5, <2>6
<1>17. ASSUME NEW m \in Managers, StepFinished(m) PROVE StageOwnsWork' /\ Work'
  <2>1. bcast # <<>> /\ Head(bcast).stage = m /\ Head(bcast).act = "step"
    BY <1>17 DEF StepFinished, Arrives
  <2>2. sm = m /\ OnlyBroadcast(1) /\ BusyWith(m, Body.step)
    BY <2>1, HeadAtWork DEF Managers, Body
  <2>3. Body.payload \in Payload
    BY <1>0, <2>1, Delivered, BodyType DEF Body
  <2>4. pending[m] \ {Body.step} = Elements(stack[m]) /\ stack[m] \in Seq(Steps) /\ Distinct(stack[m])
    BY <1>0, <1>0c, <2>2 DEF BusyWith, TypeOK
  <2>5. TriggerNext(m, stack[m], Body.payload) /\ pending'[m] = Elements(stack[m])
        /\ (\A n \in Managers \ {m} : mgr'[n] = mgr[n]) /\ UNCHANGED <<sm, ism, scanQueue>>
    BY <1>0, <1>17, <2>4 DEF StepFinished, TypeOK
  <2>6. CASE stack[m] = <<>>
    <3>1. Elements(stack[m]) = {}
      BY <2>6 DEF Elements
    <3> DEFINE msg == StageResponse(m, Body.payload)
    <3>2. msg \in Messages /\ msg.stage = m /\ msg.act = "response"
      BY <2>3 DEF StageResponse, Messages
    <3>3. Reply(<<msg>>) /\ mgr'[m] = "IDLE"
      BY <1>0, <1>17, <2>4, <3>1 DEF StepFinished, TypeOK
    <3>4. UNCHANGED jobs /\ stack' = [stack EXCEPT ![m] = <<>>]
      BY <2>5, <2>6 DEF TriggerNext
    <3> HIDE DEF msg
    <3>5. /\ Len(bcast') \in 1..Len(bcast') /\ bcast'[Len(bcast')] = msg
          /\ OnlyBroadcast(Len(bcast))'
          /\ \A i \in 1..Len(bcast') : bcast'[i].stage \in {"CLIENT", msg.stage}
          /\ \A k \in 1..Len(jobs') : jobs'[k].stage = "INIT"
      BY <1>0, <2>1, <2>2, <3>2, <3>3, <3>4, RelayedOne
    <3>6. ism' = "IDLE" /\ \A n \in Managers : mgr'[n] = "IDLE"
      BY <1>0a, <1>0b, <2>2, <2>5, <3>3 DEF Managers
    <3>7. StageOwnsWork'
      BY <2>2, <2>5, <3>2, <3>5, <3>6 DEF StageOwnsWork
    <3>8. StepBroadcast(m)'
      BY <3>2, <3>5, <3>6 DEF StepBroadcast
    <3>9. Distinct(scanQueue)' /\ \A n \in Managers : Distinct(stack'[n])
      BY <1>0, <1>0c, <2>5, <2>6, <3>4 DEF TypeOK
    <3>10. QED BY <2>2, <2>5, <3>7, <3>8, <3>9 DEF Work, Managers
  <2>7. CASE stack[m] # <<>>
    <3>1. Elements(stack[m]) # {}
      <4>1. 1 \in 1..Len(stack[m])
        BY <2>4, <2>7, EmptySeq
      <4>2. QED BY <4>1 DEF Elements
    <3>2. Reply(<<>>) /\ mgr'[m] = "BUSY"
      BY <1>0, <1>17, <2>4, <3>1 DEF StepFinished, TypeOK
    <3>3. /\ StepTasked(m)'
          /\ \A i \in 1..Len(bcast') : bcast'[i].stage = "CLIENT"
          /\ \A k \in 1..Len(jobs') : jobs'[k].stage \in {"INIT", m}
          /\ stack' = [stack EXCEPT ![m] = Tail(stack[m])] /\ Distinct(Tail(stack[m]))
      BY <1>0, <2>1, <2>2, <2>3, <2>4, <2>5, <2>7, <3>2, StepStarts
    <3>4. QED BY <1>15, <2>2, <2>4, <2>5, <3>3
  <2>8. QED BY <2>6, <2>7
<1>18. ASSUME NEW m \in Managers, StepDone(m) PROVE StageOwnsWork' /\ Work'
  <2> DEFINE task == Head(jobs)
             msg == StepResponse(m, task.step, [task.body EXCEPT !.steps = Append(@, task.step)])
  <2>0. PostExecute(m, <<msg>>) /\ UNCHANGED <<sm, ism, scanQueue, mgr, stack, pending>>
    BY <1>18 DEF StepDone
  <2>1. jobs # <<>> /\ task.stage = m
    BY <1>0, <2>0 DEF PostExecute
  <2>2. task \in Tasks /\ task.step \in Steps /\ task.body \in Payload
    BY <1>0, <2>1, HeadTailProperties, TaskType
  <2>3. msg \in Messages /\ msg.stage = m /\ msg.act = "step" /\ msg.body.step = task.step
    <3>1. [task.body EXCEPT !.steps = Append(@, task.step)] \in Payload
      BY <2>2, AppendProperties DEF Payload
    <3>2. QED BY <2>2, <3>1 DEF StepResponse, Messages
  <2> HIDE DEF msg
  <2> DEFINE sent == <<msg>>
  <2>4. sent \in Seq(Messages) /\ Len(sent) = 1 /\ sent[1] = msg /\ PostExecute(m, sent)
    BY <2>0, <2>3, SingletonSeq
  <2> HIDE DEF sent
  <2>5. /\ 1 \in 1..Len(jobs) /\ task = jobs[1] /\ Len(jobs') = Len(jobs) - 1
        /\ \A k \in 1..Len(jobs') : jobs'[k] = jobs[k + 1]
        /\ Len(bcast') = Len(bcast) + 1
        /\ \A i \in 1..Len(bcast) : bcast'[i] = bcast[i]
        /\ bcast'[Len(bcast) + 1] = msg
    <3>1. /\ jobs # <<>> /\ Len(jobs) \in Nat \ {0} /\ Head(jobs) = jobs[1]
          /\ Len(jobs') = Len(jobs) - 1
          /\ \A k \in 1..Len(jobs') : jobs'[k] = jobs[k + 1]
          /\ Len(bcast') = Len(bcast) + Len(sent)
          /\ \A i \in 1..Len(bcast) : bcast'[i] = bcast[i]
          /\ \A i \in 1..Len(sent) : bcast'[Len(bcast) + i] = sent[i]
      BY <1>0, <2>4, PostExecuteShape
    <3>2. bcast'[Len(bcast) + 1] = sent[1]
      BY <2>4, <3>1
    <3>3. QED BY <2>4, <3>1, <3>2
  <2>6. sm = m /\ OnlyTask(1) /\ BusyWith(m, task.step)
    BY <2>1, <2>5, TaskAtWork
  <2>7. \A k \in 1..Len(jobs') : jobs'[k].stage = "INIT"
    <3>1. \A k \in 1..Len(jobs') : k + 1 \in 1..Len(jobs) /\ k + 1 # 1
      BY <1>0, <2>5
    <3>2. QED BY <2>5, <2>6, <3>1 DEF OnlyTask
  <2>8. \A i \in 1..Len(bcast') : i # Len(bcast') => bcast'[i].stage = "CLIENT"
    BY <1>0, <2>5, <2>6 DEF OnlyTask
  <2>9. Len(bcast') \in 1..Len(bcast') /\ bcast'[Len(bcast')] = msg
    BY <1>0, <2>5
  <2>10. OnlyBroadcast(Len(bcast))'
    BY <2>7, <2>8 DEF OnlyBroadcast
  <2>11. BusyWith(m, task.step) /\ mgr' = mgr /\ pending' = pending /\ stack' = stack
    BY <2>0, <2>6
  <2>12. mgr'[m] = "BUSY" /\ pending'[m] \ {msg.body.step} = Elements(stack'[m])
    BY <2>3, <2>11 DEF BusyWith
  <2>13. StepBroadcast(m)'
    BY <2>3, <2>9, <2>10, <2>12 DEF StepBroadcast, BusyWith
  <2>14. ism' = "IDLE"
    BY <1>0b, <2>0, <2>6 DEF Managers
  <2>15. StageOwnsWork'
    BY <1>0a, <2>0, <2>3, <2>6, <2>7, <2>8, <2>9, <2>14 DEF StageOwnsWork
  <2>16. QED BY <1>0c, <2>0, <2>6, <2>13, <2>15 DEF Work, Managers
\* InterfaceScanManager.
<1>19. CASE InterfaceScanRequested
  <2>1. bcast # <<>> /\ Head(bcast).stage = "SCANNING" /\ Head(bcast).act = "request" /\ Reply(<<>>)
    BY <1>19 DEF InterfaceScanRequested, Arrives
  <2>2. sm = "SCANNING" /\ OnlyBroadcast(1)
    BY <2>1, HeadAtWork
  <2>3. /\ ConnectedRadios \in Seq(Radios) /\ Distinct(ConnectedRadios)
        /\ Elements(ConnectedRadios) = connected
    BY <1>0, ConnectedRadiosType, ConnectedRadiosShape DEF TypeOK
  <2>4. TriggerNextInterfaceScan(ConnectedRadios) /\ ism' = "SCANNING" /\ pendingResults' = connected
        /\ UNCHANGED <<sm, mgr, stack>>
    BY <1>19 DEF InterfaceScanRequested
  <2>5. \A i \in 1..Len(bcast') : bcast'[i].stage = "CLIENT"
    <3>1. <<>> \in Seq(Messages) /\ Len(<<>>) = 0
      BY EmptySeq
    <3>2. \A i \in 1..(Len(<<>>) - 1) : <<>>[i].stage = "CLIENT"
      BY <3>1
    <3>3. QED BY <1>0, <2>1, <2>2, <3>1, <3>2, RelayShape
  <2>6. \A k \in 1..Len(jobs) : jobs[k].stage = "INIT"
    BY <2>2 DEF OnlyBroadcast
  <2>7. ScanRunning'
    BY <1>0, <2>3, <2>4, <2>5, <2>6, ScanGoesOn
  <2>8. /\ Distinct(scanQueue')
        /\ \A k \in 1..Len(jobs') : jobs'[k].stage = "SCANNING" \/ jobs'[k].stage = "INIT"
    BY <1>0, <2>3, <2>4, <2>6, TriggerScanShape
  <2>9. StageOwnsWork'
    BY <1>0a, <2>2, <2>4, <2>5, <2>8 DEF StageOwnsWork, Managers
  <2>10. QED BY <1>0c, <2>2, <2>4, <2>7, <2>8, <2>9 DEF Work, Managers
<1>20. CASE HardwareScanFinished
  <2> DEFINE left == pendingResults \ {Body}
  <2>1. bcast # <<>> /\ Head(bcast).stage = "SCANNING" /\ Head(bcast).act = "step"
    BY <1>20 DEF HardwareScanFinished, Arrives
  <2>2. sm = "SCANNING" /\ ScanRunning /\ 1 \in 1..Len(bcast) /\ Body = bcast[1].body
        /\ bcast[1].stage = "SCANNING"
    BY <2>1, HeadAtWork DEF Body
  <2>3. TriggerNextInterfaceScan(scanQueue) /\ pendingResults' = left /\ UNCHANGED <<sm, mgr, stack>>
    BY <1>20 DEF HardwareScanFinished
  <2>4. Elements(scanQueue) \subseteq left
    BY <2>2 DEF ScanRunning
  <2>5. ASSUME NEW k \in 1..Len(jobs), jobs[k].stage = "SCANNING"
        PROVE  /\ jobs[k].step \in left \ Elements(scanQueue)
               /\ \A j \in 1..Len(jobs) : IsScanner(jobs[j], jobs[k].step) => j = k
    BY <2>2, <2>5 DEF ScanRunning, IsScanner
  <2>6. ASSUME NEW i \in 1..Len(bcast), i # 1, bcast[i].stage = "SCANNING"
        PROVE  bcast[i].body \in left \ Elements(scanQueue)
    BY <2>2, <2>6 DEF ScanRunning
  <2>7. /\ Distinct(scanQueue')
        /\ Len(jobs) \in Nat /\ Len(jobs') \in Nat
        /\ \A k \in 1..Len(jobs) : jobs'[k] = jobs[k]
        /\ \A k \in 1..Len(jobs') : k > Len(jobs) => jobs'[k].stage = "SCANNING"
        /\ scanQueue = <<>> => scanQueue' = <<>> /\ Len(jobs') = Len(jobs)
    BY <1>0, <1>0c, <2>3, TriggerScanShape
  <2>8. /\ \A k \in 1..Len(jobs) : jobs[k].stage \in {"INIT", "SCANNING"}
        /\ \A i \in 1..Len(bcast) : bcast[i].stage \in {"CLIENT", "SCANNING"}
    BY <1>0, <2>2 DEF StageOwnsWork
  <2>9. CASE left = {}
    <3> DEFINE msg == INTERFACE_SCAN_RESULT(found')
    <3>1. Reply(<<msg>>) /\ ism' = "IDLE"
      BY <1>20, <2>9 DEF HardwareScanFinished
    <3>2. found' \subseteq Radios
      BY <1>0, <1>20, <2>1, Delivered, BodyType DEF HardwareScanFinished, Body, TypeOK
    <3>3. msg \in Messages /\ msg.stage = "SCANNING" /\ msg.act # "step"
      <4>1. [radios |-> found', steps |-> <<>>] \in Payload
        BY <3>2, EmptySeq DEF Payload
      <4>2. QED BY <4>1 DEF INTERFACE_SCAN_RESULT, Messages
    <3> HIDE DEF msg
    <3>4. OnlyBroadcast(1)
      BY <2>5, <2>6, <2>8, <2>9 DEF OnlyBroadcast
    <3>5. scanQueue = <<>>
      <4>1. Len(scanQueue) \in Nat /\ (scanQueue # <<>> => Len(scanQueue) > 0)
        BY <1>0c, LenProperties, EmptySeq
      <4>2. Len(scanQueue) > 0 => scanQueue[1] \in Elements(scanQueue)
        BY <4>1 DEF Elements
      <4>3. QED BY <2>4, <2>9, <4>1, <4>2
    <3>6. UNCHANGED jobs
      <4>1. jobs' = jobs \o StartScans(Triggered(scanQueue)) /\ Triggered(scanQueue) \in Seq(Radios)
            /\ Len(Triggered(scanQueue)) \in 0..2 /\ Len(Triggered(scanQueue)) <= Len(scanQueue)
        BY <1>0c, <2>3, TriggeredType DEF TriggerNextInterfaceScan
      <4>2. Len(Triggered(scanQueue)) = 0
        BY <3>5, <4>1, EmptySeq
      <4>3. StartScans(Triggered(scanQueue)) = <<>>
        BY <4>2 DEF StartScans
      <4>4. QED BY <1>0, <4>1, <4>3, ConcatEmptySeq
    <3>7. /\ Len(bcast') \in 1..Len(bcast') /\ bcast'[Len(bcast')] = msg
          /\ OnlyBroadcast(Len(bcast))'
          /\ \A i \in 1..Len(bcast') : bcast'[i].stage \in {"CLIENT", msg.stage}
          /\ \A k \in 1..Len(jobs') : jobs'[k].stage = "INIT"
      BY <1>0, <2>1, <3>1, <3>3, <3>4, <3>6, RelayedOne
    <3>8. ScanBroadcast'
      BY <3>1, <3>3, <3>7 DEF ScanBroadcast
    <3>9. StageOwnsWork'
      BY <1>0a, <2>2, <2>3, <3>1, <3>3, <3>7 DEF StageOwnsWork, Managers
    <3>10. QED BY <1>0c, <2>2, <2>3, <2>7, <3>8, <3>9 DEF Work, Managers
  <2>10. CASE left # {}
    <3>1. Reply(<<>>) /\ ism' = "SCANNING"
      BY <1>20, <2>10 DEF HardwareScanFinished
    <3>2. /\ Len(bcast') = Len(bcast) - 1
          /\ \A i \in 1..Len(bcast') : i + 1 \in 1..Len(bcast) /\ i + 1 # 1 /\ bcast'[i] = bcast[i + 1]
      <4>1. Tail(bcast) \in Seq(Messages) /\ bcast' = Tail(bcast)
        BY <1>0, <2>1, <3>1, HeadTailProperties, ConcatEmptySeq DEF Reply
      <4>2. Len(bcast') = Len(bcast) - 1 /\ \A i \in 1..(Len(bcast) - 1) : bcast'[i] = bcast[i + 1]
        BY <1>0, <2>1, <4>1, HeadTailProperties
      <4>3. QED BY <1>0, <4>2
    <3>3. ASSUME NEW i \in 1..Len(bcast'), bcast'[i].stage = "SCANNING"
          PROVE  /\ bcast'[i].act = "step"
                 /\ bcast'[i].body \in pendingResults' \ Elements(scanQueue)
                 /\ \A j \in 1..Len(bcast') :
                      bcast'[j].stage = "SCANNING" /\ bcast'[j].body = bcast'[i].body => j = i
                 /\ \A k \in 1..Len(jobs) : ~IsScanner(jobs[k], bcast'[i].body)
      <4>1. i + 1 \in 1..Len(bcast) /\ i + 1 # 1 /\ bcast'[i] = bcast[i + 1]
        BY <3>2
      <4>2. ASSUME NEW j \in 1..Len(bcast'), bcast'[j].stage = "SCANNING",
                   bcast'[j].body = bcast'[i].body
            PROVE  j = i
        <5>1. j + 1 \in 1..Len(bcast) /\ bcast'[j] = bcast[j + 1]
          BY <3>2
        <5>2. j + 1 = i + 1
          BY <2>2, <3>3, <4>1, <4>2, <5>1 DEF ScanRunning
        <5>3. QED BY <5>2
      <4>3. QED BY <2>2, <2>3, <2>6, <3>3, <4>1, <4>2 DEF ScanRunning
    <3>4. ScanRunning'
      BY <1>0, <1>0c, <2>3, <2>4, <2>5, <3>1, <3>3, ScanGoesOn
    <3>5. \A i \in 1..Len(bcast') : bcast'[i].stage \in {"CLIENT", "SCANNING"}
      BY <2>8, <3>2
    <3>6. \A k \in 1..Len(jobs') : jobs'[k].stage \in {"INIT", "SCANNING"}
      <4>1. \A k \in 1..Len(jobs') : k > Len(jobs) \/ k \in 1..Len(jobs)
        BY <2>7
      <4>2. QED BY <2>7, <2>8, <4>1
    <3>7. StageOwnsWork'
      BY <1>0a, <2>2, <2>3, <3>1, <3>5, <3>6 DEF StageOwnsWork, Managers
    <3>8. QED BY <1>0c, <2>2, <2>3, <2>7, <3>4, <3>7 DEF Work, Managers
  <2>11. QED BY <2>9, <2>10
<1>21. CASE ScannerDone
  <2> DEFINE r == Head(jobs).step
             msg == HW_SCAN_RESULT(r)
  <2>0. PostExecute("SCANNING", <<msg>>) /\ UNCHANGED <<sm, ism, scanQueue, pendingResults, mgr, stack>>
    BY <1>21 DEF ScannerDone
  <2>1. jobs # <<>> /\ Head(jobs).stage = "SCANNING"
    BY <1>0, <2>0 DEF PostExecute
  <2>2. r \in Radios
    BY <1>0, <2>1, HeadTailProperties, TaskType
  <2>3. msg \in Messages /\ msg.stage = "SCANNING" /\ msg.act = "step" /\ msg.body = r
    BY <2>2 DEF HW_SCAN_RESULT, Messages
  <2> HIDE DEF msg
  <2> DEFINE sent == <<msg>>
  <2>4. sent \in Seq(Messages) /\ Len(sent) = 1 /\ sent[1] = msg /\ PostExecute("SCANNING", sent)
    BY <2>0, <2>3, SingletonSeq
  <2> HIDE DEF sent
  <2>5. /\ 1 \in 1..Len(jobs) /\ r = jobs[1].step /\ jobs[1].stage = "SCANNING"
        /\ \A k \in 1..Len(jobs') : k + 1 \in 1..Len(jobs) /\ k + 1 # 1 /\ jobs'[k] = jobs[k + 1]
        /\ Len(bcast') = Len(bcast) + 1
        /\ \A i \in 1..Len(bcast) : bcast'[i] = bcast[i]
        /\ bcast'[Len(bcast')] = msg
    <3>1. /\ jobs # <<>> /\ Len(jobs) \in Nat \ {0} /\ Head(jobs) = jobs[1]
          /\ Len(jobs') = Len(jobs) - 1
          /\ \A k \in 1..Len(jobs') : jobs'[k] = jobs[k + 1]
          /\ Len(bcast') = Len(bcast) + Len(sent)
          /\ \A i \in 1..Len(bcast) : bcast'[i] = bcast[i]
          /\ \A i \in 1..Len(sent) : bcast'[Len(bcast) + i] = sent[i]
      BY <1>0, <2>4, PostExecuteShape
    <3>2. bcast'[Len(bcast) + 1] = sent[1]
      BY <2>4, <3>1
    <3>3. QED BY <2>1, <2>4, <3>1, <3>2
  <2>6. sm = "SCANNING"
    BY <1>0, <2>5 DEF StageOwnsWork
  <2>7. ScanRunning
    BY <1>0, <2>5, <2>6 DEF Work, ScanBroadcast, OnlyBroadcast
  <2>8. r \in pendingResults \ Elements(scanQueue)
    BY <2>5, <2>7 DEF ScanRunning
  <2>9. \A i \in 1..Len(bcast') : i = Len(bcast') \/ (i \in 1..Len(bcast) /\ bcast'[i] = bcast[i])
    BY <1>0, <2>5
  <2>10. \A i \in 1..Len(bcast) : bcast[i].stage = "SCANNING" => bcast[i].body # r
    BY <2>5, <2>7 DEF ScanRunning, IsScanner
  <2>11. \A k \in 1..Len(jobs') : ~IsScanner(jobs'[k], r)
    BY <2>5, <2>7 DEF ScanRunning, IsScanner
  <2>12. ASSUME NEW i \in 1..Len(bcast'), bcast'[i].stage = "SCANNING"
         PROVE  /\ bcast'[i].act = "step"
                /\ bcast'[i].body \in pendingResults \ Elements(scanQueue)
                /\ \A j \in 1..Len(bcast') :
                     bcast'[j].stage = "SCANNING" /\ bcast'[j].body = bcast'[i].body => j = i
                /\ \A k \in 1..Len(jobs') : ~IsScanner(jobs'[k], bcast'[i].body)
    <3>1. CASE i = Len(bcast')
      BY <2>3, <2>5, <2>8, <2>9, <2>10, <2>11, <3>1
    <3>2. CASE i \in 1..Len(bcast) /\ bcast'[i] = bcast[i]
      <4>1. bcast[i].body # r
        BY <2>10, <2>12, <3>2
      <4>2. \A j \in 1..Len(bcast') :
                bcast'[j].stage = "SCANNING" /\ bcast'[j].body = bcast'[i].body => j = i
        BY <2>3, <2>5, <2>7, <2>9, <2>12, <3>2, <4>1 DEF ScanRunning
      <4>3. \A k \in 1..Len(jobs') : ~IsScanner(jobs'[k], bcast'[i].body)
        BY <2>5, <2>7, <2>12, <3>2 DEF ScanRunning
      <4>4. QED BY <2>7, <2>12, <3>2, <4>2, <4>3 DEF ScanRunning
    <3>3. QED BY <2>9, <3>1, <3>2
  <2>13. ASSUME NEW k \in 1..Len(jobs'), jobs'[k].stage = "SCANNING"
         PROVE  /\ jobs'[k].step \in pendingResults \ Elements(scanQueue)
                /\ \A j \in 1..Len(jobs') : IsScanner(jobs'[j], jobs'[k].step) => j = k
    <3>1. k + 1 \in 1..Len(jobs) /\ jobs'[k] = jobs[k + 1]
      BY <2>5
    <3>2. ASSUME NEW j \in 1..Len(jobs'), IsScanner(jobs'[j], jobs'[k].step) PROVE j = k
      <4>1. j + 1 \in 1..Len(jobs) /\ jobs'[j] = jobs[j + 1]
        BY <2>5
      <4>2. j + 1 = k + 1
        BY <2>7, <2>13, <3>1, <3>2, <4>1 DEF ScanRunning
      <4>3. QED BY <4>2
    <3>3. QED BY <2>7, <2>13, <3>1, <3>2 DEF ScanRunning
  <2>14. ScanRunning'
    BY <2>0, <2>7, <2>12, <2>13 DEF ScanRunning
  <2>15. /\ \A i \in 1..Len(bcast') : bcast'[i].stage \in {"CLIENT", "SCANNING"}
         /\ \A k \in 1..Len(jobs') : jobs'[k].stage \in {"INIT", "SCANNING"}
    BY <1>0, <2>3, <2>5, <2>6, <2>9 DEF StageOwnsWork
  <2>16. StageOwnsWork'
    BY <1>0a, <2>0, <2>6, <2>15 DEF StageOwnsWork, Managers
  <2>17. QED BY <1>0c, <2>0, <2>6, <2>14, <2>16 DEF Work, Managers
<1>22. CASE UNCHANGED vars
  BY <1>0, <1>22, QuietStep DEF vars
<1>23. CASE UsbUpdate \/ AcceptRequest \/ Ignore \/ ScreenReceives
  BY <1>6, <1>7, <1>8, <1>10, <1>23
<1>24. QED
  BY <1>1, <1>2, <1>3, <1>4, <1>9, <1>11, <1>12, <1>13, <1>14, <1>16, <1>17, <1>18, <1>19, <1>20,
     <1>21, <1>22, <1>23
  DEF Next, Environment, Receive, TaskDone, Managers, ResolutionRequested, ResolverFinished,
      ResolverDone, MergeRequested, HeuristicFinished, HeuristicDone, FilteringRequested,
      FilterFinished, FilterDone

-----------------------------------------------------------------------------
(* The theorems                                                            *)

LEMMA Invariance == Spec => []IInv
<1>1. Init => IInv
  BY InitIInv
<1>2. IInv /\ [Next]_vars => IInv'
  BY NextTypeOK, NextWork DEF IInv
<1>3. QED BY <1>1, <1>2, PTL DEF Spec

\* Every broadcast, task and state is of the type the receivers expect; a
\* snapshot is named after a request (ScanManager.java:235-278).
THEOREM TypeCorrect == Spec => []TypeOK
<1>1. IInv => TypeOK
  BY DEF IInv
<1>2. QED BY <1>1, Invariance, PTL

\* No stage is left with work when ScanManager has moved on, for any number of
\* requests, any request flags and any hotplug of the radios.
THEOREM WorkIsOwned == Spec => []StageOwnsWork
<1>1. IInv => StageOwnsWork
  BY DEF IInv
<1>2. QED BY <1>1, Invariance, PTL

LEMMA OneStep == IInv => OneStepInFlight
<1> SUFFICES ASSUME IInv, NEW m \in Managers
             PROVE  Cardinality({i \in 1..Len(bcast) : bcast[i].stage = m})
                      + Cardinality({k \in 1..Len(jobs) : jobs[k].stage = m})
                    = IF sm = m THEN 1 ELSE 0
  BY DEF OneStepInFlight
<1> DEFINE B == {i \in 1..Len(bcast) : bcast[i].stage = m}
           T == {k \in 1..Len(jobs) : jobs[k].stage = m}
<1> SUFFICES Cardinality(B) + Cardinality(T) = IF sm = m THEN 1 ELSE 0
  OBVIOUS
<1>1. CASE sm # m
  <2>1. B = {} /\ T = {}
    BY <1>1 DEF IInv, StageOwnsWork, Managers
  <2> HIDE DEF B, T
  <2>2. QED BY <1>1, <2>1, FS_EmptySet
<1>2. CASE sm = m /\ StepBroadcast(m)
  <2>1. PICK i \in 1..Len(bcast) : bcast[i].stage = m /\ OnlyBroadcast(i)
    BY <1>2 DEF StepBroadcast
  <2>2. B = {i} /\ T = {}
    BY <2>1 DEF OnlyBroadcast, Managers
  <2> HIDE DEF B, T
  <2>3. Cardinality(B) = 1 /\ Cardinality(T) = 0
    BY <2>2, FS_EmptySet, FS_Singleton
  <2>4. QED BY <1>2, <2>3
<1>3. CASE sm = m /\ StepTasked(m)
  <2>1. PICK k \in 1..Len(jobs) : jobs[k].stage = m /\ OnlyTask(k)
    BY <1>3 DEF StepTasked
  <2>2. B = {} /\ T = {k}
    BY <2>1 DEF OnlyTask, Managers
  <2> HIDE DEF B, T
  <2>3. Cardinality(B) = 0 /\ Cardinality(T) = 1
    BY <2>2, FS_EmptySet, FS_Singleton
  <2>4. QED BY <1>3, <2>3
<1>4. QED BY <1>1, <1>2, <1>3 DEF IInv, Work

\* A manager that ScanManager waits for has exactly one step, request or
\* response in flight: it can neither hang nor run two steps at once.
THEOREM OneStepAtATime == Spec => []OneStepInFlight
<1>1. QED BY OneStep, Invariance, PTL

-----------------------------------------------------------------------------
(* Initialization before scanning                                          *)

\* The init task of the radio has still to run.
InitAhead(r) == \E k \in (ran + 1)..Len(jobs) : jobs[k].stage = "INIT" /\ jobs[k].step = r

\* A USB radio that is connected has been initialized since it was plugged in, or
\* its init task is to run; the same goes for one in the queue of a scan, unless
\* it was plugged in again since the scan began.
Ready ==
    /\ \A r \in UsbRadios : r \in connected => r \in initialized \/ InitAhead(r)
    /\ \A r \in UsbRadios : r \in Elements(scanQueue) => r \in initialized \cup replugged \/ InitAhead(r)
    /\ InitBeforeScan

\* Tasks are submitted behind the others, and a scanner only behind the init task
\* of its radio.
LEMMA ReadyGrows ==
    ASSUME TypeOK, InitBeforeScan, Len(jobs') \in Nat, Len(jobs') >= Len(jobs),
           \A k \in 1..Len(jobs) : jobs'[k] = jobs[k], UNCHANGED ran,
           \/ initialized \cup replugged \subseteq initialized' \cup replugged'
           \/ \A k \in 1..Len(jobs) : jobs[k].stage # "SCANNING",
           \A k \in 1..Len(jobs') :
               k > Len(jobs) /\ jobs'[k].stage = "SCANNING" /\ jobs'[k].step \in UsbRadios =>
                   jobs'[k].step \in initialized' \cup replugged' \/ InitAhead(jobs'[k].step)
    PROVE  InitBeforeScan' /\ \A r : InitAhead(r) => InitAhead(r)'
<1>1. Len(jobs) \in Nat /\ ran \in 0..Len(jobs)
  BY LenProperties DEF TypeOK
<1>2. \A r : InitAhead(r) => InitAhead(r)'
  BY <1>1 DEF InitAhead
<1>3. InitBeforeScan'
  <2> SUFFICES ASSUME NEW i \in (ran + 1)..Len(jobs'), jobs'[i].stage = "SCANNING",
                      jobs'[i].step \in UsbRadios \ (initialized' \cup replugged')
               PROVE  \E j \in (ran + 1)..(i - 1) : jobs'[j].stage = "INIT" /\ jobs'[j].step = jobs'[i].step
    BY DEF InitBeforeScan
  <2>1. CASE i <= Len(jobs)
    <3>1. i \in (ran + 1)..Len(jobs) /\ i \in 1..Len(jobs) /\ jobs'[i] = jobs[i]
      BY <1>1, <2>1
    <3>2. PICK j \in (ran + 1)..(i - 1) : jobs[j].stage = "INIT" /\ jobs[j].step = jobs[i].step
      BY <3>1 DEF InitBeforeScan
    <3>3. j \in 1..Len(jobs)
      BY <1>1, <3>1
    <3>4. QED BY <3>1, <3>2, <3>3
  <2>2. CASE ~(i <= Len(jobs))
    <3>1. i \in 1..Len(jobs') /\ i > Len(jobs)
      BY <1>1, <2>2
    <3>2. InitAhead(jobs'[i].step)
      BY <3>1
    <3>3. PICK j \in (ran + 1)..Len(jobs) : jobs[j].stage = "INIT" /\ jobs[j].step = jobs'[i].step
      BY <3>2 DEF InitAhead
    <3>4. j \in (ran + 1)..(i - 1) /\ jobs'[j] = jobs[j]
      BY <1>1, <3>1
    <3>5. QED BY <3>3, <3>4
  <2>3. QED BY <2>1, <2>2
<1>4. QED BY <1>2, <1>3

\* The task whose onPostExecute runs has done its work.
LEMMA ReadyPops ==
    ASSUME TypeOK, Ready, NEW stage, NEW sent, PostExecute(stage, sent),
           UNCHANGED <<initialized, replugged, connected, scanQueue>>
    PROVE  Ready'
<1>1. /\ Len(jobs) \in Nat \ {0} /\ ran \in 0..Len(jobs) /\ ran > 0 /\ ran' = ran - 1
      /\ Len(jobs') = Len(jobs) - 1
      /\ \A k \in 1..Len(jobs') : jobs'[k] = jobs[k + 1]
  <2>1. jobs \in Seq(Tasks) /\ jobs # <<>> /\ ran > 0 /\ ran \in 0..Len(jobs) /\ jobs' = Tail(jobs)
    BY LenProperties, EmptySeq DEF PostExecute, TypeOK
  <2>2. QED BY <2>1, HeadTailProperties, LenProperties DEF PostExecute
<1>2. ASSUME NEW j \in (ran + 1)..Len(jobs)
      PROVE  j - 1 \in (ran' + 1)..Len(jobs') /\ jobs'[j - 1] = jobs[j]
  BY <1>1
<1>3. \A r : InitAhead(r) => InitAhead(r)'
  BY <1>2 DEF InitAhead
<1>4. InitBeforeScan'
  <2> SUFFICES ASSUME NEW i \in (ran' + 1)..Len(jobs'), jobs'[i].stage = "SCANNING",
                      jobs'[i].step \in UsbRadios \ (initialized \cup replugged)
               PROVE  \E j \in (ran' + 1)..(i - 1) : jobs'[j].stage = "INIT" /\ jobs'[j].step = jobs'[i].step
    BY DEF InitBeforeScan
  <2>1. i + 1 \in (ran + 1)..Len(jobs) /\ jobs'[i] = jobs[i + 1]
    BY <1>1
  <2>2. PICK j \in (ran + 1)..i : jobs[j].stage = "INIT" /\ jobs[j].step = jobs[i + 1].step
    BY <2>1 DEF Ready, InitBeforeScan
  <2>3. j \in (ran + 1)..Len(jobs)
    BY <1>1, <2>1
  <2>4. j - 1 \in (ran' + 1)..(i - 1) /\ jobs'[j - 1] = jobs[j]
    BY <1>1, <1>2, <2>1, <2>2, <2>3
  <2>5. QED BY <2>1, <2>2, <2>4
<1>5. QED BY <1>3, <1>4 DEF Ready

LEMMA NextReady == IInv /\ Ready /\ [Next]_vars => Ready'
<1> SUFFICES ASSUME IInv, Ready, [Next]_vars PROVE Ready'
  OBVIOUS
<1>1. /\ TypeOK /\ jobs \in Seq(Tasks) /\ Len(jobs) \in Nat /\ ran \in 0..Len(jobs)
      /\ Distinct(scanQueue) /\ scanQueue \in Seq(Radios) /\ connected \subseteq Radios
      /\ InitBeforeScan
  BY LenProperties DEF IInv, TypeOK, Work, Ready
\* No task is submitted, and no radio comes.
<1>2. ASSUME UNCHANGED <<jobs, ran, initialized, replugged, scanQueue>>,
             connected' \cap UsbRadios = connected \cap UsbRadios
      PROVE  Ready'
  BY <1>1, <1>2 DEF Ready, InitAhead, InitBeforeScan
\* Tasks other than scanners are submitted.
<1>3. ASSUME UNCHANGED <<ran, initialized, replugged, connected, scanQueue>>,
             Len(jobs') \in Nat, Len(jobs') >= Len(jobs), \A k \in 1..Len(jobs) : jobs'[k] = jobs[k],
             \A k \in 1..Len(jobs') : k > Len(jobs) => jobs'[k].stage # "SCANNING"
      PROVE  Ready'
  <2>1. InitBeforeScan' /\ \A r : InitAhead(r) => InitAhead(r)'
    BY <1>1, <1>3, ReadyGrows
  <2>2. QED BY <1>3, <2>1 DEF Ready
<1>4. CASE \/ \E p \in Profiles : Send(p)
           \/ \E devices \in SUBSET UsbRadios : UsbPoll(devices)
           \/ \E r \in Radios : ToggleBuiltIn(r)
           \/ AcceptRequest \/ Ignore \/ ScreenReceives \/ ScanFinished
           \/ ResolutionFinished \/ MergingFinished \/ FilteringFinished \/ UNCHANGED vars
  <2>1. UNCHANGED <<jobs, ran, initialized, replugged, scanQueue>>
    BY <1>4 DEF Send, UsbPoll, ToggleBuiltIn, AcceptRequest, Ignore, ScreenReceives, ScanFinished,
                ResolutionFinished, MergingFinished, FilteringFinished, vars, taskVars, ismVars, radioVars
  <2>2. UNCHANGED connected \/ \E r \in Radios : ToggleBuiltIn(r)
    BY <1>4 DEF Send, UsbPoll, AcceptRequest, Ignore, ScreenReceives, ScanFinished,
                ResolutionFinished, MergingFinished, FilteringFinished, vars, taskVars, ismVars, radioVars
  <2>3. connected' \cap UsbRadios = connected \cap UsbRadios
    BY <2>2 DEF ToggleBuiltIn
  <2>4. QED BY <1>2, <2>1, <2>3
<1>5. CASE RunTask
  <2>1. /\ ran < Len(jobs) /\ ran' = ran + 1 /\ UNCHANGED <<jobs, connected, scanQueue, replugged>>
        /\ initialized' = IF jobs[ran + 1].stage = "INIT"
                          THEN initialized \cup {jobs[ran + 1].step} ELSE initialized
    BY <1>5 DEF RunTask, ismVars
  <2>2. \A k \in (ran + 1)..Len(jobs) : k \in (ran' + 1)..Len(jobs') \/ k = ran + 1
    BY <1>1, <2>1
  <2>3. \A r : InitAhead(r) => r \in initialized' \/ InitAhead(r)'
    BY <2>1, <2>2 DEF InitAhead
  <2>4. InitBeforeScan'
    <3> SUFFICES ASSUME NEW i \in (ran' + 1)..Len(jobs'), jobs'[i].stage = "SCANNING",
                        jobs'[i].step \in UsbRadios \ (initialized' \cup replugged')
                 PROVE  \E j \in (ran' + 1)..(i - 1) : jobs'[j].stage = "INIT" /\ jobs'[j].step = jobs'[i].step
      BY DEF InitBeforeScan
    <3>1. i \in (ran + 1)..Len(jobs) /\ jobs[i].step \in UsbRadios \ (initialized \cup replugged)
      BY <1>1, <2>1
    <3>2. PICK j \in (ran + 1)..(i - 1) : jobs[j].stage = "INIT" /\ jobs[j].step = jobs[i].step
      BY <1>1, <2>1, <3>1 DEF InitBeforeScan
    <3>3. j # ran + 1
      BY <2>1, <3>2
    <3>4. j \in (ran' + 1)..(i - 1)
      BY <1>1, <2>1, <3>1, <3>3
    <3>5. QED BY <2>1, <3>2, <3>4
  <2>5. initialized \subseteq initialized'
    BY <2>1
  <2>6. QED BY <2>1, <2>3, <2>4, <2>5 DEF Ready
<1>6. CASE ScannerDone \/ InitDone \/ \E m \in Managers : StepDone(m)
  <2>1. \E stage, sent : PostExecute(stage, sent)
    BY <1>6 DEF ScannerDone, InitDone, StepDone
  <2>2. UNCHANGED <<initialized, replugged, connected, scanQueue>>
    BY <1>6 DEF ScannerDone, InitDone, StepDone, ismVars, radioVars
  <2>3. QED BY <1>1, <2>1, <2>2, ReadyPops
<1>7. CASE UsbUpdate
  <2> DEFINE I(r) == IF r \in Body \ connected THEN <<InitTask(r)>> ELSE <<>>
  <2>1. /\ jobs' = (jobs \o I("Wifi")) \o I("ZigBee") /\ UNCHANGED <<ran, scanQueue>>
        /\ connected' = (connected \ UsbRadios) \cup Body
        /\ initialized' = initialized \ (Body \ connected)
        /\ replugged' = replugged \cup (Body \ connected)
    BY <1>7 DEF UsbUpdate, PluggedIn, ismVars
  <2>2. ASSUME NEW r \in UsbRadios
        PROVE  /\ I(r) \in Seq(Tasks) /\ Len(I(r)) \in Nat
               /\ \A k \in 1..Len(I(r)) : I(r)[k].stage = "INIT"
               /\ r \in Body \ connected => Len(I(r)) = 1 /\ I(r)[1].step = r
    <3>1. InitTask(r) \in Tasks /\ InitTask(r).stage = "INIT" /\ InitTask(r).step = r
      BY DEF InitTask, Tasks
    <3>2. CASE r \in Body \ connected
      BY <3>1, <3>2, SingletonSeq
    <3>3. CASE ~(r \in Body \ connected)
      BY <3>3, EmptySeq
    <3>4. QED BY <3>2, <3>3
  <2>3. UsbRadios = {"Wifi", "ZigBee"}
    BY DEF UsbRadios
  <2> DEFINE more == jobs \o I("Wifi")
             wifi == Len(I("Wifi"))
             zigbee == Len(I("ZigBee"))
  <2> HIDE DEF I
  <2>4. /\ wifi \in Nat /\ zigbee \in Nat /\ more \in Seq(Tasks) /\ Len(more) = Len(jobs) + wifi
        /\ \A k \in 1..(Len(jobs) + wifi) : more[k] = IF k <= Len(jobs) THEN jobs[k] ELSE I("Wifi")[k - Len(jobs)]
    BY <1>1, <2>2, <2>3, ConcatProperties
  <2>5. /\ Len(jobs') = Len(more) + zigbee
        /\ \A k \in 1..(Len(more) + zigbee) : jobs'[k] = IF k <= Len(more) THEN more[k] ELSE I("ZigBee")[k - Len(more)]
    BY <2>1, <2>2, <2>3, <2>4, ConcatProperties
  <2> HIDE DEF more, wifi, zigbee
  <2>6. \A k \in 1..Len(jobs) : jobs'[k] = jobs[k]
    BY <1>1, <2>4, <2>5
  <2>7. ASSUME NEW k \in 1..Len(jobs'), k > Len(jobs) PROVE jobs'[k].stage = "INIT"
    <3>1. CASE k <= Len(more)
      <4>1. k - Len(jobs) \in 1..wifi /\ jobs'[k] = I("Wifi")[k - Len(jobs)]
        BY <1>1, <2>4, <2>5, <2>7, <3>1
      <4>2. QED BY <2>2, <2>3, <4>1 DEF wifi
    <3>2. CASE ~(k <= Len(more))
      <4>1. k - Len(more) \in 1..zigbee /\ jobs'[k] = I("ZigBee")[k - Len(more)]
        BY <1>1, <2>4, <2>5, <2>7, <3>2
      <4>2. QED BY <2>2, <2>3, <4>1 DEF zigbee
    <3>3. QED BY <3>1, <3>2
  <2>8. ASSUME NEW r \in UsbRadios, r \in Body \ connected PROVE InitAhead(r)'
    <3>1. CASE r = "Wifi"
      <4>1. wifi = 1 /\ I("Wifi")[1].step = r
        BY <2>2, <2>8, <3>1 DEF wifi
      <4>2. /\ Len(jobs) + 1 \in 1..Len(jobs') /\ Len(jobs) + 1 \in (ran' + 1)..Len(jobs')
            /\ jobs'[Len(jobs) + 1] = I("Wifi")[1]
        BY <1>1, <2>1, <2>4, <2>5, <4>1
      <4>3. QED BY <1>1, <2>7, <4>1, <4>2 DEF InitAhead
    <3>2. CASE r = "ZigBee"
      <4>1. zigbee = 1 /\ I("ZigBee")[1].step = r
        BY <2>2, <2>8, <3>2 DEF zigbee
      <4>2. /\ Len(more) + 1 \in 1..Len(jobs') /\ Len(more) + 1 \in (ran' + 1)..Len(jobs')
            /\ jobs'[Len(more) + 1] = I("ZigBee")[1] /\ Len(more) + 1 > Len(jobs)
        BY <1>1, <2>1, <2>4, <2>5, <4>1
      <4>3. QED BY <1>1, <2>7, <4>1, <4>2 DEF InitAhead
    <3>3. QED BY <2>3, <3>1, <3>2
  <2>9. Len(jobs') \in Nat /\ Len(jobs') >= Len(jobs) /\ \A k \in 1..Len(jobs') : k > Len(jobs) => jobs'[k].stage # "SCANNING"
    BY <1>1, <2>4, <2>5, <2>7
  <2>10. initialized \cup replugged \subseteq initialized' \cup replugged'
    BY <2>1
  <2>11. InitBeforeScan' /\ \A r : InitAhead(r) => InitAhead(r)'
    BY <1>1, <2>1, <2>6, <2>9, <2>10, ReadyGrows
  <2>12. \A r \in UsbRadios : r \in connected' => r \in initialized' \/ InitAhead(r)'
    BY <2>1, <2>8, <2>11 DEF Ready
  <2>13. QED BY <2>1, <2>10, <2>11, <2>12 DEF Ready
<1>8. CASE InterfaceScanRequested
  <2>1. /\ UNCHANGED <<ran, connected, initialized>> /\ TriggerNextInterfaceScan(ConnectedRadios)
        /\ ism = "IDLE" /\ Arrives("SCANNING", "request")
    BY <1>8 DEF InterfaceScanRequested
  <2>2. /\ ConnectedRadios \in Seq(Radios) /\ Distinct(ConnectedRadios)
        /\ Elements(ConnectedRadios) = connected
    BY <1>1, ConnectedRadiosType, ConnectedRadiosShape
  <2>3. /\ Len(jobs') \in Nat /\ Len(jobs) <= Len(jobs') /\ \A k \in 1..Len(jobs) : jobs'[k] = jobs[k]
        /\ \A k \in 1..Len(jobs') : k > Len(jobs) => jobs'[k].step \in connected
        /\ Elements(scanQueue') \subseteq connected
    BY <1>1, <2>1, <2>2, TriggerScanShape
  <2>4. \A k \in 1..Len(jobs) : jobs[k].stage # "SCANNING"
    <3>1. 1 \in 1..Len(bcast) /\ bcast[1].stage = "SCANNING"
      BY <1>1, <2>1, Delivered DEF Arrives, TypeOK
    <3>2. sm = "SCANNING"
      BY <3>1 DEF IInv, StageOwnsWork
    <3>3. ScanBroadcast
      BY <2>1, <3>2 DEF IInv, Work, ScanRunning
    <3>4. QED BY <3>3 DEF ScanBroadcast, OnlyBroadcast
  <2>5. \A r \in UsbRadios : r \in connected => r \in initialized \/ InitAhead(r)
    BY DEF Ready
  <2>6. InitBeforeScan' /\ \A r : InitAhead(r) => InitAhead(r)'
    BY <1>1, <2>1, <2>3, <2>4, <2>5, ReadyGrows
  <2>7. QED BY <2>1, <2>3, <2>5, <2>6 DEF Ready
<1>9. CASE HardwareScanFinished
  <2>1. /\ UNCHANGED <<ran, connected, initialized, replugged>> /\ TriggerNextInterfaceScan(scanQueue)
    BY <1>9 DEF HardwareScanFinished
  <2>2. /\ Len(jobs') \in Nat /\ Len(jobs) <= Len(jobs') /\ \A k \in 1..Len(jobs) : jobs'[k] = jobs[k]
        /\ \A k \in 1..Len(jobs') : k > Len(jobs) => jobs'[k].step \in Elements(scanQueue)
        /\ Elements(scanQueue') \subseteq Elements(scanQueue)
    BY <1>1, <2>1, TriggerScanShape
  <2>3. \A r \in UsbRadios : r \in Elements(scanQueue) => r \in initialized \cup replugged \/ InitAhead(r)
    BY DEF Ready
  <2>4. InitBeforeScan' /\ \A r : InitAhead(r) => InitAhead(r)'
    BY <1>1, <2>1, <2>2, <2>3, ReadyGrows
  <2>5. QED BY <2>1, <2>2, <2>4 DEF Ready
<1>10. ASSUME NEW m \in Managers, StageRequested(m) \/ StepFinished(m) PROVE Ready'
  <2>1. UNCHANGED <<ran, connected, initialized, replugged, scanQueue>>
    BY <1>10 DEF StageRequested, StepFinished, ismVars, radioVars
  <2>2. \/ UNCHANGED jobs
        \/ \E s, payload : s \in Steps /\ payload \in Payload /\ jobs' = Append(jobs, StepTask(m, s, payload))
    <3>1. CASE StageRequested(m)
      <4>1. Body \in Payload
        BY <1>1, <3>1, Delivered, BodyType DEF StageRequested, Arrives, Body, TypeOK
      <4>2. Chain(m) \in Seq(Steps) /\ Chain(m) # <<>>
        BY ChainType
      <4>3. QED BY <3>1, <4>1, <4>2, HeadTailProperties DEF StageRequested, TriggerNext
    <3>2. CASE StepFinished(m)
      <4>1. Body.payload \in Payload
        BY <1>1, <3>2, Delivered, BodyType DEF StepFinished, Arrives, Body, TypeOK
      <4>2. stack[m] \in Seq(Steps)
        BY <1>1 DEF TypeOK
      <4>3. QED BY <3>2, <4>1, <4>2, HeadTailProperties DEF StepFinished, TriggerNext
    <3>3. QED BY <1>10, <3>1, <3>2
  <2>3. CASE UNCHANGED jobs
    BY <1>2, <2>1, <2>3
  <2>4. ASSUME NEW s \in Steps, NEW payload \in Payload, jobs' = Append(jobs, StepTask(m, s, payload))
        PROVE  Ready'
    <3>1. StepTask(m, s, payload) \in Tasks /\ StepTask(m, s, payload).stage # "SCANNING"
      BY DEF StepTask, Tasks, Managers
    <3>2. /\ Len(jobs') = Len(jobs) + 1 /\ \A k \in 1..Len(jobs) : jobs'[k] = jobs[k]
          /\ jobs'[Len(jobs) + 1] = StepTask(m, s, payload)
      BY <1>1, <2>4, <3>1, AppendProperties
    <3>3. \A k \in 1..Len(jobs') : k > Len(jobs) => jobs'[k].stage # "SCANNING"
      BY <1>1, <3>1, <3>2
    <3>4. Len(jobs') \in Nat /\ Len(jobs') >= Len(jobs)
      BY <1>1, <3>2
    <3>5. QED BY <1>3, <2>1, <3>2, <3>3, <3>4
  <2>5. QED BY <2>2, <2>3, <2>4
<1>11. QED
  BY <1>4, <1>5, <1>6, <1>7, <1>8, <1>9, <1>10
  DEF Next, Environment, Receive, TaskDone, Managers, ResolutionRequested, ResolverFinished,
      ResolverDone, MergeRequested, HeuristicFinished, HeuristicDone, FilteringRequested,
      FilterFinished, FilterDone

\* A USB radio counts as connected before its init task has run, yet no scanner
\* starts on one that has not been initialized since it was plugged in, but for
\* one plugged in again while a scan goes on that awaits it already: the one
\* executor keeps the order (Wifi.java:75, ZigBee.java:58).
THEOREM InitsComeFirst == Spec => []InitBeforeScan
<1>1. Init => Ready
  <2> SUFFICES ASSUME Init PROVE Ready
    OBVIOUS
  <2>1. Len(jobs) = 0 /\ ran = 0 /\ Len(scanQueue) = 0 /\ connected \cap UsbRadios = {}
    BY DEF Init
  <2>2. Elements(scanQueue) = {}
    BY <2>1 DEF Elements
  <2>3. QED BY <2>1, <2>2 DEF Ready, InitBeforeScan
<1>2. IInv /\ Ready /\ [Next]_vars => Ready'
  BY NextReady
<1>3. Ready => InitBeforeScan
  BY DEF Ready
<1>4. QED BY <1>1, <1>2, <1>3, Invariance, PTL DEF Spec

-----------------------------------------------------------------------------
(* What an answer has been through                                         *)

Before(m) == CASE m = "NAME_RESOLUTION"   -> <<>>
               [] m = "INTERFACE_MERGING" -> Resolvers
               [] m = "DEVICE_FILTERING"  -> Resolvers \o Heuristics
After(m) == Before(m) \o Chain(m)

Fits(answer) ==
    /\ answer.steps = StepsFor(answer.to.flags)
    /\ answer.type = "DEVICES" <=> answer.to.flags.doNameResolution /\ answer.to.flags.doMerging

\* The steps a payload has been through and those its manager has on the stack st
\* make up the whole chain, from the scan on.
OnTrail(msg, st) ==
    /\ msg.stage = "CLIENT" /\ msg.act = "response" => Fits(msg.body)
    /\ msg.stage = "SCANNING" /\ msg.act = "response" => msg.body.steps = <<>>
    /\ \A m \in Managers : msg.stage = m =>
          /\ msg.act = "request" => msg.body.steps = Before(m)
          /\ msg.act = "step" => msg.body.payload.steps \o st[m] = After(m)
          /\ msg.act = "response" => msg.body.steps = After(m)

TaskOnTrail(task, st) ==
    \A m \in Managers : task.stage = m => Append(task.body.steps, task.step) \o st[m] = After(m)

\* A stage is reached only by a request that asks for it.
Flagged ==
    /\ sm \in Managers => working.flags.doNameResolution
    /\ sm \in {"INTERFACE_MERGING", "DEVICE_FILTERING"} => working.flags.doMerging
    /\ sm = "DEVICE_FILTERING" => working.flags.doFiltering

Trail ==
    /\ \A i \in 1..Len(bcast) : OnTrail(bcast[i], stack)
    /\ \A k \in 1..Len(jobs) : TaskOnTrail(jobs[k], stack)
    /\ Flagged

LEMMA HeadMoves ==
    ASSUME NEW S, NEW a \in Seq(S), NEW c \in Seq(S), c # <<>>
    PROVE  Append(a, Head(c)) \o Tail(c) = a \o c
<1> DEFINE h == Head(c)
           t == Tail(c)
           u == Append(a, h)
           v == u \o t
           w == a \o c
<1>1. /\ h \in S /\ t \in Seq(S) /\ h = c[1] /\ Len(t) = Len(c) - 1 /\ Len(c) \in Nat \ {0}
      /\ Len(a) \in Nat
      /\ \A i \in 1..Len(t) : t[i] = c[i + 1]
  BY HeadTailProperties, LenProperties, EmptySeq
<1> HIDE DEF h, t
<1>2. /\ u \in Seq(S) /\ Len(u) = Len(a) + 1 /\ u[Len(a) + 1] = h
      /\ \A i \in 1..Len(a) : u[i] = a[i]
  BY <1>1, AppendProperties
<1> HIDE DEF u
<1>3. /\ v \in Seq(S) /\ Len(v) = Len(u) + Len(t)
      /\ \A i \in 1..(Len(u) + Len(t)) : v[i] = IF i <= Len(u) THEN u[i] ELSE t[i - Len(u)]
  BY <1>1, <1>2, ConcatProperties
<1>4. /\ w \in Seq(S) /\ Len(w) = Len(a) + Len(c)
      /\ \A i \in 1..(Len(a) + Len(c)) : w[i] = IF i <= Len(a) THEN a[i] ELSE c[i - Len(a)]
  BY ConcatProperties
<1> HIDE DEF v, w
<1>5. Len(v) = Len(w)
  BY <1>1, <1>2, <1>3, <1>4
<1>6. ASSUME NEW i \in 1..Len(v) PROVE v[i] = w[i]
  <2>1. CASE i <= Len(a)
    <3>1. i \in 1..Len(a) /\ i <= Len(u) /\ i \in 1..(Len(u) + Len(t)) /\ i \in 1..(Len(a) + Len(c))
      BY <1>1, <1>2, <1>3, <1>5, <1>4, <2>1
    <3>2. v[i] = u[i] /\ w[i] = a[i]
      BY <1>3, <1>4, <2>1, <3>1
    <3>3. QED BY <1>2, <3>1, <3>2
  <2>2. CASE i = Len(a) + 1
    <3>1. i - Len(a) = 1 /\ i <= Len(u) /\ ~(i <= Len(a))
      BY <1>1, <1>2, <2>2
    <3>2. QED BY <1>1, <1>2, <1>3, <1>4, <1>5, <2>2, <3>1
  <2>3. CASE i > Len(a) + 1
    <3>1. i - Len(u) \in 1..Len(t) /\ (i - Len(u)) + 1 = i - Len(a) /\ ~(i <= Len(u)) /\ ~(i <= Len(a))
      BY <1>1, <1>2, <1>3, <2>3
    <3>2. v[i] = t[i - Len(u)] /\ w[i] = c[i - Len(a)]
      BY <1>3, <1>4, <1>5, <3>1
    <3>3. t[i - Len(u)] = c[(i - Len(u)) + 1]
      BY <1>1, <3>1
    <3>4. QED BY <3>1, <3>2, <3>3
  <2>4. QED BY <1>1, <1>3, <2>1, <2>2, <2>3
<1>7. v = w
  BY <1>3, <1>4, <1>5, <1>6, SeqEqual
<1>8. QED BY <1>7 DEF v, w, u, h, t

LEMMA ChainsJoin ==
    /\ \A m \in Managers : Before(m) \in Seq(Steps) /\ After(m) \in Seq(Steps)
    /\ Before("NAME_RESOLUTION") = <<>>
    /\ After("NAME_RESOLUTION") = Resolvers /\ Before("INTERFACE_MERGING") = Resolvers
    /\ After("INTERFACE_MERGING") = Resolvers \o Heuristics
    /\ Before("DEVICE_FILTERING") = Resolvers \o Heuristics
    /\ After("DEVICE_FILTERING") = Resolvers \o Heuristics \o Filters
<1>1. /\ Resolvers \in Seq(Steps) /\ Heuristics \in Seq(Steps) /\ Filters \in Seq(Steps)
      /\ Chain("NAME_RESOLUTION") = Resolvers /\ Chain("INTERFACE_MERGING") = Heuristics
      /\ Chain("DEVICE_FILTERING") = Filters
  <2>1. /\ Chain("NAME_RESOLUTION") = Resolvers /\ Chain("INTERFACE_MERGING") = Heuristics
        /\ Chain("DEVICE_FILTERING") = Filters
    BY DEF Chain
  <2>2. QED BY <2>1, ChainType DEF Managers
<1>2. /\ Before("NAME_RESOLUTION") = <<>> /\ Before("INTERFACE_MERGING") = Resolvers
      /\ Before("DEVICE_FILTERING") = Resolvers \o Heuristics
  BY DEF Before
<1>3. <<>> \o Resolvers = Resolvers /\ Resolvers \o Heuristics \in Seq(Steps)
      /\ Resolvers \o Heuristics \o Filters \in Seq(Steps) /\ <<>> \in Seq(Steps)
  BY <1>1, ConcatEmptySeq, ConcatProperties, EmptySeq
<1>4. QED BY <1>1, <1>2, <1>3 DEF After, Managers

(* Broadcasts and tasks that are not new are on the trail as before.       *)
LEMMA TrailKept ==
    ASSUME Trail, Flagged',
           \A i \in 1..Len(bcast') :
               \/ \E j \in 1..Len(bcast) :
                      bcast'[i] = bcast[j] /\ (bcast[j].stage = "CLIENT" \/ UNCHANGED stack)
               \/ OnTrail(bcast'[i], stack'),
           \A k \in 1..Len(jobs') :
               \/ \E j \in 1..Len(jobs) :
                      jobs'[k] = jobs[j] /\ (jobs[j].stage = "INIT" \/ UNCHANGED stack)
               \/ TaskOnTrail(jobs'[k], stack')
    PROVE  Trail'
<1>1. \A msg, s, t : msg.stage = "CLIENT" /\ OnTrail(msg, s) => OnTrail(msg, t)
  BY DEF OnTrail, Managers
<1>2. \A task, s, t : task.stage = "INIT" /\ TaskOnTrail(task, s) => TaskOnTrail(task, t)
  BY DEF TaskOnTrail, Managers
<1>3. QED BY <1>1, <1>2 DEF Trail

(* What a receiver sends joins what is under way behind its broadcast.     *)
LEMMA RepliesOnTrail ==
    ASSUME TypeOK, bcast # <<>>, NEW sent \in Seq(Messages), Reply(sent),
           UNCHANGED stack \/ OnlyBroadcast(1),
           \A i \in 1..Len(sent) : OnTrail(sent[i], stack')
    PROVE  \A i \in 1..Len(bcast') :
               \/ \E j \in 1..Len(bcast) :
                      bcast'[i] = bcast[j] /\ (bcast[j].stage = "CLIENT" \/ UNCHANGED stack)
               \/ OnTrail(bcast'[i], stack')
<1>1. /\ Len(bcast) \in Nat \ {0} /\ Len(sent) \in Nat
      /\ Len(bcast') = Len(bcast) - 1 + Len(sent)
      /\ \A i \in 1..(Len(bcast) - 1) : bcast'[i] = bcast[i + 1]
      /\ \A i \in 1..Len(sent) : bcast'[Len(bcast) - 1 + i] = sent[i]
  BY ReplyShape DEF TypeOK
<1> SUFFICES ASSUME NEW i \in 1..Len(bcast')
             PROVE  \/ \E j \in 1..Len(bcast) :
                           bcast'[i] = bcast[j] /\ (bcast[j].stage = "CLIENT" \/ UNCHANGED stack)
                    \/ OnTrail(bcast'[i], stack')
  OBVIOUS
<1>2. CASE i <= Len(bcast) - 1
  <2>1. i + 1 \in 1..Len(bcast) /\ i + 1 # 1 /\ bcast'[i] = bcast[i + 1]
    BY <1>1, <1>2
  <2>2. QED BY <2>1 DEF OnlyBroadcast
<1>3. CASE ~(i <= Len(bcast) - 1)
  <2> DEFINE k == i - (Len(bcast) - 1)
  <2>1. k \in 1..Len(sent) /\ i = Len(bcast) - 1 + k
    BY <1>1, <1>3
  <2> HIDE DEF k
  <2>2. bcast'[i] = sent[k]
    BY <1>1, <2>1
  <2>3. QED BY <2>1, <2>2
<1>4. QED BY <1>2, <1>3

(* The one-element case, for a receiver that starts no task.               *)
LEMMA RelayOnTrail ==
    ASSUME TypeOK, Trail, bcast # <<>>, NEW msg \in Messages, Reply(<<msg>>),
           UNCHANGED <<jobs, stack>> \/ (OnlyBroadcast(1) /\ UNCHANGED jobs), OnTrail(msg, stack'), Flagged'
    PROVE  Trail'
<1> DEFINE sent == <<msg>>
<1>1. sent \in Seq(Messages) /\ Len(sent) = 1 /\ sent[1] = msg /\ Reply(sent)
  BY SingletonSeq
<1> HIDE DEF sent
<1>2. \A i \in 1..Len(sent) : OnTrail(sent[i], stack')
  BY <1>1
<1>3. \A i \in 1..Len(bcast') :
          \/ \E j \in 1..Len(bcast) :
                 bcast'[i] = bcast[j] /\ (bcast[j].stage = "CLIENT" \/ UNCHANGED stack)
          \/ OnTrail(bcast'[i], stack')
  BY <1>1, <1>2, RepliesOnTrail
<1>4. \A k \in 1..Len(jobs') :
          \E j \in 1..Len(jobs) : jobs'[k] = jobs[j] /\ (jobs[j].stage = "INIT" \/ UNCHANGED stack)
  BY DEF OnlyBroadcast
<1>5. QED BY <1>3, <1>4, TrailKept

(* Only broadcasts to the screens that answer nothing are new.             *)
LEMMA OtherNews ==
    ASSUME NEW msg, NEW s,
           \/ msg.stage = "CLIENT" /\ msg.act # "response"
           \/ msg.stage = "SCANNING" /\ msg.act # "response"
    PROVE  OnTrail(msg, s)
BY DEF OnTrail, Managers

LEMMA NextTrail == IInv /\ Trail /\ [Next]_vars => Trail'
<1> SUFFICES ASSUME IInv, Trail, [Next]_vars PROVE Trail'
  OBVIOUS
<1> USE DEF smVars, ismVars, radioVars, mgrVars, taskVars
<1>1. /\ TypeOK /\ bcast \in Seq(Messages) /\ Len(bcast) \in Nat /\ jobs \in Seq(Tasks) /\ Len(jobs) \in Nat
      /\ ran \in 0..Len(jobs) /\ scanQueue \in Seq(Radios) /\ Distinct(scanQueue)
      /\ \A m \in Managers : stack[m] \in Seq(Steps)
  BY LenProperties DEF IInv, TypeOK, Work
\* Nothing is handed on.
<1>2. ASSUME UNCHANGED <<bcast, jobs, stack, sm, working>> PROVE Trail'
  BY <1>2 DEF Trail, Flagged
<1>3. CASE RunTask \/ (\E r \in Radios : ToggleBuiltIn(r)) \/ UNCHANGED vars
  BY <1>2, <1>3 DEF RunTask, ToggleBuiltIn, vars
<1>4. ASSUME NEW msg, bcast' = Append(bcast, msg), msg.stage = "CLIENT", msg.act # "response",
             UNCHANGED <<jobs, stack, sm, working>>
      PROVE  Trail'
  <2>1. /\ Len(bcast') = Len(bcast) + 1 /\ bcast'[Len(bcast) + 1] = msg
        /\ \A i \in 1..Len(bcast) : bcast'[i] = bcast[i]
    BY <1>1, <1>4
  <2>2. \A i \in 1..Len(bcast') : i = Len(bcast) + 1 \/ i \in 1..Len(bcast)
    BY <1>1, <2>1
  <2>3. OnTrail(msg, stack')
    BY <1>4, OtherNews
  <2>4. \A i \in 1..Len(bcast') : (\E j \in 1..Len(bcast) : bcast'[i] = bcast[j]) \/ OnTrail(bcast'[i], stack')
    BY <2>1, <2>2, <2>3
  <2>5. Flagged'
    BY <1>4 DEF Trail, Flagged
  <2>6. QED BY <1>4, <2>4, <2>5, TrailKept
<1>5. ASSUME NEW p \in Profiles, Send(p) PROVE Trail'
  BY <1>4, <1>5 DEF Send, SCAN_REQUEST
<1>6. ASSUME NEW devices \in SUBSET UsbRadios, UsbPoll(devices) PROVE Trail'
  BY <1>4, <1>6 DEF UsbPoll, USBMON_DEVICELIST
\* The receiver sends nothing on, and starts at most tasks of the radios.
<1>7. ASSUME bcast # <<>>, Reply(<<>>), UNCHANGED <<stack, sm, working>>,
             \A k \in 1..Len(jobs') : (\E j \in 1..Len(jobs) : jobs'[k] = jobs[j]) \/ jobs'[k].stage \in {"INIT", "SCANNING"}
      PROVE  Trail'
  <2>1. <<>> \in Seq(Messages) /\ Len(<<>>) = 0
    BY EmptySeq
  <2>2. \A i \in 1..Len(<<>>) : OnTrail(<<>>[i], stack')
    BY <2>1
  <2>3. \A i \in 1..Len(bcast') :
            \/ \E j \in 1..Len(bcast) :
                   bcast'[i] = bcast[j] /\ (bcast[j].stage = "CLIENT" \/ UNCHANGED stack)
            \/ OnTrail(bcast'[i], stack')
    BY <1>1, <1>7, <2>1, <2>2, RepliesOnTrail
  <2>4. \A task, st : task.stage \in {"INIT", "SCANNING"} => TaskOnTrail(task, st)
    BY DEF TaskOnTrail, Managers
  <2>5. Flagged'
    BY <1>7 DEF Trail, Flagged
  <2>6. QED BY <1>7, <2>3, <2>4, <2>5, TrailKept
<1>8. CASE Ignore
  <2>1. bcast # <<>> /\ bcast' = Tail(bcast) /\ UNCHANGED <<jobs, stack, sm, working>>
    BY <1>8 DEF Ignore
  <2>2. Reply(<<>>)
    BY <1>1, <2>1, HeadTailProperties, ConcatEmptySeq DEF Reply
  <2>3. QED BY <1>7, <2>1, <2>2
<1>9. CASE ScreenReceives
  <2>1. bcast # <<>> /\ Reply(<<>>) /\ UNCHANGED <<jobs, stack, sm, working>>
    BY <1>9 DEF ScreenReceives, Arrives
  <2>2. QED BY <1>7, <2>1
<1>10. CASE UsbUpdate
  <2> DEFINE I(r) == IF r \in Body \ connected THEN <<InitTask(r)>> ELSE <<>>
  <2>1. /\ jobs' = (jobs \o I("Wifi")) \o I("ZigBee") /\ UNCHANGED <<stack, sm, working>>
        /\ bcast # <<>> /\ Reply(<<>>)
    BY <1>10 DEF UsbUpdate, Arrives
  <2>2. ASSUME NEW r \in UsbRadios
        PROVE  I(r) \in Seq(Tasks) /\ \A k \in 1..Len(I(r)) : I(r)[k].stage = "INIT"
    <3>1. InitTask(r) \in Tasks /\ InitTask(r).stage = "INIT"
      BY DEF InitTask, Tasks
    <3>2. CASE r \in Body \ connected
      BY <3>1, <3>2, SingletonSeq
    <3>3. CASE ~(r \in Body \ connected)
      BY <3>3, EmptySeq
    <3>4. QED BY <3>2, <3>3
  <2> DEFINE more == jobs \o I("Wifi")
  <2> HIDE DEF I
  <2>3. /\ more \in Seq(Tasks) /\ Len(more) = Len(jobs) + Len(I("Wifi")) /\ Len(I("Wifi")) \in Nat
        /\ \A k \in 1..Len(more) : more[k] = IF k <= Len(jobs) THEN jobs[k] ELSE I("Wifi")[k - Len(jobs)]
    BY <1>1, <2>2, ConcatProperties, LenProperties DEF UsbRadios
  <2>4. /\ Len(jobs') = Len(more) + Len(I("ZigBee")) /\ Len(I("ZigBee")) \in Nat
        /\ \A k \in 1..Len(jobs') : jobs'[k] = IF k <= Len(more) THEN more[k] ELSE I("ZigBee")[k - Len(more)]
    BY <2>1, <2>2, <2>3, ConcatProperties, LenProperties DEF UsbRadios
  <2> HIDE DEF more
  <2>5. ASSUME NEW k \in 1..Len(jobs')
        PROVE  (\E j \in 1..Len(jobs) : jobs'[k] = jobs[j]) \/ jobs'[k].stage = "INIT"
    <3>1. CASE k <= Len(jobs)
      BY <1>1, <2>3, <2>4, <3>1
    <3>2. CASE k > Len(jobs) /\ k <= Len(more)
      <4>1. k - Len(jobs) \in 1..Len(I("Wifi")) /\ jobs'[k] = I("Wifi")[k - Len(jobs)]
        BY <1>1, <2>3, <2>4, <3>2
      <4>2. QED BY <2>2, <4>1 DEF UsbRadios
    <3>3. CASE k > Len(more)
      <4>1. k - Len(more) \in 1..Len(I("ZigBee")) /\ jobs'[k] = I("ZigBee")[k - Len(more)]
        BY <1>1, <2>3, <2>4, <3>3
      <4>2. QED BY <2>2, <4>1 DEF UsbRadios
    <3>4. QED BY <1>1, <2>3, <2>4, <3>1, <3>2, <3>3
  <2>6. QED BY <1>7, <2>1, <2>5
<1>11. CASE AcceptRequest
  <2>1. bcast # <<>> /\ Reply(<<INTERFACE_SCAN_REQUEST>>) /\ UNCHANGED <<jobs, stack>> /\ sm' = "SCANNING"
    BY <1>11 DEF AcceptRequest, Arrives
  <2>2. INTERFACE_SCAN_REQUEST \in Messages /\ OnTrail(INTERFACE_SCAN_REQUEST, stack')
    <3>1. INTERFACE_SCAN_REQUEST \in Messages /\ INTERFACE_SCAN_REQUEST.stage = "SCANNING"
          /\ INTERFACE_SCAN_REQUEST.act # "response"
      BY DEF INTERFACE_SCAN_REQUEST, Messages
    <3>2. QED BY <3>1, OtherNews
  <2>3. Flagged'
    BY <2>1 DEF Flagged, Managers
  <2>4. QED BY <1>1, <2>1, <2>2, <2>3, RelayOnTrail
\* InterfaceScanManager.
<1>12. CASE InterfaceScanRequested
  <2>1. /\ bcast # <<>> /\ Reply(<<>>) /\ UNCHANGED <<stack, sm, working>>
        /\ TriggerNextInterfaceScan(ConnectedRadios)
    BY <1>12 DEF InterfaceScanRequested, Arrives
  <2>2. ConnectedRadios \in Seq(Radios) /\ Distinct(ConnectedRadios)
    BY <1>1, ConnectedRadiosType, ConnectedRadiosShape DEF TypeOK
  <2>3. /\ Len(jobs') \in Nat /\ \A k \in 1..Len(jobs) : jobs'[k] = jobs[k]
        /\ \A k \in 1..Len(jobs') : k > Len(jobs) => jobs'[k].stage = "SCANNING"
    BY <1>1, <2>1, <2>2, TriggerScanShape
  <2>4. \A k \in 1..Len(jobs') : k > Len(jobs) \/ k \in 1..Len(jobs)
    BY <1>1, <2>3
  <2>5. QED BY <1>7, <2>1, <2>3, <2>4
<1>13. CASE HardwareScanFinished
  <2>1. /\ bcast # <<>> /\ UNCHANGED <<stack, sm, working>> /\ TriggerNextInterfaceScan(scanQueue)
        /\ Body \in Radios
    BY <1>1, <1>13, Delivered, BodyType DEF HardwareScanFinished, Arrives, Body
  <2>2. /\ Len(jobs') \in Nat /\ \A k \in 1..Len(jobs) : jobs'[k] = jobs[k]
        /\ \A k \in 1..Len(jobs') : k > Len(jobs) => jobs'[k].stage = "SCANNING"
    BY <1>1, <2>1, TriggerScanShape
  <2>3. \A k \in 1..Len(jobs') :
            (\E j \in 1..Len(jobs) : jobs'[k] = jobs[j]) \/ jobs'[k].stage \in {"INIT", "SCANNING"}
    <3>1. \A k \in 1..Len(jobs') : k > Len(jobs) \/ k \in 1..Len(jobs)
      BY <1>1, <2>2
    <3>2. QED BY <2>2, <3>1
  <2>4. CASE Reply(<<>>)
    BY <1>7, <2>1, <2>3, <2>4
  <2>5. CASE Reply(<<INTERFACE_SCAN_RESULT(found')>>)
    <3> DEFINE msg == INTERFACE_SCAN_RESULT(found')
    <3>1. found' \subseteq Radios
      BY <1>1, <1>13, <2>1 DEF HardwareScanFinished, TypeOK
    <3>2. [radios |-> found', steps |-> <<>>] \in Payload
      BY <3>1, EmptySeq DEF Payload
    <3>3. msg \in Messages /\ OnTrail(msg, stack')
      BY <3>2 DEF INTERFACE_SCAN_RESULT, Messages, OnTrail, Managers
    <3> DEFINE sent == <<msg>>
    <3>4. sent \in Seq(Messages) /\ Len(sent) = 1 /\ sent[1] = msg /\ Reply(sent)
      BY <2>5, <3>3, SingletonSeq
    <3> HIDE DEF msg, sent
    <3>5. \A i \in 1..Len(sent) : OnTrail(sent[i], stack')
      BY <3>3, <3>4
    <3>6. \A i \in 1..Len(bcast') :
              \/ \E j \in 1..Len(bcast) :
                     bcast'[i] = bcast[j] /\ (bcast[j].stage = "CLIENT" \/ UNCHANGED stack)
              \/ OnTrail(bcast'[i], stack')
      BY <1>1, <2>1, <3>4, <3>5, RepliesOnTrail
    <3>7. \A task, st : task.stage \in {"INIT", "SCANNING"} => TaskOnTrail(task, st)
      BY DEF TaskOnTrail, Managers
    <3>8. Flagged'
      BY <2>1 DEF Trail, Flagged
    <3>9. QED BY <2>1, <2>3, <3>6, <3>7, <3>8, TrailKept
  <2>6. QED BY <1>13, <2>4, <2>5 DEF HardwareScanFinished
\* Tasks end.
<1>14. ASSUME NEW stage, NEW sent \in Seq(Messages), PostExecute(stage, sent), UNCHANGED <<stack, sm, working>>,
              \A i \in 1..Len(sent) : OnTrail(sent[i], stack)
       PROVE  Trail'
  <2>1. /\ Len(jobs') = Len(jobs) - 1
        /\ \A k \in 1..Len(jobs') : jobs'[k] = jobs[k + 1]
        /\ Len(bcast') = Len(bcast) + Len(sent) /\ Len(sent) \in Nat
        /\ \A i \in 1..Len(bcast) : bcast'[i] = bcast[i]
        /\ \A i \in 1..Len(sent) : bcast'[Len(bcast) + i] = sent[i]
    BY <1>1, <1>14, PostExecuteShape
  <2>2. \A k \in 1..Len(jobs') : \E j \in 1..Len(jobs) : jobs'[k] = jobs[j]
    <3>1. \A k \in 1..Len(jobs') : k + 1 \in 1..Len(jobs)
      BY <1>1, <2>1
    <3>2. QED BY <2>1, <3>1
  <2>3. ASSUME NEW i \in 1..Len(bcast')
        PROVE  (\E j \in 1..Len(bcast) : bcast'[i] = bcast[j]) \/ OnTrail(bcast'[i], stack')
    <3>1. CASE i <= Len(bcast)
      BY <1>1, <2>1, <3>1
    <3>2. CASE ~(i <= Len(bcast))
      <4>1. i - Len(bcast) \in 1..Len(sent) /\ Len(bcast) + (i - Len(bcast)) = i
        BY <1>1, <2>1, <3>2
      <4>2. bcast'[i] = sent[i - Len(bcast)]
        BY <2>1, <4>1
      <4>3. QED BY <1>14, <4>1, <4>2
    <3>3. QED BY <3>1, <3>2
  <2>4. Flagged'
    BY <1>14 DEF Trail, Flagged
  <2>5. QED BY <1>14, <2>2, <2>3, <2>4, TrailKept
<1>15. CASE InitDone
  <2>1. <<>> \in Seq(Messages) /\ Len(<<>>) = 0
    BY EmptySeq
  <2>2. \A i \in 1..Len(<<>>) : OnTrail(<<>>[i], stack)
    BY <2>1
  <2>3. PostExecute("INIT", <<>>) /\ UNCHANGED <<stack, sm, working>>
    BY <1>15 DEF InitDone
  <2>4. QED BY <1>14, <2>1, <2>2, <2>3
<1>16. CASE ScannerDone
  <2> DEFINE msg == HW_SCAN_RESULT(Head(jobs).step)
             sent == <<msg>>
  <2>1. PostExecute("SCANNING", <<msg>>) /\ UNCHANGED <<stack, sm, working>>
    BY <1>16 DEF ScannerDone
  <2>2. Head(jobs).step \in Radios
    <3>1. jobs # <<>> /\ Head(jobs).stage = "SCANNING"
      BY <1>1, <2>1 DEF PostExecute
    <3>2. QED BY <1>1, <3>1, HeadTailProperties, TaskType
  <2>3. msg \in Messages /\ msg.stage = "SCANNING" /\ msg.act # "response"
    BY <2>2 DEF HW_SCAN_RESULT, Messages
  <2> HIDE DEF msg
  <2>4. sent \in Seq(Messages) /\ Len(sent) = 1 /\ sent[1] = msg /\ PostExecute("SCANNING", sent)
    BY <2>1, <2>3, SingletonSeq
  <2> HIDE DEF sent
  <2>5. \A i \in 1..Len(sent) : OnTrail(sent[i], stack)
    BY <2>3, <2>4, OtherNews
  <2>6. QED BY <1>14, <2>1, <2>4, <2>5
<1>17. ASSUME NEW m \in Managers, StepDone(m) PROVE Trail'
  <2> DEFINE task == Head(jobs)
             body == [task.body EXCEPT !.steps = Append(@, task.step)]
             msg == StepResponse(m, task.step, body)
             sent == <<msg>>
  <2>1. PostExecute(m, <<msg>>) /\ UNCHANGED <<stack, sm, working>>
    BY <1>17 DEF StepDone
  <2>2. 1 \in 1..Len(jobs) /\ jobs # <<>> /\ task = jobs[1] /\ task.stage = m
    BY <1>1, <2>1 DEF PostExecute
  <2>3. task \in Tasks /\ task.step \in Steps /\ task.body \in Payload
    BY <1>1, <2>2, HeadTailProperties, TaskType
  <2>4. Append(task.body.steps, task.step) \o stack[m] = After(m)
    BY <2>2 DEF Trail, TaskOnTrail
  <2>5. body \in Payload /\ body.steps = Append(task.body.steps, task.step)
    BY <2>3, AppendProperties DEF Payload
  <2> HIDE DEF body, task
  <2>6. msg \in Messages /\ msg.stage = m /\ msg.act = "step" /\ msg.body.payload = body
    BY <2>3, <2>5 DEF StepResponse, Messages
  <2> HIDE DEF msg
  <2>7. OnTrail(msg, stack)
    BY <2>4, <2>5, <2>6 DEF OnTrail, Managers
  <2>8. sent \in Seq(Messages) /\ Len(sent) = 1 /\ sent[1] = msg /\ PostExecute(m, sent)
    BY <2>1, <2>6, SingletonSeq
  <2> HIDE DEF sent
  <2>9. \A i \in 1..Len(sent) : OnTrail(sent[i], stack)
    BY <2>7, <2>8
  <2>10. QED BY <1>14, <2>1, <2>8, <2>9
\* The managers.
<1>18. ASSUME NEW m \in Managers, NEW st \in Seq(Steps), st # <<>>, NEW payload \in Payload,
              payload.steps \o st = After(m), bcast # <<>>, OnlyBroadcast(1), Reply(<<>>),
              TriggerNext(m, st, payload), UNCHANGED <<sm, working>>
       PROVE  Trail'
  <2> DEFINE task == StepTask(m, Head(st), payload)
  <2>1. jobs' = Append(jobs, task) /\ stack'[m] = Tail(st)
    BY <1>1, <1>18 DEF TriggerNext, TypeOK
  <2>2. task \in Tasks /\ task.stage = m /\ task.step = Head(st) /\ task.body = payload
    BY <1>18, HeadTailProperties DEF StepTask, Tasks
  <2> HIDE DEF task
  <2>3. Append(task.body.steps, task.step) \o stack'[m] = After(m)
    <3>1. payload.steps \in Seq(Steps)
      BY DEF Payload
    <3>2. QED BY <1>18, <2>1, <2>2, <3>1, HeadMoves
  <2>4. TaskOnTrail(task, stack')
    BY <2>2, <2>3 DEF TaskOnTrail
  <2>5. /\ Len(jobs') = Len(jobs) + 1 /\ jobs'[Len(jobs) + 1] = task
        /\ \A k \in 1..Len(jobs) : jobs'[k] = jobs[k]
    BY <1>1, <2>1, <2>2, AppendProperties
  <2>6. \A k \in 1..Len(jobs') : k = Len(jobs) + 1 \/ k \in 1..Len(jobs)
    BY <1>1, <2>5
  <2>7. \A k \in 1..Len(jobs') :
            (\E j \in 1..Len(jobs) : jobs'[k] = jobs[j] /\ jobs[j].stage = "INIT") \/ TaskOnTrail(jobs'[k], stack')
    BY <1>18, <2>4, <2>5, <2>6 DEF OnlyBroadcast
  <2>8. <<>> \in Seq(Messages) /\ Len(<<>>) = 0
    BY EmptySeq
  <2>9. \A i \in 1..Len(<<>>) : OnTrail(<<>>[i], stack')
    BY <2>8
  <2>10. \A i \in 1..Len(bcast') :
             \/ \E j \in 1..Len(bcast) :
                    bcast'[i] = bcast[j] /\ (bcast[j].stage = "CLIENT" \/ UNCHANGED stack)
             \/ OnTrail(bcast'[i], stack')
    BY <1>1, <1>18, <2>8, <2>9, RepliesOnTrail
  <2>11. Flagged'
    BY <1>18 DEF Trail, Flagged
  <2>12. QED BY <2>7, <2>10, <2>11, TrailKept
<1>19. ASSUME bcast # <<>>, Head(bcast).stage # "CLIENT"
       PROVE  /\ Head(bcast) = bcast[1] /\ sm = Head(bcast).stage /\ OnTrail(Head(bcast), stack)
              /\ sm \in Managers => OnlyBroadcast(1)
  BY <1>19, HeadAtWork DEF Trail
<1>20. ASSUME NEW m \in Managers, StageRequested(m) PROVE Trail'
  <2>1. bcast # <<>> /\ Head(bcast).stage = m /\ Head(bcast).act = "request" /\ Reply(<<>>)
        /\ TriggerNext(m, Chain(m), Body) /\ UNCHANGED <<sm, working>>
    BY <1>20 DEF StageRequested, Arrives
  <2>2. OnlyBroadcast(1) /\ Body \in Payload /\ Body.steps = Before(m)
    BY <1>1, <1>19, <2>1, Delivered, BodyType DEF Body, OnTrail, Managers
  <2>3. Chain(m) \in Seq(Steps) /\ Chain(m) # <<>> /\ Body.steps \o Chain(m) = After(m)
    BY <2>2, ChainType DEF After
  <2>4. QED BY <1>18, <2>1, <2>2, <2>3
<1>21. ASSUME NEW m \in Managers, StepFinished(m) PROVE Trail'
  <2>1. bcast # <<>> /\ Head(bcast).stage = m /\ Head(bcast).act = "step"
        /\ TriggerNext(m, stack[m], Body.payload) /\ UNCHANGED <<sm, working>>
    BY <1>21 DEF StepFinished, Arrives
  <2>2. OnlyBroadcast(1) /\ Body.payload \in Payload /\ Body.payload.steps \o stack[m] = After(m)
    BY <1>1, <1>19, <2>1, Delivered, BodyType DEF Body, OnTrail, Managers
  <2>3. BusyWith(m, Body.step)
    BY <2>1, HeadAtWork DEF Body, Managers
  <2>4. pending[m] \ {Body.step} = Elements(stack[m])
    BY <2>3 DEF BusyWith
  <2>5. CASE stack[m] # <<>>
    <3>1. Elements(stack[m]) # {}
      <4>1. 1 \in 1..Len(stack[m])
        BY <1>1, <2>5, EmptySeq
      <4>2. QED BY <4>1 DEF Elements
    <3>2. Reply(<<>>)
      BY <1>21, <2>4, <3>1 DEF StepFinished
    <3>3. QED BY <1>1, <1>18, <2>1, <2>2, <2>5, <3>2
  <2>6. CASE stack[m] = <<>>
    <3> DEFINE msg == StageResponse(m, Body.payload)
    <3>1. Elements(stack[m]) = {}
      BY <2>6 DEF Elements
    <3>2. Reply(<<msg>>) /\ UNCHANGED jobs
      BY <1>21, <2>1, <2>4, <2>6, <3>1 DEF StepFinished, TriggerNext
    <3>3. Body.payload.steps = After(m)
      <4>1. Body.payload.steps \in Seq(Steps)
        BY <2>2 DEF Payload
      <4>2. QED BY <2>2, <2>6, <4>1, ConcatEmptySeq
    <3>4. msg \in Messages /\ msg.stage = m /\ msg.act = "response" /\ msg.body = Body.payload
      BY <2>2 DEF StageResponse, Messages
    <3> HIDE DEF msg
    <3>5. OnTrail(msg, stack')
      BY <3>3, <3>4 DEF OnTrail, Managers
    <3>6. Flagged'
      BY <2>1 DEF Trail, Flagged
    <3>7. QED BY <1>1, <2>1, <2>2, <3>2, <3>4, <3>5, <3>6, RelayOnTrail
  <2>7. QED BY <2>5, <2>6
\* ScanManager.
<1>22. ASSUME NEW payload \in Payload, NEW type \in {"INTERFACES", "DEVICES"}, working \in Requests,
              payload.steps = StepsFor(working.flags),
              type = "DEVICES" <=> working.flags.doNameResolution /\ working.flags.doMerging
       PROVE  /\ SCAN_RESPONSE(type, payload) \in Messages
              /\ \A st : OnTrail(SCAN_RESPONSE(type, payload), st)
  <2> DEFINE msg == SCAN_RESPONSE(type, payload)
  <2>1. /\ msg \in Messages /\ msg.stage = "CLIENT" /\ msg.body.steps = payload.steps
        /\ msg.body.type = type /\ msg.body.to = working
    BY <1>22 DEF SCAN_RESPONSE, Messages, Answers, Payload
  <2> HIDE DEF msg
  <2>2. Fits(msg.body)
    BY <1>22, <2>1 DEF Fits
  <2>3. \A st : OnTrail(msg, st)
    BY <2>1, <2>2 DEF OnTrail, Managers
  <2>4. QED BY <2>1, <2>3 DEF msg
<1>23. ASSUME NEW m \in Managers, NEW payload \in Payload, payload.steps = Before(m)
       PROVE  /\ StageRequest(m, payload) \in Messages
              /\ \A st : OnTrail(StageRequest(m, payload), st)
  BY <1>23 DEF StageRequest, Messages, OnTrail, Managers
<1>24. CASE ScanFinished
  <2>1. bcast # <<>> /\ Head(bcast).stage = "SCANNING" /\ Head(bcast).act = "response"
        /\ UNCHANGED <<jobs, stack, working>>
    BY <1>24 DEF ScanFinished, Arrives
  <2>2. sm = "SCANNING" /\ OnTrail(Head(bcast), stack)
    BY <1>19, <2>1
  <2>3. Body \in Payload /\ Body.steps = <<>> /\ working \in Requests
    BY <1>1, <2>1, <2>2, Delivered, BodyType DEF Body, OnTrail, TypeOK
  <2> DEFINE note == SNAPSHOT_DATA(Body)
  <2>4. note \in Messages /\ \A st : OnTrail(note, st)
    <3>1. note \in Messages /\ note.stage = "CLIENT" /\ note.act # "response"
      BY <2>3 DEF SNAPSHOT_DATA, Messages, Payload, Requests
    <3>2. QED BY <3>1, OtherNews
  <2>5. ASSUME NEW msg \in Messages, \A st : OnTrail(msg, st), Reply(<<note>> \o <<msg>>), Flagged'
        PROVE  Trail'
    <3> DEFINE sent == <<note>> \o <<msg>>
    <3> HIDE DEF note
    <3>1. sent \in Seq(Messages) /\ Len(sent) = 2 /\ sent[1] = note /\ sent[2] = msg /\ Reply(sent)
      BY <2>4, <2>5, SingletonSeq, ConcatProperties
    <3> HIDE DEF sent
    <3>2. \A i \in 1..Len(sent) : OnTrail(sent[i], stack')
      <4>1. \A i \in 1..Len(sent) : i = 1 \/ i = 2
        BY <3>1
      <4>2. QED BY <2>4, <2>5, <3>1, <4>1
    <3>3. \A i \in 1..Len(bcast') :
              \/ \E j \in 1..Len(bcast) :
                     bcast'[i] = bcast[j] /\ (bcast[j].stage = "CLIENT" \/ UNCHANGED stack)
              \/ OnTrail(bcast'[i], stack')
      BY <1>1, <2>1, <3>1, <3>2, RepliesOnTrail
    <3>4. \A k \in 1..Len(jobs') : \E j \in 1..Len(jobs) : jobs'[k] = jobs[j] /\ UNCHANGED stack
      BY <2>1
    <3>5. QED BY <2>5, <3>3, <3>4, TrailKept
  <2>6. CASE working.flags.doNameResolution
    <3>1. Reply(<<note>> \o <<StageRequest("NAME_RESOLUTION", Body)>>) /\ sm' = "NAME_RESOLUTION"
      BY <1>24, <2>2, <2>6 DEF ScanFinished
    <3>2. /\ StageRequest("NAME_RESOLUTION", Body) \in Messages
          /\ \A st : OnTrail(StageRequest("NAME_RESOLUTION", Body), st)
      BY <1>23, <2>3, ChainsJoin DEF Managers
    <3>3. Flagged'
      BY <2>1, <2>6, <3>1 DEF Flagged, Managers
    <3>4. QED BY <2>5, <3>1, <3>2, <3>3
  <2>7. CASE ~working.flags.doNameResolution
    <3>1. Reply(<<note>> \o <<SCAN_RESPONSE("INTERFACES", Body)>>) /\ sm' = "IDLE"
      BY <1>24, <2>2, <2>7 DEF ScanFinished
    <3>2. StepsFor(working.flags) = <<>>
      BY <2>7 DEF StepsFor
    <3>3. /\ SCAN_RESPONSE("INTERFACES", Body) \in Messages
          /\ \A st : OnTrail(SCAN_RESPONSE("INTERFACES", Body), st)
      BY <1>22, <2>3, <2>7, <3>2
    <3>4. Flagged'
      BY <3>1 DEF Flagged, Managers
    <3>5. QED BY <2>5, <3>1, <3>3, <3>4
  <2>8. QED BY <2>6, <2>7
<1>25. ASSUME NEW m \in Managers, bcast # <<>>, Head(bcast).stage = m, Head(bcast).act = "response"
       PROVE  /\ sm = m /\ OnlyBroadcast(1) /\ working \in Requests
              /\ Body \in Payload /\ Body.steps = After(m)
  BY <1>1, <1>19, <1>25, Delivered, BodyType DEF Body, OnTrail, TypeOK, Managers
<1>26. ASSUME NEW msg \in Messages, \A st : OnTrail(msg, st), bcast # <<>>, Reply(<<msg>>),
              UNCHANGED <<jobs, stack>>, Flagged'
       PROVE  Trail'
  BY <1>1, <1>26, RelayOnTrail
<1>27. CASE ResolutionFinished
  <2>1. bcast # <<>> /\ Head(bcast).stage = "NAME_RESOLUTION" /\ Head(bcast).act = "response"
        /\ UNCHANGED <<jobs, stack, working>>
    BY <1>27 DEF ResolutionFinished, Arrives
  <2>2. sm = "NAME_RESOLUTION" /\ working \in Requests /\ Body \in Payload /\ Body.steps = Resolvers
        /\ working.flags.doNameResolution
    BY <1>25, <2>1, ChainsJoin DEF Managers, Trail, Flagged
  <2>3. CASE working.flags.doMerging
    <3>1. Reply(<<StageRequest("INTERFACE_MERGING", Body)>>) /\ sm' = "INTERFACE_MERGING"
      BY <1>27, <2>3 DEF ResolutionFinished
    <3>2. /\ StageRequest("INTERFACE_MERGING", Body) \in Messages
          /\ \A st : OnTrail(StageRequest("INTERFACE_MERGING", Body), st)
      BY <1>23, <2>2, ChainsJoin DEF Managers
    <3>3. Flagged'
      BY <2>1, <2>2, <2>3, <3>1 DEF Flagged, Managers
    <3>4. QED BY <1>26, <2>1, <3>1, <3>2, <3>3
  <2>4. CASE ~working.flags.doMerging
    <3>1. Reply(<<SCAN_RESPONSE("INTERFACES", Body)>>) /\ sm' = "IDLE"
      BY <1>27, <2>4 DEF ResolutionFinished
    <3>2. StepsFor(working.flags) = Resolvers
      BY <2>2, <2>4 DEF StepsFor
    <3>3. /\ SCAN_RESPONSE("INTERFACES", Body) \in Messages
          /\ \A st : OnTrail(SCAN_RESPONSE("INTERFACES", Body), st)
      BY <1>22, <2>2, <2>4, <3>2
    <3>4. Flagged'
      BY <3>1 DEF Flagged, Managers
    <3>5. QED BY <1>26, <2>1, <3>1, <3>3, <3>4
  <2>5. QED BY <2>3, <2>4
<1>28. CASE MergingFinished
  <2>1. bcast # <<>> /\ Head(bcast).stage = "INTERFACE_MERGING" /\ Head(bcast).act = "response"
        /\ UNCHANGED <<jobs, stack, working>>
    BY <1>28 DEF MergingFinished, Arrives
  <2>2. sm = "INTERFACE_MERGING" /\ working \in Requests /\ Body \in Payload
        /\ Body.steps = Resolvers \o Heuristics
        /\ working.flags.doNameResolution /\ working.flags.doMerging
    BY <1>25, <2>1, ChainsJoin DEF Managers, Trail, Flagged
  <2>3. CASE working.flags.doFiltering
    <3>1. Reply(<<StageRequest("DEVICE_FILTERING", Body)>>) /\ sm' = "DEVICE_FILTERING"
      BY <1>28, <2>3 DEF MergingFinished
    <3>2. /\ StageRequest("DEVICE_FILTERING", Body) \in Messages
          /\ \A st : OnTrail(StageRequest("DEVICE_FILTERING", Body), st)
      BY <1>23, <2>2, ChainsJoin DEF Managers
    <3>3. Flagged'
      BY <2>1, <2>2, <2>3, <3>1 DEF Flagged, Managers
    <3>4. QED BY <1>26, <2>1, <3>1, <3>2, <3>3
  <2>4. CASE ~working.flags.doFiltering
    <3>1. Reply(<<SCAN_RESPONSE("DEVICES", Body)>>) /\ sm' = "IDLE"
      BY <1>28, <2>4 DEF MergingFinished
    <3>2. StepsFor(working.flags) = Resolvers \o Heuristics
      BY <2>2, <2>4 DEF StepsFor
    <3>3. /\ SCAN_RESPONSE("DEVICES", Body) \in Messages
          /\ \A st : OnTrail(SCAN_RESPONSE("DEVICES", Body), st)
      BY <1>22, <2>2, <2>4, <3>2
    <3>4. Flagged'
      BY <3>1 DEF Flagged, Managers
    <3>5. QED BY <1>26, <2>1, <3>1, <3>3, <3>4
  <2>5. QED BY <2>3, <2>4
<1>29. CASE FilteringFinished
  <2>1. bcast # <<>> /\ Head(bcast).stage = "DEVICE_FILTERING" /\ Head(bcast).act = "response"
        /\ UNCHANGED <<jobs, stack, working>> /\ Reply(<<SCAN_RESPONSE("DEVICES", Body)>>) /\ sm' = "IDLE"
    BY <1>29 DEF FilteringFinished, Arrives
  <2>2. sm = "DEVICE_FILTERING" /\ working \in Requests /\ Body \in Payload
        /\ Body.steps = Resolvers \o Heuristics \o Filters
        /\ working.flags.doNameResolution /\ working.flags.doMerging /\ working.flags.doFiltering
    BY <1>25, <2>1, ChainsJoin DEF Managers, Trail, Flagged
  <2>3. StepsFor(working.flags) = Resolvers \o Heuristics \o Filters
    BY <2>2 DEF StepsFor
  <2>4. /\ SCAN_RESPONSE("DEVICES", Body) \in Messages
        /\ \A st : OnTrail(SCAN_RESPONSE("DEVICES", Body), st)
    BY <1>22, <2>2, <2>3
  <2>5. Flagged'
    BY <2>1 DEF Flagged, Managers
  <2>6. QED BY <1>26, <2>1, <2>4, <2>5
<1>30. QED
  BY <1>3, <1>5, <1>6, <1>8, <1>9, <1>10, <1>11, <1>12, <1>13, <1>15, <1>16, <1>17, <1>20, <1>21,
     <1>24, <1>27, <1>28, <1>29
  DEF Next, Environment, Receive, TaskDone, Managers, ResolutionRequested, ResolverFinished,
      ResolverDone, MergeRequested, HeuristicFinished, HeuristicDone, FilteringRequested,
      FilterFinished, FilterDone

\* Every answer has been through exactly the steps its request asked for, in order
\* and each once, and is of the type they produce, whatever radios and other
\* requests do meanwhile (ScanManager.java:106-231).
THEOREM AnswersFit == Spec => []AnswerFitsRequest
<1>1. Init => Trail
  <2> SUFFICES ASSUME Init PROVE Trail
    OBVIOUS
  <2>1. Len(bcast) = 0 /\ Len(jobs) = 0 /\ sm = "IDLE"
    BY DEF Init
  <2>2. QED BY <2>1 DEF Trail, Flagged, Managers
<1>2. IInv /\ Trail /\ [Next]_vars => Trail'
  BY NextTrail
<1>3. Trail => AnswerFitsRequest
  BY DEF Trail, OnTrail, Fits, AnswerFitsRequest
<1>4. QED BY <1>1, <1>2, <1>3, Invariance, PTL DEF Spec

-----------------------------------------------------------------------------
(* No radio is forgotten                                                   *)

HasScanner(r) == \E k \in 1..Len(jobs) : IsScanner(jobs[k], r)
HasResult(r) == \E i \in 1..Len(bcast) : IsScanResult(bcast[i], r)

\* A radio that is awaited is somewhere, and one that is busy has a scanner: so a
\* radio in the queue is idle when its turn comes, and gets one.
Placed ==
    /\ ism = "IDLE" => scanQueue = <<>>
    /\ ism = "SCANNING" =>
          \A r \in pendingResults : r \in Elements(scanQueue) \/ HasScanner(r) \/ HasResult(r)
    /\ \A r \in Radios : radio[r] = "SCANNING" => HasScanner(r)

LEMMA IdleRadioStarts ==
    ASSUME NEW t \in Seq(Radios), Len(t) \in 0..2, NEW p \in 1..Len(t), radio[t[p]] = "IDLE"
    PROVE  \E i \in 1..Len(StartScans(t)) : StartScans(t)[i] = ScannerTask(t[p])
<1>1. CASE Len(t) = 1
  <2>1. p = 1
    BY <1>1
  <2>2. StartScans(t) = <<ScannerTask(t[1])>>
    BY <1>1, <2>1 DEF StartScans, StartScan
  <2>3. QED BY <2>1, <2>2
<1>2. CASE Len(t) = 2
  <2> DEFINE a == StartScan(t[1])
             b == StartScan(t[2])
  <2>1. StartScans(t) = a \o b
    BY <1>2 DEF StartScans
  <2>2. ASSUME NEW i \in {1, 2}
        PROVE  /\ StartScan(t[i]) \in Seq(Tasks)
               /\ radio[t[i]] = "IDLE" => Len(StartScan(t[i])) = 1 /\ StartScan(t[i])[1] = ScannerTask(t[i])
    <3>1. i \in 1..Len(t)
      BY <1>2
    <3>2. ScannerTask(t[i]) \in Tasks
      BY <3>1, ElementOfSeq DEF ScannerTask, Tasks
    <3>3. QED BY <3>2, SingletonSeq, EmptySeq DEF StartScan
  <2>3. /\ a \in Seq(Tasks) /\ b \in Seq(Tasks)
        /\ radio[t[1]] = "IDLE" => Len(a) = 1 /\ a[1] = ScannerTask(t[1])
        /\ radio[t[2]] = "IDLE" => Len(b) = 1 /\ b[1] = ScannerTask(t[2])
    BY <2>2
  <2> HIDE DEF a, b
  <2>4. /\ Len(a) \in Nat /\ Len(b) \in Nat /\ Len(a \o b) = Len(a) + Len(b)
        /\ \A i \in 1..(Len(a) + Len(b)) : (a \o b)[i] = IF i <= Len(a) THEN a[i] ELSE b[i - Len(a)]
    BY <2>3, ConcatProperties, LenProperties
  <2>5. CASE p = 1
    <3>1. 1 \in 1..(Len(a) + Len(b)) /\ 1 <= Len(a)
      BY <2>3, <2>4, <2>5
    <3>2. (a \o b)[1] = ScannerTask(t[p])
      BY <2>3, <2>4, <2>5, <3>1
    <3>3. QED BY <2>1, <2>4, <3>1, <3>2
  <2>6. CASE p = 2
    <3>1. Len(a) + 1 \in 1..(Len(a) + Len(b)) /\ ~(Len(a) + 1 <= Len(a)) /\ (Len(a) + 1) - Len(a) = 1
      BY <2>3, <2>4, <2>6
    <3>2. (a \o b)[Len(a) + 1] = ScannerTask(t[p])
      BY <2>3, <2>4, <2>6, <3>1
    <3>3. QED BY <2>1, <2>4, <3>1, <3>2
  <2>7. QED BY <1>2, <2>5, <2>6
<1>3. QED BY <1>1, <1>2

LEMMA TriggerScanFull ==
    ASSUME NEW q \in Seq(Radios), jobs \in Seq(Tasks), radio \in [Radios -> {"IDLE", "SCANNING"}],
           TriggerNextInterfaceScan(q)
    PROVE  /\ \A r \in Elements(q) : radio[r] = "IDLE" => r \in Elements(scanQueue') \/ HasScanner(r)'
           /\ \A r \in Radios : radio'[r] = "SCANNING" => radio[r] = "SCANNING" \/ HasScanner(r)'
<1> DEFINE t == Triggered(q)
           n == Len(t)
           ss == StartScans(t)
<1>1. /\ t \in Seq(Radios) /\ n \in 0..2 /\ n <= Len(q) /\ Len(q) \in Nat
      /\ \A i \in 1..n : t[i] = q[i]
  BY TriggeredType, LenProperties
<1>2. /\ scanQueue' = SubSeq(q, n + 1, Len(q)) /\ jobs' = jobs \o ss
      /\ radio' = [r \in Radios |-> IF r \in Elements(t) THEN "SCANNING" ELSE radio[r]]
  BY DEF TriggerNextInterfaceScan
<1>3. ss \in Seq(Tasks)
  BY <1>1, StartScansType
<1>4. ASSUME NEW p \in 1..n, radio[t[p]] = "IDLE" PROVE HasScanner(t[p])'
  <2>1. PICK i \in 1..Len(ss) : ss[i] = ScannerTask(t[p])
    BY <1>1, <1>4, IdleRadioStarts
  <2> HIDE DEF ss, t
  <2>2. /\ Len(ss) \in Nat /\ Len(jobs) \in Nat /\ Len(jobs') = Len(jobs) + Len(ss)
        /\ \A k \in 1..(Len(jobs) + Len(ss)) : jobs'[k] = IF k <= Len(jobs) THEN jobs[k] ELSE ss[k - Len(jobs)]
    BY <1>2, <1>3, ConcatProperties, LenProperties
  <2>3. /\ Len(jobs) + i \in 1..(Len(jobs) + Len(ss)) /\ ~(Len(jobs) + i <= Len(jobs))
        /\ (Len(jobs) + i) - Len(jobs) = i
    BY <2>2
  <2>4. jobs'[Len(jobs) + i] = ScannerTask(t[p])
    BY <2>1, <2>2, <2>3
  <2>5. IsScanner(jobs'[Len(jobs) + i], t[p])
    BY <2>4 DEF IsScanner, ScannerTask
  <2>6. QED BY <2>2, <2>3, <2>5 DEF HasScanner
<1> HIDE DEF t, ss
<1>5. ASSUME NEW r \in Elements(q), radio[r] = "IDLE" PROVE r \in Elements(scanQueue') \/ HasScanner(r)'
  <2>1. PICK i \in 1..Len(q) : q[i] = r
    BY <1>5 DEF Elements
  <2>2. CASE i <= n
    <3>1. i \in 1..n /\ t[i] = r
      BY <1>1, <2>1, <2>2
    <3>2. QED BY <1>4, <1>5, <3>1
  <2>3. CASE i > n
    <3>1. \A j \in (n + 1)..Len(q) : q[j] \in Radios
      BY <1>1, ElementOfSeq
    <3>2. n + 1 \in Int /\ Len(q) \in Int
      BY <1>1
    <3>3. /\ Len(scanQueue') = IF n + 1 <= Len(q) THEN Len(q) - (n + 1) + 1 ELSE 0
          /\ \A j \in 1..(Len(q) - (n + 1) + 1) : scanQueue'[j] = q[(n + 1) + j - 1]
      BY <1>2, <3>1, <3>2, SubSeqProperties
    <3>4. i - n \in 1..Len(scanQueue') /\ scanQueue'[i - n] = q[i]
      BY <1>1, <2>3, <3>3
    <3>5. QED BY <2>1, <3>4 DEF Elements
  <2>4. QED BY <1>1, <2>2, <2>3
<1>6. ASSUME NEW r \in Radios, radio'[r] = "SCANNING", radio[r] # "SCANNING" PROVE HasScanner(r)'
  <2>1. r \in Elements(t) /\ radio[r] = "IDLE"
    BY <1>2, <1>6
  <2>2. PICK p \in 1..n : t[p] = r
    BY <2>1 DEF Elements
  <2>3. QED BY <1>4, <2>1, <2>2
<1>7. QED BY <1>5, <1>6

\* What radios are at work stays where it is.
LEMMA PlacedKept ==
    ASSUME Placed, UNCHANGED <<ism, scanQueue, pendingResults, radio>>,
           \A r \in Radios : HasScanner(r) => HasScanner(r)',
           \A r \in Radios : HasResult(r) => HasResult(r)',
           pendingResults \subseteq Radios
    PROVE  Placed'
BY DEF Placed

LEMMA NextPlaced == IInv /\ Placed /\ [Next]_vars => Placed'
<1> SUFFICES ASSUME IInv, Placed, [Next]_vars PROVE Placed'
  OBVIOUS
<1> USE DEF smVars, ismVars, radioVars, mgrVars, taskVars
<1>1. /\ TypeOK /\ bcast \in Seq(Messages) /\ Len(bcast) \in Nat /\ jobs \in Seq(Tasks) /\ Len(jobs) \in Nat
      /\ ran \in 0..Len(jobs) /\ scanQueue \in Seq(Radios) /\ Distinct(scanQueue)
      /\ pendingResults \subseteq Radios /\ connected \subseteq Radios
      /\ radio \in [Radios -> {"IDLE", "SCANNING"}]
  BY LenProperties DEF IInv, TypeOK, Work
\* The environment and the executor.
<1>2. CASE RunTask \/ (\E r \in Radios : ToggleBuiltIn(r)) \/ UNCHANGED vars
  BY <1>1, <1>2, PlacedKept DEF RunTask, ToggleBuiltIn, vars, HasScanner, HasResult
<1>3. CASE (\E p \in Profiles : Send(p)) \/ \E devices \in SUBSET UsbRadios : UsbPoll(devices)
  <2>1. /\ \E msg : bcast' = Append(bcast, msg)
        /\ UNCHANGED <<jobs, ism, scanQueue, pendingResults, radio>>
    BY <1>3 DEF Send, UsbPoll
  <2>2. Len(bcast') = Len(bcast) + 1 /\ \A i \in 1..Len(bcast) : bcast'[i] = bcast[i]
    BY <1>1, <2>1
  <2>3. \A r : HasResult(r) => HasResult(r)'
    BY <1>1, <2>2 DEF HasResult
  <2>4. \A r : HasScanner(r) => HasScanner(r)'
    BY <2>1 DEF HasScanner
  <2>5. QED BY <1>1, <2>1, <2>3, <2>4, PlacedKept
\* A receiver that sends nothing takes one broadcast away.
<1>3a. ASSUME bcast # <<>>, Reply(<<>>)
       PROVE  /\ Len(bcast) \in Nat \ {0} /\ Len(bcast') = Len(bcast) - 1
              /\ \A i \in 1..(Len(bcast) - 1) : bcast'[i] = bcast[i + 1]
  <2>1. Tail(bcast) \in Seq(Messages) /\ bcast' = Tail(bcast)
    BY <1>1, <1>3a, HeadTailProperties, ConcatEmptySeq DEF Reply
  <2>2. QED BY <1>1, <1>3a, <2>1, HeadTailProperties, LenProperties, EmptySeq
\* No radio is at work.
<1>4. ASSUME \A r \in Radios : ~HasScanner(r) /\ ~HasResult(r),
             UNCHANGED <<ism, scanQueue, pendingResults, radio>>
      PROVE  Placed'
  BY <1>1, <1>4, PlacedKept
<1>5. ASSUME OnlyBroadcast(1), bcast # <<>>, ~(Head(bcast).stage = "SCANNING" /\ Head(bcast).act = "step")
      PROVE  \A r \in Radios : ~HasScanner(r) /\ ~HasResult(r)
  <2>1. Head(bcast) = bcast[1]
    BY <1>1, <1>5, EmptySeq
  <2>2. QED BY <1>5, <2>1 DEF OnlyBroadcast, HasScanner, HasResult, IsScanner, IsScanResult
<1>6. CASE AcceptRequest
  <2>1. \A r \in Radios : ~HasScanner(r) /\ ~HasResult(r)
    BY <1>6 DEF AcceptRequest, IInv, StageOwnsWork, HasScanner, HasResult, IsScanner, IsScanResult
  <2>2. QED BY <1>4, <1>6, <2>1 DEF AcceptRequest
<1>7. CASE ScanFinished
  <2>1. bcast # <<>> /\ Head(bcast).stage = "SCANNING" /\ Head(bcast).act = "response"
        /\ UNCHANGED <<ism, scanQueue, pendingResults, radio>>
    BY <1>7 DEF ScanFinished, Arrives
  <2>2. OnlyBroadcast(1)
    BY <2>1, HeadAtWork
  <2>3. QED BY <1>4, <1>5, <2>1, <2>2
<1>8. ASSUME NEW m \in Managers, bcast # <<>>, Head(bcast).stage = m,
             UNCHANGED <<ism, scanQueue, pendingResults, radio>>
      PROVE  Placed'
  <2>1. OnlyBroadcast(1) /\ m # "SCANNING"
    BY <1>8, HeadAtWork DEF Managers
  <2>2. QED BY <1>4, <1>5, <1>8, <2>1
<1>9. CASE \/ ResolutionFinished \/ MergingFinished \/ FilteringFinished
           \/ \E m \in Managers : StageRequested(m) \/ StepFinished(m)
  <2>1. /\ bcast # <<>> /\ \E m \in Managers : Head(bcast).stage = m
        /\ UNCHANGED <<ism, scanQueue, pendingResults, radio>>
    BY <1>9 DEF ResolutionFinished, MergingFinished, FilteringFinished, StageRequested, StepFinished,
                Arrives, Managers
  <2>2. QED BY <1>8, <2>1
\* Broadcasts for the screens and the radios.
<1>10. CASE Ignore \/ ScreenReceives \/ UsbUpdate
  <2>1. /\ bcast # <<>> /\ Head(bcast).stage = "CLIENT"
        /\ UNCHANGED <<ism, scanQueue, pendingResults, radio>>
    BY <1>10, OnlyRequestsIgnored DEF Ignore, ScreenReceives, UsbUpdate, Arrives
  <2>2. Reply(<<>>)
    BY <1>1, <1>10, HeadTailProperties, ConcatEmptySeq DEF Ignore, ScreenReceives, UsbUpdate, Reply
  <2>4. /\ Len(bcast) \in Nat \ {0} /\ Len(bcast') = Len(bcast) - 1
        /\ \A i \in 1..(Len(bcast) - 1) : bcast'[i] = bcast[i + 1]
    BY <1>3a, <2>1, <2>2
  <2>5. ASSUME NEW r, HasResult(r) PROVE HasResult(r)'
    <3>1. PICK i \in 1..Len(bcast) : IsScanResult(bcast[i], r)
      BY <2>5 DEF HasResult
    <3>2. i # 1
      BY <1>1, <2>1, <3>1 DEF IsScanResult
    <3>3. i - 1 \in 1..Len(bcast') /\ bcast'[i - 1] = bcast[i]
      BY <2>4, <3>2
    <3>4. QED BY <3>1, <3>3 DEF HasResult
  <2>6. Len(jobs') \in Nat /\ Len(jobs) <= Len(jobs') /\ \A k \in 1..Len(jobs) : jobs'[k] = jobs[k]
    <3>1. CASE Ignore \/ ScreenReceives
      BY <1>1, <3>1 DEF Ignore, ScreenReceives
    <3>2. CASE UsbUpdate
      <4> DEFINE I(r) == IF r \in Body \ connected THEN <<InitTask(r)>> ELSE <<>>
      <4>1. jobs' = (jobs \o I("Wifi")) \o I("ZigBee")
        BY <3>2 DEF UsbUpdate
      <4>2. ASSUME NEW r \in UsbRadios PROVE I(r) \in Seq(Tasks)
        <5>1. InitTask(r) \in Tasks
          BY DEF InitTask, Tasks
        <5>2. QED BY <5>1, SingletonSeq, EmptySeq
      <4>3. I("Wifi") \in Seq(Tasks) /\ I("ZigBee") \in Seq(Tasks)
        BY <4>2 DEF UsbRadios
      <4> DEFINE more == jobs \o I("Wifi")
      <4> HIDE DEF I
      <4>4. /\ more \in Seq(Tasks) /\ Len(more) = Len(jobs) + Len(I("Wifi")) /\ Len(I("Wifi")) \in Nat
            /\ \A k \in 1..Len(more) : more[k] = IF k <= Len(jobs) THEN jobs[k] ELSE I("Wifi")[k - Len(jobs)]
        BY <1>1, <4>3, ConcatProperties, LenProperties
      <4>5. /\ Len(jobs') = Len(more) + Len(I("ZigBee")) /\ Len(I("ZigBee")) \in Nat
            /\ \A k \in 1..Len(jobs') : jobs'[k] = IF k <= Len(more) THEN more[k] ELSE I("ZigBee")[k - Len(more)]
        BY <4>1, <4>3, <4>4, ConcatProperties, LenProperties
      <4> HIDE DEF more
      <4>6. QED BY <1>1, <4>4, <4>5
    <3>3. QED BY <1>10, <3>1, <3>2
  <2>7. \A r : HasScanner(r) => HasScanner(r)'
    BY <1>1, <2>6 DEF HasScanner
  <2>8. QED BY <1>1, <2>1, <2>5, <2>7, PlacedKept
\* Tasks end.
<1>11. CASE \E m \in Managers : StepDone(m)
  <2>1. PICK m \in Managers : StepDone(m)
    BY <1>11
  <2>2. 1 \in 1..Len(jobs) /\ jobs[1].stage = m
    BY <1>1, <2>1 DEF StepDone, PostExecute
  <2>3. OnlyTask(1)
    BY <2>2, TaskAtWork
  <2>4. \A r \in Radios : ~HasScanner(r) /\ ~HasResult(r)
    BY <2>2, <2>3 DEF OnlyTask, HasScanner, HasResult, IsScanner, IsScanResult, Managers
  <2>5. QED BY <1>4, <2>1, <2>4 DEF StepDone
<1>12. ASSUME NEW sent \in Seq(Messages), NEW stage, PostExecute(stage, sent)
       PROVE  /\ Len(jobs) \in Nat \ {0} /\ jobs[1].stage = stage /\ Head(jobs) = jobs[1]
              /\ \A r : HasResult(r) => HasResult(r)'
              /\ \A r : HasScanner(r) => HasScanner(r)' \/ IsScanner(jobs[1], r)
              /\ \A r, i : i \in 1..Len(sent) /\ IsScanResult(sent[i], r) => HasResult(r)'
  <2>1. /\ Len(jobs) \in Nat \ {0} /\ Head(jobs) = jobs[1] /\ jobs[1].stage = stage
        /\ Len(jobs') = Len(jobs) - 1
        /\ \A k \in 1..Len(jobs') : jobs'[k] = jobs[k + 1]
        /\ Len(bcast') = Len(bcast) + Len(sent) /\ Len(sent) \in Nat
        /\ \A i \in 1..Len(bcast) : bcast'[i] = bcast[i]
        /\ \A i \in 1..Len(sent) : bcast'[Len(bcast) + i] = sent[i]
    <3>1. jobs \in Seq(Tasks) /\ ran \in 0..Len(jobs) /\ bcast \in Seq(Messages)
      BY <1>1 DEF TypeOK
    <3>2. sent \in Seq(Messages) /\ PostExecute(stage, sent)
      BY <1>12
    <3>3. QED BY <3>1, <3>2, PostExecuteShape
  <2>2. \A r : HasResult(r) => HasResult(r)'
    BY <1>1, <2>1 DEF HasResult
  <2>3. ASSUME NEW r, HasScanner(r), ~IsScanner(jobs[1], r) PROVE HasScanner(r)'
    <3>1. PICK k \in 1..Len(jobs) : IsScanner(jobs[k], r)
      BY <2>3 DEF HasScanner
    <3>2. k # 1
      BY <2>3, <3>1
    <3>3. k - 1 \in 1..Len(jobs') /\ jobs'[k - 1] = jobs[k]
      BY <2>1, <3>2
    <3>4. QED BY <3>1, <3>3 DEF HasScanner
  <2>4. ASSUME NEW r, NEW i, i \in 1..Len(sent), IsScanResult(sent[i], r) PROVE HasResult(r)'
    <3>1. Len(bcast) + i \in 1..Len(bcast')
      BY <1>1, <2>1, <2>4
    <3>2. QED BY <2>1, <2>4, <3>1 DEF HasResult
  <2>5. QED BY <2>1, <2>2, <2>3, <2>4
<1>13. CASE InitDone
  <2>1. PostExecute("INIT", <<>>) /\ <<>> \in Seq(Messages)
        /\ UNCHANGED <<ism, scanQueue, pendingResults, radio>>
    BY <1>13, EmptySeq DEF InitDone
  <2>2. /\ jobs[1].stage = "INIT"
        /\ \A r : HasResult(r) => HasResult(r)'
        /\ \A r : HasScanner(r) => HasScanner(r)' \/ IsScanner(jobs[1], r)
    BY <1>12, <2>1
  <2>3. \A r : HasScanner(r) => HasScanner(r)'
    BY <2>2 DEF IsScanner
  <2>4. QED BY <1>1, <2>1, <2>2, <2>3, PlacedKept
<1>14. CASE ScannerDone
  <2>0. PICK s : s = Head(jobs).step
    OBVIOUS
  <2> DEFINE msg == HW_SCAN_RESULT(s)
             sent == <<msg>>
  <2>1. /\ PostExecute("SCANNING", <<msg>>) /\ radio' = [radio EXCEPT ![s] = "IDLE"]
        /\ UNCHANGED <<ism, scanQueue, pendingResults>>
    BY <1>14, <2>0 DEF ScannerDone
  <2>2. s \in Radios
    <3>1. jobs # <<>> /\ Head(jobs).stage = "SCANNING"
      BY <1>1, <2>1 DEF PostExecute
    <3>2. QED BY <1>1, <2>0, <3>1, HeadTailProperties, TaskType
  <2>3. msg \in Messages /\ IsScanResult(msg, s)
    BY <2>2 DEF HW_SCAN_RESULT, Messages, IsScanResult
  <2> HIDE DEF msg
  <2>4. sent \in Seq(Messages) /\ Len(sent) = 1 /\ sent[1] = msg /\ PostExecute("SCANNING", sent)
    BY <2>1, <2>3, SingletonSeq
  <2> HIDE DEF sent
  <2>5. /\ \A r : HasResult(r) => HasResult(r)'
        /\ \A r : HasScanner(r) => HasScanner(r)' \/ r = s
        /\ HasResult(s)'
    <3>1. /\ jobs[1].step = s
          /\ \A r : HasResult(r) => HasResult(r)'
          /\ \A r : HasScanner(r) => HasScanner(r)' \/ IsScanner(jobs[1], r)
          /\ \A r, i : i \in 1..Len(sent) /\ IsScanResult(sent[i], r) => HasResult(r)'
      BY <1>12, <2>0, <2>4
    <3>2. 1 \in 1..Len(sent) /\ IsScanResult(sent[1], s)
      BY <2>3, <2>4
    <3>3. HasResult(s)'
      BY <3>1, <3>2
    <3>4. \A r : IsScanner(jobs[1], r) => r = s
      BY <3>1 DEF IsScanner
    <3>5. QED BY <3>1, <3>3, <3>4
  <2>6. \A r \in Radios : radio'[r] = "SCANNING" => radio[r] = "SCANNING" /\ r # s
    BY <1>1, <2>1, <2>2
  <2>7. QED BY <1>1, <2>1, <2>5, <2>6 DEF Placed
\* InterfaceScanManager.
<1>15. CASE InterfaceScanRequested
  <2>1. /\ bcast # <<>> /\ Head(bcast).stage = "SCANNING" /\ Head(bcast).act = "request"
        /\ TriggerNextInterfaceScan(ConnectedRadios) /\ ism' = "SCANNING" /\ pendingResults' = connected
    BY <1>15 DEF InterfaceScanRequested, Arrives
  <2>2. OnlyBroadcast(1)
    BY <2>1, HeadAtWork
  <2>3. \A r \in Radios : radio[r] = "IDLE"
    BY <1>1, <1>5, <2>1, <2>2 DEF Placed
  <2>4. ConnectedRadios \in Seq(Radios) /\ Elements(ConnectedRadios) = connected
    BY <1>1, ConnectedRadiosType, ConnectedRadiosShape
  <2>5. /\ \A r \in connected : r \in Elements(scanQueue') \/ HasScanner(r)'
        /\ \A r \in Radios : radio'[r] = "SCANNING" => HasScanner(r)'
    BY <1>1, <2>1, <2>3, <2>4, TriggerScanFull
  <2>6. QED BY <2>1, <2>5 DEF Placed
<1>16. CASE HardwareScanFinished
  <2> DEFINE left == pendingResults \ {Body}
  <2>1. /\ bcast # <<>> /\ Head(bcast).stage = "SCANNING" /\ Head(bcast).act = "step"
        /\ ism = "SCANNING" /\ pendingResults' = left
        /\ TriggerNextInterfaceScan(scanQueue)
        /\ ism' = IF left = {} THEN "IDLE" ELSE "SCANNING"
        /\ Reply(IF left = {} THEN <<INTERFACE_SCAN_RESULT(found')>> ELSE <<>>)
    BY <1>16 DEF HardwareScanFinished, Arrives
  <2>2. ScanRunning /\ Head(bcast) = bcast[1] /\ 1 \in 1..Len(bcast)
    BY <2>1, HeadAtWork
  <2>3. Elements(scanQueue) \subseteq left
    BY <2>1, <2>2 DEF ScanRunning, Body
  <2>4. ASSUME NEW r \in Elements(scanQueue) PROVE radio[r] = "IDLE"
    <3>1. ~HasScanner(r)
      BY <2>2, <2>4 DEF ScanRunning, HasScanner, IsScanner
    <3>2. r \in Radios
      BY <1>1, <2>3, <2>4
    <3>3. QED BY <1>1, <3>1, <3>2 DEF Placed
  <2>5. /\ \A r \in Elements(scanQueue) : r \in Elements(scanQueue') \/ HasScanner(r)'
        /\ \A r \in Radios : radio'[r] = "SCANNING" => radio[r] = "SCANNING" \/ HasScanner(r)'
    BY <1>1, <2>1, <2>4, TriggerScanFull
  <2>6. /\ Len(jobs') \in Nat /\ Len(jobs) <= Len(jobs')
        /\ \A k \in 1..Len(jobs) : jobs'[k] = jobs[k]
        /\ scanQueue = <<>> => scanQueue' = <<>>
    BY <1>1, <2>1, TriggerScanShape
  <2>7. \A r : HasScanner(r) => HasScanner(r)'
    BY <1>1, <2>6 DEF HasScanner
  <2>8. CASE left = {}
    <3>1. scanQueue = <<>>
      <4>1. scanQueue # <<>> => 1 \in 1..Len(scanQueue)
        BY <1>1, EmptySeq
      <4>2. QED BY <2>3, <2>8, <4>1 DEF Elements
    <3>2. QED BY <2>1, <2>5, <2>6, <2>7, <2>8, <3>1 DEF Placed
  <2>9. CASE left # {}
    <3>1. Reply(<<>>)
      BY <2>1, <2>9
    <3>2. /\ Len(bcast) \in Nat \ {0} /\ Len(bcast') = Len(bcast) - 1
          /\ \A i \in 1..(Len(bcast) - 1) : bcast'[i] = bcast[i + 1]
      BY <1>3a, <2>1, <3>1
    <3>3. ASSUME NEW r \in left, HasResult(r) PROVE HasResult(r)'
      <4>1. PICK i \in 1..Len(bcast) : IsScanResult(bcast[i], r)
        BY <3>3 DEF HasResult
      <4>2. i # 1
        BY <2>2, <3>3, <4>1 DEF IsScanResult, Body
      <4>3. i - 1 \in 1..Len(bcast') /\ bcast'[i - 1] = bcast[i]
        BY <3>2, <4>2
      <4>4. QED BY <4>1, <4>3 DEF HasResult
    <3>4. \A r \in left : r \in Elements(scanQueue') \/ HasScanner(r)' \/ HasResult(r)'
      BY <2>1, <2>5, <2>7, <3>3 DEF Placed
    <3>5. QED BY <2>1, <2>5, <2>7, <2>9, <3>4 DEF Placed
  <2>10. QED BY <2>8, <2>9
<1>17. QED
  BY <1>2, <1>3, <1>6, <1>7, <1>9, <1>10, <1>11, <1>13, <1>14, <1>15, <1>16
  DEF Next, Environment, Receive, TaskDone, Managers, ResolutionRequested, ResolverFinished,
      ResolverDone, MergeRequested, HeuristicFinished, HeuristicDone, FilteringRequested,
      FilterFinished, FilterDone

LEMMA OnePlace == IInv /\ Placed => RadiosAccountedFor
<1> SUFFICES ASSUME IInv, Placed, NEW r \in Radios
             PROVE  Cardinality({i \in 1..Len(scanQueue) : scanQueue[i] = r})
                      + Cardinality({i \in 1..Len(jobs) : IsScanner(jobs[i], r)})
                      + Cardinality({i \in 1..Len(bcast) : IsScanResult(bcast[i], r)})
                    = IF ism = "SCANNING" /\ r \in pendingResults THEN 1 ELSE 0
  BY DEF RadiosAccountedFor
<1> DEFINE Q == {i \in 1..Len(scanQueue) : scanQueue[i] = r}
           T == {i \in 1..Len(jobs) : IsScanner(jobs[i], r)}
           B == {i \in 1..Len(bcast) : IsScanResult(bcast[i], r)}
<1> SUFFICES Cardinality(Q) + Cardinality(T) + Cardinality(B)
               = IF ism = "SCANNING" /\ r \in pendingResults THEN 1 ELSE 0
  OBVIOUS
<1>1. Cardinality({}) = 0 /\ \A e : Cardinality({e}) = 1
  BY FS_EmptySet, FS_Singleton
<1>2. ism \in {"IDLE", "SCANNING"} /\ (ism = "SCANNING" => sm = "SCANNING") /\ Work /\ StageOwnsWork
  BY DEF IInv, TypeOK, StageOwnsWork
<1>3. CASE ism = "IDLE"
  <2>1. Q = {}
    <3>1. Len(scanQueue) = 0
      BY <1>3 DEF Placed
    <3>2. QED BY <3>1
  <2>2. CASE sm = "SCANNING"
    <3>1. PICK i \in 1..Len(bcast) : bcast[i].act # "step" /\ OnlyBroadcast(i)
      BY <1>2, <1>3, <2>2 DEF Work, ScanBroadcast, ScanRunning
    <3>2. T = {} /\ B = {}
      BY <3>1 DEF OnlyBroadcast, IsScanner, IsScanResult
    <3> HIDE DEF Q, T, B
    <3>3. QED BY <1>1, <1>3, <2>1, <3>2
  <2>3. CASE sm # "SCANNING"
    <3>1. T = {} /\ B = {}
      BY <1>2, <2>3 DEF StageOwnsWork, IsScanner, IsScanResult
    <3> HIDE DEF Q, T, B
    <3>2. QED BY <1>1, <1>3, <2>1, <3>1
  <2>4. QED BY <2>2, <2>3
<1>4. CASE ism = "SCANNING"
  <2>1. ScanRunning /\ Distinct(scanQueue)
    BY <1>2, <1>4 DEF Work, ScanBroadcast
  <2>2. CASE r \notin pendingResults
    <3>1. Q = {}
      BY <2>1, <2>2 DEF ScanRunning, Elements
    <3>2. T = {} /\ B = {}
      BY <2>1, <2>2 DEF ScanRunning, IsScanner, IsScanResult
    <3> HIDE DEF Q, T, B
    <3>3. QED BY <1>1, <2>2, <3>1, <3>2
  <2>3. CASE r \in pendingResults /\ r \in Elements(scanQueue)
    <3>1. PICK i \in 1..Len(scanQueue) : scanQueue[i] = r
      BY <2>3 DEF Elements
    <3>2. Q = {i}
      BY <2>1, <3>1 DEF Distinct
    <3>3. T = {} /\ B = {}
      BY <2>1, <2>3 DEF ScanRunning, IsScanner, IsScanResult
    <3> HIDE DEF Q, T, B
    <3>4. Cardinality(Q) = 1 /\ Cardinality(T) = 0 /\ Cardinality(B) = 0
      BY <3>2, <3>3, FS_EmptySet, FS_Singleton
    <3>5. QED BY <1>4, <2>3, <3>4
  <2>4. CASE r \in pendingResults /\ HasScanner(r)
    <3>1. PICK k \in 1..Len(jobs) : IsScanner(jobs[k], r)
      BY <2>4 DEF HasScanner
    <3>2. jobs[k].stage = "SCANNING" /\ jobs[k].step = r
      BY <3>1 DEF IsScanner
    <3>3. T = {k}
      BY <2>1, <3>1, <3>2 DEF ScanRunning
    <3>4. Q = {}
      BY <2>1, <3>2 DEF ScanRunning, Elements
    <3>5. B = {}
      BY <2>1, <3>1 DEF ScanRunning, IsScanResult
    <3> HIDE DEF Q, T, B
    <3>6. Cardinality(Q) = 0 /\ Cardinality(T) = 1 /\ Cardinality(B) = 0
      BY <3>3, <3>4, <3>5, FS_EmptySet, FS_Singleton
    <3>7. QED BY <1>4, <2>4, <3>6
  <2>5. CASE r \in pendingResults /\ HasResult(r)
    <3>1. PICK i \in 1..Len(bcast) : IsScanResult(bcast[i], r)
      BY <2>5 DEF HasResult
    <3>2. bcast[i].stage = "SCANNING" /\ bcast[i].body = r
      BY <3>1 DEF IsScanResult
    <3>3. B = {i}
      BY <2>1, <3>1, <3>2 DEF ScanRunning, IsScanResult
    <3>4. Q = {}
      BY <2>1, <3>2 DEF ScanRunning, Elements
    <3>5. T = {}
      BY <2>1, <3>2 DEF ScanRunning
    <3> HIDE DEF Q, T, B
    <3>6. Cardinality(Q) = 0 /\ Cardinality(T) = 0 /\ Cardinality(B) = 1
      BY <3>3, <3>4, <3>5, FS_EmptySet, FS_Singleton
    <3>7. QED BY <1>4, <2>5, <3>6
  <2>6. QED BY <1>4, <2>2, <2>3, <2>4, <2>5 DEF Placed
<1>5. QED BY <1>2, <1>3, <1>4

\* Every radio whose result is awaited is in the queue, with a scanner or in a
\* result, in one of them and once; no other is in any, however radios come and go
\* (InterfaceScanManager.java:97-105).
THEOREM RadiosHavePlaces == Spec => []RadiosAccountedFor
<1>1. Init => Placed
  BY DEF Init, Placed
<1>2. IInv /\ Placed /\ [Next]_vars => Placed'
  BY NextPlaced
<1>3. IInv /\ Placed => RadiosAccountedFor
  BY OnePlace
<1>4. QED BY <1>1, <1>2, <1>3, Invariance, PTL DEF Spec

\* A radio that is awaited when a scan begins is awaited or found until the scan
\* ends, and none is awaited then (InterfaceScanManager.java:97-117).
THEOREM RadiosRemembered == Spec => NoRadioForgotten
<1> DEFINE Remembered == ism = "SCANNING" =>
                             /\ found' \cup pendingResults' = found \cup pendingResults
                             /\ ism' = "IDLE" => pendingResults' = {}
<1>1. IInv /\ [Next]_vars => [Remembered]_vars
  <2> SUFFICES ASSUME IInv, Next, ism = "SCANNING"
               PROVE  /\ found' \cup pendingResults' = found \cup pendingResults
                      /\ ism' = "IDLE" => pendingResults' = {}
    OBVIOUS
  <2>1. CASE HardwareScanFinished
    <3>1. bcast # <<>> /\ Head(bcast).stage = "SCANNING" /\ Head(bcast).act = "step"
      BY <2>1 DEF HardwareScanFinished, Arrives
    <3>2. Body \in pendingResults
      BY <3>1, HeadAtWork DEF ScanRunning, Body
    <3>3. QED BY <2>1, <3>2 DEF HardwareScanFinished
  <2>2. CASE ~HardwareScanFinished
    <3>1. UNCHANGED <<ism, found, pendingResults>>
      BY <2>2 DEF Next, Environment, Receive, TaskDone, Send, UsbPoll, ToggleBuiltIn, RunTask, Ignore,
           ScreenReceives, UsbUpdate, AcceptRequest, ScanFinished, ResolutionFinished, MergingFinished,
           FilteringFinished, InterfaceScanRequested, ResolutionRequested, ResolverFinished,
           MergeRequested, HeuristicFinished, FilteringRequested, FilterFinished, StageRequested,
           StepFinished, ScannerDone, InitDone, ResolverDone, HeuristicDone, FilterDone, StepDone, ismVars
    <3>2. QED BY <3>1
  <2>3. QED BY <2>1, <2>2
<1>2. QED BY <1>1, Invariance, PTL DEF Spec, NoRadioForgotten

-----------------------------------------------------------------------------
(* ScanPipeline implements ScanService: seen from the screens, its many    *)
(* broadcasts, tasks and managers are a service that looks at requests in  *)
(* the order they were sent, works on one at a time, and drops or answers  *)
(* it.  That it does so in the end is liveness, and left to TLC.           *)

\* The service works on the request ScanManager has accepted.
Service == INSTANCE ScanService WITH current <- IF sm = "IDLE" THEN 0 ELSE working.id

-----------------------------------------------------------------------------
(* The requests that wait for ScanManager                                  *)

IsRequest(msg) == msg.stage = "CLIENT" /\ msg.act = "request"
Requestless(sent) == \A i \in 1..Len(sent) : ~IsRequest(sent[i])

\* They stand in the order in which they were sent.
InOrder ==
    \A i, j \in 1..Len(bcast) :
        IsRequest(bcast[i]) /\ IsRequest(bcast[j]) /\ i < j => bcast[i].body.id < bcast[j].body.id

Waits(k) == \E i \in 1..Len(bcast) : IsRequest(bcast[i]) /\ bcast[i].body.id = k

Line ==
    /\ InOrder
    /\ \A k \in Ids : outcome[k] = "sent" <=> Waits(k)
    /\ \E n \in 0..MaxRequests : Issued = 1..n
    /\ sm # "IDLE" => outcome[working.id] = "accepted"

LEMMA RequestBody ==
    ASSUME bcast \in Seq(Messages), NEW i \in 1..Len(bcast), IsRequest(bcast[i])
    PROVE  bcast[i].body \in Requests /\ bcast[i].body.id \in Ids /\ bcast[i].body.id \in Nat \ {0}
<1>1. bcast[i] \in Messages
  BY ElementOfSeq
<1>2. bcast[i].body \in Requests
  BY <1>1, BodyType DEF IsRequest
<1>3. QED BY <1>2, MaxRequestsAssumption DEF Requests, Ids

LEMMA IdsTyped == Ids \subseteq Nat \ {0} /\ 0 \notin Ids
  BY MaxRequestsAssumption DEF Ids

\* A broadcast is delivered, and its receiver asks for nothing itself.
LEMMA LineMovesUp ==
    ASSUME bcast \in Seq(Messages), bcast # <<>>, InOrder, NEW sent \in Seq(Messages),
           Requestless(sent), Reply(sent)
    PROVE  /\ InOrder'
           /\ \A k \in Ids : Waits(k)' <=> Waits(k) /\ ~(IsRequest(Head(bcast)) /\ Body.id = k)
<1> DEFINE n == Len(bcast) - 1
<1>1. /\ n \in Nat /\ Len(bcast) = n + 1 /\ Len(sent) \in Nat /\ Len(bcast') = n + Len(sent)
      /\ \A i \in 1..n : bcast'[i] = bcast[i + 1]
      /\ \A i \in 1..Len(sent) : bcast'[n + i] = sent[i]
      /\ Head(bcast) = bcast[1]
  BY ReplyShape
<1> HIDE DEF n
<1>2. ASSUME NEW i \in 1..Len(bcast'), IsRequest(bcast'[i])
      PROVE  i \in 1..n /\ i + 1 \in 1..Len(bcast) /\ bcast'[i] = bcast[i + 1]
  <2>1. CASE i > n
    <3>1. i - n \in 1..Len(sent) /\ n + (i - n) = i
      BY <1>1, <2>1
    <3>2. bcast'[i] = sent[i - n]
      BY <1>1, <3>1
    <3>3. QED BY <1>2, <3>1, <3>2 DEF Requestless
  <2>2. CASE ~(i > n)
    BY <1>1, <2>2
  <2>3. QED BY <2>1, <2>2
<1>3. InOrder'
  <2> SUFFICES ASSUME NEW i \in 1..Len(bcast'), NEW j \in 1..Len(bcast'),
                      IsRequest(bcast'[i]), IsRequest(bcast'[j]), i < j
               PROVE  bcast'[i].body.id < bcast'[j].body.id
    BY DEF InOrder, IsRequest
  <2>1. i + 1 < j + 1 /\ i + 1 \in 1..Len(bcast) /\ j + 1 \in 1..Len(bcast)
    BY <1>2
  <2>2. bcast'[i] = bcast[i + 1] /\ bcast'[j] = bcast[j + 1]
    BY <1>2
  <2>3. QED BY <2>1, <2>2 DEF InOrder
<1>4. ASSUME NEW k \in Ids, Waits(k)' PROVE Waits(k) /\ ~(IsRequest(Head(bcast)) /\ Body.id = k)
  <2>1. PICK i \in 1..Len(bcast') : IsRequest(bcast'[i]) /\ bcast'[i].body.id = k
    BY <1>4 DEF Waits, IsRequest
  <2>2. i + 1 \in 1..Len(bcast) /\ bcast'[i] = bcast[i + 1] /\ i \in 1..n
    BY <1>2, <2>1
  <2>3. IsRequest(bcast[i + 1]) /\ bcast[i + 1].body.id = k
    BY <2>1, <2>2
  <2>4. ASSUME IsRequest(bcast[1]), bcast[1].body.id = k PROVE FALSE
    <3>1. 1 \in 1..Len(bcast) /\ 1 < i + 1
      BY <1>1, <2>2
    <3>2. bcast[1].body.id < bcast[i + 1].body.id
      BY <2>2, <2>3, <2>4, <3>1 DEF InOrder
    <3>3. QED BY <2>3, <2>4, <3>2, IdsTyped
  <2>5. QED BY <1>1, <2>2, <2>3, <2>4 DEF Waits, Body
<1>5. ASSUME NEW k \in Ids, Waits(k), ~(IsRequest(Head(bcast)) /\ Body.id = k) PROVE Waits(k)'
  <2>1. PICK i \in 1..Len(bcast) : IsRequest(bcast[i]) /\ bcast[i].body.id = k
    BY <1>5 DEF Waits
  <2>2. i # 1
    BY <1>1, <1>5, <2>1 DEF Body
  <2>3. i - 1 \in 1..n /\ (i - 1) + 1 = i /\ i - 1 \in 1..Len(bcast')
    BY <1>1, <2>2
  <2>4. bcast'[i - 1] = bcast[i]
    BY <1>1, <2>3
  <2>5. QED BY <2>1, <2>3, <2>4 DEF Waits, IsRequest
<1>6. QED BY <1>3, <1>4, <1>5

\* Something else is sent, or nothing.
LEMMA LineStays ==
    ASSUME bcast \in Seq(Messages), InOrder, NEW sent \in Seq(Messages),
           Requestless(sent), bcast' = bcast \o sent
    PROVE  InOrder' /\ \A k \in Ids : Waits(k)' <=> Waits(k)
<1>1. /\ Len(bcast) \in Nat /\ Len(sent) \in Nat /\ Len(bcast') = Len(bcast) + Len(sent)
      /\ \A i \in 1..(Len(bcast) + Len(sent)) :
            bcast'[i] = IF i <= Len(bcast) THEN bcast[i] ELSE sent[i - Len(bcast)]
  BY ConcatProperties, LenProperties
<1>2. ASSUME NEW i \in 1..Len(bcast'), IsRequest(bcast'[i])
      PROVE  i \in 1..Len(bcast) /\ bcast'[i] = bcast[i]
  <2>1. CASE ~(i <= Len(bcast))
    <3>1. i - Len(bcast) \in 1..Len(sent) /\ bcast'[i] = sent[i - Len(bcast)]
      BY <1>1, <2>1
    <3>2. QED BY <1>2, <3>1 DEF Requestless
  <2>2. CASE i <= Len(bcast)
    BY <1>1, <2>2
  <2>3. QED BY <2>1, <2>2
<1>3. \A i \in 1..Len(bcast) : i \in 1..Len(bcast') /\ bcast'[i] = bcast[i]
  BY <1>1
<1>4. InOrder'
  <2> SUFFICES ASSUME NEW i \in 1..Len(bcast'), NEW j \in 1..Len(bcast'),
                      IsRequest(bcast'[i]), IsRequest(bcast'[j]), i < j
               PROVE  bcast'[i].body.id < bcast'[j].body.id
    BY DEF InOrder, IsRequest
  <2>1. QED BY <1>2 DEF InOrder
<1>5. ASSUME NEW k \in Ids PROVE Waits(k)' <=> Waits(k)
  BY <1>2, <1>3 DEF Waits, IsRequest
<1>6. QED BY <1>4, <1>5

-----------------------------------------------------------------------------
(* What a step is to the service                                           *)

\* What the service does not see.
LEMMA Unseen ==
    ASSUME Line, UNCHANGED <<working, outcome>>, sm = "IDLE" <=> sm' = "IDLE",
           InOrder', \A k \in Ids : Waits(k)' <=> Waits(k)
    PROVE  Line' /\ [Service!Next]_(Service!vars)
<1>1. Line'
  BY DEF Line, Issued
<1>2. UNCHANGED Service!vars
  BY DEF Service!vars
<1>3. QED BY <1>1, <1>2

\* ScanManager hands the results to the next stage, or answers with them.
LEMMA PassedOn ==
    ASSUME TypeOK, Line, sm # "IDLE", UNCHANGED working,
           (sm' # "IDLE" /\ UNCHANGED outcome) \/ (sm' = "IDLE" /\ Answered),
           InOrder', \A k \in Ids : Waits(k)' <=> Waits(k)
    PROVE  Line' /\ [Service!Next]_(Service!vars)
<1>1. CASE sm' # "IDLE" /\ UNCHANGED outcome
  BY <1>1, Unseen
<1>2. CASE sm' = "IDLE" /\ Answered
  <2>1. working.id \in Ids /\ working.id # 0 /\ outcome[working.id] = "accepted"
    BY IdsTyped DEF TypeOK, Requests, Line
  <2>2. outcome' = [outcome EXCEPT ![working.id] = "answered"]
    BY <1>2 DEF Answered
  <2>3. \A k \in Ids : /\ outcome'[k] = "sent" <=> outcome[k] = "sent"
                       /\ outcome'[k] # "none" <=> outcome[k] # "none"
    BY <2>1, <2>2 DEF TypeOK
  <2>4. Line'
    BY <1>2, <2>3 DEF Line, Issued
  <2>5. Service!Answer
    BY <1>2, <2>1, <2>2 DEF Service!Answer, Service!Becomes
  <2>6. QED BY <2>4, <2>5 DEF Service!Next
<1>3. QED BY <1>1, <1>2

LEMMA SendServed ==
    ASSUME TypeOK, Line, NEW p \in Profiles, Send(p)
    PROVE  Line' /\ [Service!Next]_(Service!vars)
<1>1. PICK n \in 0..MaxRequests : Issued = 1..n
  BY DEF Line
<1>2. n \in Nat /\ Cardinality(Issued) = n
  BY <1>1, MaxRequestsAssumption, FS_Interval
<1> DEFINE id == n + 1
           req == SCAN_REQUEST([id |-> id, flags |-> p])
<1>3. /\ id \in Ids /\ outcome' = [outcome EXCEPT ![id] = "sent"]
      /\ bcast' = Append(bcast, req) /\ UNCHANGED <<sm, working>>
  BY <1>2, MaxRequestsAssumption DEF Send, Ids
<1>4. IsRequest(req) /\ req.body.id = id /\ req \in Messages
  BY <1>3 DEF SCAN_REQUEST, IsRequest, Messages, Requests
<1> HIDE DEF req
<1>5. /\ bcast \in Seq(Messages) /\ Len(bcast) \in Nat /\ Len(bcast') = Len(bcast) + 1
      /\ \A i \in 1..Len(bcast) : bcast'[i] = bcast[i]
      /\ bcast'[Len(bcast) + 1] = req
  BY <1>3, <1>4, AppendProperties, LenProperties DEF TypeOK
<1>6. \A k \in Ids : outcome[k] # "none" <=> k <= n
  BY <1>1, <1>2 DEF Issued, Ids
<1>7. \A i \in 1..Len(bcast) : IsRequest(bcast[i]) =>
          bcast[i].body.id \in Ids /\ bcast[i].body.id <= n
  <2>1. ASSUME NEW i \in 1..Len(bcast), IsRequest(bcast[i])
        PROVE  bcast[i].body.id \in Ids /\ bcast[i].body.id <= n
    <3>1. bcast[i].body.id \in Ids
      BY <1>5, <2>1, RequestBody
    <3>2. outcome[bcast[i].body.id] = "sent"
      BY <2>1, <3>1 DEF Line, Waits
    <3>3. QED BY <1>6, <3>1, <3>2
  <2>2. QED BY <2>1
<1>8. InOrder'
  <2> SUFFICES ASSUME NEW i \in 1..Len(bcast'), NEW j \in 1..Len(bcast'),
                      IsRequest(bcast'[i]), IsRequest(bcast'[j]), i < j
               PROVE  bcast'[i].body.id < bcast'[j].body.id
    BY DEF InOrder, IsRequest
  <2>1. i \in 1..Len(bcast)
    BY <1>5
  <2>2. CASE j \in 1..Len(bcast)
    BY <1>5, <2>1, <2>2 DEF Line, InOrder
  <2>3. CASE j = Len(bcast) + 1
    <3>1. bcast'[j].body.id = n + 1 /\ bcast'[i].body.id \in Ids /\ bcast'[i].body.id <= n
      BY <1>4, <1>5, <1>7, <2>1, <2>3
    <3>2. bcast'[i].body.id \in Nat
      BY <3>1, IdsTyped
    <3>3. QED BY <1>2, <3>1, <3>2
  <2>4. QED BY <1>5, <2>2, <2>3
<1>9. ASSUME NEW k \in Ids PROVE outcome'[k] = "sent" <=> Waits(k)'
  <2>1. Waits(k)' <=> Waits(k) \/ k = id
    <3>1. ASSUME Waits(k)' PROVE Waits(k) \/ k = id
      <4>1. PICK i \in 1..Len(bcast') : IsRequest(bcast'[i]) /\ bcast'[i].body.id = k
        BY <3>1 DEF Waits, IsRequest
      <4>2. CASE i \in 1..Len(bcast)
        BY <1>5, <4>1, <4>2 DEF Waits
      <4>3. CASE i = Len(bcast) + 1
        BY <1>4, <1>5, <4>1, <4>3
      <4>4. QED BY <1>5, <4>2, <4>3
    <3>2. ASSUME Waits(k) PROVE Waits(k)'
      <4>1. PICK i \in 1..Len(bcast) : IsRequest(bcast[i]) /\ bcast[i].body.id = k
        BY <3>2 DEF Waits
      <4>2. i \in 1..Len(bcast') /\ bcast'[i] = bcast[i]
        BY <1>5
      <4>3. QED BY <4>1, <4>2 DEF Waits, IsRequest
    <3>3. ASSUME k = id PROVE Waits(k)'
      <4>1. Len(bcast) + 1 \in 1..Len(bcast')
        BY <1>5
      <4>2. QED BY <1>4, <1>5, <3>3, <4>1 DEF Waits, IsRequest
    <3>4. QED BY <3>1, <3>2, <3>3
  <2>2. outcome'[k] = IF k = id THEN "sent" ELSE outcome[k]
    BY <1>3 DEF TypeOK
  <2>3. QED BY <2>1, <2>2 DEF Line
<1>10. Line'
  <2>1. Issued' = 1..(n + 1) /\ n + 1 \in 0..MaxRequests
    <3>1. \A k \in Ids : outcome'[k] # "none" <=> k <= n + 1
      BY <1>2, <1>3, <1>6, IdsTyped DEF TypeOK
    <3>2. n + 1 \in 1..MaxRequests
      BY <1>3 DEF Ids
    <3>3. QED BY <1>2, <3>1, <3>2, MaxRequestsAssumption DEF Issued, Ids
  <2>2. sm' # "IDLE" => outcome'[working'.id] = "accepted"
    <3>1. sm # "IDLE" => working.id \in Ids /\ outcome[working.id] = "accepted" /\ working.id # id
      BY <1>2, <1>3, <1>6 DEF TypeOK, Requests, Line
    <3>2. QED BY <1>3, <3>1 DEF TypeOK
  <2>3. QED BY <1>8, <1>9, <2>1, <2>2 DEF Line
<1>11. Service!Send(id)
  <2>1. Service!Oldest(id, "none")
    BY <1>2, <1>3, <1>6, MaxRequestsAssumption DEF Service!Oldest, Ids
  <2>2. QED BY <1>3, <2>1 DEF Service!Send, Service!Becomes
<1>12. QED BY <1>3, <1>10, <1>11 DEF Service!Next, Service!Ids, Ids

\* The request that is delivered is the one that has waited longest.
LEMMA HeadIsOldest ==
    ASSUME TypeOK, Line, bcast # <<>>, IsRequest(Head(bcast)), outcome[Body.id] = "sent"
    PROVE  Service!Oldest(Body.id, "sent")
<1>1. /\ 1 \in 1..Len(bcast) /\ Head(bcast) = bcast[1] /\ Len(bcast) \in Nat
      /\ Body.id \in Ids /\ Body = bcast[1].body /\ bcast \in Seq(Messages)
  BY RequestBody, LenProperties DEF Body, TypeOK
<1>2. ASSUME NEW j \in 1..(Body.id - 1) PROVE outcome[j] # "sent"
  <2>1. j \in Ids /\ j < Body.id
    BY <1>1, MaxRequestsAssumption DEF Ids
  <2>2. ASSUME NEW i \in 1..Len(bcast), IsRequest(bcast[i]) PROVE bcast[i].body.id # j
    <3>1. i = 1 \/ Body.id < bcast[i].body.id
      BY <1>1, <2>2 DEF Line, InOrder
    <3>2. bcast[i].body.id \in Nat /\ Body.id \in Nat /\ j \in Nat
      BY <1>1, <2>1, <2>2, RequestBody, IdsTyped
    <3>3. QED BY <1>1, <2>1, <3>1, <3>2
  <2>3. QED BY <2>1, <2>2 DEF Line, Waits
<1>3. QED BY <1>2 DEF Service!Oldest

LEMMA AcceptServed ==
    ASSUME TypeOK, Line, AcceptRequest
    PROVE  Line' /\ [Service!Next]_(Service!vars)
<1>1. /\ sm = "IDLE" /\ sm' = "SCANNING" /\ bcast # <<>> /\ IsRequest(Head(bcast))
      /\ working' = Body /\ outcome' = [outcome EXCEPT ![Body.id] = "accepted"]
      /\ Reply(<<INTERFACE_SCAN_REQUEST>>) /\ bcast \in Seq(Messages)
  BY DEF AcceptRequest, Arrives, IsRequest, TypeOK
<1>2. /\ 1 \in 1..Len(bcast) /\ Head(bcast) = bcast[1] /\ Len(bcast) \in Nat
      /\ Body.id \in Ids /\ Body = bcast[1].body
  BY <1>1, RequestBody, HeadTailProperties, LenProperties DEF Body
<1>3. InOrder' /\ \A k \in Ids : Waits(k)' <=> Waits(k) /\ Body.id # k
  <2>1. Requestless(<<INTERFACE_SCAN_REQUEST>>)
    BY DEF Requestless, IsRequest, INTERFACE_SCAN_REQUEST
  <2>2. QED BY <1>1, <2>1, SentType, LineMovesUp DEF Line
<1>4. \A k \in Ids : outcome'[k] = IF k = Body.id THEN "accepted" ELSE outcome[k]
  BY <1>1 DEF TypeOK
<1>5. outcome[Body.id] = "sent"
  <2>1. Waits(Body.id)
    BY <1>1, <1>2 DEF Waits
  <2>2. QED BY <1>2, <2>1 DEF Line
<1>6. Line'
  <2>1. Issued' = Issued
    BY <1>2, <1>4, <1>5 DEF Issued
  <2>2. QED BY <1>1, <1>2, <1>3, <1>4, <2>1 DEF Line
<1>7. Service!Oldest(Body.id, "sent")
  BY <1>1, <1>5, HeadIsOldest
<1>8. Service!Accept(Body.id)
  BY <1>1, <1>7 DEF Service!Accept, Service!Becomes
<1>9. QED BY <1>2, <1>6, <1>8 DEF Service!Next, Service!Ids, Ids

\* ScanManager is busy, or a manager hears what it does not await.
LEMMA IgnoreServed ==
    ASSUME IInv, Line, Ignore
    PROVE  Line' /\ [Service!Next]_(Service!vars)
<1>1. /\ TypeOK /\ bcast \in Seq(Messages) /\ bcast # <<>> /\ ~Awaited(Head(bcast))
      /\ bcast' = Tail(bcast) /\ UNCHANGED <<sm, working>>
      /\ outcome' = IF Head(bcast).stage = "CLIENT"
                    THEN [outcome EXCEPT ![Body.id] = "dropped"] ELSE outcome
  BY DEF Ignore, IInv, TypeOK
<1>2. Head(bcast).stage = "CLIENT"
  BY <1>1, OnlyRequestsIgnored DEF Ignore
<1>3. IsRequest(Head(bcast)) /\ sm # "IDLE"
  <2>1. ASSUME Head(bcast).act = "request" => sm = "IDLE" PROVE Awaited(Head(bcast))
    BY <1>2, <2>1 DEF Awaited, Managers
  <2>2. QED BY <1>1, <1>2, <2>1 DEF IsRequest
<1>4. /\ 1 \in 1..Len(bcast) /\ Head(bcast) = bcast[1] /\ Len(bcast) \in Nat
      /\ Body.id \in Ids /\ Body = bcast[1].body
  BY <1>1, <1>3, RequestBody, HeadTailProperties, LenProperties DEF Body
<1>5. InOrder' /\ \A k \in Ids : Waits(k)' <=> Waits(k) /\ Body.id # k
  <2>1. Reply(<<>>)
    BY <1>1, HeadTailProperties, ConcatEmptySeq DEF Reply
  <2>2. Requestless(<<>>)
    BY DEF Requestless
  <2>3. QED BY <1>1, <1>3, <2>1, <2>2, SentType, LineMovesUp DEF Line
<1>6. \A k \in Ids : outcome'[k] = IF k = Body.id THEN "dropped" ELSE outcome[k]
  BY <1>1, <1>2 DEF TypeOK
<1>7. outcome[Body.id] = "sent"
  <2>1. Waits(Body.id)
    BY <1>3, <1>4 DEF Waits
  <2>2. QED BY <1>4, <2>1 DEF Line
<1>8. working.id \in Ids /\ working.id # 0 /\ outcome[working.id] = "accepted"
  BY <1>1, <1>3, IdsTyped DEF TypeOK, Requests, Line
<1>9. Line'
  <2>1. Issued' = Issued
    BY <1>4, <1>6, <1>7 DEF Issued
  <2>2. QED BY <1>1, <1>4, <1>5, <1>6, <1>7, <1>8, <2>1 DEF Line
<1>10. Service!Oldest(Body.id, "sent")
  BY <1>1, <1>3, <1>7, HeadIsOldest
<1>11. Service!Drop(Body.id)
  BY <1>1, <1>2, <1>3, <1>8, <1>10 DEF Service!Drop, Service!Becomes
<1>12. QED BY <1>4, <1>9, <1>11 DEF Service!Next, Service!Ids, Ids

\* A broadcast that is no request is received, and none is sent.
LEMMA Heard ==
    ASSUME TypeOK, Line, bcast # <<>>, ~IsRequest(Head(bcast)),
           NEW sent \in Seq(Messages), Requestless(sent), Reply(sent)
    PROVE  InOrder' /\ \A k \in Ids : Waits(k)' <=> Waits(k)
  BY LineMovesUp DEF TypeOK, Line

\* What is sent besides requests.
LEMMA Notes ==
    /\ Requestless(<<>>)
    /\ \A msg : ~IsRequest(msg) => Requestless(<<msg>>)
    /\ \A a, b \in Messages : ~IsRequest(a) /\ ~IsRequest(b) => Requestless(<<a>> \o <<b>>)
<1>1. Requestless(<<>>) /\ \A msg : ~IsRequest(msg) => Requestless(<<msg>>)
  BY DEF Requestless
<1>2. ASSUME NEW a \in Messages, NEW b \in Messages, ~IsRequest(a), ~IsRequest(b)
      PROVE  Requestless(<<a>> \o <<b>>)
  <2> DEFINE u == <<a>> \o <<b>>
  <2>1. Len(u) = 2 /\ u[1] = a /\ u[2] = b
    BY SingletonSeq, ConcatProperties
  <2> HIDE DEF u
  <2>2. Requestless(u)
    BY <1>2, <2>1 DEF Requestless
  <2>3. QED BY <2>2 DEF u
<1>3. QED BY <1>1, <1>2

LEMMA ScanManagerServed ==
    ASSUME IInv, Line, ScanFinished \/ ResolutionFinished \/ MergingFinished \/ FilteringFinished
    PROVE  Line' /\ [Service!Next]_(Service!vars)
<1>1. TypeOK /\ bcast \in Seq(Messages) /\ bcast # <<>> /\ UNCHANGED working
  BY DEF IInv, TypeOK, ScanFinished, ResolutionFinished, MergingFinished, FilteringFinished, Arrives
<1>2. ~IsRequest(Head(bcast)) /\ Head(bcast).act = "response"
  BY DEF ScanFinished, ResolutionFinished, MergingFinished, FilteringFinished, Arrives, IsRequest
<1>3. sm # "IDLE"
  <2>1. CASE ScanFinished
    BY <1>1, <2>1, HeadAtWork DEF ScanFinished, Arrives
  <2>2. CASE ~ScanFinished
    BY <2>2 DEF ResolutionFinished, MergingFinished, FilteringFinished
  <2>3. QED BY <2>1, <2>2
<1>4. Body \in Payload /\ working \in Requests
  <2>1. Head(bcast).stage \in {"SCANNING"} \cup Managers
    BY DEF ScanFinished, ResolutionFinished, MergingFinished, FilteringFinished, Arrives, Managers
  <2>2. QED BY <1>1, <1>2, <1>3, <2>1, Delivered, BodyType DEF Body, TypeOK
<1>5. /\ \A m \in Managers : <<StageRequest(m, Body)>> \in Seq(Messages) /\ ~IsRequest(StageRequest(m, Body))
      /\ \A type \in {"INTERFACES", "DEVICES"} :
            <<SCAN_RESPONSE(type, Body)>> \in Seq(Messages) /\ ~IsRequest(SCAN_RESPONSE(type, Body))
      /\ <<SNAPSHOT_DATA(Body)>> \in Seq(Messages) /\ ~IsRequest(SNAPSHOT_DATA(Body))
  BY <1>4, SentType, AnswerType, SnapshotType
     DEF StageRequest, SCAN_RESPONSE, SNAPSHOT_DATA, IsRequest, Managers
<1>6. PICK sent \in Seq(Messages) : Requestless(sent) /\ Reply(sent)
  <2>1. \A msg : <<msg>> \in Seq(Messages) => msg \in Messages
    <3>1. ASSUME NEW msg, <<msg>> \in Seq(Messages) PROVE msg \in Messages
      <4>1. Len(<<msg>>) = 1 /\ <<msg>>[1] = msg
        OBVIOUS
      <4>2. QED BY <3>1, <4>1, ElementOfSeq
    <3>2. QED BY <3>1
  <2>2. CASE ScanFinished
    <3>1. \E msg \in Messages : ~IsRequest(msg) /\ Reply(<<SNAPSHOT_DATA(Body)>> \o <<msg>>)
      <4>1. sm = "SCANNING"
        BY <1>1, <2>2, HeadAtWork DEF ScanFinished, Arrives
      <4>2. CASE working.flags.doNameResolution
        BY <1>5, <2>1, <2>2, <4>1, <4>2 DEF ScanFinished, Managers
      <4>3. CASE ~working.flags.doNameResolution
        BY <1>5, <2>1, <2>2, <4>1, <4>3 DEF ScanFinished
      <4>4. QED BY <4>2, <4>3
    <3>2. PICK msg \in Messages : ~IsRequest(msg) /\ Reply(<<SNAPSHOT_DATA(Body)>> \o <<msg>>)
      BY <3>1
    <3>3. <<SNAPSHOT_DATA(Body)>> \o <<msg>> \in Seq(Messages)
      BY <1>5, SingletonSeq, ConcatProperties
    <3>4. QED BY <1>5, <2>1, <3>2, <3>3, Notes
  <2>3. CASE ResolutionFinished
    BY <1>5, <2>3, Notes DEF ResolutionFinished, Managers
  <2>4. CASE MergingFinished
    BY <1>5, <2>4, Notes DEF MergingFinished, Managers
  <2>5. CASE FilteringFinished
    BY <1>5, <2>5, Notes DEF FilteringFinished
  <2>6. QED BY <2>2, <2>3, <2>4, <2>5
<1>7. InOrder' /\ \A k \in Ids : Waits(k)' <=> Waits(k)
  BY <1>1, <1>2, <1>6, Heard
<1>8. (sm' # "IDLE" /\ UNCHANGED outcome) \/ (sm' = "IDLE" /\ Answered)
  <2>1. CASE ScanFinished
    <3>1. sm = "SCANNING"
      BY <1>1, <2>1, HeadAtWork DEF ScanFinished, Arrives
    <3>2. QED BY <2>1, <3>1 DEF ScanFinished
  <2>2. CASE ResolutionFinished \/ MergingFinished \/ FilteringFinished
    BY <2>2 DEF ResolutionFinished, MergingFinished, FilteringFinished
  <2>3. QED BY <2>1, <2>2
<1>9. QED BY <1>1, <1>3, <1>7, <1>8, PassedOn

\* The other stages, the screens and the radios.
LEMMA OthersServed ==
    ASSUME IInv, Line,
           \/ \E devices \in SUBSET UsbRadios : UsbPoll(devices)
           \/ \E r \in Radios : ToggleBuiltIn(r)
           \/ RunTask \/ ScreenReceives \/ UsbUpdate \/ InterfaceScanRequested \/ HardwareScanFinished
           \/ \E m \in Managers : StageRequested(m) \/ StepFinished(m) \/ StepDone(m)
           \/ ScannerDone \/ InitDone
    PROVE  Line' /\ [Service!Next]_(Service!vars)
<1>1. TypeOK /\ bcast \in Seq(Messages) /\ jobs \in Seq(Tasks) /\ ran \in 0..Len(jobs)
  BY DEF IInv, TypeOK
<1>2. UNCHANGED <<sm, working, outcome>>
  BY DEF smVars, UsbPoll, ToggleBuiltIn, RunTask, ScreenReceives, UsbUpdate, InterfaceScanRequested,
         HardwareScanFinished, StageRequested, StepFinished, StepDone, ScannerDone, InitDone
<1>3. ASSUME UNCHANGED bcast PROVE InOrder' /\ \A k \in Ids : Waits(k)' <=> Waits(k)
  BY <1>3 DEF Line, InOrder, Waits, IsRequest
<1>4. ASSUME NEW devices \in SUBSET UsbRadios, UsbPoll(devices)
      PROVE  InOrder' /\ \A k \in Ids : Waits(k)' <=> Waits(k)
  <2> DEFINE msg == USBMON_DEVICELIST(devices)
  <2>1. msg \in Messages /\ ~IsRequest(msg)
    BY DEF USBMON_DEVICELIST, IsRequest, Messages
  <2>2. bcast' = bcast \o <<msg>>
    BY <1>1, <1>4, <2>1, AppendIsConcat DEF UsbPoll
  <2>3. <<msg>> \in Seq(Messages) /\ Requestless(<<msg>>)
    BY <2>1, SingletonSeq, Notes
  <2>4. QED BY <1>1, <2>2, <2>3, LineStays DEF Line
<1>5. CASE ScreenReceives \/ UsbUpdate \/ InterfaceScanRequested
           \/ \E m \in Managers : StageRequested(m)
  <2>1. bcast # <<>> /\ ~IsRequest(Head(bcast)) /\ Reply(<<>>)
    BY <1>5 DEF ScreenReceives, UsbUpdate, InterfaceScanRequested, StageRequested, Arrives, IsRequest,
                Managers
  <2>2. QED BY <1>1, <1>2, <2>1, Notes, SentType, Heard, Unseen
<1>6. CASE HardwareScanFinished
  <2>1. /\ bcast # <<>> /\ ~IsRequest(Head(bcast)) /\ Head(bcast).stage = "SCANNING"
        /\ Head(bcast).act = "step"
    BY <1>6 DEF HardwareScanFinished, Arrives, IsRequest
  <2>2. found' \subseteq Radios
    BY <1>1, <1>6, <2>1, Delivered, BodyType DEF HardwareScanFinished, Body, TypeOK
  <2>3. /\ <<INTERFACE_SCAN_RESULT(found')>> \in Seq(Messages)
        /\ ~IsRequest(INTERFACE_SCAN_RESULT(found'))
    BY <2>2, SentType DEF INTERFACE_SCAN_RESULT, IsRequest
  <2>4. \E sent \in Seq(Messages) : Requestless(sent) /\ Reply(sent)
    BY <1>6, <2>3, Notes, SentType DEF HardwareScanFinished
  <2>5. QED BY <1>1, <1>2, <2>1, <2>4, Heard, Unseen
<1>7. ASSUME NEW m \in Managers, StepFinished(m) PROVE Line' /\ [Service!Next]_(Service!vars)
  <2>1. bcast # <<>> /\ ~IsRequest(Head(bcast)) /\ Head(bcast).stage = m /\ Head(bcast).act = "step"
    BY <1>7 DEF StepFinished, Arrives, IsRequest
  <2>2. Body.payload \in Payload
    BY <1>1, <2>1, Delivered, BodyType DEF Body
  <2>3. /\ <<StageResponse(m, Body.payload)>> \in Seq(Messages)
        /\ ~IsRequest(StageResponse(m, Body.payload))
    BY <2>2, SentType DEF StageResponse, IsRequest, Managers
  <2>4. \E sent \in Seq(Messages) : Requestless(sent) /\ Reply(sent)
    BY <1>7, <2>3, Notes, SentType DEF StepFinished
  <2>5. QED BY <1>1, <1>2, <2>1, <2>4, Heard, Unseen
<1>8. ASSUME NEW stage, NEW sent \in Seq(Messages), Requestless(sent), PostExecute(stage, sent)
      PROVE  Line' /\ [Service!Next]_(Service!vars)
  BY <1>1, <1>2, <1>8, LineStays, Unseen DEF PostExecute, Line
<1>9. ASSUME NEW m \in Managers, StepDone(m) PROVE Line' /\ [Service!Next]_(Service!vars)
  <2> DEFINE task == Head(jobs)
             payload == [task.body EXCEPT !.steps = Append(@, task.step)]
             msg == StepResponse(m, task.step, payload)
  <2>1. ran > 0 /\ jobs # <<>> /\ PostExecute(m, <<msg>>)
    BY <1>1, <1>9 DEF StepDone, PostExecute
  <2>2. task.step \in Steps /\ task.body \in Payload
    BY <1>1, <2>1, HeadTailProperties, TaskType DEF PostExecute
  <2>3. payload \in Payload
    BY <2>2, AppendProperties DEF Payload
  <2>4. <<msg>> \in Seq(Messages) /\ ~IsRequest(msg)
    BY <2>2, <2>3, SentType DEF StepResponse, IsRequest
  <2> HIDE DEF msg
  <2>5. QED BY <1>8, <2>1, <2>4, Notes
<1>10. CASE ScannerDone
  <2> DEFINE msg == HW_SCAN_RESULT(Head(jobs).step)
  <2>1. ran > 0 /\ jobs # <<>> /\ PostExecute("SCANNING", <<msg>>)
    BY <1>1, <1>10 DEF ScannerDone, PostExecute
  <2>2. Head(jobs).step \in Radios
    BY <1>1, <2>1, HeadTailProperties, TaskType DEF PostExecute
  <2>3. <<msg>> \in Seq(Messages) /\ ~IsRequest(msg)
    BY <2>2, SentType DEF HW_SCAN_RESULT, IsRequest
  <2> HIDE DEF msg
  <2>4. QED BY <1>8, <2>1, <2>3, Notes
<1>11. CASE InitDone
  BY <1>8, <1>11, Notes, SentType DEF InitDone
<1>12. CASE (\E r \in Radios : ToggleBuiltIn(r)) \/ RunTask
  BY <1>2, <1>3, <1>12, Unseen DEF ToggleBuiltIn, RunTask
<1>13. QED BY <1>2, <1>4, <1>5, <1>6, <1>7, <1>9, <1>10, <1>11, <1>12, Unseen

-----------------------------------------------------------------------------
(* The theorems                                                            *)

LEMMA InitServed == Init => Line /\ Service!Init
<1> SUFFICES ASSUME Init PROVE Line /\ Service!Init
  OBVIOUS
<1>1. /\ Len(bcast) = 0 /\ sm = "IDLE" /\ outcome = [i \in Ids |-> "none"]
  BY DEF Init
<1>2. Issued = 1..0 /\ 0 \in 0..MaxRequests
  BY <1>1, MaxRequestsAssumption DEF Issued
<1>3. Line
  BY <1>1, <1>2 DEF Line, InOrder, Waits
<1>4. Service!Init
  BY <1>1 DEF Service!Init, Service!Ids, Ids
<1>5. QED BY <1>3, <1>4

LEMMA NextServed == IInv /\ Line /\ [Next]_vars => Line' /\ [Service!Next]_(Service!vars)
<1> SUFFICES ASSUME IInv, Line, [Next]_vars PROVE Line' /\ [Service!Next]_(Service!vars)
  OBVIOUS
<1>1. TypeOK
  BY DEF IInv
<1>2. CASE Environment
  BY <1>1, <1>2, SendServed, OthersServed DEF Environment
<1>3. CASE RunTask
  BY <1>3, OthersServed
<1>4. CASE Receive
  BY <1>1, <1>4, AcceptServed, IgnoreServed, ScanManagerServed, OthersServed
     DEF Receive, Managers, ResolutionRequested, ResolverFinished, MergeRequested, HeuristicFinished,
         FilteringRequested, FilterFinished
<1>5. CASE TaskDone
  BY <1>5, OthersServed DEF TaskDone, Managers, ResolverDone, HeuristicDone, FilterDone
<1>6. CASE UNCHANGED vars
  <2>1. UNCHANGED <<bcast, sm, working, outcome>>
    BY <1>6 DEF vars, smVars
  <2>2. InOrder' /\ \A k \in Ids : Waits(k)' <=> Waits(k)
    BY <2>1 DEF Line, InOrder, Waits, IsRequest
  <2>3. QED BY <2>1, <2>2, Unseen
<1>7. QED BY <1>2, <1>3, <1>4, <1>5, <1>6 DEF Next

\* The pipeline of ScanManager and its managers implements the service the
\* screens see, step by step: requests are looked at in the order they were sent,
\* one is worked on at a time, one that comes meanwhile is dropped, and only the
\* request being worked on is answered (ScanManager.java:106).
THEOREM PipelineServes == Spec => Service!Spec
<1>1. Init => Line /\ Service!Init
  BY InitServed
<1>2. IInv /\ Line /\ [Next]_vars => Line' /\ [Service!Next]_(Service!vars)
  BY NextServed
<1>3. QED BY <1>1, <1>2, Invariance, PTL DEF Spec, Service!Spec

=============================================================================
