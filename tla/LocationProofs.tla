--------------------------- MODULE LocationProofs ---------------------------
(***************************************************************************)
(* What holds of HomePresence for all places, accuracies and bounds, and   *)
(* of HomeWifiScan for every number of scans, ticks, foreign scans and     *)
(* openings of Welcome.                                                    *)
(*                                                                         *)
(* SensorsFollowHome is inductive once the broadcasts under way are known  *)
(* to be a sequence.  That Wifi stays on if the user had it on is not      *)
(* inductive: every flag from which a thread decides to switch it off must *)
(* have been read while Wifi was off.                                      *)
(***************************************************************************)
EXTENDS HomePresence, HomeWifiScan, SequenceTheorems, TLAPS

-----------------------------------------------------------------------------
(* HomePresence                                                            *)

\* A broadcast added behind the others is the last one.
LEMMA LastAppended ==
    ASSUME NEW S, NEW q \in Seq(S), NEW e \in S
    PROVE  /\ q \o <<e>> \in Seq(S)
           /\ q \o <<e>> # <<>>
           /\ (q \o <<e>>)[Len(q \o <<e>>)] = e
<1>1. <<e>> \in Seq(S) /\ Len(<<e>>) = 1 /\ <<e>>[1] = e
  OBVIOUS
<1>2. q \o <<e>> \in Seq(S) /\ Len(q \o <<e>>) = Len(q) + 1 /\ Len(q) \in Nat
  BY <1>1
<1>3. (q \o <<e>>)[Len(q) + 1] = e
  BY <1>1, <1>2
<1> QED
  BY <1>2, <1>3

\* Nothing added changes nothing.
LEMMA NothingAppended ==
    ASSUME NEW S, NEW q \in Seq(S)
    PROVE  q \o <<>> = q
  BY ConcatEmptySeq

\* Receiving a broadcast that is not the last leaves the last.
LEMMA LastStays ==
    ASSUME NEW q \in Seq(StateChanges), q # <<>>
    PROVE  /\ Tail(q) \in Seq(StateChanges)
           /\ Tail(q) = <<>> => Head(q) = q[Len(q)]
           /\ Tail(q) # <<>> => Tail(q)[Len(Tail(q))] = q[Len(q)]
<1>1. Len(q) \in Nat \ {0} /\ Head(q) = q[1]
  BY EmptySeq
<1>2. /\ Tail(q) \in Seq(StateChanges)
      /\ Len(Tail(q)) = Len(q) - 1
      /\ \A i \in 1..Len(Tail(q)) : Tail(q)[i] = q[i + 1]
  BY HeadTailProperties
<1>3. ASSUME Tail(q) = <<>> PROVE Head(q) = q[Len(q)]
  <2>1. Len(Tail(q)) = 0
    BY <1>3, EmptySeq, Zenon
  <2>2. Len(q) = 1
    BY <2>1, <1>1, <1>2
  <2> QED
    BY <2>2, <1>1
<1>4. ASSUME Tail(q) # <<>> PROVE Tail(q)[Len(Tail(q))] = q[Len(q)]
  <2>1. Len(Tail(q)) \in Nat \ {0}
    BY <1>2, <1>4, EmptySeq
  <2>2. Len(Tail(q)) \in 1..Len(Tail(q)) /\ Len(Tail(q)) + 1 = Len(q)
    BY <2>1, <1>1, <1>2
  <2> QED
    BY <2>2, <1>2
<1> QED BY <1>2, <1>3, <1>4

\* The verdict of a fix is announced, whatever location the home is taken to have.
LEMMA VerdictAnnounced ==
    ASSUME TypeOK, SensorsFollowHome, NEW h, NEW l, Verdict(h, l), UNCHANGED sensors
    PROVE  updates' \in Seq(StateChanges) /\ homeState' \in HomeStates
           /\ phoneIsInHome' \in BOOLEAN /\ SensorsFollowHome'
<1> DEFINE near == h # None /\ Near(h, l)
           far  == h # None /\ ~Near(h, l)
           home == AssociatedToHomeAP \/ near
           first == IF home THEN Entering ELSE <<>>
           leave == far /\ (home \/ homeState = "HOME")
           second == IF leave THEN <<"LEAVING_HOME">> ELSE <<>>
           mid == updates \o first
<1>1. /\ updates' = mid \o second
      /\ homeState' = IF far THEN "NOT_HOME" ELSE IF home THEN "HOME" ELSE homeState
      /\ phoneIsInHome' = IF far THEN FALSE ELSE home \/ phoneIsInHome
  BY DEF Verdict
<1>2. /\ updates \in Seq(StateChanges)
      /\ "ENTERING_HOME" \in StateChanges
      /\ "LEAVING_HOME" \in StateChanges
      /\ homeState \in HomeStates
      /\ phoneIsInHome \in BOOLEAN
  BY DEF TypeOK, StateChanges
<1>3. phoneIsInHome' \in BOOLEAN /\ homeState' \in HomeStates
  BY <1>1, <1>2 DEF HomeStates
<1> DEFINE midState == IF home THEN "HOME" ELSE homeState
<1>4. /\ mid \in Seq(StateChanges)
      /\ (midState = "HOME") = IF mid = <<>> THEN sensors
                               ELSE mid[Len(mid)] = "ENTERING_HOME"
  <2>1. CASE home /\ homeState = "NOT_HOME"
    <3>1. mid = updates \o <<"ENTERING_HOME">>
      BY <2>1 DEF Entering
    <3> HIDE DEF mid, home
    <3> QED
      BY <3>1, <2>1, <1>2, LastAppended
  <2>2. CASE ~(home /\ homeState = "NOT_HOME")
    <3>1. mid = updates /\ midState = homeState
      BY <2>2, <1>2, NothingAppended DEF Entering, HomeStates
    <3> QED
      BY <3>1, <1>2 DEF SensorsFollowHome
  <2> QED BY <2>1, <2>2
<1>5. CASE leave
  <2>1. updates' = mid \o <<"LEAVING_HOME">> /\ homeState' = "NOT_HOME"
    BY <1>1, <1>5
  <2> HIDE DEF mid
  <2>2. /\ updates' \in Seq(StateChanges)
        /\ updates' # <<>>
        /\ updates'[Len(updates')] = "LEAVING_HOME"
    BY <2>1, <1>2, <1>4, LastAppended
  <2> QED
    BY <1>3, <2>1, <2>2 DEF SensorsFollowHome
<1>6. CASE ~leave
  <2>1. updates' = mid
    BY <1>1, <1>6, <1>4, NothingAppended
  <2>2. homeState' = midState
    BY <1>1, <1>2, <1>6 DEF HomeStates
  <2> HIDE DEF mid, midState
  <2> QED
    BY <1>3, <1>4, <2>1, <2>2 DEF SensorsFollowHome
<1> QED BY <1>5, <1>6

-----------------------------------------------------------------------------
(* The invariant                                                           *)

Inv == TypeOK /\ SensorsFollowHome /\ HomeKnownEverywhere

LEMMA InitInv == Init => Inv
<1> SUFFICES ASSUME Init PROVE Inv
  OBVIOUS
<1>1. TypeOK
  BY EmptySeq DEF Init, TypeOK, IntervalFor, Intervals, HomeStates
<1>2. SensorsFollowHome /\ HomeKnownEverywhere
  BY DEF Init, SensorsFollowHome, HomeKnownEverywhere
<1> QED BY <1>1, <1>2 DEF Inv

LEMMA BadFixInv ==
    ASSUME Inv, NEW l \in Locations, NEW mac \in AssociatedMACs, BadFix(l, mac),
           UNCHANGED <<sensors, associated>>
    PROVE  Inv'
<1>1. mac \in APs \cup {None}
  BY DEF AssociatedMACs, APs
<1>2. TypeOK'
  BY <1>1 DEF Inv, TypeOK, BadFix, monitorVars
<1>3. SensorsFollowHome'
  BY DEF Inv, SensorsFollowHome, BadFix, monitorVars
<1>4. HomeKnownEverywhere'
  BY DEF Inv, HomeKnownEverywhere, BadFix, monitorVars
<1> QED BY <1>2, <1>3, <1>4 DEF Inv

LEMMA GoodFixInv ==
    ASSUME Inv, NEW l \in Locations, NEW mac \in AssociatedMACs, GoodFix(l, mac),
           UNCHANGED <<sensors, associated>>
    PROVE  Inv'
<1> USE DEF Inv
<1>1. mac \in APs \cup {None}
  BY DEF AssociatedMACs, APs
<1>2. l # None
  BY NoneAssumption DEF Locations
<1>3. /\ updates' \in Seq(StateChanges)
      /\ homeState' \in HomeStates
      /\ phoneIsInHome' \in BOOLEAN
      /\ SensorsFollowHome'
  BY VerdictAnnounced DEF GoodFix
<1>4. TypeOK'
  <2>1. mHomeLoc' \in Locations \cup {None} /\ homeLocation' \in Locations \cup {None}
    BY DEF GoodFix, TypeOK
  <2>2. interval' \in Intervals /\ mNextLocIsHome' \in BOOLEAN
    BY DEF GoodFix, TypeOK, Intervals
  <2>3. homeWifiMAC' \in APs \cup {None} /\ homeSSID' \in BOOLEAN
    BY <1>1 DEF GoodFix, TypeOK
  <2> QED
    BY <1>3, <2>1, <2>2, <2>3 DEF TypeOK
<1>5. HomeKnownEverywhere'
  <2>1. CASE Learns
    BY <2>1, <1>2 DEF GoodFix, HomeKnownEverywhere, IntervalFor, AssociatedToHomeAP
  <2>2. CASE ~Learns
    BY <2>2, <1>2 DEF GoodFix, HomeKnownEverywhere, IntervalFor, Learns, Improves
  <2> QED BY <2>1, <2>2
<1> QED BY <1>3, <1>4, <1>5

LEMMA HomeNetworkSeenInv ==
    ASSUME Inv, NEW ap \in APs, HomeNetworkSeen(ap)
    PROVE  Inv'
<1> USE DEF Inv
<1>1. HomeKnownEverywhere'
  BY DEF HomeNetworkSeen, HomeKnownEverywhere, IntervalFor
<1>2. /\ updates \in Seq(StateChanges)
      /\ "ENTERING_HOME" \in StateChanges
      /\ homeState \in HomeStates
  BY DEF TypeOK, StateChanges
<1>3. /\ updates' \in Seq(StateChanges)
      /\ homeState' \in HomeStates
      /\ phoneIsInHome' \in BOOLEAN
      /\ SensorsFollowHome'
  <2>1. CASE homeWifiMAC = ap /\ homeState = "NOT_HOME"
    <3>1. updates' = updates \o <<"ENTERING_HOME">> /\ homeState' = "HOME"
      BY <2>1 DEF HomeNetworkSeen, Home, Entering
    <3>2. /\ updates' \in Seq(StateChanges)
          /\ updates' # <<>>
          /\ updates'[Len(updates')] = "ENTERING_HOME"
      BY <3>1, <1>2, LastAppended
    <3> QED
      BY <2>1, <3>1, <3>2 DEF HomeNetworkSeen, Home, SensorsFollowHome, HomeStates
  <2>2. CASE ~(homeWifiMAC = ap /\ homeState = "NOT_HOME")
    <3>1. UNCHANGED <<updates, homeState, sensors>>
      BY <2>2, <1>2, NothingAppended DEF HomeNetworkSeen, Home, Entering, HomeStates
    <3>2. phoneIsInHome' \in BOOLEAN
      BY DEF HomeNetworkSeen, Home, TypeOK
    <3> QED
      BY <3>1, <3>2, <1>2 DEF SensorsFollowHome
  <2> QED BY <2>1, <2>2
<1>4. TypeOK'
  BY <1>3 DEF TypeOK, HomeNetworkSeen, Intervals
<1> QED BY <1>1, <1>3, <1>4

LEMMA LocationUpdateInv ==
    ASSUME Inv, LocationUpdate
    PROVE  Inv'
<1> USE DEF Inv
<1>1. updates \in Seq(StateChanges) /\ updates # <<>> /\ updates' = Tail(updates)
  BY DEF LocationUpdate, TypeOK
<1>2. /\ updates' \in Seq(StateChanges)
      /\ updates' = <<>> => Head(updates) = updates[Len(updates)]
      /\ updates' # <<>> => updates'[Len(updates')] = updates[Len(updates)]
  BY <1>1, LastStays
<1>3. TypeOK'
  BY <1>2 DEF LocationUpdate, TypeOK, monitorVars, settingsVars
<1>4. SensorsFollowHome'
  BY <1>1, <1>2 DEF LocationUpdate, SensorsFollowHome, monitorVars
<1>5. HomeKnownEverywhere'
  BY DEF LocationUpdate, HomeKnownEverywhere, monitorVars, settingsVars
<1> QED BY <1>3, <1>4, <1>5

LEMMA RestartInv ==
    ASSUME Inv, Restart
    PROVE  Inv'
<1> USE DEF Inv
<1>1. TypeOK'
  BY EmptySeq DEF Restart, TypeOK, IntervalFor, Intervals, HomeStates, settingsVars
<1>2. SensorsFollowHome'
  BY DEF Restart, SensorsFollowHome
<1>3. HomeKnownEverywhere'
  BY DEF Restart, HomeKnownEverywhere, settingsVars
<1> QED BY <1>1, <1>2, <1>3

\* Steps that touch nothing the invariant relates.
LEMMA OutsideInv ==
    ASSUME Inv, SetHomeSSID \/ Roam \/ UNCHANGED vars
    PROVE  Inv'
<1> USE DEF Inv, monitorVars, settingsVars
<1>1. TypeOK'
  BY DEF SetHomeSSID, Roam, vars, TypeOK
<1>2. SensorsFollowHome'
  BY DEF SetHomeSSID, Roam, vars, SensorsFollowHome
<1>3. HomeKnownEverywhere'
  BY DEF SetHomeSSID, Roam, vars, HomeKnownEverywhere
<1> QED BY <1>1, <1>2, <1>3

\* Every behaviour, with any fixes, scans, restarts and delays of the broadcasts.
THEOREM Invariance == Spec => []Inv
<1>1. Inv /\ [Next]_vars => Inv'
  <2> SUFFICES ASSUME Inv, [Next]_vars PROVE Inv'
    OBVIOUS
  <2>1. CASE OnLocationChanged
    BY <2>1, BadFixInv, GoodFixInv DEF OnLocationChanged
  <2>2. CASE \E ap \in APs : HomeNetworkSeen(ap)
    BY <2>2, HomeNetworkSeenInv
  <2>3. CASE LocationUpdate
    BY <2>3, LocationUpdateInv
  <2>4. CASE Restart
    BY <2>4, RestartInv
  <2>5. CASE SetHomeSSID \/ Roam \/ UNCHANGED vars
    BY <2>5, OutsideInv
  <2> QED
    BY <2>1, <2>2, <2>3, <2>4, <2>5 DEF Next
<1> QED
  BY <1>1, InitInv, PTL DEF Spec

\* The variables keep their types (LocationMonitor.java:33-72).
THEOREM TypeCorrect == Spec => []TypeOK
<1>1. Inv => TypeOK
  BY DEF Inv
<1> QED
  BY <1>1, Invariance, PTL

\* Once the broadcasts are received the sensors are registered exactly when
\* LocationMonitor believes the phone at home (MotionDetector.java:54-69).
THEOREM SensorsFollow == Spec => []SensorsFollowHome
<1>1. Inv => SensorsFollowHome
  BY DEF Inv
<1> QED
  BY <1>1, Invariance, PTL

\* Memory, settings and update interval agree on whether the home is known,
\* across restarts (LocationMonitor.java:86-88, 157-161, 232-253).
THEOREM HomeKnown == Spec => []HomeKnownEverywhere
<1>1. Inv => HomeKnownEverywhere
  BY DEF Inv
<1> QED
  BY <1>1, Invariance, PTL

\* The stored location stays as accurate as the one fixes are compared with
\* (LocationMonitor.java:245-253).
THEOREM StoredStaysAccurate == Spec => []StoredAsAccurate
<1>1. Init => StoredAsAccurate
  BY DEF Init, StoredAsAccurate
<1>2. Inv /\ StoredAsAccurate /\ [Next]_vars => StoredAsAccurate'
  <2> SUFFICES ASSUME Inv, StoredAsAccurate, [Next]_vars PROVE StoredAsAccurate'
    OBVIOUS
  <2>1. ASSUME NEW l \in Locations, NEW mac \in AssociatedMACs, GoodFix(l, mac)
        PROVE  StoredAsAccurate'
    <3>1. l.accuracy \in Nat /\ l # None
      BY AccuraciesAssumption, NoneAssumption DEF Locations
    <3>2. CASE Learns
      BY <2>1, <3>1, <3>2 DEF GoodFix, StoredAsAccurate
    <3>3. CASE ~Learns
      BY <2>1, <3>1, <3>3 DEF GoodFix, Improves, StoredAsAccurate
    <3> QED BY <3>2, <3>3
  <2>2. ASSUME NEW l \in Locations, NEW mac \in AssociatedMACs, BadFix(l, mac)
        PROVE  StoredAsAccurate'
    BY <2>2 DEF BadFix, monitorVars, StoredAsAccurate
  <2>3. CASE OnLocationChanged
    BY <2>1, <2>2, <2>3 DEF OnLocationChanged
  <2>4. CASE Restart
    <3>1. mHomeLoc' = homeLocation /\ homeLocation' = homeLocation
      BY <2>4 DEF Restart, settingsVars
    <3>2. homeLocation = None \/ homeLocation.accuracy \in Nat
      BY AccuraciesAssumption DEF Inv, TypeOK, Locations
    <3> QED BY <3>1, <3>2 DEF StoredAsAccurate
  <2>5. CASE ~(OnLocationChanged \/ Restart)
    BY <2>5 DEF Next, HomeNetworkSeen, LocationUpdate, SetHomeSSID, Roam, vars, monitorVars,
                settingsVars, StoredAsAccurate
  <2> QED BY <2>3, <2>4, <2>5
<1> QED
  BY <1>1, <1>2, Invariance, PTL DEF Spec

-----------------------------------------------------------------------------
(* HomeWifiScan                                                            *)

\* No thread holds a decision to switch off the user's Wifi.
NobodyDisables ==
    userWifi => /\ ~mDisableWifiAS
                /\ ~disableArg
                /\ welcome # "closed" => wifi_enabled

\* Before a scan is awaited the count is not negative.
CountedDown == receiver \in {"idle", "again"} => mScansLeft >= 0

WifiInv == WifiTypeOK /\ WifiNotTaken /\ NobodyDisables /\ CountedDown

LEMMA WifiInitInv == WifiInit => WifiInv
<1> SUFFICES ASSUME WifiInit PROVE WifiInv
  OBVIOUS
<1>1. /\ mScansLeft \in -1..NUM_SCANS
      /\ results \in 0..MaxResults /\ ticks \in 0..MaxTicks
      /\ foreign \in 0..MaxForeign /\ opens \in 0..MaxOpens
  BY NumScansAssumption, BoundsAssumption DEF WifiInit
<1>2. WifiTypeOK
  BY <1>1 DEF WifiInit, WifiTypeOK, WifiStates
<1>3. WifiNotTaken /\ NobodyDisables /\ CountedDown
  BY DEF WifiInit, WifiNotTaken, NobodyDisables, CountedDown
<1> QED BY <1>2, <1>3 DEF WifiInv

\* The air and the switch itself.
LEMMA AirInv ==
    ASSUME WifiInv, WifiUp \/ ScanDone \/ ForeignScan \/ LearnHome
    PROVE  WifiInv'
<1> USE DEF WifiInv, timerVars, flagVars, receiverVars, welcomeVars, airVars
<1>1. WifiTypeOK'
  <2>1. CASE WifiUp
    BY <2>1 DEF WifiTypeOK, WifiUp, WifiStates
  <2>2. CASE ScanDone
    <3>1. results < MaxResults /\ results' = results + 1 /\ results \in 0..MaxResults
      BY <2>2 DEF ScanDone, WifiTypeOK
    <3>2. results' \in 0..MaxResults
      BY <3>1, BoundsAssumption
    <3>3. scanning' \in BOOLEAN
      BY <2>2 DEF ScanDone
    <3> QED
      BY <2>2, <3>2, <3>3 DEF WifiTypeOK, ScanDone
  <2>3. CASE ForeignScan
    BY <2>3, BoundsAssumption DEF WifiTypeOK, ForeignScan
  <2>4. CASE LearnHome
    BY <2>4 DEF WifiTypeOK, LearnHome
  <2> QED BY <2>1, <2>2, <2>3, <2>4
<1>2. WifiNotTaken' /\ NobodyDisables' /\ CountedDown'
  BY DEF WifiUp, ScanDone, ForeignScan, LearnHome, WifiNotTaken, NobodyDisables, CountedDown
<1> QED BY <1>1, <1>2

\* The timer thread decides while Wifi is off, and then it is not the user's.
LEMMA TimerInv ==
    ASSUME WifiInv, Tick \/ TriggerScan
    PROVE  WifiInv'
<1> USE DEF WifiInv, timerRest, flagVars, receiverVars, welcomeVars
<1>1. CASE Tick
  <2>1. WifiTypeOK'
    BY <1>1, BoundsAssumption DEF WifiTypeOK, Tick
  <2>2. WifiNotTaken' /\ NobodyDisables' /\ CountedDown'
    BY <1>1 DEF Tick, WifiNotTaken, NobodyDisables, CountedDown
  <2> QED BY <2>1, <2>2
<1>2. CASE SetDisable
  <2>1. WifiTypeOK'
    BY <1>2 DEF WifiTypeOK, SetDisable
  <2>2. WifiNotTaken' /\ NobodyDisables' /\ CountedDown'
    BY <1>2 DEF SetDisable, WifiNotTaken, NobodyDisables, CountedDown
  <2> QED BY <2>1, <2>2
<1>3. CASE EnableWifi
  <2>1. WifiTypeOK'
    BY <1>3 DEF WifiTypeOK, EnableWifi, Enable, WifiStates
  <2>2. WifiNotTaken' /\ NobodyDisables' /\ CountedDown'
    BY <1>3 DEF EnableWifi, Enable, WifiNotTaken, NobodyDisables, CountedDown
  <2> QED BY <2>1, <2>2
<1>4. CASE SeeEnabled
  <2>1. WifiTypeOK'
    BY <1>4 DEF WifiTypeOK, SeeEnabled
  <2>2. WifiNotTaken' /\ NobodyDisables' /\ CountedDown'
    BY <1>4 DEF SeeEnabled, WifiNotTaken, NobodyDisables, CountedDown
  <2> QED BY <2>1, <2>2
<1>5. CASE SetScansLeft
  <2>1. WifiTypeOK'
    BY <1>5, NumScansAssumption DEF WifiTypeOK, SetScansLeft
  <2>2. WifiNotTaken' /\ NobodyDisables' /\ CountedDown'
    BY <1>5, NumScansAssumption DEF SetScansLeft, WifiNotTaken, NobodyDisables, CountedDown
  <2> QED BY <2>1, <2>2
<1>6. CASE FirstScan
  <2>1. WifiTypeOK'
    BY <1>6 DEF WifiTypeOK, FirstScan, StartScan
  <2>2. WifiNotTaken' /\ NobodyDisables' /\ CountedDown'
    BY <1>6 DEF FirstScan, WifiNotTaken, NobodyDisables, CountedDown
  <2> QED BY <2>1, <2>2
<1> QED
  BY <1>1, <1>2, <1>3, <1>4, <1>5, <1>6 DEF TriggerScan

\* The receiver disables Wifi only on mDisableWifiAS.
LEMMA ReceiverInv ==
    ASSUME WifiInv, Receiver
    PROVE  WifiInv'
<1> USE DEF WifiInv, receiverRest, timerVars, flagVars, receiverVars, welcomeVars
<1>1. CASE NoResults
  <2>1. WifiTypeOK'
    BY <1>1, BoundsAssumption DEF WifiTypeOK, NoResults
  <2>2. WifiNotTaken' /\ NobodyDisables' /\ CountedDown'
    BY <1>1 DEF NoResults, WifiNotTaken, NobodyDisables, CountedDown
  <2> QED BY <2>1, <2>2
<1>2. CASE ScanResults
  <2>1. decremented' \in -1..NUM_SCANS
    BY <1>2, NumScansAssumption DEF WifiTypeOK, ScanResults, CountedDown
  <2>2. results' \in 0..MaxResults
    <3>1. results > 0 /\ results' = results - 1 /\ results \in 0..MaxResults
      BY <1>2 DEF ScanResults, WifiTypeOK
    <3> QED
      BY <3>1, BoundsAssumption
  <2>3. WifiTypeOK'
    BY <1>2, <2>1, <2>2 DEF WifiTypeOK, ScanResults
  <2>4. WifiNotTaken' /\ NobodyDisables' /\ CountedDown'
    BY <1>2 DEF ScanResults, WifiNotTaken, NobodyDisables, CountedDown
  <2> QED BY <2>3, <2>4
<1>3. CASE DisableAfterScans
  <2>1. WifiTypeOK'
    BY <1>3 DEF WifiTypeOK, DisableAfterScans, Disable, WifiStates
  <2>2. WifiNotTaken' /\ NobodyDisables' /\ CountedDown'
    BY <1>3 DEF DisableAfterScans, Disable, WifiNotTaken, NobodyDisables, CountedDown
  <2> QED BY <2>1, <2>2
<1>4. CASE ResetDisable
  <2>1. WifiTypeOK'
    BY <1>4 DEF WifiTypeOK, ResetDisable
  <2>2. WifiNotTaken' /\ NobodyDisables' /\ CountedDown'
    BY <1>4 DEF ResetDisable, WifiNotTaken, NobodyDisables, CountedDown
  <2> QED BY <2>1, <2>2
<1>5. CASE ResetScansLeft
  <2>1. WifiTypeOK'
    BY <1>5, NumScansAssumption DEF WifiTypeOK, ResetScansLeft
  <2>2. WifiNotTaken' /\ NobodyDisables' /\ CountedDown'
    BY <1>5 DEF ResetScansLeft, WifiNotTaken, NobodyDisables, CountedDown
  <2> QED BY <2>1, <2>2
<1>6. CASE Decrement
  <2>1. WifiTypeOK'
    BY <1>6 DEF WifiTypeOK, Decrement
  <2>2. WifiNotTaken' /\ NobodyDisables' /\ CountedDown'
    BY <1>6, NumScansAssumption DEF Decrement, WifiTypeOK, WifiNotTaken, NobodyDisables, CountedDown
  <2> QED BY <2>1, <2>2
<1>7. CASE ScanAgain
  <2>1. WifiTypeOK'
    BY <1>7 DEF WifiTypeOK, ScanAgain, StartScan
  <2>2. WifiNotTaken' /\ NobodyDisables' /\ CountedDown'
    BY <1>7 DEF ScanAgain, StartScan, WifiNotTaken, NobodyDisables, CountedDown
  <2> QED BY <2>1, <2>2
<1> QED
  BY <1>1, <1>2, <1>3, <1>4, <1>5, <1>6, <1>7 DEF Receiver

\* Welcome's task disables Wifi only if it found it off.
LEMMA WelcomeInv ==
    ASSUME WifiInv, OpenWelcome \/ UpdateInterface
    PROVE  WifiInv'
<1> USE DEF WifiInv, welcomeRest, timerVars, flagVars, receiverVars
<1>1. CASE OpenWelcome
  <2>1. WifiTypeOK'
    BY <1>1, BoundsAssumption DEF WifiTypeOK, OpenWelcome, Enable, WifiStates
  <2>2. WifiNotTaken' /\ NobodyDisables' /\ CountedDown'
    BY <1>1 DEF OpenWelcome, Enable, WifiNotTaken, NobodyDisables, CountedDown
  <2> QED BY <2>1, <2>2
<1>2. CASE SeeWifi \/ ListNetworks
  <2>1. WifiTypeOK'
    BY <1>2 DEF WifiTypeOK, SeeWifi, ListNetworks
  <2>2. WifiNotTaken' /\ NobodyDisables' /\ CountedDown'
    BY <1>2 DEF SeeWifi, ListNetworks, WifiNotTaken, NobodyDisables, CountedDown
  <2> QED BY <2>1, <2>2
<1>3. CASE RestoreWifi
  <2>1. WifiTypeOK'
    BY <1>3 DEF WifiTypeOK, RestoreWifi, Disable, WifiStates
  <2>2. WifiNotTaken' /\ NobodyDisables' /\ CountedDown'
    BY <1>3 DEF RestoreWifi, Disable, WifiNotTaken, NobodyDisables, CountedDown
  <2> QED BY <2>1, <2>2
<1> QED
  BY <1>1, <1>2, <1>3 DEF UpdateInterface

LEMMA StutterInv ==
    ASSUME WifiInv, UNCHANGED wifiVars
    PROVE  WifiInv'
<1> USE DEF WifiInv, wifiVars, timerVars, flagVars, receiverVars, welcomeVars, airVars
<1>1. WifiTypeOK'
  BY DEF WifiTypeOK
<1>2. WifiNotTaken' /\ NobodyDisables' /\ CountedDown'
  BY DEF WifiNotTaken, NobodyDisables, CountedDown
<1> QED BY <1>1, <1>2

\* Every behaviour, with every interleaving of the three threads.
THEOREM WifiInvariance == WifiSpec => []WifiInv
<1>1. WifiInv /\ [WifiNext]_wifiVars => WifiInv'
  BY AirInv, TimerInv, ReceiverInv, WelcomeInv, StutterInv DEF WifiNext
<1> QED
  BY <1>1, WifiInitInv, PTL DEF WifiSpec

\* The variables keep their types; mScansLeft stays within -1..NUM_SCANS
\* although the main and the timer thread write it (LocationMonitor.java:60-64).
THEOREM WifiTypeCorrect == WifiSpec => []WifiTypeOK
<1>1. WifiInv => WifiTypeOK
  BY DEF WifiInv
<1> QED
  BY <1>1, WifiInvariance, PTL

\* No interleaving switches off a Wifi the user had on
\* (LocationMonitor.java:115-119, Welcome.java:108-111).
THEOREM WifiStaysOn == WifiSpec => []WifiNotTaken
<1>1. WifiInv => WifiNotTaken
  BY DEF WifiInv
<1> QED
  BY <1>1, WifiInvariance, PTL

\* Until the timer runs a second time and as long as Welcome is not opened, a
\* Wifi that is not off belongs to the one round, which still owes a disabling:
\* before the timer enables it nothing is on its way, and once it has counted
\* the scans the count can only reach its end in a receiver that disables.
Round ==
    (~userWifi /\ opens = 0 /\ ticks <= 1) =>
        /\ welcome = "closed"
        /\ ticks = 0 => timer = "waiting"
        /\ (ticks = 0 \/ timer \in {"triggered", "flagged"}) =>
              wifi = "off" /\ ~scanning /\ results = 0 /\ receiver = "idle"
        /\ timer = "triggered" => disableArg
        /\ timer = "flagged" => mDisableWifiAS
        /\ wifi = "enabling" =>
              timer = "spinning" /\ ~scanning /\ results = 0 /\ receiver = "idle"
        /\ wifi # "off" =>
              mDisableWifiAS /\ receiver \in {"idle", "decrementing", "again", "finished"}
        /\ wifi = "on" /\ receiver = "again" => mScansLeft > 0
        /\ (wifi = "on" /\ receiver = "idle" /\ timer \in {"counted", "waiting", "cancelled"}) =>
              mScansLeft > 0

LEMMA RoundAir ==
    ASSUME WifiInv, Round, WifiUp \/ ScanDone \/ ForeignScan \/ LearnHome
    PROVE  Round'
<1> USE DEF WifiInv, Round, timerVars, flagVars, receiverVars, welcomeVars, airVars
<1>1. CASE WifiUp
  BY <1>1 DEF WifiUp
<1>2. CASE ScanDone
  BY <1>2 DEF ScanDone, WifiTypeOK, WifiStates
<1>3. CASE ForeignScan
  BY <1>3 DEF ForeignScan
<1>4. CASE LearnHome
  BY <1>4 DEF LearnHome
<1> QED BY <1>1, <1>2, <1>3, <1>4

\* The one run of the timer is the first: a second one leaves the round.
LEMMA RoundTimer ==
    ASSUME WifiInv, Round, Tick \/ TriggerScan
    PROVE  Round'
<1> USE DEF WifiInv, Round, timerRest, flagVars, receiverVars, welcomeVars
<1>1. CASE Tick
  <2>1. ticks' = ticks + 1 /\ ticks \in Nat
    BY <1>1, BoundsAssumption DEF Tick, WifiTypeOK
  <2>2. ticks' <= 1 => ticks = 0
    BY <2>1
  <2>3. SUFFICES ASSUME ~userWifi, opens = 0, ticks = 0 PROVE Round'
    BY <1>1, <2>2 DEF Tick
  <2>4. /\ wifi = "off" /\ ~scanning /\ results = 0 /\ receiver = "idle"
        /\ welcome = "closed"
    BY <2>3
  <2>5. UNCHANGED <<wifi, scanning, results, receiver, welcome>>
    BY <1>1 DEF Tick
  <2>6. CASE homeKnown
    <3>1. timer' = "cancelled"
      BY <1>1, <2>6 DEF Tick
    <3> QED BY <2>1, <2>3, <2>4, <2>5, <3>1
  <2>7. CASE ~homeKnown
    <3>1. timer' = "triggered" /\ disableArg'
      BY <1>1, <2>4, <2>7 DEF Tick
    <3> QED BY <2>1, <2>3, <2>4, <2>5, <3>1
  <2> QED BY <2>6, <2>7
<1>2. CASE SetDisable
  BY <1>2 DEF SetDisable
<1>3. CASE EnableWifi
  BY <1>3 DEF EnableWifi, Enable
<1>4. CASE SeeEnabled
  BY <1>4 DEF SeeEnabled
<1>5. CASE SetScansLeft
  BY <1>5, NumScansAssumption DEF SetScansLeft
<1>6. CASE FirstScan
  BY <1>6 DEF FirstScan, StartScan
<1> QED
  BY <1>1, <1>2, <1>3, <1>4, <1>5, <1>6 DEF TriggerScan

\* The receiver that ends the count disables Wifi before it is idle again.
LEMMA RoundReceiver ==
    ASSUME WifiInv, Round, Receiver
    PROVE  Round'
<1> USE DEF WifiInv, Round, receiverRest, timerVars, flagVars, receiverVars, welcomeVars
<1>1. CASE NoResults
  BY <1>1 DEF NoResults
<1>2. CASE ScanResults
  BY <1>2 DEF ScanResults, StartScan, WifiTypeOK, WifiStates
<1>3. CASE DisableAfterScans
  BY <1>3 DEF DisableAfterScans, Disable, WifiTypeOK, WifiStates
<1>4. CASE ResetDisable
  BY <1>4 DEF ResetDisable
<1>5. CASE ResetScansLeft
  BY <1>5 DEF ResetScansLeft
<1>6. CASE Decrement
  BY <1>6 DEF Decrement, WifiTypeOK, WifiStates
<1>7. CASE ScanAgain
  BY <1>7 DEF ScanAgain, StartScan, WifiTypeOK, WifiStates
<1> QED
  BY <1>1, <1>2, <1>3, <1>4, <1>5, <1>6, <1>7 DEF Receiver

\* With Welcome closed only its opening is possible, which leaves the round.
LEMMA RoundWelcome ==
    ASSUME WifiInv, Round, OpenWelcome \/ UpdateInterface
    PROVE  Round'
<1> USE DEF WifiInv, Round, welcomeRest, timerVars, flagVars, receiverVars
<1>1. CASE OpenWelcome
  <2>1. opens' = opens + 1 /\ opens \in Nat
    BY <1>1, BoundsAssumption DEF OpenWelcome, WifiTypeOK
  <2>2. opens' # 0
    BY <2>1
  <2> QED BY <2>2
<1>2. CASE UpdateInterface
  <2>1. welcome # "closed" /\ UNCHANGED <<userWifi, opens, ticks>>
    BY <1>2 DEF UpdateInterface, SeeWifi, ListNetworks, RestoreWifi
  <2> QED BY <2>1
<1> QED BY <1>1, <1>2

\* The promise of triggerScan's comment (LocationMonitor.java:188-189): when the
\* one round is over, whatever other programs scanned meanwhile and in whatever
\* order the broadcasts met the timer thread, a Wifi it found off is off again.
THEOREM WifiGoesBack == WifiSpec => []WifiGivenBack
<1>1. WifiInit => Round
  BY DEF WifiInit, Round
<1>2. WifiInv /\ Round /\ [WifiNext]_wifiVars => Round'
  <2>1. ASSUME Round, UNCHANGED wifiVars PROVE Round'
    BY <2>1 DEF Round, wifiVars, timerVars, flagVars, receiverVars, welcomeVars, airVars
  <2> QED
    BY <2>1, RoundAir, RoundTimer, RoundReceiver, RoundWelcome DEF WifiNext
<1>3. WifiInv /\ Round => WifiGivenBack
  BY DEF WifiInv, WifiTypeOK, WifiStates, Round, WifiGivenBack, Quiet
<1> QED
  BY <1>1, <1>2, <1>3, WifiInvariance, PTL DEF WifiSpec

=============================================================================
