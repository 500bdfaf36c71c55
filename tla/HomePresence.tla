---------------------------- MODULE HomePresence ----------------------------
(***************************************************************************)
(* Whether the phone is at home: LocationMonitor, which learns where the   *)
(* home is and judges every location fix and every list of Wifi networks,  *)
(* and MotionDetector, which reads the sensors while the phone is at home. *)
(* The two talk by LOCATION_UPDATE broadcasts.  What LocationMonitor       *)
(* stores in the UserSettings outlives the process.                        *)
(*                                                                         *)
(* A location is a place and an accuracy; two places are either the same   *)
(* or farther apart than LOCATION_TOLERANCE.  Which scans deliver the      *)
(* lists of networks is HomeWifiScan's subject.                            *)
(***************************************************************************)
EXTENDS Integers, Sequences

CONSTANTS
    Places,     \* where a fix can be
    Accuracies, \* how uncertain it can be, in meters
    MaxUpdates, \* bound on the broadcasts under way
    None        \* a null reference

ASSUME AccuraciesAssumption == Accuracies \subseteq Nat
ASSUME MaxUpdatesAssumption == MaxUpdates \in Nat
ASSUME NoneAssumption == None \notin [place : Places, accuracy : Accuracies] \cup {"home", "other"}

Locations == [place : Places, accuracy : Accuracies]
HomeStates == {"NOT_HOME", "HOME"}
StateChanges == {"LEAVING_HOME", "ENTERING_HOME"}
Intervals == {"LUI_BEFORE_HOME_SET", "LOCATION_UPDATE_INTERVAL"}
APs == {"home", "other"}

VARIABLES
    homeState,      \* LocationMonitor._homeState
    mNextLocIsHome, \* a scan has seen the home network, its place unknown
    mHomeLoc,       \* where LocationMonitor takes the home to be
    interval,       \* of the location updates asked for
    homeLocation,   \* setting: the home location
    homeWifiMAC,    \* setting: the home access point
    homeSSID,       \* setting: whether the user has named his network
    phoneIsInHome,  \* setting: the last verdict
    updates,        \* LOCATION_UPDATE broadcasts under way
    sensors,        \* MotionDetector listens to the sensors
    associated      \* the phone is associated with the home's access point

monitorVars  == <<homeState, mNextLocIsHome, mHomeLoc, interval>>
settingsVars == <<homeLocation, homeWifiMAC, homeSSID, phoneIsInHome>>
vars == <<monitorVars, settingsVars, updates, sensors, associated>>

-----------------------------------------------------------------------------
Near(l, k) == l.place = k.place

\* The body that asked the Wifi manager is commented out.
AssociatedToHomeAP == TRUE

\* getAssociatedMAC: what the phone really is associated with.
AssociatedMACs == IF associated THEN {"home"} ELSE {"other", None}

IntervalFor(location) == IF location = None THEN "LUI_BEFORE_HOME_SET"
                                            ELSE "LOCATION_UPDATE_INTERVAL"

\* Mutation: home() announces nothing.
EnteringSilent == <<>>

\* What home() announces when it is called in this state.
Entering == IF homeState = "NOT_HOME" THEN <<"ENTERING_HOME">> ELSE <<>>

\* home(): the only verdict of a handler.
Home ==
    /\ updates' = updates \o Entering
    /\ homeState' = "HOME"
    /\ phoneIsInHome' = TRUE

-----------------------------------------------------------------------------
(* A location fix                                                          *)

\* The accuracy is too bad; only the access point is noted.
BadFix(l, mac) ==
    /\ l.accuracy > 100
    /\ homeWifiMAC' = IF AssociatedToHomeAP THEN mac ELSE homeWifiMAC
    /\ UNCHANGED <<monitorVars, homeLocation, homeSSID, phoneIsInHome, updates>>

\* The location becomes the home's.
Learns == AssociatedToHomeAP /\ (mNextLocIsHome \/ mHomeLoc = None)

\* Mutation: any location replaces the stored one.
ImprovesAlways(l) == AssociatedToHomeAP /\ mHomeLoc # None

\* The location replaces the stored one.
Improves(l) == AssociatedToHomeAP /\ mHomeLoc # None /\ l.accuracy <= mHomeLoc.accuracy

\* What the handler calls, in this order: home() if associated or near the
\* home, and at the end notHome() if far from it.
Verdict(homeLoc, l) ==
    LET near == homeLoc # None /\ Near(homeLoc, l)
        far  == homeLoc # None /\ ~Near(homeLoc, l)
        home == AssociatedToHomeAP \/ near
    IN  /\ updates' = updates \o (IF home THEN Entering ELSE <<>>)
                              \o (IF far /\ (home \/ homeState = "HOME")
                                  THEN <<"LEAVING_HOME">> ELSE <<>>)
        /\ homeState' = IF far THEN "NOT_HOME" ELSE IF home THEN "HOME" ELSE homeState
        /\ phoneIsInHome' = IF far THEN FALSE ELSE home \/ phoneIsInHome

GoodFix(l, mac) ==
    /\ l.accuracy <= 100
    /\ homeWifiMAC' = IF AssociatedToHomeAP THEN mac ELSE homeWifiMAC
    /\ mHomeLoc' = IF Learns THEN l ELSE mHomeLoc
    /\ homeLocation' = IF Learns \/ Improves(l) THEN l ELSE homeLocation
    /\ mNextLocIsHome' = (mNextLocIsHome /\ ~AssociatedToHomeAP)
    /\ interval' = IF Learns THEN "LOCATION_UPDATE_INTERVAL" ELSE interval
    /\ Verdict(mHomeLoc', l)
    /\ UNCHANGED homeSSID

\* LocationMonitor.onLocationChanged.
OnLocationChanged ==
    /\ Len(updates) + 2 <= MaxUpdates
    /\ \E l \in Locations, mac \in AssociatedMACs : BadFix(l, mac) \/ GoodFix(l, mac)
    /\ UNCHANGED <<sensors, associated>>

-----------------------------------------------------------------------------
(* A list of Wifi networks, the broadcasts and the surroundings            *)

\* The receiver of SCAN_RESULTS finds the home network's name; ap is the first
\* access point that has it.
HomeNetworkSeen(ap) ==
    /\ homeSSID
    /\ Len(updates) < MaxUpdates
    /\ IF mHomeLoc = None
       THEN /\ mNextLocIsHome' = TRUE
            /\ interval' = "LUI_BEFORE_HOME_SET"
       ELSE UNCHANGED <<mNextLocIsHome, interval>>
    /\ IF homeWifiMAC = ap THEN Home ELSE UNCHANGED <<updates, homeState, phoneIsInHome>>
    /\ UNCHANGED <<mHomeLoc, homeLocation, homeWifiMAC, homeSSID, sensors, associated>>

\* Mutation: sensors once registered stay registered.
LocationUpdateKeeps ==
    /\ updates # <<>>
    /\ updates' = Tail(updates)
    /\ sensors' = (sensors \/ Head(updates) = "ENTERING_HOME")
    /\ UNCHANGED <<monitorVars, settingsVars, associated>>

\* MotionDetector's receiver of LOCATION_UPDATE.
LocationUpdate ==
    /\ updates # <<>>
    /\ updates' = Tail(updates)
    /\ sensors' = (Head(updates) = "ENTERING_HOME")
    /\ UNCHANGED <<monitorVars, settingsVars, associated>>

\* Welcome.clickedFinished: the user names his network.
SetHomeSSID ==
    /\ ~homeSSID
    /\ homeSSID' = TRUE
    /\ UNCHANGED <<monitorVars, homeLocation, homeWifiMAC, phoneIsInHome, updates, sensors, associated>>

\* The phone leaves or finds the home's access point.
Roam ==
    /\ associated' = ~associated
    /\ UNCHANGED <<monitorVars, settingsVars, updates, sensors>>

\* Mutation: the new process does not read the home location.
RestartBlank ==
    /\ homeState' = "NOT_HOME"
    /\ mNextLocIsHome' = FALSE
    /\ mHomeLoc' = None
    /\ interval' = IntervalFor(None)
    /\ updates' = <<>>
    /\ sensors' = FALSE
    /\ UNCHANGED <<settingsVars, associated>>

\* The process dies and the system starts the service again.
Restart ==
    /\ homeState' = "NOT_HOME"
    /\ mNextLocIsHome' = FALSE
    /\ mHomeLoc' = homeLocation
    /\ interval' = IntervalFor(homeLocation)
    /\ updates' = <<>>
    /\ sensors' = FALSE
    /\ UNCHANGED <<settingsVars, associated>>

Init ==
    /\ homeState = "NOT_HOME"
    /\ mNextLocIsHome = FALSE
    /\ mHomeLoc = None
    /\ interval = IntervalFor(None)
    /\ homeLocation = None
    /\ homeWifiMAC = None
    /\ homeSSID = FALSE
    /\ phoneIsInHome = FALSE
    /\ updates = <<>>
    /\ sensors = FALSE
    /\ associated \in BOOLEAN

Next ==
    \/ OnLocationChanged
    \/ \E ap \in APs : HomeNetworkSeen(ap)
    \/ LocationUpdate
    \/ SetHomeSSID
    \/ Roam
    \/ Restart

Spec == Init /\ [][Next]_vars

\* The looper delivers the broadcasts.
FairSpec == Spec /\ WF_vars(LocationUpdate)

-----------------------------------------------------------------------------
(* Properties                                                              *)

TypeOK ==
    /\ homeState \in HomeStates
    /\ mNextLocIsHome \in BOOLEAN
    /\ mHomeLoc \in Locations \cup {None}
    /\ interval \in Intervals
    /\ homeLocation \in Locations \cup {None}
    /\ homeWifiMAC \in APs \cup {None}
    /\ homeSSID \in BOOLEAN
    /\ phoneIsInHome \in BOOLEAN
    /\ updates \in Seq(StateChanges)
    /\ sensors \in BOOLEAN
    /\ associated \in BOOLEAN

\* The sensors are what the last broadcast said, or will be once it is received,
\* and that is what LocationMonitor believes: the battery is not spent on
\* sensors away from home, and no movement at home is missed
\* (MotionDetector.java:54-69, LocationMonitor.java:267-295).
SensorsFollowHome ==
    (homeState = "HOME") = IF updates = <<>> THEN sensors
                           ELSE updates[Len(updates)] = "ENTERING_HOME"

\* Memory and settings agree on whether the home is known; only while it is not
\* is the next fix awaited as the home's, and only then are the locations asked
\* for fast (LocationMonitor.java:128-132, 157-161, 232-253).
HomeKnownEverywhere ==
    /\ (mHomeLoc = None) = (homeLocation = None)
    /\ mNextLocIsHome => mHomeLoc = None
    /\ interval = IntervalFor(mHomeLoc)

\* A phone that has come home has its movement tracked, unless it leaves again
\* (MotionDetector.java:60-62).
MovementTracked == (homeState = "HOME") ~> (sensors \/ homeState = "NOT_HOME")

\* The stored location is never less accurate than the one in memory, with which
\* a fix is compared before it replaces the stored one, so that a restart, which
\* reads it back, does not make the comparison weaker (LocationMonitor.java:87,
\* 245-253).
StoredAsAccurate ==
    mHomeLoc # None => homeLocation # None /\ homeLocation.accuracy <= mHomeLoc.accuracy

=============================================================================
