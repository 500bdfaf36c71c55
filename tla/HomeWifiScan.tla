---------------------------- MODULE HomeWifiScan ----------------------------
(***************************************************************************)
(* The phone's own Wifi, which two parts of the program switch on when     *)
(* they find it off and switch off again when they are done:               *)
(*   - LocationMonitor.  A timer thread starts a round of NUM_SCANS scans  *)
(*     while the place of the home is unknown; the main thread receives    *)
(*     each SCAN_RESULTS broadcast and asks for the next scan.             *)
(*   - Welcome.UpdateInterface, an AsyncTask, which needs Wifi to list the *)
(*     networks the user has been associated to.                           *)
(* Their fields and the Wifi state are shared without any lock, so the     *)
(* three threads interleave between any two accesses.  The user does not   *)
(* touch the switch himself; other programs may scan, too.                 *)
(*                                                                         *)
(* The general names carry a Wifi, since the proofs take this module       *)
(* together with HomePresence.                                             *)
(***************************************************************************)
EXTENDS Integers

CONSTANTS
    NUM_SCANS,  \* scans of a round, LocationMonitor.NUM_SCANS
    MaxTicks,   \* bound on the runs of the periodic timer
    MaxForeign, \* bound on the scans of other programs
    MaxOpens,   \* bound on the times Welcome is opened
    MaxResults  \* bound on the broadcasts under way

ASSUME NumScansAssumption == NUM_SCANS \in Nat \ {0}
ASSUME BoundsAssumption == /\ MaxTicks \in Nat /\ MaxForeign \in Nat
                           /\ MaxOpens \in Nat /\ MaxResults \in Nat

WifiStates == {"off", "enabling", "on"}

VARIABLES
    wifi,            \* the Wifi state
    userWifi,        \* whether the user had Wifi on, and so wants it on
    homeKnown,       \* mHomeLoc is not null
    mDisableWifiAS,  \* disable Wifi after the scans
    mScansLeft,      \* scans left in the round
    timer,           \* where the timer thread is
    disableArg,      \* the argument of its triggerScan
    receiver,        \* where the main thread is in the SCAN_RESULTS receiver
    decremented,     \* what it has made of mScansLeft
    welcome,         \* where Welcome's task is
    wifi_enabled,    \* its local: Wifi was on
    scanning,        \* a scan is under way
    results,         \* SCAN_RESULTS broadcasts not yet received
    ticks, foreign, opens

timerVars   == <<timer, disableArg, ticks>>
flagVars    == <<mDisableWifiAS, mScansLeft>>
receiverVars == <<receiver, decremented>>
welcomeVars == <<welcome, wifi_enabled, opens>>
airVars     == <<scanning, results, foreign>>
wifiVars == <<wifi, userWifi, homeKnown, timerVars, flagVars, receiverVars, welcomeVars, airVars>>

-----------------------------------------------------------------------------
(* The Wifi manager                                                        *)

\* setWifiEnabled(true): Wifi comes up later.
Enable == wifi' = IF wifi = "off" THEN "enabling" ELSE wifi

\* while (isWifiEnabled()) setWifiEnabled(false): a Wifi that is coming up does
\* not count as enabled and is left alone.  A scan ends with Wifi.
Disable ==
    /\ wifi' = IF wifi = "on" THEN "off" ELSE wifi
    /\ scanning' = (scanning /\ wifi # "on")

\* startScan does nothing while Wifi is off; a scan under way serves all.
StartScan == scanning' = (wifi = "on" \/ scanning)

WifiUp ==
    /\ wifi = "enabling"
    /\ wifi' = "on"
    /\ UNCHANGED <<userWifi, homeKnown, timerVars, flagVars, receiverVars, welcomeVars, airVars>>

ScanDone ==
    /\ scanning
    /\ results < MaxResults
    /\ scanning' = FALSE
    /\ results' = results + 1
    /\ UNCHANGED <<wifi, userWifi, homeKnown, timerVars, flagVars, receiverVars, welcomeVars, foreign>>

ForeignScan ==
    /\ wifi = "on" /\ ~scanning
    /\ foreign < MaxForeign
    /\ foreign' = foreign + 1
    /\ scanning' = TRUE
    /\ UNCHANGED <<wifi, userWifi, homeKnown, timerVars, flagVars, receiverVars, welcomeVars, results>>

-----------------------------------------------------------------------------
(* The timer thread: PeriodicUpdate.run and triggerScan                    *)

timerRest == <<userWifi, homeKnown, receiverVars, welcomeVars, results, foreign>>

\* Mutation: Wifi is always disabled after the scans.
TickAlwaysDisables ==
    /\ timer = "waiting" /\ ticks < MaxTicks
    /\ ticks' = ticks + 1
    /\ timer' = IF homeKnown THEN "cancelled" ELSE "triggered"
    /\ disableArg' = (~homeKnown)
    /\ UNCHANGED <<wifi, flagVars, scanning, timerRest>>

\* The home is known: cancel.  Otherwise evaluate the argument of triggerScan.
Tick ==
    /\ timer = "waiting" /\ ticks < MaxTicks
    /\ ticks' = ticks + 1
    /\ timer' = IF homeKnown THEN "cancelled" ELSE "triggered"
    /\ disableArg' = (~homeKnown /\ wifi # "on")
    /\ UNCHANGED <<wifi, flagVars, scanning, timerRest>>

SetDisable ==
    /\ timer = "triggered"
    /\ timer' = "flagged"
    /\ mDisableWifiAS' = disableArg
    /\ UNCHANGED <<wifi, disableArg, ticks, mScansLeft, scanning, timerRest>>

EnableWifi ==
    /\ timer = "flagged"
    /\ timer' = "spinning"
    /\ Enable
    /\ UNCHANGED <<disableArg, ticks, flagVars, scanning, timerRest>>

SeeEnabled ==
    /\ timer = "spinning"
    /\ wifi = "on"
    /\ timer' = "enabled"
    /\ UNCHANGED <<wifi, disableArg, ticks, flagVars, scanning, timerRest>>

SetScansLeft ==
    /\ timer = "enabled"
    /\ timer' = "counted"
    /\ mScansLeft' = NUM_SCANS
    /\ UNCHANGED <<wifi, disableArg, ticks, mDisableWifiAS, scanning, timerRest>>

FirstScan ==
    /\ timer = "counted"
    /\ timer' = "waiting"
    /\ StartScan
    /\ UNCHANGED <<wifi, disableArg, ticks, flagVars, timerRest>>

TriggerScan == SetDisable \/ EnableWifi \/ SeeEnabled \/ SetScansLeft \/ FirstScan

-----------------------------------------------------------------------------
(* The main thread: the receiver of SCAN_RESULTS                           *)

receiverRest == <<userWifi, homeKnown, timerVars, welcomeVars, foreign>>

\* getScanResults can return null only while Wifi is not on.
NoResults ==
    /\ receiver = "idle" /\ results > 0
    /\ wifi # "on"
    /\ results' = results - 1
    /\ UNCHANGED <<wifi, flagVars, receiverVars, scanning, receiverRest>>

\* --mScansLeft reads the field, writes it, and yields what it has written.
ScanResults ==
    /\ receiver = "idle" /\ results > 0
    /\ results' = results - 1
    /\ receiver' = "decrementing"
    /\ decremented' = mScansLeft - 1
    /\ UNCHANGED <<wifi, flagVars, scanning, receiverRest>>

Decrement ==
    /\ receiver = "decrementing"
    /\ receiver' = IF decremented > 0 THEN "again" ELSE "finished"
    /\ mScansLeft' = decremented
    /\ UNCHANGED <<wifi, decremented, mDisableWifiAS, scanning, results, receiverRest>>

\* Mutation: the receiver does not ask for the next scan.
ScanAgainStalls ==
    /\ receiver = "again"
    /\ receiver' = "idle"
    /\ UNCHANGED <<wifi, decremented, flagVars, scanning, results, receiverRest>>

ScanAgain ==
    /\ receiver = "again"
    /\ receiver' = "idle"
    /\ StartScan
    /\ UNCHANGED <<wifi, decremented, flagVars, results, receiverRest>>

\* Mutation: Wifi is disabled only after a scan too many.
DisableAfterScansLate ==
    /\ receiver = "finished"
    /\ IF mDisableWifiAS /\ mScansLeft < 0
       THEN Disable /\ receiver' = "disabled"
       ELSE receiver' = "reset" /\ UNCHANGED <<wifi, scanning>>
    /\ UNCHANGED <<decremented, flagVars, results, receiverRest>>

DisableAfterScans ==
    /\ receiver = "finished"
    /\ IF mDisableWifiAS
       THEN Disable /\ receiver' = "disabled"
       ELSE receiver' = "reset" /\ UNCHANGED <<wifi, scanning>>
    /\ UNCHANGED <<decremented, flagVars, results, receiverRest>>

ResetDisable ==
    /\ receiver = "disabled"
    /\ receiver' = "reset"
    /\ mDisableWifiAS' = FALSE
    /\ UNCHANGED <<wifi, decremented, mScansLeft, scanning, results, receiverRest>>

ResetScansLeft ==
    /\ receiver = "reset"
    /\ receiver' = "idle"
    /\ mScansLeft' = 0
    /\ UNCHANGED <<wifi, decremented, mDisableWifiAS, scanning, results, receiverRest>>

Receiver ==
    \/ NoResults \/ ScanResults \/ Decrement \/ ScanAgain
    \/ DisableAfterScans \/ ResetDisable \/ ResetScansLeft

\* A location fix tells where the home is (HomePresence).
LearnHome ==
    /\ ~homeKnown
    /\ homeKnown' = TRUE
    /\ UNCHANGED <<wifi, userWifi, timerVars, flagVars, receiverVars, welcomeVars, airVars>>

-----------------------------------------------------------------------------
(* Welcome.UpdateInterface.doInBackground                                  *)

welcomeRest == <<userWifi, homeKnown, timerVars, flagVars, receiverVars, results, foreign>>

OpenWelcome ==
    /\ welcome = "closed" /\ opens < MaxOpens
    /\ opens' = opens + 1
    /\ welcome' = "spinning"
    /\ wifi_enabled' = (wifi = "on")
    /\ Enable
    /\ UNCHANGED <<scanning, welcomeRest>>

SeeWifi ==
    /\ welcome = "spinning"
    /\ wifi = "on"
    /\ welcome' = "listing"
    /\ UNCHANGED <<wifi, wifi_enabled, opens, scanning, welcomeRest>>

ListNetworks ==
    /\ welcome = "listing"
    /\ welcome' = "listed"
    /\ UNCHANGED <<wifi, wifi_enabled, opens, scanning, welcomeRest>>

RestoreWifi ==
    /\ welcome = "listed"
    /\ welcome' = "closed"
    /\ IF wifi_enabled THEN UNCHANGED <<wifi, scanning>> ELSE Disable
    /\ UNCHANGED <<wifi_enabled, opens, welcomeRest>>

UpdateInterface == SeeWifi \/ ListNetworks \/ RestoreWifi

-----------------------------------------------------------------------------
WifiInit ==
    /\ userWifi \in BOOLEAN
    /\ wifi = IF userWifi THEN "on" ELSE "off"
    /\ homeKnown = FALSE
    /\ mDisableWifiAS = FALSE
    /\ mScansLeft = 0
    /\ timer = "waiting"
    /\ disableArg = FALSE
    /\ receiver = "idle"
    /\ decremented = 0
    /\ welcome = "closed"
    /\ wifi_enabled = FALSE
    /\ scanning = FALSE
    /\ results = 0
    /\ ticks = 0 /\ foreign = 0 /\ opens = 0

WifiNext ==
    \/ WifiUp \/ ScanDone \/ ForeignScan
    \/ Tick \/ TriggerScan
    \/ Receiver \/ LearnHome
    \/ OpenWelcome \/ UpdateInterface

WifiSpec == WifiInit /\ [][WifiNext]_wifiVars

\* Wifi comes up, scans end, and every thread goes on.
WifiFairSpec ==
    /\ WifiSpec
    /\ WF_wifiVars(WifiUp) /\ WF_wifiVars(ScanDone)
    /\ WF_wifiVars(TriggerScan) /\ WF_wifiVars(Receiver) /\ WF_wifiVars(UpdateInterface)

-----------------------------------------------------------------------------
(* Properties                                                              *)

WifiTypeOK ==
    /\ wifi \in WifiStates
    /\ userWifi \in BOOLEAN
    /\ homeKnown \in BOOLEAN
    /\ mDisableWifiAS \in BOOLEAN
    /\ mScansLeft \in -1..NUM_SCANS
    /\ timer \in {"waiting", "triggered", "flagged", "spinning", "enabled", "counted", "cancelled"}
    /\ disableArg \in BOOLEAN
    /\ receiver \in {"idle", "decrementing", "again", "finished", "disabled", "reset"}
    /\ decremented \in -1..NUM_SCANS
    /\ welcome \in {"closed", "spinning", "listing", "listed"}
    /\ wifi_enabled \in BOOLEAN
    /\ scanning \in BOOLEAN
    /\ results \in 0..MaxResults
    /\ ticks \in 0..MaxTicks
    /\ foreign \in 0..MaxForeign
    /\ opens \in 0..MaxOpens

\* However the threads interleave, a Wifi that the user had on is never switched
\* off (LocationMonitor.java:115-119, Welcome.java:108-111).
WifiNotTaken == userWifi => wifi = "on"

\* With Wifi on, a round of scans comes to its end, whatever other programs scan
\* and however often the timer starts it anew (LocationMonitor.java:110-121).
RoundsEnd == (userWifi /\ mScansLeft > 0) ~> (mScansLeft <= 0)

\* Nobody is using Wifi and nothing is on its way.
Quiet ==
    /\ timer \in {"waiting", "cancelled"} /\ receiver = "idle" /\ welcome = "closed"
    /\ mScansLeft <= 0 /\ ~scanning /\ results = 0

\* LocationMonitor.java:188-189: "If the wifi is disabled, it enables it for the
\* duration of a single scan and then disables it again."  So does one run of the
\* timer, whatever other programs scan, as long as Welcome leaves Wifi alone and
\* no second run sets mDisableWifiAS anew while the round goes on.
WifiGivenBack == (Quiet /\ ~userWifi /\ opens = 0 /\ ticks <= 1) => wifi = "off"

\* LocationMonitor.java:189-190: it "likely only takes 200ms total from the time
\* to enable, scan, and get a result": triggerScan gets past its waiting loop.
TriggerReturns == (timer = "spinning") ~> (timer # "spinning")

=============================================================================
