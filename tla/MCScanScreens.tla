---------------------------- MODULE MCScanScreens ----------------------------
(***************************************************************************)
(* ScanScreens on a small instance: of the USB radios the one that shows   *)
(* two dialogs and asks the user for something.                            *)
(***************************************************************************)
EXTENDS ScanScreens

AskingRadio == {"ZigBee"}

=============================================================================
