--------------------------- MODULE MCHomeWifiScan ---------------------------
(***************************************************************************)
(* HomeWifiScan with rounds of two scans, the fewest that have a scan that *)
(* is followed by another and one that is not.                             *)
(***************************************************************************)
EXTENDS HomeWifiScan

=============================================================================
