------------------------- MODULE MCConnectivityGraph -------------------------
(***************************************************************************)
(* ConnectivityGraph over every scan of three or four interfaces with four *)
(* addresses, two of them adjacent, with or without a common name.         *)
(***************************************************************************)
EXTENDS ConnectivityGraph

=============================================================================
