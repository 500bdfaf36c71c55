--------------------------- MODULE MCHomePresence ---------------------------
(***************************************************************************)
(* HomePresence with two places, two good accuracies and a bad one.        *)
(***************************************************************************)
EXTENDS HomePresence

CONSTANTS here, there

TwoPlaces == {here, there}

=============================================================================
