---------------------------- MODULE MCZigBeeLink ----------------------------
(***************************************************************************)
(* ZigBeeLink on small instances.  The frame <<2, 7>> holds bytes that are *)
(* commands elsewhere and <<6>> one that would end the scan; 13 is the     *)
(* carriage return.                                                        *)
(***************************************************************************)
EXTENDS ZigBeeLink

TwoFrames == {<<6>>, <<2, 7>>}
OneBeacon == {<<2, 7>>}

=============================================================================
