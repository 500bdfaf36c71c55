--------------------------- MODULE MCInterfaceStore ---------------------------
(***************************************************************************)
(* InterfaceStore with two addresses, one snapshot thread and one of a     *)
(* screen beside the main thread: an address the ARP scan and the Wifi     *)
(* scan both find, and one LANs find that is of a radio too.               *)
(***************************************************************************)
EXTENDS InterfaceStore

CONSTANTS a, b, s, u

Iface(m, class, name) == [MAC |-> m, class |-> class, name |-> name]
FewSeen == {Iface(a, "WiredInterface", "null"), Iface(a, "WirelessInterface", "name"),
            Iface(b, "Interface", "name"), Iface(b, "WirelessInterface", "null")}
TwoMACs == {a, b}
=============================================================================
