--------------------------- MODULE MCSnapshotStore ---------------------------
(***************************************************************************)
(* SnapshotStore on small instances.  With three snapshots a key can be    *)
(* used again while others hold theirs; two of them may share a date.      *)
(* Both interfaces are in each of them; one of the two is known before.    *)
(***************************************************************************)
EXTENDS SnapshotStore, TLC

CONSTANTS s1, s2, s3, a, b

ThreeSnapshots == {s1, s2, s3}
TwoMACs == {a, b}
OneFind == {TwoMACs}
KnownOne == {b}
Symmetry == Permutations(Snapshots) \union Permutations(Dates)

=============================================================================
