------------------------------ MODULE MCDsFs ------------------------------
(* Instances of DsFs for TLC: the mount point, a directory or file below   *)
(* it, and one below that.                                                 *)
EXTENDS DsFs

CONSTANTS c1, c2, root, d, e, t1, t2
TwoClients == {c1, c2}
Chain == {root, d, e}
ChainParent == [p \in Chain |-> IF p = e THEN d ELSE root]
TwoTimes == {t1, t2}
AllModes == {"orderly", "shared", "failing"}
Symmetry == Permutations(Clients)
=============================================================================
