------------------------- MODULE MCOrphanReconcile -------------------------
EXTENDS OrphanReconcile, TLC

\* Snapshots that miss one and two of three rows.
CONSTANTS k1, k2, k3, c1, c2
MCKeys == {k1, k2, k3}
MCSources == {{k1}, {k1, k2}}
MCSymmetry == Permutations(Callers)
=============================================================================
