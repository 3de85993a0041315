------------------------------- MODULE MCVFS -------------------------------
\* An instance of VFS for TLC.
EXTENDS VFS, TLC

CONSTANTS r1, r2, r3, n1, n2
MCSymmetry == Permutations(Request) \cup Permutations(Name)
=============================================================================
