--------------------------- MODULE MC_AFLCoverage ---------------------------
(* Instances of AFLCoverage for TLC.  Files, names and processes are model *)
(* values given in the .cfg files; the sets below are not expressible in a *)
(* .cfg.                                                                   *)
EXTENDS AFLCoverage

\* A segment left behind by earlier builds may hold any value.
MCAnyShm == 0..(2^IdBits - 1)
\* A freshly created segment is zero-filled by shmget.
MCFreshShm == {0}
\* inst_ratio: 100 with USE_TRADITIONAL_BRANCH and no AFL_INST_RATIO; an
\* indeterminate member otherwise, which compares like 0, 50 or >= 100.
MCRatios == {0, 50, 100}
=============================================================================
