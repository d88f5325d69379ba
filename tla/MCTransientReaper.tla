------------------------- MODULE MCTransientReaper -------------------------
(* Two clusters, one of them transient; a young-cluster window of two   *)
(* ticks and a clock of three, so that a cluster can be listed young and  *)
(* old, and be changed between the listing and its termination.          *)
EXTENDS TransientReaper

CONSTANTS k1, k2

MCClusters  == {k1, k2}
MCTransient == {k1}
=============================================================================
