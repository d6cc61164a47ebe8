------------------------------ MODULE MCFat32 ------------------------------
(***************************************************************************)
(* Two volumes for Fat32: one with room for two boots' worth of growth and *)
(* a hint, and one that runs out inside run_multi_cluster_grow_proof and   *)
(* does not maintain the hint.                                             *)
(***************************************************************************)
EXTENDS Fat32

MCVolumes ==
    {[free |-> 14 .. CLUSTERS, free_count |-> CLUSTERS - 13],
     [free |-> {14, 15}, free_count |-> FSINFO_UNKNOWN]}
=============================================================================
