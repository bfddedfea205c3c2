------------------------------ MODULE MCFat32 ------------------------------
(* A volume of two files for TLC: one of a chain of two clusters, and one whose   *)
(* chain leads out of the volume.                                                 *)
EXTENDS Fat32, TLC

MCCacheSize == [fat |-> 1, data |-> 2]
MCFatTable == (2 :> 3) @@ (3 :> OUTSIDE) @@ (4 :> EOC)
=============================================================================
