--------------------------- MODULE MCPartitions ----------------------------
(* Small instances of Partitions for TLC.                                    *)
EXTENDS Partitions, TLC

\* January to July.
MCMonthLength == 0 :> 31 @@ 1 :> 28 @@ 2 :> 31 @@ 3 :> 30 @@ 4 :> 31 @@ 5 :> 30 @@ 6 :> 31
=============================================================================
