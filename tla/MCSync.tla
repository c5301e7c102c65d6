--------------------------------- MODULE MCSync ---------------------------------
(* Instances of ReceiptsSync for TLC. *)
EXTENDS ReceiptsSync, TLC

\* Syncs are interchangeable (safety runs only).
Interchangeable == Permutations(Syncs)
================================================================================
