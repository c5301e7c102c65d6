--------------------------------- MODULE MCSdi ---------------------------------
(* Instances of SdiTransmissions for TLC. *)
EXTENDS SdiTransmissions, TLC

\* Senders, syncs and uploads of a kind are interchangeable (safety runs only).
Interchangeable == Permutations(Senders) \cup Permutations(Syncs)
================================================================================
