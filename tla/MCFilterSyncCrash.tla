-------------------------- MODULE MCFilterSyncCrash --------------------------
(* Instances of FilterSyncCrash on the trees of MCFilterSync. *)
EXTENDS MCFilterSync, FilterSyncCrash
=============================================================================
