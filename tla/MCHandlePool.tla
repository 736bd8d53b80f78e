---------------------------- MODULE MCHandlePool ----------------------------
(* A small instance of the pool of handles.                                 *)
EXTENDS HandlePool, TLC

CONSTANTS Normal, Migrate, Compress, AutoTask

\* Three of the types: Migrate and Compress share the slot AutoTask.
MCTypes == {Normal, Migrate, Compress}
MCSlotOf == Normal :> Normal @@ Migrate :> AutoTask @@ Compress :> AutoTask
MCCategoryOf == [type \in MCTypes |-> type]

\* A user of a normal handle may step a migration; the callback of a step may use
\* the database.
MCNested == {<<Normal, Migrate>>, <<Normal, Compress>>, <<Migrate, Normal>>, <<Compress, Normal>>}

Symmetry == Permutations(Threads) \cup Permutations(Handles)
=============================================================================
