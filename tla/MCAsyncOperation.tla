-------------------------- MODULE MCAsyncOperation --------------------------
(***************************************************************************)
(* start() awaiting receive_request() awaiting receive_raw_message(), with *)
(* a pool of two workers.  The two inner bodies may suspend first, as those*)
(* of a user's coroutines may; start() is the void operation.              *)
(***************************************************************************)
EXTENDS AsyncOperation, TLC

MCVoidOps == {1}
MCYields == {2, 3}

Symmetry == Permutations(Workers)
=============================================================================
