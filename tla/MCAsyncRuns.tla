----------------------------- MODULE MCAsyncRuns -----------------------------
(* Instances of AsyncRuns for TLC. *)
EXTENDS AsyncRuns, TLC

Symmetry == Permutations(Runs) \cup Permutations(Clients) \cup Permutations(Workers)
=============================================================================
