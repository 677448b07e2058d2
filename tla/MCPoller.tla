------------------------------ MODULE MCPoller ------------------------------
(* Instances of Poller for TLC. *)
EXTENDS Poller, TLC

(* The members of each set are interchangeable. *)
Symmetry == Permutations(Loops) \cup Permutations(Requests)
            \cup Permutations(Recons) \cup Permutations(Clients)
=============================================================================
