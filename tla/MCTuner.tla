------------------------------ MODULE MCTuner ------------------------------
(***************************************************************************)
(* Tuner on small instances.                                               *)
(***************************************************************************)
EXTENDS Tuner, TLC

\* The state is the same whichever sink, client or pipeline is which.
Symmetry == Permutations(Client) \union Permutations(Pipeline) \union Permutations(Sink)

=============================================================================
