------------------------------ MODULE MCWatch ------------------------------
(***************************************************************************)
(* Watch on small instances.                                               *)
(***************************************************************************)
EXTENDS Watch, TLC

\* Clients, goroutines and watches are interchangeable: only safety runs use it.
Symmetry ==
  Permutations(Client) \union Permutations(Goroutine) \union Permutations(Watcher)

=============================================================================
