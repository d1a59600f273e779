-------------------------- MODULE MCSigningKeyStore --------------------------
(* SigningKeyStore with processes that start side by side. *)
EXTENDS SigningKeyStore, TLC

\* Processes, and keys until they are generated, are alike.
Symmetry == Permutations(Procs) \cup Permutations(Keys)
=============================================================================
