-------------------------- MODULE MCAnchorLifecycle --------------------------
(* AnchorLifecycle on a small instance. *)
EXTENDS AnchorLifecycle

CONSTANTS csca1, csca2, jwks1, jwks2

\* One to be in force and one to replace it tell "old" from "new".  They are alike,
\* but the runs check liveness too, so no symmetry is declared.
MCAnchorSets == {csca1, csca2}
MCJwksDocs == {jwks1, jwks2}
=============================================================================
