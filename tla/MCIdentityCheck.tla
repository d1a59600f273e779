-------------------------- MODULE MCIdentityCheck --------------------------
(***************************************************************************)
(* Two wallets, a wallet provider that exchanges its key under one kid, a  *)
(* passport with an EC chip key, one with an RSA chip key and a forgery,   *)
(* one challenge of the enclave's and one of a reader's, and an image with *)
(* or without the liveness model.                                          *)
(***************************************************************************)
EXTENDS IdentityCheck, TLC

CONSTANTS h1, h2, p1, p2, n1, o1

McKeySets == {{[kid |-> "kid1", key |-> p1]}, {[kid |-> "kid1", key |-> p2]}}
McChips == {[id |-> 1, genuine |-> TRUE, aa |-> "ec", expiry |-> 2],
            [id |-> 2, genuine |-> TRUE, aa |-> "unsupported", expiry |-> 0],
            [id |-> 3, genuine |-> FALSE, aa |-> "none", expiry |-> 2]}
McImages == {ModelFiles, ModelFiles \ {"minifasnet.onnx"}}
Symmetry == Permutations(Holders)
=============================================================================
