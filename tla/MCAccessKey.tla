---------------------------- MODULE MCAccessKey ----------------------------
(***************************************************************************)
(* Every number of four of three characters that are misread, so that two  *)
(* positions have the same weight, and two longer-alphabet numbers; two    *)
(* birth dates, one with its day unknown.                                  *)
(***************************************************************************)
EXTENDS AccessKey

McPages == {[number |-> n, birth |-> b, expiry |-> e] :
               n \in [1 .. 4 -> {"1", "O", "6"}]
                     \cup {<<"B", "5", "8", "Z">>, <<"7", "<", "G", "<">>},
               b \in {<<"1", "7">>, <<"6", "<">>}, e \in {<<"0", "4", "1">>}}
=============================================================================
