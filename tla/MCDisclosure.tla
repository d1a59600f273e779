----------------------------- MODULE MCDisclosure -----------------------------
(* Disclosure on a small instance: one shop that buys vouchers and the wallet's *)
(* own audience.                                                               *)
EXTENDS Disclosure, TLC

CONSTANTS phone, stolen, shop, self, age, voucher1

\* A document that stays valid; the others are not authentic, or in a chip that
\* cannot sign.
MCDocuments == {[genuine |-> TRUE, chip |-> "signing", expiry |-> MaxTime],
                [genuine |-> FALSE, chip |-> "plain", expiry |-> MaxTime],
                [genuine |-> TRUE, chip |-> "cloned", expiry |-> MaxTime]}
\* A document that expires before an IVR of it does.
MCExpiringDocuments ==
    MCDocuments \cup {[genuine |-> TRUE, chip |-> "unsupported", expiry |-> 0]}
MCPaidBy == [v \in {voucher1} |-> shop]
MCCovers == [v \in {voucher1} |-> {HolderPresent}]
\* Until one is bound to an IVR, the keys are alike.
Symmetry == Permutations(Keys)
=============================================================================
