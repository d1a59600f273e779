----------------------------- MODULE TrustChains -----------------------------
(***************************************************************************)
(* From the pinned root to a data group: a CSCA master list is taken in    *)
(* force if its signer chains to the pinned ICAO/UN root through the       *)
(* certificates the list brings along (master_list.py), and a document is  *)
(* authentic if its signer (DSC) chains to a CSCA of the list in force     *)
(* (passive_auth.py).  The recursive climb of _verify_chain_to_root is a   *)
(* step machine here; one call is handled at a time (main.py:621).         *)
(*                                                                         *)
(* A certificate is a record that says whose key really signed it, so a    *)
(* signature verifies under that key alone.  CMS and ASN.1 parsing are     *)
(* left out: "intact" is false of a list or document in which a parse, a   *)
(* digest or a data group is wrong.                                        *)
(***************************************************************************)
EXTENDS Naturals, Sequences, FiniteSets, Functions

CONSTANTS Certs,      \* [subject, issuer, key, signedBy, ski, aki, from, until] records
          Pinned,     \* the certificate of ICAO_ML_ROOT_SHA256
          Lists,      \* [certs, signer, by, content, intact] records
          Documents,  \* [dsc, by, signingTime, intact] records
          Unknown,    \* no signingTime attribute, no authority key identifier
          None,       \* no list, no document
          MaxDepth    \* the depth at which Python's recursion limit strikes

ASSUME ChainsAssumption ==
    /\ Pinned \in Certs /\ Pinned.subject = Pinned.issuer
    /\ \A l \in Lists : /\ l.certs \in Seq(Certs) /\ l.content \in Seq(Certs)
                        /\ l.signer \in Range(l.certs)
    /\ \A d \in Documents : d.dsc \in Certs
    /\ None \notin Lists \cup Documents
    /\ MaxDepth \in Nat \ {0}

VARIABLES inForce,   \* the master list whose certificates are the trust anchors
          list,      \* the list at hand, or the last one
          at,        \* the certificate whose issuer is looked for
          pos,       \* how far along list.certs
          depth,     \* how many calls of _verify_chain_to_root deep
          verdict,   \* what became of the list
          passed     \* the document that passed since the last list, and under which list

vars == <<inForce, list, at, pos, depth, verdict, passed>>

-----------------------------------------------------------------------------
(* POST /configure: master_list.verify_and_extract.                        *)

\* ca is the issuer cert names, and its key verifies cert's signature.
Issued(ca, cert) == ca.subject = cert.issuer /\ ca.key = cert.signedBy

SelfIssued(cert) == cert.subject = cert.issuer

candidate == list.certs[pos]
climbUnchanged == UNCHANGED <<inForce, list, passed>>

\* The list's signature is checked with the certificate that _signer_cert picks,
\* and the climb to the root starts from that certificate.
Submit ==
    /\ verdict # "climbing"
    /\ \E l \in Lists :
        /\ list' = l
        /\ at' = l.signer /\ pos' = 1 /\ depth' = 1
        /\ verdict' = IF l.intact /\ l.by = l.signer.key THEN "climbing" ELSE "rejected"
    /\ passed' = None
    /\ UNCHANGED inForce

\* Another name, or a signature that does not verify: on to the next certificate.
Skip ==
    /\ verdict = "climbing" /\ pos <= Len(list.certs)
    /\ ~Issued(candidate, at)
    /\ pos' = pos + 1
    /\ UNCHANGED <<at, depth, verdict>> /\ climbUnchanged

Exhausted ==
    /\ verdict = "climbing" /\ pos > Len(list.certs)
    /\ verdict' = "rejected"
    /\ UNCHANGED <<at, pos, depth>> /\ climbUnchanged

\* Bug form: any self-issued certificate is a root.
IsAnyRoot(cert) == SelfIssued(cert)

IsRoot(cert) == cert = Pinned

\* A self-issued issuer ends the climb, well only if it is the pinned root; the
\* list's certificates, unless there are none, become the trust anchors.
Root ==
    /\ verdict = "climbing" /\ pos <= Len(list.certs)
    /\ Issued(candidate, at) /\ SelfIssued(candidate)
    /\ \/ /\ IsRoot(candidate) /\ list.content # <<>>
          /\ verdict' = "accepted" /\ inForce' = list
       \/ /\ ~IsRoot(candidate) \/ list.content = <<>>
          /\ verdict' = "rejected" /\ UNCHANGED inForce
    /\ UNCHANGED <<list, at, pos, depth, passed>>

\* Bug form: a self-issued certificate is climbed from like any other.
ClimbPastRoot ==
    /\ verdict = "climbing" /\ pos <= Len(list.certs)
    /\ Issued(candidate, at)
    /\ \/ /\ depth < MaxDepth
          /\ at' = candidate /\ pos' = 1 /\ depth' = depth + 1
          /\ UNCHANGED verdict
       \/ /\ depth = MaxDepth
          /\ verdict' = "error"
          /\ UNCHANGED <<at, pos, depth>>
    /\ climbUnchanged

\* Any other issuer is climbed from, and what the climb finds is final: the rest
\* of the list is not tried.  A climb too deep is a RecursionError.
Climb ==
    /\ verdict = "climbing" /\ pos <= Len(list.certs)
    /\ Issued(candidate, at) /\ ~SelfIssued(candidate)
    /\ \/ /\ depth < MaxDepth
          /\ at' = candidate /\ pos' = 1 /\ depth' = depth + 1
          /\ UNCHANGED verdict
       \/ /\ depth = MaxDepth
          /\ verdict' = "error"
          /\ UNCHANGED <<at, pos, depth>>
    /\ climbUnchanged

-----------------------------------------------------------------------------
(* POST /verify-identity: passive_auth.verify and check_data_group.        *)

anchors == IF inForce = None THEN <<>> ELSE inForce.content

\* Bug form: a certificate serves for the instant at which it has run out.
LateValidAt(cert, time) ==
    /\ cert.from <= cert.until
    /\ time # Unknown => time \in cert.from .. cert.until + 1

\* _check_validity: a period that is one, and that the signing time is in if known.
ValidAt(cert, time) ==
    /\ cert.from <= cert.until
    /\ time # Unknown => time \in cert.from .. cert.until

\* The anchors of the DSC's issuer whose key verifies it.
Verifying(dsc) == {i \in DOMAIN anchors : Issued(anchors[i], dsc)}

\* Those with the DSC's authority key identifier are tried first (a stable sort).
TriedBefore(i, j, dsc) ==
    IF anchors[i].ski = dsc.aki THEN anchors[j].ski # dsc.aki \/ i < j
    ELSE anchors[j].ski # dsc.aki /\ i < j

\* _verify_dsc_chain returns the first anchor that verifies.
FirstVerifying(i, dsc) ==
    i \in Verifying(dsc) /\ \A j \in Verifying(dsc) \ {i} : TriedBefore(i, j, dsc)

\* Bug form: a verifier without anchors skips the chain.
CheckUnanchored ==
    /\ verdict # "climbing"
    /\ \E d \in Documents :
        /\ d.intact /\ d.by = d.dsc.key
        /\ ValidAt(d.dsc, d.signingTime)
        /\ anchors = <<>> \/ \E i \in DOMAIN anchors :
               FirstVerifying(i, d.dsc) /\ ValidAt(anchors[i], d.signingTime)
        /\ passed' = [doc |-> d, under |-> inForce]
    /\ UNCHANGED <<inForce, list, at, pos, depth, verdict>>

\* An intact document signed by its DSC, which the first verifying anchor issued;
\* both must have been valid when it was signed.
CheckDocument ==
    /\ verdict # "climbing"
    /\ \E d \in Documents :
        /\ d.intact /\ d.by = d.dsc.key
        /\ ValidAt(d.dsc, d.signingTime)
        /\ \E i \in DOMAIN anchors :
               FirstVerifying(i, d.dsc) /\ ValidAt(anchors[i], d.signingTime)
        /\ passed' = [doc |-> d, under |-> inForce]
    /\ UNCHANGED <<inForce, list, at, pos, depth, verdict>>

Init ==
    /\ inForce = None /\ list = None /\ passed = None
    /\ at = Pinned /\ pos = 1 /\ depth = 0
    /\ verdict = "none"

Next == Submit \/ Skip \/ Exhausted \/ Root \/ Climb \/ CheckDocument

Spec == Init /\ [][Next]_vars

-----------------------------------------------------------------------------
(* Properties.                                                             *)

TypeOK ==
    /\ inForce \in Lists \cup {None} /\ list \in Lists \cup {None}
    /\ at \in Certs
    /\ pos \in Nat \ {0} /\ depth \in 0 .. MaxDepth
    /\ verdict \in {"none", "climbing", "accepted", "rejected", "error"}
    /\ passed \in [doc : Documents, under : Lists] \cup {None}

\* Certificates that contain all their members issued.
Closed(S, certs) == \A ca \in S, cert \in certs : Issued(ca, cert) => cert \in S

\* The reference definition: the pinned root is among the list's certificates and
\* its signer is one of those that it issued, directly or through others.
Chained(l) ==
    /\ Pinned \in Range(l.certs)
    /\ \A S \in SUBSET Range(l.certs) :
           (Pinned \in S /\ Closed(S, Range(l.certs))) => l.signer \in S

\* "The list must chain to THIS root, not merely to any self-signed certificate
\* carried inside it" (master_list.py:27-32): the trust anchors come from a list whose
\* signer chains to the pinned root and whose signature is the signer's, whatever lists
\* were submitted before and after.
AnchorsFromPinnedRoot ==
    inForce # None => Chained(inForce) /\ inForce.intact /\ inForce.by = inForce.signer.key

\* What "valid when signed" means, without regard to how the code checks it: the period
\* ends no earlier than it begins, and what was signed was signed neither before the one
\* nor after the other.
ValidWhenSigned(cert, doc) ==
    /\ cert.from <= cert.until
    /\ doc.signingTime # Unknown =>
           cert.from <= doc.signingTime /\ doc.signingTime <= cert.until

\* Passive Authentication end to end (passive_auth.py:198-272, verification.py:72-77):
\* a document that passes is untouched since a DSC signed it, that DSC was issued by a
\* CSCA, both were valid at the signing time if there is one, and that CSCA was in force
\* by a list that chains to the pinned root.
DocumentTracesToPinnedRoot ==
    passed # None =>
        LET d == passed.doc IN
        /\ d.intact /\ d.by = d.dsc.key
        /\ Chained(passed.under)
        /\ \E csca \in Range(passed.under.content) :
              /\ Issued(csca, d.dsc)
              /\ ValidWhenSigned(d.dsc, d) /\ ValidWhenSigned(csca, d)

\* _verify_chain_to_root has no depth limit of its own (master_list.py:79): a list of no
\* more certificates than the recursion limit allows calls drives it into that limit only
\* if some of them certify each other in a circle.
RunawayMeansCircle ==
    verdict = "error" =>
        \/ Cardinality(Range(list.certs)) > MaxDepth
        \/ \E S \in (SUBSET Range(list.certs)) \ {{}} :
               \A cert \in S : \E ca \in S : Issued(ca, cert) /\ ~SelfIssued(ca)
=============================================================================
