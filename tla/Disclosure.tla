------------------------------ MODULE Disclosure ------------------------------
(***************************************************************************)
(* From a verified identity to a paid disclosure: the enclave issues an    *)
(* identity-verification receipt (IVR) bound to a holder key, and later    *)
(* turns it into disclosure tokens for relying parties, each request       *)
(* signed by the holder and paid by a voucher that the runtime holds while *)
(* the enclave works and settles or releases by the answer's status.       *)
(*                                                                         *)
(* main.py serves one request at a time, so at most one ceremony is under  *)
(* way; time, the wallets, the wallet provider and crashes go on meanwhile.*)
(* Documents, portraits, commitments and signatures are abstract: a        *)
(* document says what its checks would find, an opening and a face match   *)
(* are outcomes, and a signature is a message in the set of those signed.  *)
(***************************************************************************)
EXTENDS Integers, Sequences, FiniteSets

CONSTANTS Keys,            \* holder hardware keys
          Documents,       \* what can be presented: [genuine, chip, expiry] records
          Audiences,       \* relying parties, rp_id
          SelfAudiences,   \* those exempt from paying (config.SELF_AUDIENCES)
          Claims,          \* the claims a derivation can disclose
          DocumentValid,   \* the claim of /prove/document-valid
          HolderPresent,   \* the claim of /prove/presence
          Vouchers,        \* voucher ids (jti)
          PaidBy,          \* PaidBy[v]: the relying party v was minted for
          Covers,          \* Covers[v]: the claims v authorises
          None,            \* no voucher, no buyer named, no signature
          RequireWia, RequireVoucher,   \* config flags, both TRUE in the image
          IvrTtl,          \* config.IVR_TTL_SECONDS
          Window,          \* the 300 s of receipt.check_holder
          MaxTime, MaxIvrs, MaxSigned, MaxReceipts   \* bounds

Time == 0 .. MaxTime

ASSUME DisclosureAssumption ==
    /\ Documents \subseteq [genuine : BOOLEAN, expiry : Time,
                            chip : {"plain", "signing", "unsupported", "cloned"}]
    /\ SelfAudiences \subseteq Audiences
    /\ DocumentValid \in Claims /\ HolderPresent \in Claims /\ DocumentValid # HolderPresent
    /\ PaidBy \in [Vouchers -> Audiences \ SelfAudiences]
    /\ Covers \in [Vouchers -> (SUBSET Claims) \ {{}}]
    /\ None \notin Vouchers \cup Audiences
    /\ RequireWia \in BOOLEAN /\ RequireVoucher \in BOOLEAN
    /\ IvrTtl \in Nat /\ Window \in Nat
    /\ MaxTime \in Nat /\ MaxIvrs \in Nat /\ MaxSigned \in Nat /\ MaxReceipts \in Nat

VARIABLES now,        \* the enclave's clock
          ivrs,       \* the IVRs issued
          signed,     \* the requests that holders have signed
          work,       \* the derivation in the handler
          voucher,    \* what the runtime has done with each voucher
          receipts    \* history: the disclosure tokens minted, in order

vars == <<now, ivrs, signed, work, voucher, receipts>>

IVRs == [holder : Keys, iat : Time, exp : 0 .. MaxTime + IvrTtl, expiry : Time,
         chipAuth : BOOLEAN]
Messages == [by : Keys, ivr : IVRs, rp : Audiences, ts : Time]
\* A call of a prove_* endpoint as it reaches the handler, with the runtime's headers:
\* the voucher, and the relying party it was minted for if the runtime names it.
Calls == [ivr : IVRs, key : Keys, sig : Messages \cup {None}, rp : Audiences, claim : Claims,
          voucher : Vouchers \cup {None}, paidFor : Audiences \cup {None}]

Idle == [stage |-> "idle"]
\* A 200 carries a token, the number of which is kept here; no other answer does.
Answers ==
    [stage : {"answered"}, voucher : Vouchers \cup {None}, established : {TRUE},
     status : {200}, receipt : 1 .. MaxReceipts]
    \cup [stage : {"answered"}, voucher : Vouchers \cup {None}, established : BOOLEAN,
          status : {400, 500}, receipt : {0}]
Work == {Idle} \cup Answers
    \cup [stage : {"verifying"}, holder : Keys, doc : Documents]
    \cup [stage : {"established"}, call : Calls, since : Time]
    \cup [stage : {"checked"}, call : Calls, since : Time, checked : Time, byHolder : BOOLEAN]

\* since: when the ceremony was established; checked: when the holder check read the clock.
Receipts == [call : Calls, outcome : {"proof", "failure"}, retryable : BOOLEAN, since : Time,
             checked : Time, opened : BOOLEAN, faceMatch : BOOLEAN, delivered : BOOLEAN]

-----------------------------------------------------------------------------
(* The world around the enclave.                                           *)

Tick ==
    /\ now < MaxTime
    /\ now' = now + 1
    /\ UNCHANGED <<ivrs, signed, work, voucher, receipts>>

\* A holder signs a request over one of the IVRs, for one relying party, at what
\* its own clock says.
Sign ==
    \E k \in Keys, ivr \in ivrs, rp \in Audiences, ts \in Time :
        /\ Cardinality(signed) < MaxSigned
        /\ signed' = signed \cup {[by |-> k, ivr |-> ivr, rp |-> rp, ts |-> ts]}
        /\ UNCHANGED <<now, ivrs, work, voucher, receipts>>

-----------------------------------------------------------------------------
(* POST /verify-identity (main.py:416-442, verification.py:57-152).        *)

\* The gate on the wallet attestation sent along; "attested" says that there is one
\* and that verify_wia accepts it: signed by a trusted provider's key, unexpired and
\* naming the presented key.
WalletAccepted(attested) == RequireWia => attested

\* main._check_active_auth: an AA key of a type not handled counts as not done.
ChipAuth(doc) == doc.chip = "signing"

\* An authentic document, not expired, presented by an attested wallet is taken up;
\* any other is a 400 that changes nothing.
VerifyIdentity ==
    \E k \in Keys, doc \in Documents, attested \in BOOLEAN :
        /\ work = Idle
        /\ WalletAccepted(attested)
        /\ doc.genuine
        /\ doc.expiry >= now
        /\ Cardinality(ivrs) < MaxIvrs
        /\ work' = [stage |-> "verifying", holder |-> k, doc |-> doc]
        /\ UNCHANGED <<now, ivrs, signed, voucher, receipts>>

\* When the page has been read, the chip is not shown to be a clone and the live face
\* matches the portrait, it yields an IVR; a failure is again a 400.
IssueIvr ==
    /\ work.stage = "verifying"
    /\ \E passed \in BOOLEAN :
           ivrs' = IF passed /\ work.doc.chip # "cloned"
                   THEN ivrs \cup {[holder |-> work.holder, iat |-> now, exp |-> now + IvrTtl,
                                    expiry |-> work.doc.expiry, chipAuth |-> ChipAuth(work.doc)]}
                   ELSE ivrs
    /\ work' = Idle
    /\ UNCHANGED <<now, signed, voucher, receipts>>

-----------------------------------------------------------------------------
(* POST /prove/... (main.py:444-485).                                      *)

\* Bug forms: a voucher pays for any relying party; paying is up to the caller.
CoveredForAnyone(call) ==
    IF call.voucher # None THEN call.claim \in Covers[call.voucher]
    ELSE RequireVoucher => call.rp \in SelfAudiences

CoveredOrFree(call) ==
    call.voucher # None
        => call.claim \in Covers[call.voucher] /\ call.paidFor \in {None, call.rp}

\* main._voucher_gate: a voucher must cover the claim and, if the runtime names the
\* party that it was minted for, be this relying party's; without one, only the
\* holder's own audiences are served.
Covered(call) ==
    IF call.voucher # None
    THEN call.claim \in Covers[call.voucher] /\ call.paidFor \in {None, call.rp}
    ELSE RequireVoucher => call.rp \in SelfAudiences

\* What must hold before the ceremony is established: a live IVR, a wallet
\* attestation for the presented key, and the voucher gate.
Preflight(call, attested) ==
    /\ call.ivr \in ivrs /\ call.ivr.exp >= now
    /\ WalletAccepted(attested)
    /\ Covered(call)

\* The runtime's Rp-Id header with voucher v: the party that bought it, or nothing from
\* a runtime that does not forward it.
RpIdHeader(v) == IF v = None THEN {None} ELSE {None, PaidBy[v]}

\* The vouchers a call can come with, and the runtime's hold on the one it does.
Offered == {v \in Vouchers : voucher[v] = "fresh"} \cup {None}
Hold(v) == voucher' = [w \in Vouchers |-> IF w = v THEN "held" ELSE voucher[w]]

\* The runtime forwards a call, holding its voucher if it has one, and the handler's
\* preflight establishes the ceremony.
Prove ==
    \E call \in [ivr : ivrs, key : Keys, sig : signed \cup {None}, rp : Audiences, claim : Claims,
                 voucher : Offered, paidFor : Audiences \cup {None}],
       attested \in BOOLEAN :
        /\ work = Idle
        /\ call.paidFor \in RpIdHeader(call.voucher)
        /\ Preflight(call, attested)
        /\ Len(receipts) < MaxReceipts
        /\ Hold(call.voucher)
        /\ work' = [stage |-> "established", call |-> call, since |-> now]
        /\ UNCHANGED <<now, ivrs, signed, receipts>>

\* do_POST answers 400 to a call that does not pass its preflight or lacks a field, and 400
\* or 500 to one with a field of a type the code does not expect.  There is such a call at any
\* time and for every voucher, and nothing is left of it but the answer: the call itself, and
\* why it was refused, are not kept.
RefuseCall ==
    \E v \in Offered, status \in {400, 500} :
        /\ work = Idle
        /\ Hold(v)
        /\ work' = [stage |-> "answered", status |-> status, voucher |-> v, receipt |-> 0,
                    established |-> FALSE]
        /\ UNCHANGED <<now, ivrs, signed, receipts>>

\* Bug form: any key may sign, not only the one the IVR is bound to.
AnyKeySigned(call) ==
    /\ call.sig # None
    /\ call.sig.ts - now \in -Window .. Window
    /\ call.sig.by = call.key /\ call.sig.ivr = call.ivr /\ call.sig.rp = call.rp

\* receipt.check_holder: the presented key is the bound one, the request is fresh
\* by its own timestamp, and that key signed exactly this IVR, party and time.
HolderChecked(call) ==
    /\ call.key = call.ivr.holder
    /\ call.sig # None
    /\ call.sig.ts - now \in -Window .. Window
    /\ call.sig.by = call.key /\ call.sig.ivr = call.ivr /\ call.sig.rp = call.rp

\* The holder check, at the clock of its own moment; what it found is acted on after.
CheckHolder ==
    /\ work.stage = "established"
    /\ work' = [stage |-> "checked", call |-> work.call, since |-> work.since,
                checked |-> now, byHolder |-> HolderChecked(work.call)]
    /\ UNCHANGED <<now, ivrs, signed, voucher, receipts>>

Answered(status, receipt) ==
    work' = [stage |-> "answered", status |-> status, voucher |-> work.call.voucher,
             receipt |-> receipt, established |-> TRUE]

\* A token, proof or failure receipt, is minted and answered with 200.
Mint(outcome, retryable, opened, faceMatch) ==
    /\ receipts' = Append(receipts,
                          [call |-> work.call, outcome |-> outcome, retryable |-> retryable,
                           since |-> work.since, checked |-> work.checked, opened |-> opened,
                           faceMatch |-> faceMatch, delivered |-> FALSE])
    /\ Answered(200, Len(receipts) + 1)

concludeUnchanged == UNCHANGED <<now, ivrs, signed, voucher>>

\* A failed holder check is a failure receipt that no retry can cure.
RefuseHolder ==
    /\ work.stage = "checked" /\ ~work.byHolder
    /\ Mint("failure", FALSE, FALSE, FALSE)
    /\ concludeUnchanged

\* Derivations but presence: the proof, or a failure receipt if the supplied
\* value does not open the IVR's commitment or cannot be derived from.
Derive ==
    /\ work.stage = "checked" /\ work.byHolder
    /\ work.call.claim # HolderPresent
    /\ \/ Mint("proof", FALSE, work.call.claim # DocumentValid, FALSE)
       \/ work.call.claim # DocumentValid /\ Mint("failure", FALSE, FALSE, FALSE)
    /\ concludeUnchanged

\* Bug form: the face decides before the portrait is checked.
FaceFirst(opened, faceMatch) ==
    IF ~faceMatch THEN Mint("failure", TRUE, opened, FALSE)
    ELSE Mint(IF opened THEN "proof" ELSE "failure", FALSE, opened, TRUE)

\* receipt.prove_presence: only a portrait that opens the IVR's commitment makes a
\* failed match retryable.
Presence(opened, faceMatch) ==
    IF ~opened THEN Mint("failure", FALSE, FALSE, faceMatch)
    ELSE IF faceMatch THEN Mint("proof", FALSE, TRUE, TRUE)
    ELSE Mint("failure", TRUE, TRUE, FALSE)

\* Presence: the selfie is matched, which takes its time, against the supplied portrait
\* before that portrait is checked against the IVR; an image without a face answers 400.  A
\* missing or undecodable input is a failure receipt like that of a portrait that does not open.
DerivePresence ==
    /\ work.stage = "checked" /\ work.byHolder
    /\ work.call.claim = HolderPresent
    /\ \/ UNCHANGED receipts /\ Answered(400, 0)
       \/ \E opened, faceMatch \in BOOLEAN : Presence(opened, faceMatch)
    /\ concludeUnchanged

\* Bug form: a 200 for every ceremony, though there is no token to answer with.
EmptyHanded ==
    /\ work.stage = "checked" /\ work.byHolder
    /\ work.call.claim # DocumentValid
    /\ UNCHANGED receipts /\ Answered(200, 0)
    /\ concludeUnchanged

\* What the caller supplies to a derivation is of a type it does not expect (a salt or a
\* value that is no string, bands that are no list), or OpenCV rejects the image buffer:
\* _prove catches none of these exceptions, and do_POST answers 500.
DeriveRaises ==
    /\ work.stage = "checked" /\ work.byHolder
    /\ work.call.claim # DocumentValid
    /\ UNCHANGED receipts /\ Answered(500, 0)
    /\ concludeUnchanged

-----------------------------------------------------------------------------
(* The runtime and the process.                                            *)

\* The runtime settles a held voucher on a 200 and releases it on any other status.
Answer ==
    /\ work.stage = "answered"
    /\ work' = Idle
    /\ voucher' = [v \in Vouchers |->
                      IF v # work.voucher THEN voucher[v]
                      ELSE IF work.status = 200 THEN "settled" ELSE "fresh"]
    /\ receipts' = IF work.receipt = 0 THEN receipts
                   ELSE [receipts EXCEPT ![work.receipt].delivered = TRUE]
    /\ UNCHANGED <<now, ivrs, signed>>

\* The process dies at work: nothing of it is kept, no answer is given.
Crash ==
    /\ work # Idle
    /\ work' = Idle
    /\ UNCHANGED <<now, ivrs, signed, voucher, receipts>>

\* The voucher the call in the handler came with.
InHand == CASE work.stage \in {"established", "checked"} -> work.call.voucher
            [] work.stage = "answered" -> work.voucher
            [] OTHER -> None

\* The runtime gives up on a call that gets no answer and releases its voucher.
GiveUp ==
    \E v \in Vouchers \ {InHand} :
        /\ voucher[v] = "held"
        /\ voucher' = [voucher EXCEPT ![v] = "fresh"]
        /\ UNCHANGED <<now, ivrs, signed, work, receipts>>

Init ==
    /\ now = 0
    /\ ivrs = {} /\ signed = {}
    /\ work = Idle
    /\ voucher = [v \in Vouchers |-> "fresh"]
    /\ receipts = <<>>

Conclude == RefuseHolder \/ Derive \/ DerivePresence \/ DeriveRaises

Next == \/ Tick \/ Sign \/ VerifyIdentity \/ IssueIvr
        \/ Prove \/ RefuseCall \/ CheckHolder \/ Conclude \/ Answer \/ Crash \/ GiveUp

Spec == Init /\ [][Next]_vars

-----------------------------------------------------------------------------
(* Properties.                                                             *)

TypeOK ==
    /\ now \in Time
    /\ ivrs \subseteq IVRs
    /\ signed \subseteq Messages
    /\ work \in Work
    /\ voucher \in [Vouchers -> {"fresh", "held", "settled"}]
    /\ receipts \in Seq(Receipts)

\* The tokens a relying party has been given for voucher v.
GivenFor(v) == {i \in DOMAIN receipts : receipts[i].delivered /\ receipts[i].call.voucher = v}

\* The runtime settles on 200 and releases otherwise (main.py:461-466), and "without this
\* comparison a voucher bought by one relying party paid for a disclosure to another"
\* (main.py:57-64): a voucher is settled for exactly one token, for a claim it covers;
\* through crashes, retries and minted tokens that were lost, one that is not settled has
\* bought nothing.  Where the runtime names the buyer, the token is the buyer's; where it
\* does not, the code serves whom the caller names (tests/test_http.py:236-242).
SettledForItsToken ==
    \A v \in Vouchers :
        /\ Cardinality(GivenFor(v)) = IF voucher[v] = "settled" THEN 1 ELSE 0
        /\ \A i \in GivenFor(v) :
              /\ receipts[i].call.claim \in Covers[v]
              /\ receipts[i].call.paidFor # None => receipts[i].call.rp = PaidBy[v]

\* Only the holder's own parties are served without a voucher (config.py:126-141).
UnpaidOnlyForSelf ==
    RequireVoucher => \A i \in DOMAIN receipts :
        receipts[i].call.voucher = None => receipts[i].call.rp \in SelfAudiences

\* The holder of the IVR signed for this IVR and party, at a time close to when the
\* signature was checked.  What is signed names neither the claim nor the moment of the
\* minting (receipt.py:124-127), which comes after the check and may be out of the window.
HolderStoodBy(r) ==
    \E m \in signed : /\ m.by = r.call.ivr.holder /\ m.ivr = r.call.ivr /\ m.rp = r.call.rp
                      /\ m.ts - r.checked \in -Window .. Window

\* A proof (receipt.py:130-149, 310-337, main.py:444-476) is only ever made for the
\* holder an IVR was issued to, of an IVR alive when the ceremony was established,
\* names that holder's key, and opens what the IVR committed to; presence also needs
\* the face.  All of this though the clock moves between establishing, holder check and
\* minting, and IVRs and signatures of others come in between.
ProofPassedEveryGate ==
    \A i \in DOMAIN receipts :
        LET r == receipts[i] IN
        r.outcome = "proof" =>
            /\ r.call.ivr \in ivrs /\ r.since \in r.call.ivr.iat .. r.call.ivr.exp
            /\ r.since <= r.checked
            /\ r.call.key = r.call.ivr.holder /\ HolderStoodBy(r)
            /\ r.call.claim # DocumentValid => r.opened
            /\ r.call.claim = HolderPresent => r.faceMatch

\* "retryable is the ONLY detail exposed" (receipt.py:152-158): it tells a relying
\* party that the bound holder did ask, with the certified portrait, and that the
\* face alone did not match; no other failure is retryable.
RetryableMeansFaceOnly ==
    \A i \in DOMAIN receipts :
        LET r == receipts[i] IN
        r.retryable <=> /\ r.outcome = "failure" /\ r.call.claim = HolderPresent
                        /\ r.call.key = r.call.ivr.holder /\ HolderStoodBy(r)
                        /\ r.opened /\ ~r.faceMatch

\* main.py:461-466: "From HERE the ceremony is ESTABLISHED and the work is CHARGED:
\* pass or fail we return 200 (-> settle)".
EstablishedIsCharged ==
    (work.stage = "answered" /\ work.established) => work.status = 200

\* config.py:69: the IVR's lifetime is "Also bounded by the document expiry": nothing
\* is proved from an IVR whose document has expired when the request arrives.
ProofsOnlyOfValidDocuments ==
    \A i \in DOMAIN receipts :
        receipts[i].outcome = "proof" => receipts[i].since <= receipts[i].call.ivr.expiry
=============================================================================
