---------------------------- MODULE IdentityCheck ----------------------------
(***************************************************************************)
(* How an identity-verification receipt (IVR) is earned: the gates of POST *)
(* /verify-identity in their order (main.py:416-442), each read at its own *)
(* moment.  Between them the handler reads a photograph of the page and    *)
(* matches faces, so the clock moves; wallet attestations, Active          *)
(* Authentication challenges and the chips' signatures come from earlier   *)
(* calls and from outside, and grow old; the provider keys are exchanged   *)
(* between calls.                                                          *)
(*                                                                         *)
(* A signature is a record of who signed what, when.  A document says what *)
(* Passive Authentication finds (TrustChains), and which key its chip has. *)
(***************************************************************************)
EXTENDS Naturals, FiniteSets

CONSTANTS Holders,      \* the wallets' hardware keys
          KeySets,      \* wallet-provider JWKS documents: sets of [kid, key] records
          Kids,         \* what a header can name as its kid
          Chips,        \* passports: [id, genuine, aa, expiry] records
          Nonces,       \* what os.urandom can yield, each once
          OwnChallenges,\* challenges that readers make up
          None,         \* no attestation, kid, token or signature
          Forged,       \* a token the enclave did not sign
          Images,       \* the model files an image may have: sets of file names
          ChallengeTtl, \* config.AA_CHALLENGE_TTL_SECONDS
          IvrTtl,       \* config.IVR_TTL_SECONDS
          MaxTime, MaxAttestations, MaxSignatures, MaxIvrs   \* bounds

Time == 0 .. MaxTime
Challenges == Nonces \cup OwnChallenges
ProviderKeys == {k.key : k \in UNION KeySets}
ModelFiles == {"yunet.onnx", "sface.onnx", "minifasnet.onnx"}

ASSUME IdentityAssumption ==
    /\ Chips \subseteq [id : {c.id : c \in Chips}, genuine : BOOLEAN, expiry : Time,
                        aa : {"none", "ec", "unsupported"}]
    /\ \A s \in KeySets : s \subseteq [kid : Kids, key : ProviderKeys]
    /\ Nonces \cap OwnChallenges = {} /\ None \notin Kids
    /\ None \notin [n : Nonces, exp : Nat] /\ Forged \notin [n : Nonces, exp : Nat]
    /\ Forged # None
    /\ Images \subseteq SUBSET ModelFiles
    /\ ChallengeTtl \in Nat /\ IvrTtl \in Nat /\ MaxTime \in Nat /\ MaxIvrs \in Nat
    /\ MaxAttestations \in Nat /\ MaxSignatures \in Nat

VARIABLES now,          \* the enclave's clock
          jwks,         \* the wallet-provider keys in force
          wias,         \* the wallet instance attestations issued
          tokens,       \* the challenge tokens the enclave has signed
          signatures,   \* what chips have signed
          work,         \* the call in the handler
          models,       \* the model files of the image
          trusted,      \* history: which provider keys were in force when
          ivrs          \* history: the IVRs issued, with the call each came from

vars == <<now, jwks, wias, tokens, signatures, work, models, trusted, ivrs>>

Wias == [cnf : Holders, by : ProviderKeys, kid : Kids \cup {None}, exp : Time]
Tokens == [n : Nonces, exp : 0 .. MaxTime + ChallengeTtl]
Signatures == [chip : {c.id : c \in Chips}, challenge : Challenges, at : Time]
Calls == [holder : Holders, wia : Wias \cup {None}, doc : Chips, dg15 : BOOLEAN,
          token : Tokens \cup {None, Forged}, challenge : Challenges,
          sig : Signatures \cup {None}]

Idle == [stage |-> "idle"]
Work == {Idle}
    \cup [stage : {"chip"}, call : Calls, since : Time]
    \cup [stage : {"face"}, call : Calls, since : Time, chipAuth : BOOLEAN, checked : Time]
Ivrs == [call : Calls, since : Time, chipAuth : BOOLEAN, checked : Time, iat : Time,
         exp : 0 .. MaxTime + IvrTtl, face : BOOLEAN, live : BOOLEAN]

-----------------------------------------------------------------------------
(* Outside the enclave.                                                    *)

Tick ==
    /\ now < MaxTime
    /\ now' = now + 1
    /\ trusted' = trusted \cup {[key |-> k.key, at |-> now + 1] : k \in jwks}
    /\ UNCHANGED <<jwks, wias, tokens, signatures, work, models, ivrs>>

\* A wallet provider, in force or not, attests a hardware key.
Attest ==
    \E h \in Holders, k \in ProviderKeys, kid \in Kids \cup {None}, exp \in Time :
        /\ Cardinality(wias) < MaxAttestations
        /\ wias' = wias \cup {[cnf |-> h, by |-> k, kid |-> kid, exp |-> exp]}
        /\ UNCHANGED <<now, jwks, tokens, signatures, work, models, trusted, ivrs>>

\* A chip with an Active Authentication key signs the challenge it is given; a
\* challenge of the enclave's can be given once it is known.
ChipSigns ==
    \E c \in Chips, challenge \in OwnChallenges \cup {t.n : t \in tokens} :
        /\ c.aa # "none"
        /\ Cardinality(signatures) < MaxSignatures
        /\ signatures' = signatures \cup {[chip |-> c.id, challenge |-> challenge, at |-> now]}
        /\ UNCHANGED <<now, jwks, wias, tokens, work, models, trusted, ivrs>>

-----------------------------------------------------------------------------
(* The enclave.                                                            *)

\* POST /configure with a JWKS: a call of its own, never within another.
Rotate ==
    /\ work = Idle
    /\ jwks' \in KeySets
    /\ trusted' = trusted \cup {[key |-> k.key, at |-> now] : k \in jwks'}
    /\ UNCHANGED <<now, wias, tokens, signatures, work, models, ivrs>>

\* POST /aa-challenge: a fresh nonce, signed with its end and not remembered.
AaChallenge ==
    \E n \in Nonces \ {t.n : t \in tokens} :
        /\ work = Idle
        /\ tokens' = tokens \cup {[n |-> n, exp |-> now + ChallengeTtl]}
        /\ UNCHANGED <<now, jwks, wias, signatures, work, models, trusted, ivrs>>

\* crypto.verify_jwt_jwks: the keys of the JWT's kid, or every key if it has none;
\* one of them must verify it.
SignedByProvider(wia) ==
    \E k \in jwks : (wia.kid = None \/ k.kid = wia.kid) /\ k.key = wia.by

\* Bug form: an attestation is good for any key.
UnboundAttested(call) ==
    call.wia # None /\ SignedByProvider(call.wia) /\ call.wia.exp >= now

\* wia.verify_wia, as _enforce_wia calls it in the image (REQUIRE_WIA).
Attested(call) ==
    /\ call.wia # None
    /\ SignedByProvider(call.wia)
    /\ call.wia.exp >= now
    /\ call.wia.cnf = call.holder

\* The gates before the page is read: the wallet attestation, Passive
\* Authentication, and a document that has not expired.  A call that they refuse
\* is answered 400 and changes nothing.
Accept ==
    \E call \in [holder : Holders, wia : wias \cup {None}, doc : Chips, dg15 : BOOLEAN,
                 token : tokens \cup {None, Forged}, challenge : Challenges,
                 sig : signatures \cup {None}] :
        /\ work = Idle
        /\ Attested(call)
        /\ call.doc.genuine
        /\ call.dg15 => call.doc.aa # "none"
        /\ call.doc.expiry >= now
        /\ Cardinality(ivrs) < MaxIvrs
        /\ work' = [stage |-> "chip", call |-> call, since |-> now]
        /\ UNCHANGED <<now, jwks, wias, tokens, signatures, models, trusted, ivrs>>

\* Bug form: the end of a challenge is not looked at.
TimelessChallenge(call) ==
    call.token # None => call.token # Forged /\ call.token.n = call.challenge

\* A challenge that comes with a token must be the one the enclave issued, in
\* time; one without a token is the reader's own and is taken as it is.
ChallengeHolds(call) ==
    call.token # None => /\ call.token # Forged
                         /\ call.token.exp >= now
                         /\ call.token.n = call.challenge

\* aa.verify: the key of the DG15 supplied verifies the signature over the challenge.
ChipSigned(call) ==
    /\ call.sig # None
    /\ call.sig.chip = call.doc.id /\ call.sig.challenge = call.challenge

\* Bug forms: a signature that does not verify is recorded, not refused; the
\* branch of a key that cannot be verified forgets its value.
LenientChipAuth(call) == {call.dg15 /\ ChipSigned(call)}

UndecidedChipAuth(call) ==
    IF ~call.dg15 THEN {FALSE}
    ELSE IF call.doc.aa = "unsupported" THEN {None}
    ELSE IF ChallengeHolds(call) /\ ChipSigned(call) THEN {TRUE} ELSE {}

\* _check_active_auth: the values it can return for a call, none if it raises.  A
\* signature must be there, even for a key that cannot be verified.
ChipAuth(call) ==
    IF ~call.dg15 THEN {FALSE}
    ELSE IF ~ChallengeHolds(call) \/ call.sig = None THEN {}
    ELSE IF call.doc.aa = "unsupported" THEN {FALSE}
    ELSE IF ChipSigned(call) THEN {TRUE} ELSE {}

\* Active Authentication, after the page was read.
ActiveAuth ==
    /\ work.stage = "chip"
    /\ \/ ChipAuth(work.call) = {} /\ work' = Idle
       \/ \E chipAuth \in ChipAuth(work.call) :
              work' = [stage |-> "face", call |-> work.call, since |-> work.since,
                       chipAuth |-> chipAuth, checked |-> now]
    /\ UNCHANGED <<now, jwks, wias, tokens, signatures, models, trusted, ivrs>>

\* biometrics._liveness refuses to vouch for a capture without its model.
Live(score) == "minifasnet.onnx" \in models /\ score

\* biometrics.match: without the face models nothing matches.
Matches(face, score) ==
    {"yunet.onnx", "sface.onnx"} \subseteq models /\ face /\ Live(score)

\* Bug form: the IVR bears the date at which the call came.
DatedAtArrival(face, score) ==
    [call |-> work.call, since |-> work.since, chipAuth |-> work.chipAuth, checked |-> work.checked,
     iat |-> work.since, exp |-> work.since + IvrTtl, face |-> face, live |-> score]

\* receipt.build_ivr
Ivr(face, score) ==
    [call |-> work.call, since |-> work.since, chipAuth |-> work.chipAuth, checked |-> work.checked,
     iat |-> now, exp |-> now + IvrTtl, face |-> face, live |-> score]

\* The face match, and the IVR dated when it is done; any failure is a 400.
FaceMatch ==
    /\ work.stage = "face"
    /\ \E face, score \in BOOLEAN :
           ivrs' = IF Matches(face, score) THEN ivrs \cup {Ivr(face, score)} ELSE ivrs
    /\ work' = Idle
    /\ UNCHANGED <<now, jwks, wias, tokens, signatures, models, trusted>>

Crash ==
    /\ work # Idle
    /\ work' = Idle
    /\ UNCHANGED <<now, jwks, wias, tokens, signatures, models, trusted, ivrs>>

-----------------------------------------------------------------------------
Init ==
    /\ now = 0
    /\ jwks \in KeySets
    /\ wias = {} /\ tokens = {} /\ signatures = {}
    /\ work = Idle
    /\ models \in Images
    /\ trusted = {[key |-> k.key, at |-> 0] : k \in jwks}
    /\ ivrs = {}

Next ==
    \/ Tick \/ Attest \/ ChipSigns
    \/ Rotate \/ AaChallenge
    \/ Accept \/ ActiveAuth \/ FaceMatch \/ Crash

Spec == Init /\ [][Next]_vars

-----------------------------------------------------------------------------
(* What must hold.                                                         *)

TypeOK ==
    /\ now \in Time
    /\ jwks \in KeySets
    /\ wias \subseteq Wias /\ tokens \subseteq Tokens /\ signatures \subseteq Signatures
    /\ work \in Work
    /\ models \in Images
    /\ trusted \subseteq [key : ProviderKeys, at : Time]
    /\ ivrs \subseteq Ivrs

\* An IVR was earned: when its call was taken, a provider key then in force vouched
\* for the very holder key the IVR is bound to, and the document was genuine and
\* not expired; and what the face models said of the capture, they said, before
\* the date on it - however the keys were exchanged and the image built.
IvrIsEarned ==
    \A i \in ivrs :
        /\ i.call.wia \in wias
        /\ i.call.wia.cnf = i.call.holder /\ i.call.wia.exp >= i.since
        /\ [key |-> i.call.wia.by, at |-> i.since] \in trusted
        /\ i.call.doc.genuine /\ i.call.doc.expiry >= i.since
        /\ i.face /\ i.live /\ models = ModelFiles
        /\ i.since <= i.checked /\ i.checked <= i.iat

\* chip_auth in an IVR says that the document's own chip signed the challenge
\* before the check; and, if the enclave issued that challenge, that it signed
\* within the challenge's life, however often the challenge was answered.
ChipWasThere ==
    \A i \in ivrs : i.chipAuth =>
        \E s \in signatures :
            /\ s.chip = i.call.doc.id /\ s.challenge = i.call.challenge
            /\ s.at <= i.checked
            /\ i.call.token # None =>
                   \E t \in tokens : /\ t.n = s.challenge
                                     /\ s.at + ChallengeTtl >= t.exp
                                     /\ s.at <= t.exp /\ i.checked <= t.exp

\* A chip that should have answered and did not is refused: an IVR without
\* chip_auth comes from a call that supplied no DG15, or one with a key the
\* enclave cannot verify - never from a signature that failed.
FailedChipIsNoIvr ==
    \A i \in ivrs : i.call.dg15 /\ i.call.doc.aa = "ec" => i.chipAuth

\* What a document shows of its chip in a call, in the terms of Disclosure.
ChipShown(call) ==
    IF ~call.dg15 THEN "plain"
    ELSE IF call.doc.aa = "unsupported" THEN "unsupported"
    ELSE IF ChipSigned(call) THEN "signing" ELSE "cloned"

Shown(call) == [genuine |-> call.doc.genuine, expiry |-> call.doc.expiry, chip |-> ChipShown(call)]

Certified(i) == [holder |-> i.call.holder, iat |-> i.iat, exp |-> i.exp,
                 expiry |-> i.call.doc.expiry, chipAuth |-> i.chipAuth]

\* Disclosure, in which nothing is disclosed.
Issuing == INSTANCE Disclosure WITH
    Keys <- Holders,
    Documents <- [genuine : BOOLEAN, expiry : Time,
                  chip : {"plain", "signing", "unsupported", "cloned"}],
    Audiences <- {}, SelfAudiences <- {},
    Claims <- {"document_valid", "holder_present"},
    DocumentValid <- "document_valid", HolderPresent <- "holder_present",
    Vouchers <- {}, PaidBy <- <<>>, Covers <- <<>>,
    RequireWia <- TRUE, RequireVoucher <- TRUE,
    Window <- 0, MaxSigned <- 0, MaxReceipts <- 0,
    signed <- {}, voucher <- <<>>, receipts <- <<>>,
    ivrs <- {Certified(i) : i \in ivrs},
    work <- IF work = Idle THEN Idle
            ELSE [stage |-> "verifying", holder |-> work.call.holder, doc |-> Shown(work.call)]

\* IVRs come about here as Disclosure has them come about: for a document and a
\* holder taken up while the document was valid, dated at the end, with the chip_auth
\* that the chip showed, and none for a clone - whichever of the gates between the
\* photograph and the face ends the call, and wherever the clock stands then.
ImplementsIssuing == Issuing!Spec
=============================================================================
