------------------------- MODULE IdentityCheckProofs -------------------------
(***************************************************************************)
(* What an IVR stands for in IdentityCheck, for any wallets, passports,    *)
(* provider keys and their exchange, images, and numbers of challenges,    *)
(* attestations and calls.                                                 *)
(***************************************************************************)
EXTENDS IdentityCheck, Integers, FiniteSetTheorems, TLAPS

\* The provider keys in force are in force now.
InForce == \A k \in jwks : [key |-> k.key, at |-> now] \in trusted

\* A nonce belongs to one token, and what is signed over it was signed after the
\* token was made.
Challenged ==
    /\ \A t \in tokens : t.exp <= now + ChallengeTtl
    /\ \A s \in signatures :
           /\ s.at <= now
           /\ s.challenge \in OwnChallenges \cup {t.n : t \in tokens}
           /\ \A t \in tokens : t.n = s.challenge => t.exp <= s.at + ChallengeTtl

\* The gates before the page was read let the call pass.
Admitted(call, since) ==
    /\ call.wia \in wias
    /\ call.wia.cnf = call.holder /\ call.wia.exp >= since
    /\ [key |-> call.wia.by, at |-> since] \in trusted
    /\ call.doc.genuine /\ call.doc.expiry >= since

\* What chip_auth says of a call, as ChipWasThere and FailedChipIsNoIvr have it of IVRs.
ChipStood(call, chipAuth, checked) ==
    /\ chipAuth =>
           \E s \in signatures :
               /\ s.chip = call.doc.id /\ s.challenge = call.challenge
               /\ s.at <= checked
               /\ call.token # None =>
                      \E t \in tokens : /\ t.n = s.challenge
                                        /\ s.at + ChallengeTtl >= t.exp
                                        /\ s.at <= t.exp /\ checked <= t.exp
    /\ call.dg15 /\ call.doc.aa = "ec" => chipAuth

\* A call that waits for the chip or for the face got there through the gates.
Underway ==
    /\ work.stage \in {"chip", "face"} =>
           /\ Admitted(work.call, work.since) /\ work.since <= now
           /\ work.call.token \in tokens \cup {None, Forged}
           /\ work.call.sig \in signatures \cup {None}
    /\ work.stage = "face" =>
           /\ ChipStood(work.call, work.chipAuth, work.checked)
           /\ work.since <= work.checked /\ work.checked <= now

\* An IVR keeps what its call had.
Earned(i) ==
    /\ Admitted(i.call, i.since)
    /\ ChipStood(i.call, i.chipAuth, i.checked)
    /\ i.face /\ i.live /\ models = ModelFiles
    /\ i.since <= i.checked /\ i.checked <= i.iat

AllEarned == \A i \in ivrs : Earned(i)

IInv ==
    /\ TypeOK
    /\ InForce
    /\ Challenged
    /\ Underway
    /\ AllEarned

-----------------------------------------------------------------------------
\* Nothing is forgotten: attestations, keys that were in force, signatures and
\* tokens are only added to, so what they bore out stays borne out.
Grows == /\ wias \subseteq wias' /\ trusted \subseteq trusted'
         /\ signatures \subseteq signatures' /\ tokens \subseteq tokens'

LEMMA AdmittedKeeps ==
    ASSUME NEW call, NEW since, Admitted(call, since), Grows
    PROVE  Admitted(call, since)'
BY DEF Admitted, Grows

LEMMA ChipStoodKeeps ==
    ASSUME NEW call, NEW chipAuth, NEW checked, ChipStood(call, chipAuth, checked), Grows
    PROVE  ChipStood(call, chipAuth, checked)'
BY DEF ChipStood, Grows

LEMMA EarnedKeeps ==
    ASSUME NEW i, Earned(i), Grows, UNCHANGED models
    PROVE  Earned(i)'
BY AdmittedKeeps, ChipStoodKeeps DEF Earned

LEMMA UnderwayKeeps ==
    ASSUME Underway, Grows, UNCHANGED work, now \in Time, now' \in Time, now <= now',
           work \in Work
    PROVE  Underway'
<1>1. CASE work.stage = "chip"
  <2>1. work.since \in Time
    BY <1>1 DEF Work, Idle
  <2> QED BY <1>1, <2>1, AdmittedKeeps, IdentityAssumption DEF Underway, Grows, Time
<1>2. CASE work.stage = "face"
  <2>1. work.since \in Time /\ work.checked \in Time
    BY <1>2 DEF Work, Idle
  <2> QED BY <1>2, <2>1, AdmittedKeeps, ChipStoodKeeps, IdentityAssumption
          DEF Underway, Grows, Time
<1>3. CASE work.stage \notin {"chip", "face"}
  BY <1>3 DEF Underway
<1> QED BY <1>1, <1>2, <1>3

-----------------------------------------------------------------------------
LEMMA IInvInit == Init => IInv
<1> SUFFICES ASSUME Init PROVE IInv
  OBVIOUS
<1>1. TypeOK
  <2>1. \A k \in jwks : k.key \in ProviderKeys
    BY DEF Init, ProviderKeys
  <2> QED BY <2>1, IdentityAssumption DEF Init, TypeOK, Time, Work
<1>2. InForce /\ Challenged /\ Underway /\ AllEarned
  BY DEF Init, Idle, InForce, Challenged, Underway, AllEarned
<1> QED BY <1>1, <1>2 DEF IInv

\* Time passes; the keys in force are in force at the new time too.
LEMMA TickStep == IInv /\ Tick => IInv'
<1> SUFFICES ASSUME IInv, Tick PROVE IInv'
  OBVIOUS
<1>1. /\ now \in Time /\ now' = now + 1 /\ now' \in Time
      /\ trusted' = trusted \cup {[key |-> k.key, at |-> now'] : k \in jwks}
      /\ UNCHANGED <<jwks, wias, tokens, signatures, work, models, ivrs>>
  BY IdentityAssumption DEF IInv, TypeOK, Tick, Time
<1>2. TypeOK'
  <2>1. \A k \in jwks : k.key \in ProviderKeys
    BY DEF IInv, TypeOK, ProviderKeys
  <2>2. trusted' \subseteq [key : ProviderKeys, at : Time]
    BY <1>1, <2>1 DEF IInv, TypeOK
  <2> QED BY <1>1, <2>2 DEF IInv, TypeOK
<1>3. InForce'
  BY <1>1 DEF InForce
<1>4. Challenged'
  <2>1. ASSUME NEW t \in tokens PROVE t.exp <= now' + ChallengeTtl
    <3>1. t.exp \in Int /\ t.exp <= now + ChallengeTtl
      BY IdentityAssumption DEF IInv, TypeOK, Challenged, Tokens
    <3> QED BY <1>1, <3>1, IdentityAssumption DEF Time
  <2>2. ASSUME NEW s \in signatures PROVE s.at <= now'
    <3>1. s.at \in Int /\ s.at <= now
      BY IdentityAssumption DEF IInv, TypeOK, Challenged, Signatures, Time
    <3> QED BY <1>1, <3>1, IdentityAssumption DEF Time
  <2> QED BY <1>1, <2>1, <2>2 DEF IInv, Challenged
<1>5. Underway' /\ AllEarned'
  <2>1. Grows /\ now <= now'
    BY <1>1, IdentityAssumption DEF Grows, Time
  <2>2. work \in Work
    BY DEF IInv, TypeOK
  <2> QED BY <1>1, <2>1, <2>2, UnderwayKeeps, EarnedKeeps DEF IInv, AllEarned
<1> QED BY <1>2, <1>3, <1>4, <1>5 DEF IInv

\* The outside attests keys.
LEMMA AttestStep == IInv /\ Attest => IInv'
<1> SUFFICES ASSUME IInv, Attest PROVE IInv'
  OBVIOUS
<1>1. /\ wias \subseteq wias' /\ wias' \subseteq Wias
      /\ UNCHANGED <<now, jwks, tokens, signatures, work, models, trusted, ivrs>>
  BY DEF IInv, TypeOK, Attest, Wias
<1>2. TypeOK' /\ InForce' /\ Challenged'
  BY <1>1 DEF IInv, TypeOK, InForce, Challenged
<1>3. Underway' /\ AllEarned'
  <2>1. Grows /\ work \in Work /\ now \in Time /\ now <= now'
    BY <1>1, IdentityAssumption DEF Grows, IInv, TypeOK, Time
  <2> QED BY <1>1, <2>1, UnderwayKeeps, EarnedKeeps DEF IInv, AllEarned
<1> QED BY <1>2, <1>3 DEF IInv

\* A chip signs, a challenge of its reader's or one whose token has been made.
LEMMA ChipSignsStep == IInv /\ ChipSigns => IInv'
<1> SUFFICES ASSUME IInv, ChipSigns PROVE IInv'
  OBVIOUS
<1>1. PICK c \in Chips, challenge \in OwnChallenges \cup {t.n : t \in tokens} :
          signatures' = signatures \cup {[chip |-> c.id, challenge |-> challenge, at |-> now]}
  BY DEF ChipSigns
<1>2. UNCHANGED <<now, jwks, wias, tokens, work, models, trusted, ivrs>>
  BY DEF ChipSigns
<1> DEFINE new == [chip |-> c.id, challenge |-> challenge, at |-> now]
<1>3. new \in Signatures
  <2>1. challenge \in Challenges
    BY DEF IInv, TypeOK, Tokens, Challenges
  <2> QED BY <2>1 DEF IInv, TypeOK, Signatures
<1>4. TypeOK' /\ InForce'
  BY <1>1, <1>2, <1>3 DEF IInv, TypeOK, InForce
<1>5. Challenged'
  <2>1. /\ new.at <= now /\ new.challenge \in OwnChallenges \cup {t.n : t \in tokens}
        /\ \A t \in tokens : t.exp <= new.at + ChallengeTtl
    BY IdentityAssumption DEF IInv, TypeOK, Time, Challenged
  <2> QED BY <1>1, <1>2, <2>1 DEF IInv, Challenged
<1>6. Underway' /\ AllEarned'
  <2>1. Grows /\ work \in Work /\ now \in Time /\ now <= now'
    BY <1>1, <1>2, IdentityAssumption DEF Grows, IInv, TypeOK, Time
  <2> QED BY <1>2, <2>1, UnderwayKeeps, EarnedKeeps DEF IInv, AllEarned
<1> QED BY <1>4, <1>5, <1>6 DEF IInv

\* The provider keys are exchanged, with no call at hand.
LEMMA RotateStep == IInv /\ Rotate => IInv'
<1> SUFFICES ASSUME IInv, Rotate PROVE IInv'
  OBVIOUS
<1>1. /\ work = Idle /\ jwks' \in KeySets
      /\ trusted' = trusted \cup {[key |-> k.key, at |-> now] : k \in jwks'}
      /\ UNCHANGED <<now, wias, tokens, signatures, work, models, ivrs>>
  BY DEF Rotate
<1>2. TypeOK'
  <2>1. \A k \in jwks' : k.key \in ProviderKeys
    BY <1>1 DEF ProviderKeys
  <2>2. trusted' \subseteq [key : ProviderKeys, at : Time]
    BY <1>1, <2>1 DEF IInv, TypeOK
  <2> QED BY <1>1, <2>2 DEF IInv, TypeOK
<1>3. InForce' /\ Challenged'
  BY <1>1 DEF IInv, InForce, Challenged
<1>4. Underway' /\ AllEarned'
  <2>1. Grows
    BY <1>1 DEF Grows
  <2> QED BY <1>1, <2>1, EarnedKeeps DEF IInv, AllEarned, Underway, Idle
<1> QED BY <1>2, <1>3, <1>4 DEF IInv

\* A challenge is made: nobody can have signed its nonce yet.
LEMMA AaChallengeStep == IInv /\ AaChallenge => IInv'
<1> SUFFICES ASSUME IInv, AaChallenge PROVE IInv'
  OBVIOUS
<1>1. PICK n \in Nonces \ {t.n : t \in tokens} :
          tokens' = tokens \cup {[n |-> n, exp |-> now + ChallengeTtl]}
  BY DEF AaChallenge
<1>2. work = Idle /\ UNCHANGED <<now, jwks, wias, signatures, work, models, trusted, ivrs>>
  BY DEF AaChallenge
<1>3. TypeOK' /\ InForce'
  <2>1. [n |-> n, exp |-> now + ChallengeTtl] \in Tokens
    BY IdentityAssumption DEF IInv, TypeOK, Tokens, Time
  <2> QED BY <1>1, <1>2, <2>1 DEF IInv, TypeOK, InForce
<1>4. Challenged'
  <2>1. \A s \in signatures : s.challenge # n
    BY IdentityAssumption DEF IInv, Challenged
  <2>2. now + ChallengeTtl <= now + ChallengeTtl
    BY IdentityAssumption DEF IInv, TypeOK, Time
  <2> QED BY <1>1, <1>2, <2>1, <2>2 DEF IInv, Challenged
<1>5. Underway' /\ AllEarned'
  <2>1. Grows
    BY <1>1, <1>2 DEF Grows
  <2> QED BY <1>2, <2>1, EarnedKeeps DEF IInv, AllEarned, Underway, Idle
<1> QED BY <1>3, <1>4, <1>5 DEF IInv

\* A call passes the first gates.
LEMMA AcceptStep == IInv /\ Accept => IInv'
<1> SUFFICES ASSUME IInv, Accept PROVE IInv'
  OBVIOUS
<1>1. PICK call \in [holder : Holders, wia : wias \cup {None}, doc : Chips, dg15 : BOOLEAN,
                     token : tokens \cup {None, Forged}, challenge : Challenges,
                     sig : signatures \cup {None}] :
          /\ Attested(call) /\ call.doc.genuine /\ call.doc.expiry >= now
          /\ work' = [stage |-> "chip", call |-> call, since |-> now]
  BY DEF Accept
<1>2. UNCHANGED <<now, jwks, wias, tokens, signatures, models, trusted, ivrs>>
  BY DEF Accept
<1>3. TypeOK'
  <2>1. call \in Calls
    BY DEF IInv, TypeOK, Calls
  <2>2. work' \in Work
    BY <1>1, <2>1 DEF IInv, TypeOK, Work
  <2> QED BY <1>2, <2>2 DEF IInv, TypeOK
<1>4. Admitted(call, now)
  <2>1. PICK k \in jwks : k.key = call.wia.by
    BY <1>1 DEF Attested, SignedByProvider
  <2>2. [key |-> call.wia.by, at |-> now] \in trusted
    BY <2>1 DEF IInv, InForce
  <2> QED BY <1>1, <2>2 DEF Admitted, Attested
<1>5. Underway'
  <2>1. now <= now
    BY IdentityAssumption DEF IInv, TypeOK, Time
  <2> QED BY <1>1, <1>2, <1>4, <2>1 DEF Underway, Admitted
<1>6. InForce' /\ Challenged'
  BY <1>2 DEF IInv, InForce, Challenged
<1>7. AllEarned'
  <2>1. Grows
    BY <1>2 DEF Grows
  <2> QED BY <1>2, <2>1, EarnedKeeps DEF IInv, AllEarned
<1> QED BY <1>3, <1>5, <1>6, <1>7 DEF IInv

\* Whatever value Active Authentication returns, the chip stands behind it.
LEMMA ChipAuthStands ==
    ASSUME IInv, work.stage = "chip", NEW chipAuth \in ChipAuth(work.call)
    PROVE  chipAuth \in BOOLEAN /\ ChipStood(work.call, chipAuth, now)
<1> DEFINE call == work.call
<1>1. chipAuth \in BOOLEAN
  BY DEF ChipAuth
<1>2. ASSUME chipAuth
      PROVE  \E s \in signatures :
                 /\ s.chip = call.doc.id /\ s.challenge = call.challenge
                 /\ s.at <= now
                 /\ call.token # None =>
                        \E t \in tokens : /\ t.n = s.challenge
                                          /\ s.at + ChallengeTtl >= t.exp
                                          /\ s.at <= t.exp /\ now <= t.exp
  <2>1. ChallengeHolds(call) /\ ChipSigned(call)
    BY <1>2 DEF ChipAuth
  <2>2. /\ call.sig \in signatures /\ call.sig.chip = call.doc.id
        /\ call.sig.challenge = call.challenge
    BY <2>1 DEF ChipSigned, IInv, Underway
  <2>3. call.sig.at <= now /\ call.sig.at \in Int /\ now \in Int
    BY <2>2, IdentityAssumption DEF IInv, TypeOK, Challenged, Signatures, Time
  <2>4. ASSUME call.token # None
        PROVE  /\ call.token \in tokens /\ call.token.n = call.sig.challenge
               /\ call.sig.at + ChallengeTtl >= call.token.exp
               /\ call.sig.at <= call.token.exp /\ now <= call.token.exp
    <3>1. call.token \in tokens /\ call.token.n = call.challenge /\ call.token.exp >= now
      BY <2>1, <2>4 DEF ChallengeHolds, IInv, Underway
    <3>2. call.token.exp <= call.sig.at + ChallengeTtl
      BY <2>2, <3>1 DEF IInv, Challenged
    <3>3. call.token.exp \in Int
      BY <3>1, IdentityAssumption DEF IInv, TypeOK, Tokens
    <3> QED BY <2>2, <2>3, <3>1, <3>2, <3>3, IdentityAssumption
  <2> QED BY <2>2, <2>3, <2>4
<1>3. call.dg15 /\ call.doc.aa = "ec" => chipAuth
  BY DEF ChipAuth
<1> QED BY <1>1, <1>2, <1>3 DEF ChipStood

\* The chip is checked, or the call is refused.
LEMMA ActiveAuthStep == IInv /\ ActiveAuth => IInv'
<1> SUFFICES ASSUME IInv, ActiveAuth PROVE IInv'
  OBVIOUS
<1>1. work.stage = "chip"
      /\ UNCHANGED <<now, jwks, wias, tokens, signatures, models, trusted, ivrs>>
  BY DEF ActiveAuth
<1>2. InForce' /\ Challenged' /\ AllEarned'
  <2>1. Grows
    BY <1>1 DEF Grows
  <2> QED BY <1>1, <2>1, EarnedKeeps DEF IInv, InForce, Challenged, AllEarned
<1>3. CASE work' = Idle
  BY <1>1, <1>2, <1>3 DEF IInv, TypeOK, Work, Underway, Idle
<1>4. ASSUME NEW chipAuth \in ChipAuth(work.call),
             work' = [stage |-> "face", call |-> work.call, since |-> work.since,
                      chipAuth |-> chipAuth, checked |-> now]
      PROVE  IInv'
  <2>1. chipAuth \in BOOLEAN /\ ChipStood(work.call, chipAuth, now)
    BY <1>1, <1>4, ChipAuthStands
  <2>2. work.call \in Calls /\ work.since \in Time /\ now \in Time
    BY <1>1 DEF IInv, TypeOK, Work, Idle
  <2>3. TypeOK'
    BY <1>1, <1>4, <2>1, <2>2 DEF IInv, TypeOK, Work
  <2>4. Admitted(work.call, work.since)' /\ ChipStood(work.call, chipAuth, now)'
    <3>1. Admitted(work.call, work.since)
      BY <1>1 DEF IInv, Underway
    <3>2. work'.call = work.call /\ work'.since = work.since
      BY <1>4
    <3> QED BY <1>1, <2>1, <3>1, <3>2 DEF Admitted, ChipStood
  <2>5. Underway'
    BY <1>1, <1>4, <2>1, <2>2, <2>4, IdentityAssumption
       DEF IInv, Underway, Time, Admitted, ChipStood
  <2> QED BY <1>2, <2>3, <2>5 DEF IInv
<1> QED BY <1>1, <1>3, <1>4 DEF ActiveAuth

\* An image whose models can all vouch has all of them.
LEMMA AllModels == ASSUME models \in Images, NEW face, NEW score, Matches(face, score)
                   PROVE  models = ModelFiles /\ face /\ score
BY IdentityAssumption DEF Matches, Live, ModelFiles

\* The face is matched and the IVR made, or the call is refused.
LEMMA FaceMatchStep == IInv /\ FaceMatch => IInv'
<1> SUFFICES ASSUME IInv, FaceMatch PROVE IInv'
  OBVIOUS
<1>1. /\ work.stage = "face" /\ work' = Idle
      /\ UNCHANGED <<now, jwks, wias, tokens, signatures, models, trusted>>
  BY DEF FaceMatch
<1>2. PICK face \in BOOLEAN, score \in BOOLEAN :
          ivrs' = IF Matches(face, score) THEN ivrs \cup {Ivr(face, score)} ELSE ivrs
  BY DEF FaceMatch
<1> DEFINE new == Ivr(face, score)
<1>3. new \in Ivrs
  <2>1. /\ work.call \in Calls /\ work.since \in Time /\ work.chipAuth \in BOOLEAN
        /\ work.checked \in Time /\ now \in Time
    BY <1>1 DEF IInv, TypeOK, Work, Idle
  <2>2. now + IvrTtl \in 0 .. MaxTime + IvrTtl
    BY <2>1, IdentityAssumption DEF Time
  <2> QED BY <2>1, <2>2 DEF Ivr, Ivrs
<1>4. Matches(face, score) => Earned(new)
  <2> SUFFICES ASSUME Matches(face, score) PROVE Earned(new)
    OBVIOUS
  <2>1. models = ModelFiles /\ face /\ score
    BY AllModels DEF IInv, TypeOK
  <2>2. /\ Admitted(work.call, work.since)
        /\ ChipStood(work.call, work.chipAuth, work.checked)
        /\ work.since <= work.checked /\ work.checked <= now
    BY <1>1 DEF IInv, Underway
  <2> QED BY <2>1, <2>2 DEF Earned, Ivr
<1>5. TypeOK' /\ InForce' /\ Challenged' /\ Underway'
  BY <1>1, <1>2, <1>3 DEF IInv, TypeOK, Work, InForce, Challenged, Underway, Idle
<1>6. AllEarned'
  <2>1. Grows
    BY <1>1 DEF Grows
  <2>2. \A i \in ivrs' : Earned(i)
    BY <1>2, <1>4 DEF IInv, AllEarned
  <2> QED BY <1>1, <2>1, <2>2, EarnedKeeps DEF AllEarned
<1> QED BY <1>5, <1>6 DEF IInv

\* A crash loses the call at hand, and nothing else.
LEMMA CrashStep == IInv /\ Crash => IInv'
<1> SUFFICES ASSUME IInv, Crash PROVE IInv'
  OBVIOUS
<1>1. /\ work' = Idle
      /\ UNCHANGED <<now, jwks, wias, tokens, signatures, models, trusted, ivrs>>
  BY DEF Crash
<1>2. Grows
  BY <1>1 DEF Grows
<1>3. TypeOK' /\ InForce' /\ Challenged' /\ Underway'
  BY <1>1 DEF IInv, TypeOK, Work, InForce, Challenged, Underway, Idle
<1> QED BY <1>1, <1>2, <1>3, EarnedKeeps DEF IInv, AllEarned

LEMMA IInvStep == IInv /\ [Next]_vars => IInv'
<1> SUFFICES ASSUME IInv, [Next]_vars PROVE IInv'
  OBVIOUS
<1>1. CASE UNCHANGED vars
  <2>1. Grows /\ work \in Work /\ now \in Time /\ now <= now'
    BY <1>1, IdentityAssumption DEF vars, Grows, IInv, TypeOK, Time
  <2>2. TypeOK' /\ InForce' /\ Challenged'
    BY <1>1 DEF vars, IInv, TypeOK, InForce, Challenged
  <2> QED BY <1>1, <2>1, <2>2, UnderwayKeeps, EarnedKeeps DEF vars, IInv, AllEarned
<1> QED BY <1>1, TickStep, AttestStep, ChipSignsStep, RotateStep, AaChallengeStep, AcceptStep,
           ActiveAuthStep, FaceMatchStep, CrashStep DEF Next

\* The inductive invariant.
LEMMA Inductive == Spec => []IInv
BY IInvInit, IInvStep, PTL DEF Spec

-----------------------------------------------------------------------------
\* Types are kept.
THEOREM IdentityTypeCorrect == Spec => []TypeOK
<1>1. IInv => TypeOK
  BY DEF IInv
<1> QED BY <1>1, Inductive, PTL

\* Behind every IVR are an attestation of its holder's key by a provider key in force
\* when the call was taken, a genuine document, and a face that all models saw.
THEOREM IvrsAreEarned == Spec => []IvrIsEarned
<1>1. IInv => IvrIsEarned
  BY DEF IInv, AllEarned, Earned, Admitted, IvrIsEarned
<1> QED BY <1>1, Inductive, PTL

\* Behind every chip_auth is the document's own chip, which signed, and within the
\* life of the enclave's challenge if it was one.
THEOREM ChipsWereThere == Spec => []ChipWasThere
<1>1. IInv => ChipWasThere
  BY DEF IInv, AllEarned, Earned, ChipStood, ChipWasThere
<1> QED BY <1>1, Inductive, PTL

\* A chip that can answer and fails leaves no IVR.
THEOREM NoFailedChip == Spec => []FailedChipIsNoIvr
<1>1. IInv => FailedChipIsNoIvr
  BY DEF IInv, AllEarned, Earned, ChipStood, FailedChipIsNoIvr
<1> QED BY <1>1, Inductive, PTL

-----------------------------------------------------------------------------
(* That IdentityCheck issues as Disclosure does.                           *)

\* What a step of Disclosure needs to know beyond IInv: there are finitely many IVRs,
\* and the chip_auth of a call before the face is that of the chip it showed.
Mappable ==
    /\ IsFiniteSet(ivrs)
    /\ work.stage = "face" => /\ ChipShown(work.call) # "cloned"
                              /\ work.chipAuth = (ChipShown(work.call) = "signing")

LEMMA MappableStep == Mappable /\ [Next]_vars => Mappable'
<1> SUFFICES ASSUME Mappable, [Next]_vars PROVE Mappable'
  OBVIOUS
<1>1. IsFiniteSet(ivrs')
  <2>1. CASE FaceMatch
    <3>1. PICK face \in BOOLEAN, score \in BOOLEAN :
              ivrs' = IF Matches(face, score) THEN ivrs \cup {Ivr(face, score)} ELSE ivrs
      BY <2>1 DEF FaceMatch
    <3>2. IsFiniteSet(ivrs \cup {Ivr(face, score)})
      BY FS_AddElement DEF Mappable
    <3> QED BY <3>1, <3>2 DEF Mappable
  <2>2. CASE UNCHANGED ivrs
    BY <2>2 DEF Mappable
  <2> QED BY <2>1, <2>2 DEF Next, vars, Tick, Attest, ChipSigns, Rotate, AaChallenge, Accept,
                            ActiveAuth, Crash
<1>2. CASE UNCHANGED work
  BY <1>1, <1>2 DEF Mappable, ChipShown, ChipSigned
<1>3. CASE work' = Idle
  BY <1>1, <1>3 DEF Mappable, Idle
<1>4. CASE Accept
  BY <1>1, <1>4 DEF Accept, Mappable
<1>5. ASSUME ActiveAuth, NEW chipAuth \in ChipAuth(work.call),
             work' = [stage |-> "face", call |-> work.call, since |-> work.since,
                      chipAuth |-> chipAuth, checked |-> now]
      PROVE  Mappable'
  <2>1. /\ ChipShown(work.call) # "cloned"
        /\ chipAuth = (ChipShown(work.call) = "signing")
    BY <1>5 DEF ChipAuth, ChipShown
  <2>2. ChipShown(work.call)' = ChipShown(work'.call)
    BY DEF ChipShown, ChipSigned
  <2>3. work'.call = work.call /\ work'.chipAuth = chipAuth
    BY <1>5
  <2>4. ChipShown(work'.call) = ChipShown(work.call)
    BY <2>3
  <2> QED BY <1>1, <2>1, <2>2, <2>3, <2>4 DEF Mappable
<1> QED BY <1>2, <1>3, <1>4, <1>5 DEF Next, vars, Tick, Attest, ChipSigns, Rotate, AaChallenge,
                                      ActiveAuth, FaceMatch, Crash

\* The mapped IVRs are no more than the IVRs.
LEMMA CertifiedBound ==
    ASSUME IsFiniteSet(ivrs), Cardinality(ivrs) < MaxIvrs
    PROVE  Cardinality({Certified(i) : i \in ivrs}) < MaxIvrs
<1> DEFINE T == {Certified(i) : i \in ivrs}
           f == [i \in ivrs |-> Certified(i)]
<1>1. f \in Surjection(ivrs, T)
  BY DEF Surjection
<1>2. IsFiniteSet(T) /\ Cardinality(T) <= Cardinality(ivrs)
  <2> HIDE DEF T, f
  <2> QED BY <1>1, FS_Surjection
<1>3. Cardinality(T) \in Nat /\ Cardinality(ivrs) \in Nat
  <2> HIDE DEF T
  <2> QED BY <1>2, FS_CardinalityType
<1> QED BY <1>2, <1>3, IdentityAssumption

LEMMA InitMaps == Init => Issuing!Init
BY DEF Init, Issuing!Init, Issuing!Idle, Idle

\* Whatever leaves the IVRs, the clock and the call in the handler as they are is a
\* stutter of Disclosure.
LEMMA StutterMaps ==
    ASSUME UNCHANGED <<now, ivrs>>, work = Idle <=> work' = Idle,
           work # Idle => work'.call = work.call
    PROVE  UNCHANGED Issuing!vars
<1>1. {Certified(i) : i \in ivrs}' = {Certified(i) : i \in ivrs}
  BY DEF Certified
<1>2. ASSUME work # Idle PROVE work'.call.holder = work.call.holder
                               /\ Shown(work.call)' = Shown(work.call)
  BY <1>2 DEF Shown, ChipShown, ChipSigned
<1> QED BY <1>1, <1>2 DEF Issuing!vars, Idle

LEMMA TickMaps == Tick => Issuing!Tick
<1> SUFFICES ASSUME Tick PROVE Issuing!Tick
  OBVIOUS
<1>1. now < MaxTime /\ now' = now + 1 /\ UNCHANGED <<ivrs, work>>
  BY DEF Tick
<1>2. {Certified(i) : i \in ivrs}' = {Certified(i) : i \in ivrs}
  BY <1>1 DEF Certified
<1>3. Shown(work.call)' = Shown(work.call)
  BY <1>1 DEF Shown, ChipShown, ChipSigned
<1> QED BY <1>1, <1>2, <1>3 DEF Issuing!Tick

\* A call past the first gates is a document taken up.
LEMMA AcceptMaps == IInv /\ Mappable /\ Accept => Issuing!VerifyIdentity
<1> SUFFICES ASSUME IInv, Mappable, Accept PROVE Issuing!VerifyIdentity
  OBVIOUS
<1>1. PICK call \in [holder : Holders, wia : wias \cup {None}, doc : Chips, dg15 : BOOLEAN,
                     token : tokens \cup {None, Forged}, challenge : Challenges,
                     sig : signatures \cup {None}] :
          /\ work = Idle /\ call.doc.genuine /\ call.doc.expiry >= now
          /\ Cardinality(ivrs) < MaxIvrs
          /\ work' = [stage |-> "chip", call |-> call, since |-> now]
          /\ UNCHANGED <<now, ivrs>>
  BY DEF Accept
<1>2. call.holder \in Holders
      /\ Shown(call) \in [genuine : BOOLEAN, expiry : Time,
                           chip : {"plain", "signing", "unsupported", "cloned"}]
  BY <1>1, IdentityAssumption DEF Shown, ChipShown
<1>3. Shown(call).genuine /\ Shown(call).expiry >= now
  BY <1>1 DEF Shown
<1>4. Cardinality({Certified(i) : i \in ivrs}) < MaxIvrs
  BY <1>1, CertifiedBound DEF Mappable
<1>5. {Certified(i) : i \in ivrs}' = {Certified(i) : i \in ivrs}
  BY <1>1 DEF Certified
<1>6. work' # Idle /\ work'.call = call
  BY <1>1 DEF Idle
<1>7. Shown(work.call)' = Shown(call)
  BY <1>6 DEF Shown, ChipShown, ChipSigned
<1>8. Issuing!Cardinality({Certified(i) : i \in ivrs}) < MaxIvrs
  BY <1>4 DEF Cardinality, Issuing!Cardinality
<1> QED BY <1>1, <1>2, <1>3, <1>5, <1>6, <1>7, <1>8
        DEF Issuing!VerifyIdentity, Issuing!WalletAccepted, Issuing!Idle, Idle

\* The face match and a refusal by Active Authentication end what was taken up.
LEMMA RefusalMaps ==
    ASSUME work \in Work, work # Idle, work' = Idle, UNCHANGED <<now, ivrs>>
    PROVE  Issuing!IssueIvr
<1>1. {Certified(i) : i \in ivrs}' = {Certified(i) : i \in ivrs}
  BY DEF Certified
<1> QED BY <1>1 DEF Issuing!IssueIvr, Issuing!Idle, Idle

LEMMA FaceMatchMaps == IInv /\ Mappable /\ FaceMatch => Issuing!IssueIvr
<1> SUFFICES ASSUME IInv, Mappable, FaceMatch PROVE Issuing!IssueIvr
  OBVIOUS
<1>1. PICK face \in BOOLEAN, score \in BOOLEAN :
          ivrs' = IF Matches(face, score) THEN ivrs \cup {Ivr(face, score)} ELSE ivrs
  BY DEF FaceMatch
<1>2. work.stage = "face" /\ work # Idle /\ work' = Idle /\ now' = now
  BY DEF FaceMatch, Idle
<1>3. CASE ~Matches(face, score)
  BY <1>1, <1>2, <1>3, RefusalMaps DEF IInv, TypeOK
<1>4. CASE Matches(face, score)
  <2> DEFINE doc == Shown(work.call)
             new == [holder |-> work.call.holder, iat |-> now, exp |-> now + IvrTtl,
                     expiry |-> doc.expiry, chipAuth |-> Issuing!ChipAuth(doc)]
  <2>1. Certified(Ivr(face, score)) = new
    BY <1>2 DEF Certified, Ivr, Mappable, Shown, Issuing!ChipAuth
  <2>2. {Certified(i) : i \in ivrs}' = {Certified(i) : i \in ivrs} \cup {new}
    BY <1>1, <1>4, <2>1 DEF Certified
  <2>3. doc.chip # "cloned"
    BY <1>2 DEF Mappable, Shown
  <2> HIDE DEF doc
  <2> QED BY <1>2, <2>2, <2>3 DEF Issuing!IssueIvr, Issuing!Idle, Idle, doc
<1> QED BY <1>3, <1>4

LEMMA CrashMaps == Crash => Issuing!Crash
<1> SUFFICES ASSUME Crash PROVE Issuing!Crash
  OBVIOUS
<1>1. work # Idle /\ work' = Idle /\ UNCHANGED <<now, ivrs>>
  BY DEF Crash
<1>2. {Certified(i) : i \in ivrs}' = {Certified(i) : i \in ivrs}
  BY <1>1 DEF Certified
<1> QED BY <1>1, <1>2 DEF Issuing!Crash, Issuing!Idle, Idle

LEMMA StepMaps == IInv /\ Mappable /\ [Next]_vars => [Issuing!Next]_(Issuing!vars)
<1> SUFFICES ASSUME IInv, Mappable, [Next]_vars PROVE [Issuing!Next]_(Issuing!vars)
  OBVIOUS
<1>1. work \in Work
  BY DEF IInv, TypeOK
<1>2. CASE UNCHANGED <<now, ivrs, work>>
  BY <1>2, StutterMaps
<1>3. CASE Tick
  BY <1>3, TickMaps DEF Issuing!Next
<1>4. CASE Accept
  BY <1>4, AcceptMaps DEF Issuing!Next
<1>5. CASE ActiveAuth
  <2>1. work # Idle /\ UNCHANGED <<now, ivrs>>
    BY <1>5 DEF ActiveAuth, Idle
  <2>2. CASE work' = Idle
    BY <1>1, <2>1, <2>2, RefusalMaps DEF Issuing!Next
  <2>3. CASE work' # Idle
    <3>1. work'.call = work.call
      BY <1>5, <2>3 DEF ActiveAuth
    <3> QED BY <2>1, <2>3, <3>1, StutterMaps
  <2> QED BY <2>2, <2>3
<1>6. CASE FaceMatch
  BY <1>6, FaceMatchMaps DEF Issuing!Next
<1>7. CASE Crash
  BY <1>7, CrashMaps DEF Issuing!Next
<1> QED BY <1>2, <1>3, <1>4, <1>5, <1>6, <1>7
        DEF Next, vars, Attest, ChipSigns, Rotate, AaChallenge

\* Every behaviour of the gates is one of Disclosure's: what is proved there of the
\* IVRs and what is derived from them may rest on it.
THEOREM IdentityImplementsIssuing == Spec => ImplementsIssuing
<1>1. Init => Mappable
  BY FS_EmptySet DEF Init, Mappable, Idle
<1>2. Spec => [](IInv /\ Mappable)
  BY <1>1, MappableStep, Inductive, PTL DEF Spec
<1> QED BY <1>2, InitMaps, StepMaps, PTL DEF Spec, ImplementsIssuing, Issuing!Spec

=============================================================================
