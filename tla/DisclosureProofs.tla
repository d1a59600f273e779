--------------------------- MODULE DisclosureProofs ---------------------------
(***************************************************************************)
(* What relying parties, holders and the ledger may rely on in Disclosure, *)
(* for any documents, vouchers, parties, windows and numbers of ceremonies. *)
(***************************************************************************)
EXTENDS Disclosure, TLAPS, FiniteSetTheorems

\* An IVR bears a date that has come.
Dated == \A i \in ivrs : i.iat <= now

\* A call that passed its preflight, by the clock at since.
Admitted(call, since) ==
    /\ call.ivr \in ivrs /\ since \in call.ivr.iat .. call.ivr.exp
    /\ Covered(call)
    /\ call.paidFor \in RpIdHeader(call.voucher)

\* The holder of a call's IVR asked for it, by the clock at checked.
AskedFor(call, checked) ==
    /\ call.key = call.ivr.holder
    /\ \E m \in signed : /\ m.by = call.ivr.holder /\ m.ivr = call.ivr /\ m.rp = call.rp
                         /\ m.ts - checked \in -Window .. Window

\* A ceremony under way passed its preflight, and the runtime holds its voucher.
InCeremony ==
    work.stage \in {"established", "checked"} =>
        /\ Admitted(work.call, work.since) /\ work.since <= now
        /\ work.call.sig # None => work.call.sig \in signed
        /\ work.call.voucher # None => voucher[work.call.voucher] = "held"
        /\ Len(receipts) < MaxReceipts

\* What the holder check found, as of the moment at which it looked.
InCheck ==
    work.stage = "checked" =>
        /\ work.since <= work.checked
        /\ work.byHolder => AskedFor(work.call, work.checked)

\* An answer on its way is a 200 exactly if it carries a token, which was minted for
\* the voucher the runtime holds and which nobody has yet.
InAnswer ==
    work.stage = "answered" =>
        /\ work.voucher # None => voucher[work.voucher] = "held"
        /\ work.status = 200 <=> work.receipt # 0
        /\ work.receipt # 0 => /\ work.receipt \in DOMAIN receipts
                               /\ receipts[work.receipt].call.voucher = work.voucher
                               /\ ~receipts[work.receipt].delivered

\* What a token's making leaves for good.  That the holder asked is tied to its opening:
\* a signature made later does not count for an earlier failure.
Sound(r) ==
    /\ Admitted(r.call, r.since) /\ r.since <= r.checked
    /\ r.outcome = "proof" \/ r.opened => AskedFor(r.call, r.checked)
    /\ r.outcome = "proof" => /\ r.call.claim # DocumentValid => r.opened
                              /\ r.call.claim = HolderPresent => r.faceMatch
    /\ r.retryable <=> /\ r.outcome = "failure" /\ r.call.claim = HolderPresent
                       /\ r.opened /\ ~r.faceMatch

TokensSound == \A i \in DOMAIN receipts : Sound(receipts[i])

\* A settled voucher has bought one token, another one none.
Given == \A v \in Vouchers :
    IF voucher[v] = "settled" THEN \E i \in DOMAIN receipts : GivenFor(v) = {i}
    ELSE GivenFor(v) = {}

IInv ==
    /\ TypeOK
    /\ Dated
    /\ InCeremony
    /\ InCheck
    /\ InAnswer
    /\ TokensSound
    /\ Given

-----------------------------------------------------------------------------
\* There is nothing at first.
LEMMA IInvInit == Init => IInv
<1> SUFFICES ASSUME Init PROVE IInv
  OBVIOUS
<1>1. TypeOK
  BY DisclosureAssumption DEF Init, TypeOK, Time, Work
<1>2. DOMAIN receipts = {}
  BY DEF Init
<1>3. Dated /\ InCeremony /\ InCheck /\ InAnswer
  BY DEF Init, Idle, Dated, InCeremony, InCheck, InAnswer
<1>4. TokensSound /\ Given
  BY <1>2 DEF Init, TokensSound, Given, GivenFor
<1> QED BY <1>1, <1>3, <1>4 DEF IInv

\* The stage of the work in the handler tells its fields.
LEMMA WorkTypes ==
    ASSUME TypeOK
    PROVE  /\ work.stage = "verifying" =>
                  work \in [stage : {"verifying"}, holder : Keys, doc : Documents]
           /\ work.stage = "established" =>
                  work \in [stage : {"established"}, call : Calls, since : Time]
           /\ work.stage = "checked" =>
                  work \in [stage : {"checked"}, call : Calls, since : Time, checked : Time,
                            byHolder : BOOLEAN]
<1>1. work \in {Idle} => work.stage = "idle"
  BY DEF Idle
<1>2. work \in Answers => work.stage = "answered"
  BY DEF Answers
<1> QED BY <1>1, <1>2 DEF TypeOK, Work

\* What a call has passed is not undone by time, new IVRs or new signatures.
LEMMA AdmittedKeeps ==
    ASSUME ivrs \subseteq ivrs', NEW call, NEW since, Admitted(call, since)
    PROVE  Admitted(call, since)'
BY DEF Admitted, Covered, RpIdHeader

LEMMA AskedForKeeps ==
    ASSUME signed \subseteq signed', NEW call, NEW checked, AskedFor(call, checked)
    PROVE  AskedFor(call, checked)'
BY DEF AskedFor

\* Nor are tokens, once minted, and the ceremony under way, by a step that leaves it alone.
LEMMA TokensKeep ==
    ASSUME TokensSound, UNCHANGED receipts, ivrs \subseteq ivrs', signed \subseteq signed'
    PROVE  TokensSound'
<1> SUFFICES ASSUME NEW i \in DOMAIN receipts PROVE Sound(receipts[i])'
  BY DEF TokensSound
<1>1. Sound(receipts[i])
  BY DEF TokensSound
<1> DEFINE r == receipts[i]
<1>2. r' = r
  OBVIOUS
<1>3. Admitted(r.call, r.since)'
  BY <1>1, <1>2, AdmittedKeeps DEF Sound, Admitted, Covered, RpIdHeader
<1>4. r.outcome = "proof" \/ r.opened => AskedFor(r.call, r.checked)'
  BY <1>1, <1>2, AskedForKeeps DEF Sound, AskedFor
<1> QED BY <1>1, <1>2, <1>3, <1>4 DEF Sound

LEMMA CeremonyKeeps ==
    ASSUME IInv, UNCHANGED <<work, receipts>>, ivrs \subseteq ivrs', signed \subseteq signed',
           now \in Int, now' \in Int, now <= now',
           work.stage \in {"established", "checked"} =>
               (work.call.voucher # None => voucher'[work.call.voucher] = "held")
    PROVE  InCeremony' /\ InCheck'
<1>1. ASSUME work.stage \in {"established", "checked"} PROVE InCeremony'
  <2>1. work.since \in Int
    BY <1>1, WorkTypes DEF IInv, Time
  <2>2. Admitted(work.call, work.since)'
    BY <1>1 DEF IInv, InCeremony, Admitted, Covered, RpIdHeader
  <2> QED BY <1>1, <2>1, <2>2 DEF IInv, InCeremony
<1>2. ASSUME work.stage = "checked" PROVE InCheck'
  BY <1>2 DEF IInv, InCheck, AskedFor
<1> QED BY <1>1, <1>2 DEF InCeremony, InCheck

\* Time passes.
LEMMA TickStep == IInv /\ Tick => IInv'
<1> SUFFICES ASSUME IInv, Tick PROVE IInv'
  OBVIOUS
<1>1. TypeOK'
  BY DisclosureAssumption DEF IInv, TypeOK, Tick, Time
<1>2. Dated'
  <2> SUFFICES ASSUME NEW i \in ivrs PROVE i.iat <= now'
    BY DEF Dated, Tick
  <2>1. i.iat \in Int /\ now \in Int
    BY DisclosureAssumption DEF IInv, TypeOK, IVRs, Time
  <2> QED BY <2>1 DEF IInv, Dated, Tick
<1>3. InCeremony' /\ InCheck'
  <2>1. now \in Int /\ now' \in Int /\ now <= now'
    BY DisclosureAssumption DEF IInv, TypeOK, Tick, Time
  <2> QED BY <2>1, CeremonyKeeps DEF IInv, InCeremony, Tick
<1>4. InAnswer' /\ Given'
  BY DEF IInv, Tick, InAnswer, Given, GivenFor
<1> QED BY <1>1, <1>2, <1>3, <1>4, TokensKeep DEF IInv, Tick

\* A holder signs.
LEMMA SignStep == IInv /\ Sign => IInv'
<1> SUFFICES ASSUME IInv, Sign PROVE IInv'
  OBVIOUS
<1>1. TypeOK'
  BY DEF IInv, TypeOK, Sign, Messages
<1>2. signed \subseteq signed' /\ UNCHANGED <<now, ivrs, work, voucher, receipts>>
  BY DEF Sign
<1>3. Dated' /\ InAnswer' /\ Given'
  BY <1>2 DEF IInv, Dated, InAnswer, Given, GivenFor
<1>4. InCeremony' /\ InCheck'
  <2>1. now \in Int
    BY DEF IInv, TypeOK, Time
  <2> QED BY <1>2, <2>1, CeremonyKeeps DEF IInv, InCeremony
<1> QED BY <1>1, <1>2, <1>3, <1>4, TokensKeep DEF IInv

\* A document is taken up; no ceremony is under way.
LEMMA VerifyIdentityStep == IInv /\ VerifyIdentity => IInv'
<1> SUFFICES ASSUME IInv, VerifyIdentity PROVE IInv'
  OBVIOUS
<1>1. PICK k \in Keys, doc \in Documents :
          /\ work' = [stage |-> "verifying", holder |-> k, doc |-> doc]
          /\ UNCHANGED <<now, ivrs, signed, voucher, receipts>>
  BY DEF VerifyIdentity
<1>2. TypeOK'
  <2>1. work' \in Work
    BY <1>1 DEF Work
  <2> QED BY <1>1, <2>1 DEF IInv, TypeOK
<1>3. Dated' /\ InCeremony' /\ InCheck' /\ InAnswer' /\ Given'
  BY <1>1 DEF IInv, Dated, InCeremony, InCheck, InAnswer, Given, GivenFor
<1> QED BY <1>1, <1>2, <1>3, TokensKeep DEF IInv

\* The document in hand yields an IVR, or nothing.
LEMMA IssueIvrStep == IInv /\ IssueIvr => IInv'
<1> SUFFICES ASSUME IInv, IssueIvr PROVE IInv'
  OBVIOUS
<1> DEFINE new == [holder |-> work.holder, iat |-> now, exp |-> now + IvrTtl,
                   expiry |-> work.doc.expiry, chipAuth |-> ChipAuth(work.doc)]
<1>1. /\ work.stage = "verifying" /\ ivrs' \in {ivrs, ivrs \cup {new}}
      /\ work' = Idle /\ UNCHANGED <<now, signed, voucher, receipts>>
  BY DEF IssueIvr
<1>2. new \in IVRs
  <2>1. work \in [stage : {"verifying"}, holder : Keys, doc : Documents]
    BY <1>1, WorkTypes DEF IInv
  <2>2. work.holder \in Keys /\ work.doc.expiry \in Time
    BY <2>1, DisclosureAssumption
  <2>3. now \in Time /\ now + IvrTtl \in 0 .. MaxTime + IvrTtl
    BY DisclosureAssumption DEF IInv, TypeOK, Time
  <2> QED BY <2>2, <2>3 DEF IVRs, ChipAuth
<1> HIDE DEF new
<1>3. TypeOK'
  BY <1>1, <1>2 DEF IInv, TypeOK, Work
<1>4. Dated'
  <2>1. new.iat <= now'
    BY <1>1, DisclosureAssumption DEF new, IInv, TypeOK, Time
  <2> QED BY <1>1, <2>1 DEF IInv, Dated
<1>5. InCeremony' /\ InCheck' /\ InAnswer' /\ Given'
  BY <1>1 DEF IInv, Idle, InCeremony, InCheck, InAnswer, Given, GivenFor
<1>6. ivrs \subseteq ivrs'
  BY <1>1
<1> QED BY <1>1, <1>3, <1>4, <1>5, <1>6, TokensKeep DEF IInv

\* A hold on an offered voucher settles and delivers nothing.
LEMMA HoldKeeps ==
    ASSUME IInv, NEW v \in Offered, Hold(v), UNCHANGED receipts
    PROVE  /\ voucher' \in [Vouchers -> {"fresh", "held", "settled"}]
           /\ v # None => voucher'[v] = "held"
           /\ Given'
<1>1. voucher' \in [Vouchers -> {"fresh", "held", "settled"}]
  BY DEF IInv, TypeOK, Hold
<1>2. v # None => voucher'[v] = "held"
  BY DEF Hold, Offered
<1>3. Given'
  <2> SUFFICES ASSUME NEW w \in Vouchers
               PROVE  /\ voucher'[w] = "settled" <=> voucher[w] = "settled"
                      /\ GivenFor(w)' = GivenFor(w)
    BY DEF IInv, Given
  <2>1. w = v => voucher[w] = "fresh"
    BY DisclosureAssumption DEF Offered
  <2> QED BY <2>1 DEF Hold, GivenFor
<1> QED BY <1>1, <1>2, <1>3

\* A call is taken and its ceremony established.
LEMMA ProveStep == IInv /\ Prove => IInv'
<1> SUFFICES ASSUME IInv, Prove PROVE IInv'
  OBVIOUS
<1>1. PICK call \in [ivr : ivrs, key : Keys, sig : signed \cup {None}, rp : Audiences,
                     claim : Claims, voucher : Offered, paidFor : Audiences \cup {None}],
           attested \in BOOLEAN :
          /\ call.paidFor \in RpIdHeader(call.voucher)
          /\ Preflight(call, attested)
          /\ Len(receipts) < MaxReceipts
          /\ Hold(call.voucher)
          /\ work' = [stage |-> "established", call |-> call, since |-> now]
          /\ UNCHANGED <<now, ivrs, signed, receipts>>
  BY DEF Prove
<1>2. call \in Calls /\ call.voucher \in Offered
  BY <1>1 DEF IInv, TypeOK, Calls, Offered
<1>3. /\ voucher' \in [Vouchers -> {"fresh", "held", "settled"}]
      /\ call.voucher # None => voucher'[call.voucher] = "held"
      /\ Given'
  BY <1>1, <1>2, HoldKeeps
<1>4. TypeOK'
  <2>1. work' \in Work
    BY <1>1, <1>2 DEF IInv, TypeOK, Work
  <2> QED BY <1>1, <1>3, <2>1 DEF IInv, TypeOK
<1>5. Dated' /\ TokensSound'
  BY <1>1, TokensKeep DEF IInv, Dated
<1>6. now \in call.ivr.iat .. call.ivr.exp
  <2>1. call.ivr \in ivrs /\ call.ivr \in IVRs
    BY <1>1, <1>2 DEF Preflight, Calls
  <2>2. now \in Int /\ call.ivr.iat \in Int /\ call.ivr.exp \in Int
    BY <2>1, DisclosureAssumption DEF IInv, TypeOK, IVRs, Time
  <2> QED BY <1>1, <2>1, <2>2 DEF IInv, Dated, Preflight
<1>7. InCeremony'
  <2>1. Admitted(call, now)'
    BY <1>1, <1>6 DEF Admitted, Preflight, Covered, RpIdHeader
  <2>2. now <= now' /\ call.sig # None => call.sig \in signed'
    BY <1>1 DEF IInv, TypeOK, Time
  <2> QED BY <1>1, <1>3, <2>1, <2>2 DEF InCeremony, Admitted, IInv, TypeOK, Time
<1>8. InCheck' /\ InAnswer'
  BY <1>1 DEF InCheck, InAnswer
<1> QED BY <1>3, <1>4, <1>5, <1>7, <1>8 DEF IInv

\* An answer without a token, for a voucher that is held, keeps the invariant.
LEMMA EmptyAnswer ==
    ASSUME IInv,
           work' \in [stage : {"answered"}, voucher : Vouchers \cup {None}, established : BOOLEAN,
                      status : {400, 500}, receipt : {0}],
           work'.voucher # None => voucher'[work'.voucher] = "held",
           voucher' \in [Vouchers -> {"fresh", "held", "settled"}],
           Given', UNCHANGED <<now, ivrs, signed, receipts>>
    PROVE  IInv'
<1>1. TypeOK'
  <2>1. work' \in Work
    BY DEF Work, Answers
  <2> QED BY <2>1 DEF IInv, TypeOK
<1>2. Dated' /\ InCeremony' /\ InCheck' /\ InAnswer'
  BY DEF IInv, Dated, InCeremony, InCheck, InAnswer
<1> QED BY <1>1, <1>2, TokensKeep DEF IInv

\* A call is refused.
LEMMA RefuseCallStep == IInv /\ RefuseCall => IInv'
<1> SUFFICES ASSUME IInv, RefuseCall PROVE IInv'
  OBVIOUS
<1>1. PICK v \in Offered, status \in {400, 500} :
          /\ Hold(v)
          /\ work' = [stage |-> "answered", status |-> status, voucher |-> v, receipt |-> 0,
                      established |-> FALSE]
          /\ UNCHANGED <<now, ivrs, signed, receipts>>
  BY DEF RefuseCall
<1>2. v \in Vouchers \cup {None}
  BY DEF Offered
<1>3. /\ voucher' \in [Vouchers -> {"fresh", "held", "settled"}] /\ Given'
      /\ v # None => voucher'[v] = "held"
  BY <1>1, HoldKeeps
<1>4. /\ work' \in [stage : {"answered"}, voucher : Vouchers \cup {None}, established : BOOLEAN,
                     status : {400, 500}, receipt : {0}]
      /\ work'.voucher = v
  BY <1>1, <1>2
<1> QED BY <1>1, <1>3, <1>4, EmptyAnswer

\* The holder check is made; the ceremony goes on.
LEMMA CheckHolderStep == IInv /\ CheckHolder => IInv'
<1> SUFFICES ASSUME IInv, CheckHolder PROVE IInv'
  OBVIOUS
<1> DEFINE next == [stage |-> "checked", call |-> work.call, since |-> work.since,
                    checked |-> now, byHolder |-> HolderChecked(work.call)]
<1>1. /\ work.stage = "established" /\ work' = next
      /\ UNCHANGED <<now, ivrs, signed, voucher, receipts>>
  BY DEF CheckHolder
<1>2. work.call \in Calls /\ work.since \in Time
  BY <1>1, WorkTypes DEF IInv
<1>3. /\ next.stage = "checked" /\ next.call = work.call /\ next.since = work.since
      /\ next.checked = now /\ next.byHolder = HolderChecked(work.call)
  OBVIOUS
<1>4. TypeOK'
  <2>1. next \in Work
    <3>1. HolderChecked(work.call) \in BOOLEAN
      BY DEF HolderChecked
    <3> QED BY <1>2, <3>1 DEF Work, IInv, TypeOK
  <2> QED BY <1>1, <2>1 DEF IInv, TypeOK
<1> HIDE DEF next
<1>5. Dated' /\ InAnswer' /\ Given'
  BY <1>1, <1>3 DEF IInv, Dated, InAnswer, Given, GivenFor
<1>6. InCeremony'
  <2>1. Admitted(work.call, work.since) /\ work.since <= now
    BY <1>1 DEF IInv, InCeremony
  <2>2. Admitted(work.call, work.since)'
    BY <1>1, <1>3, <2>1 DEF Admitted, Covered, RpIdHeader
  <2> QED BY <1>1, <1>3, <2>1, <2>2 DEF IInv, InCeremony
<1>7. InCheck'
  <2>1. HolderChecked(work.call) => AskedFor(work.call, now)
    <3> SUFFICES ASSUME HolderChecked(work.call) PROVE AskedFor(work.call, now)
      OBVIOUS
    <3>1. work.call.sig \in signed
      BY <1>1 DEF IInv, InCeremony, HolderChecked
    <3> QED BY <3>1 DEF AskedFor, HolderChecked
  <2>2. work.since <= now
    BY <1>1 DEF IInv, InCeremony
  <2>3. (work.byHolder => AskedFor(work.call, work.checked))'
    BY <1>1, <1>3, <2>1 DEF AskedFor
  <2> QED BY <1>1, <1>3, <2>2, <2>3 DEF InCheck
<1> QED BY <1>1, <1>4, <1>5, <1>6, <1>7, TokensKeep DEF IInv

\* Minting a sound token for the call under way keeps the invariant.
LEMMA MintStep ==
    ASSUME IInv, work.stage = "checked", concludeUnchanged,
           NEW outcome \in {"proof", "failure"}, NEW retryable \in BOOLEAN,
           NEW opened \in BOOLEAN, NEW faceMatch \in BOOLEAN,
           Mint(outcome, retryable, opened, faceMatch),
           outcome = "proof" \/ opened => work.byHolder,
           outcome = "proof" => /\ work.call.claim # DocumentValid => opened
                                /\ work.call.claim = HolderPresent => faceMatch,
           retryable <=> /\ outcome = "failure" /\ work.call.claim = HolderPresent
                         /\ opened /\ ~faceMatch
    PROVE  IInv'
<1> SUFFICES ASSUME NEW t,
                    t = [call |-> work.call, outcome |-> outcome, retryable |-> retryable,
                         since |-> work.since, checked |-> work.checked, opened |-> opened,
                         faceMatch |-> faceMatch, delivered |-> FALSE]
             PROVE  IInv'
  OBVIOUS
<1> DEFINE n == Len(receipts) + 1
<1>1. /\ receipts' = Append(receipts, t)
      /\ work' = [stage |-> "answered", status |-> 200, voucher |-> work.call.voucher,
                  receipt |-> n, established |-> TRUE]
      /\ UNCHANGED <<now, ivrs, signed, voucher>>
  BY DEF Mint, Answered, concludeUnchanged
<1>2. /\ work.call \in Calls /\ work.since \in Time /\ work.checked \in Time
      /\ receipts \in Seq(Receipts)
  BY WorkTypes DEF IInv, TypeOK
<1>3. t \in Receipts
  BY <1>2 DEF Receipts
<1>4. /\ DOMAIN receipts' = 1 .. n /\ n \in Nat /\ n # 0 /\ DOMAIN receipts = 1 .. (n - 1)
      /\ receipts'[n] = t /\ \A i \in DOMAIN receipts : receipts'[i] = receipts[i]
  BY <1>1, <1>2, <1>3
<1>5. TypeOK'
  <2>1. n \in 1 .. MaxReceipts
    BY <1>2, DisclosureAssumption DEF IInv, InCeremony
  <2>2. work.call.voucher \in Vouchers \cup {None}
    BY <1>2 DEF Calls
  <2>3. work' \in Work
    BY <1>1, <2>1, <2>2 DEF Work, Answers
  <2>4. receipts' \in Seq(Receipts)
    BY <1>1, <1>2, <1>3
  <2> QED BY <1>1, <2>3, <2>4 DEF IInv, TypeOK
<1>6. Dated' /\ InCeremony' /\ InCheck'
  BY <1>1 DEF IInv, Dated, InCeremony, InCheck
<1>7. InAnswer'
  BY <1>1, <1>4 DEF IInv, InCeremony, InAnswer
<1>8. TokensSound'
  <2>1. Sound(t)
    <3>1. Admitted(t.call, t.since) /\ t.since <= t.checked
      BY DEF IInv, InCeremony, InCheck
    <3>2. t.outcome = "proof" \/ t.opened => AskedFor(t.call, t.checked)
      BY DEF IInv, InCheck
    <3> QED BY <3>1, <3>2 DEF Sound
  <2>2. \A i \in DOMAIN receipts : Sound(receipts[i])
    BY DEF IInv, TokensSound
  <2>3. \A i \in DOMAIN receipts' : Sound(receipts'[i])
    BY <1>4, <2>1, <2>2
  <2> SUFFICES ASSUME NEW i \in DOMAIN receipts' PROVE Sound(receipts[i])'
    BY DEF TokensSound
  <2>4. UNCHANGED <<ivrs, signed>> /\ Sound(receipts'[i])
    BY <1>1, <2>3
  <2> QED BY <2>4 DEF Sound, Admitted, AskedFor, Covered, RpIdHeader
<1>9. Given'
  <2> SUFFICES ASSUME NEW v \in Vouchers PROVE GivenFor(v)' = GivenFor(v)
    BY <1>1, <1>4 DEF IInv, Given
  <2> QED BY <1>4 DEF GivenFor
<1> QED BY <1>5, <1>6, <1>7, <1>8, <1>9 DEF IInv

\* A ceremony that ends without a token charges nothing.
LEMMA UnchargedStep ==
    ASSUME IInv, work.stage = "checked", concludeUnchanged, UNCHANGED receipts,
           NEW status \in {400, 500}, Answered(status, 0)
    PROVE  IInv'
<1>1. work' = [stage |-> "answered", status |-> status, voucher |-> work.call.voucher,
               receipt |-> 0, established |-> TRUE]
  BY DEF Answered
<1>2. UNCHANGED <<now, ivrs, signed, voucher, receipts>>
  BY DEF concludeUnchanged
<1>3. work.call.voucher \in Vouchers \cup {None}
  BY WorkTypes DEF IInv, Calls
<1>4. work.call.voucher # None => voucher'[work.call.voucher] = "held"
  BY <1>2 DEF IInv, InCeremony
<1>5. voucher' \in [Vouchers -> {"fresh", "held", "settled"}] /\ Given'
  BY <1>2 DEF IInv, TypeOK, Given, GivenFor
<1>6. /\ work' \in [stage : {"answered"}, voucher : Vouchers \cup {None}, established : BOOLEAN,
                     status : {400, 500}, receipt : {0}]
      /\ work'.voucher = work.call.voucher
  BY <1>1, <1>3
<1> QED BY <1>2, <1>4, <1>5, <1>6, EmptyAnswer

\* A checked ceremony concludes: with a token, an unusable face or an unexpected exception.
LEMMA ConcludeStep == IInv /\ Conclude => IInv'
<1> SUFFICES ASSUME IInv, Conclude PROVE IInv'
  OBVIOUS
<1>1. CASE RefuseHolder
  BY <1>1, MintStep DEF RefuseHolder
<1>2. CASE Derive
  <2>1. CASE Mint("proof", FALSE, work.call.claim # DocumentValid, FALSE)
    BY <1>2, <2>1, MintStep DEF Derive
  <2>2. CASE Mint("failure", FALSE, FALSE, FALSE)
    BY <1>2, <2>2, MintStep DEF Derive
  <2> QED BY <1>2, <2>1, <2>2 DEF Derive
<1>3. CASE DerivePresence
  <2>1. /\ work.stage = "checked" /\ work.byHolder /\ concludeUnchanged
        /\ work.call.claim = HolderPresent
    BY <1>3 DEF DerivePresence
  <2>2. ASSUME NEW opened \in BOOLEAN, NEW faceMatch \in BOOLEAN, Presence(opened, faceMatch)
        PROVE  IInv'
    <3>1. CASE ~opened
      BY <2>1, <2>2, <3>1, MintStep DEF Presence
    <3>2. CASE opened /\ faceMatch
      BY <2>1, <2>2, <3>2, MintStep DEF Presence
    <3>3. CASE opened /\ ~faceMatch
      BY <2>1, <2>2, <3>3, MintStep DEF Presence
    <3> QED BY <3>1, <3>2, <3>3
  <2>3. CASE UNCHANGED receipts /\ Answered(400, 0)
    BY <2>1, <2>3, UnchargedStep
  <2> QED BY <1>3, <2>2, <2>3 DEF DerivePresence
<1>4. CASE DeriveRaises
  BY <1>4, UnchargedStep DEF DeriveRaises
<1> QED BY <1>1, <1>2, <1>3, <1>4 DEF Conclude

\* The runtime takes the answer: a 200 settles the voucher and hands over the token.
LEMMA AnswerStep == IInv /\ Answer => IInv'
<1> SUFFICES ASSUME IInv, Answer PROVE IInv'
  OBVIOUS
<1>1. /\ work.stage = "answered" /\ work' = Idle
      /\ UNCHANGED <<now, ivrs, signed>>
      /\ voucher' = [v \in Vouchers |->
                        IF v # work.voucher THEN voucher[v]
                        ELSE IF work.status = 200 THEN "settled" ELSE "fresh"]
      /\ receipts' = IF work.receipt = 0 THEN receipts
                     ELSE [receipts EXCEPT ![work.receipt].delivered = TRUE]
  BY DEF Answer
<1>2. /\ receipts \in Seq(Receipts)
      /\ work.receipt # 0 => work.receipt \in DOMAIN receipts
  BY <1>1 DEF IInv, TypeOK, InAnswer
<1>3. /\ DOMAIN receipts' = DOMAIN receipts
      /\ \A i \in DOMAIN receipts :
             receipts'[i] = IF i = work.receipt THEN [receipts[i] EXCEPT !.delivered = TRUE]
                            ELSE receipts[i]
  <2>1. CASE work.receipt = 0
    <3>1. \A i \in DOMAIN receipts : i # 0
      BY <1>2
    <3> QED BY <1>1, <2>1, <3>1
  <2>2. CASE work.receipt # 0
    <3>1. receipts' = [receipts EXCEPT ![work.receipt] = [@ EXCEPT !.delivered = TRUE]]
      BY <1>1, <2>2
    <3> QED BY <1>2, <2>2, <3>1
  <2> QED BY <2>1, <2>2
<1>4. \A i \in DOMAIN receipts :
          /\ receipts[i] \in Receipts /\ receipts'[i] \in Receipts
          /\ receipts'[i].call = receipts[i].call /\ receipts'[i].outcome = receipts[i].outcome
          /\ receipts'[i].retryable = receipts[i].retryable /\ receipts'[i].since = receipts[i].since
          /\ receipts'[i].checked = receipts[i].checked /\ receipts'[i].opened = receipts[i].opened
          /\ receipts'[i].faceMatch = receipts[i].faceMatch
          /\ receipts'[i].delivered = (receipts[i].delivered \/ i = work.receipt)
  <2> SUFFICES ASSUME NEW i \in DOMAIN receipts, NEW s, NEW t, s = receipts[i], t = receipts'[i]
               PROVE  /\ s \in Receipts /\ t \in Receipts
                      /\ t.call = s.call /\ t.outcome = s.outcome /\ t.retryable = s.retryable
                      /\ t.since = s.since /\ t.checked = s.checked /\ t.opened = s.opened
                      /\ t.faceMatch = s.faceMatch
                      /\ t.delivered = (s.delivered \/ i = work.receipt)
    OBVIOUS
  <2>1. s \in Receipts
    BY <1>2
  <2>2. CASE i = work.receipt
    <3>1. t = [s EXCEPT !.delivered = TRUE]
      BY <1>3, <2>2
    <3> QED BY <2>1, <2>2, <3>1 DEF Receipts
  <2>3. CASE i # work.receipt
    <3>1. t = s
      BY <1>3, <2>3
    <3>2. s.delivered \in BOOLEAN
      BY <2>1 DEF Receipts
    <3> QED BY <2>1, <2>3, <3>1, <3>2
  <2> QED BY <2>2, <2>3
<1>5. TypeOK'
  <2>1. receipts' \in Seq(Receipts)
    <3>1. CASE work.receipt = 0
      BY <1>1, <1>2, <3>1
    <3>2. CASE work.receipt # 0
      <4>1. receipts' = [receipts EXCEPT ![work.receipt] = receipts'[work.receipt]]
        BY <1>1, <1>2, <3>2
      <4>2. receipts'[work.receipt] \in Receipts
        BY <1>2, <1>4, <3>2
      <4> QED BY <1>2, <3>2, <4>1, <4>2
    <3> QED BY <3>1, <3>2
  <2>2. voucher' \in [Vouchers -> {"fresh", "held", "settled"}]
    BY <1>1 DEF IInv, TypeOK
  <2> QED BY <1>1, <2>1, <2>2 DEF IInv, TypeOK, Work
<1>6. Dated' /\ InCeremony' /\ InCheck' /\ InAnswer'
  BY <1>1 DEF IInv, Dated, Idle, InCeremony, InCheck, InAnswer
<1>7. TokensSound'
  <2> SUFFICES ASSUME NEW i \in DOMAIN receipts PROVE Sound(receipts[i])'
    BY <1>3 DEF TokensSound
  <2>1. Sound(receipts[i])
    BY DEF IInv, TokensSound
  <2>2. /\ receipts'[i].call = receipts[i].call /\ receipts'[i].outcome = receipts[i].outcome
        /\ receipts'[i].retryable = receipts[i].retryable /\ receipts'[i].since = receipts[i].since
        /\ receipts'[i].checked = receipts[i].checked /\ receipts'[i].opened = receipts[i].opened
        /\ receipts'[i].faceMatch = receipts[i].faceMatch
    BY <1>4
  <2> QED BY <1>1, <2>1, <2>2 DEF Sound, Admitted, AskedFor, Covered, RpIdHeader
<1>8. Given'
  <2> SUFFICES ASSUME NEW v \in Vouchers
               PROVE  IF voucher'[v] = "settled" THEN \E i \in DOMAIN receipts' : GivenFor(v)' = {i}
                      ELSE GivenFor(v)' = {}
    BY DEF Given
  <2>1. GivenFor(v)' = {i \in DOMAIN receipts : (receipts[i].delivered \/ i = work.receipt)
                                                /\ receipts[i].call.voucher = v}
    <3>1. GivenFor(v)' = {i \in DOMAIN receipts : receipts'[i].delivered
                                                  /\ receipts'[i].call.voucher = v}
      BY <1>3 DEF GivenFor
    <3>2. ASSUME NEW i \in DOMAIN receipts
          PROVE  /\ receipts'[i].delivered <=> receipts[i].delivered \/ i = work.receipt
                 /\ receipts'[i].call = receipts[i].call
      <4>1. /\ receipts'[i].delivered = (receipts[i].delivered \/ i = work.receipt)
            /\ receipts'[i].call = receipts[i].call
        BY <1>4
      <4> QED BY <4>1, Zenon
    <3> QED BY <3>1, <3>2, Zenon
  <2>2. CASE v = work.voucher /\ work.status = 200
    <3>1. /\ work.receipt \in DOMAIN receipts /\ receipts[work.receipt].call.voucher = v
          /\ voucher[v] = "held"
      BY <1>1, <2>2, DisclosureAssumption DEF IInv, InAnswer
    <3>2. GivenFor(v) = {}
      BY <3>1 DEF IInv, Given
    <3>3. GivenFor(v)' = {work.receipt}
      BY <2>1, <3>1, <3>2 DEF GivenFor
    <3> QED BY <1>1, <1>3, <2>2, <3>1, <3>3
  <2>3. CASE v = work.voucher /\ work.status # 200
    <3>1. work.receipt = 0 /\ voucher[v] = "held" /\ receipts' = receipts
      BY <1>1, <2>3, DisclosureAssumption DEF IInv, InAnswer
    <3> QED BY <1>1, <2>3, <3>1 DEF IInv, Given, GivenFor
  <2>4. CASE v # work.voucher
    <3>1. GivenFor(v)' = GivenFor(v)
      BY <1>1, <1>2, <2>1, <2>4 DEF IInv, InAnswer, GivenFor
    <3> QED BY <1>1, <1>3, <2>4, <3>1 DEF IInv, Given
  <2> QED BY <2>2, <2>3, <2>4
<1> QED BY <1>5, <1>6, <1>7, <1>8 DEF IInv

\* The process dies; what it was at is gone.
LEMMA CrashStep == IInv /\ Crash => IInv'
<1> SUFFICES ASSUME IInv, Crash PROVE IInv'
  OBVIOUS
<1>1. work' = Idle /\ UNCHANGED <<now, ivrs, signed, voucher, receipts>>
  BY DEF Crash
<1>2. TypeOK' /\ Dated' /\ InCeremony' /\ InCheck' /\ InAnswer' /\ Given'
  BY <1>1 DEF IInv, TypeOK, Work, Idle, Dated, InCeremony, InCheck, InAnswer, Given, GivenFor
<1> QED BY <1>1, <1>2, TokensKeep DEF IInv

\* The runtime releases a voucher that no call at hand came with.
LEMMA GiveUpStep == IInv /\ GiveUp => IInv'
<1> SUFFICES ASSUME IInv, GiveUp PROVE IInv'
  OBVIOUS
<1>1. PICK v \in Vouchers \ {InHand} :
          /\ voucher[v] = "held" /\ voucher' = [voucher EXCEPT ![v] = "fresh"]
          /\ UNCHANGED <<now, ivrs, signed, work, receipts>>
  BY DEF GiveUp
<1>2. TypeOK'
  BY <1>1 DEF IInv, TypeOK
<1>3. Dated'
  BY <1>1 DEF IInv, Dated
<1>4. InCeremony' /\ InCheck'
  <2>1. now \in Int
    BY DEF IInv, TypeOK, Time
  <2>2. work.stage \in {"established", "checked"} =>
            (work.call.voucher # None => voucher'[work.call.voucher] = "held")
    BY <1>1 DEF IInv, TypeOK, InCeremony, InHand
  <2> QED BY <1>1, <2>1, <2>2, CeremonyKeeps
<1>5. InAnswer'
  BY <1>1 DEF IInv, TypeOK, InAnswer, InHand
<1>6. Given'
  <2> SUFFICES ASSUME NEW w \in Vouchers
               PROVE  /\ voucher'[w] = "settled" <=> voucher[w] = "settled"
                      /\ GivenFor(w)' = GivenFor(w)
    BY <1>1 DEF IInv, Given
  <2> QED BY <1>1 DEF IInv, TypeOK, GivenFor
<1> QED BY <1>1, <1>2, <1>3, <1>4, <1>5, <1>6, TokensKeep DEF IInv

LEMMA IInvStep == IInv /\ [Next]_vars => IInv'
<1> SUFFICES ASSUME IInv, [Next]_vars PROVE IInv'
  OBVIOUS
<1>1. CASE UNCHANGED vars
  <2>1. TypeOK' /\ Dated' /\ InAnswer' /\ Given'
    BY <1>1 DEF vars, IInv, TypeOK, Dated, InAnswer, Given, GivenFor
  <2>2. InCeremony' /\ InCheck'
    <3>1. now \in Int
      BY DEF IInv, TypeOK, Time
    <3> QED BY <1>1, <3>1, CeremonyKeeps DEF vars, IInv, InCeremony
  <2> QED BY <1>1, <2>1, <2>2, TokensKeep DEF vars, IInv
<1> QED BY <1>1, TickStep, SignStep, VerifyIdentityStep, IssueIvrStep, ProveStep, RefuseCallStep,
           CheckHolderStep, ConcludeStep, AnswerStep, CrashStep, GiveUpStep DEF Next

\* The inductive invariant.
LEMMA Inductive == Spec => []IInv
BY IInvInit, IInvStep, PTL DEF Spec

-----------------------------------------------------------------------------
\* Types are kept.
THEOREM DisclosureTypeCorrect == Spec => []TypeOK
<1>1. IInv => TypeOK
  BY DEF IInv
<1> QED BY <1>1, Inductive, PTL

\* A voucher is settled for exactly one token, for a claim it covers and, where the
\* runtime names the buyer, the buyer's; an unsettled one has bought nothing: the money
\* and the tokens agree through any crashes, retries, exceptions and lost answers.
THEOREM MoneyMatchesTokens == Spec => []SettledForItsToken
<1>1. IInv => SettledForItsToken
  <2> SUFFICES ASSUME IInv, NEW v \in Vouchers
               PROVE  /\ Cardinality(GivenFor(v)) = IF voucher[v] = "settled" THEN 1 ELSE 0
                      /\ \A i \in GivenFor(v) :
                            /\ receipts[i].call.claim \in Covers[v]
                            /\ receipts[i].call.paidFor # None => receipts[i].call.rp = PaidBy[v]
    BY DEF SettledForItsToken
  <2>1. Cardinality(GivenFor(v)) = IF voucher[v] = "settled" THEN 1 ELSE 0
    BY FS_EmptySet, FS_Singleton DEF IInv, Given
  <2>2. ASSUME NEW i \in GivenFor(v)
        PROVE  /\ receipts[i].call.claim \in Covers[v]
               /\ receipts[i].call.paidFor # None => receipts[i].call.rp = PaidBy[v]
    <3>1. receipts[i].call.voucher = v /\ v # None /\ Admitted(receipts[i].call, receipts[i].since)
      BY <2>2, DisclosureAssumption DEF IInv, TokensSound, Sound, GivenFor
    <3> QED BY <3>1 DEF Admitted, Covered, RpIdHeader
  <2> QED BY <2>1, <2>2
<1> QED BY <1>1, Inductive, PTL

\* Without a voucher only the holder's own audiences get a token.
THEOREM NothingIsFree == Spec => []UnpaidOnlyForSelf
<1>1. IInv => UnpaidOnlyForSelf
  BY DEF IInv, TokensSound, Sound, Admitted, Covered, UnpaidOnlyForSelf
<1> QED BY <1>1, Inductive, PTL

\* A proof is made for the holder of an IVR that was live when the ceremony was
\* established, who signed for it close to the holder check, of what the IVR committed
\* to; however long the derivation then takes.
THEOREM ProofsAreEarned == Spec => []ProofPassedEveryGate
<1>1. IInv => ProofPassedEveryGate
  BY DEF IInv, TokensSound, Sound, Admitted, AskedFor, HolderStoodBy, ProofPassedEveryGate
<1> QED BY <1>1, Inductive, PTL

\* A failure is retryable exactly if the holder asked, by the clock of the holder check,
\* the certified portrait was supplied, and the face alone did not match.
THEOREM RetryableTellsTheFace == Spec => []RetryableMeansFaceOnly
<1>1. IInv => RetryableMeansFaceOnly
  BY DEF IInv, TokensSound, Sound, AskedFor, HolderStoodBy, RetryableMeansFaceOnly
<1> QED BY <1>1, Inductive, PTL
=============================================================================
