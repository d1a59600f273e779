# A TLA+ verification of the identity verifier

The repository is a confidential app that reads a passport's chip data inside an
enclave, checks it (Passive and Active Authentication, a face match), and hands the
wallet an identity-verification receipt (IVR). Later it derives from that IVR, for a
relying party and against a voucher, a signed disclosure: an age band, a nationality,
the liveness of the holder. This directory models the parts of it that carry its logic,
checks the models with TLC and proves theorems about them with TLAPS. Paths and line
numbers are those of the repository.

## Inventory

The server is one process with one thread: `HTTPServer` (`main.py:621`), so handlers do
not interleave with each other. What does interleave with a handler is a crash and the
platform's restart, the container manager (HTTP calls with a 5 s timeout,
`manager.py:42`), the runtime in front of the app (it holds a voucher while a call runs
and settles or releases it by the status of the answer), the clients of other
connections, the wallets, and time.

| component | state | operations | made correct by | module |
|---|---|---|---|---|
| provisioning: `main.py` `_configure` and `main`, `trust_anchors.py`, `wia.py`, `manager.py` | `_CONFIGURED`; `trust_anchors.pem` and `wallet_provider_jwks.json` on the sealed volume; the extensions of the RA-TLS leaf and the routing gate, both kept by the manager | POST /configure, startup self-recovery | no service without anchors; the leaf attests what is in force; a refusal changes nothing; a configured verifier comes back configured | `AnchorLifecycle`, `ConfigureThenFreeze` |
| identity verification: `main.py` `_verify_identity`, `_check_active_auth`, `verification.py`, `aa.py`, `wia.py` `verify_wia`, `crypto.py` `verify_jwt_jwks`, the gates of `biometrics.py` | none in the enclave: the challenge is a signed token, IVRs live with wallets | POST /verify-identity, POST /aa-challenge | an IVR is earned at every gate, each read at its own moment; `chip_auth` means the chip was there; a clone yields no IVR | `IdentityCheck` |
| disclosures: `main.py` `_prove`, `_do_*`, `receipt.py` | none in the enclave: vouchers are the runtime's | POST /prove/* | a voucher pays for one token, of its buyer where the runtime names one; a proof passed every gate; a failure receipt does not say too much | `Disclosure` |
| ages: `mrz.py` `_date`, `receipt.py` `_age_from`, `_band_label` | the certified date in an IVR | certify, prove age-over and age-band | ages are true, grow, and agree with bands | `Ages` |
| reading the page: `mrz.py` check digits, `_candidates`, `mrz_access_fields`, `main.py` `_read_mrz` | none | POST /read-mrz | a good picture opens the chip; a recoverable one is not refused; a wrong key needs a nearer collision | `AccessKey` |
| signing key: `crypto.py` `SigningKey.load` | `signing_key.pem` on the sealed volume; `_SIGNING_KEY` | a process's start | on the platform the key in use is the volume's; one key among processes; a restart does not change it | `SigningKeyStore` |
| master lists: `master_list.py` | none; its result is the trust anchors | called by /configure | the anchors come from a list that chains to the pinned root | `TrustChains` |
| Passive Authentication: `passive_auth.py` | none | called by /verify-identity | what passes traces to the pinned root and was valid when signed | `TrustChains` |
| HTTP framing: `main.py` `Handler`, 81-236, and the server loop | the listen queue, one connection, `_CONFIGURED` | accept, read, route, drain, answer | who stays gets an answer; a 503 is the freeze as it is; everyone is served if nobody stalls | `HttpServer` |
| face match, liveness: `biometrics.py` | models in memory | inference | not logic: outcomes; that a missing model refuses is in `IdentityCheck` | partly |
| OCR engine: `doc_ocr.py` | models in memory | inference | not logic: what a picture may be read as is an input of `AccessKey` | partly |
| scripts, CI, store listing (`privasys.json`) | none | | statements to check the code against | not modelled |

How they interact. /configure stores what `master_list.py` extracts, `passive_auth.py`
reads it for every document; a page that is read opens a chip; an authentic document, a
chip and a face make an IVR; an IVR with a holder's signature makes a disclosure. The
signing key signs challenges, IVRs and disclosures and verifies the first two when they
come back. The keys by which wallets are attested are stored and attested like the
anchors and are read by both flows. All of it goes through the one HTTP thread, and
through the freeze that /configure lifts.

What is hard here, and hard to test (the list with its lines is `hazards` in
`PROJECT.json`): crashes between two of the writes and manager calls of /configure; a
manager call that times out and lands later, in another boot; a startup whose first
failing call skips the second; a voucher held when the process dies, or whose answer is
lost; a clock that passes an expiry inside a call, whose gates are read at different
moments; a challenge that is not remembered; a key file that exists before its bytes do;
the order of certificates that share a name; an early refusal of a large upload; a client
that goes quiet before the only thread; two corrections with one check digit; the
century of a two-digit year.

## The modules

**ConfigureThenFreeze** is the promise to a relying party: a verifier that is open has
anchors, and anchors are exchanged but never withdrawn. It has two variables.

**AnchorLifecycle** is how the code keeps it. `pc` is the place of the one thread in
`main()` or in `_configure`; each write of a file (tmp and rename, one step for the
readers) and each manager call is an action, because each can fail, and because the
process can die after each. `disk` is the volume, `leaf` and `gate` the manager's side,
`late` the calls that timed out here and may still arrive. `Raises` gives a manager call
its three bad outcomes (never delivered, delivered with the answer lost, late); where the
code catches the exception (the boot) it goes on, where it does not (/configure) the call
answers 500. `before`, `persisted`, `unsure`, `resumed`, `granted` are history variables,
read by no guard. Refinement: `inForce <- disk.anchors`, `open <- configured`.

**Disclosure** models the flow around an IVR. `work` is the call in the handler: an
identity check in two steps (`VerifyIdentity`, `IssueIvr`), or a call of a prove
endpoint, which is refused (`RefuseCall`: 400, or 500 for a field of the wrong type) or
passes the preflight and is established (`Prove`). Then the holder check reads the clock
(`CheckHolder`), and only after it, possibly much later, comes what follows from it: a
failure receipt (`RefuseHolder`), a derivation (`Derive`, `DerivePresence`), or an
exception that `do_POST` answers with 500 (`DeriveRaises`). `Answer` ends the call.
`Tick`, `Sign`, `Crash` and `GiveUp` can come between any two of these, the holder check
and the minting included, so the request's window is held to the moment of the check
(`checked`), and a token may well be made outside it. The signature covers the IVR, the
party and the time, not the claim; the properties say no more. A document is a record
that says what its checks would find, a signed request is a member of `signed`, and the
commitment openings and the face match are choices. `voucher` is the runtime's ledger and
`receipts` the history of all tokens minted, delivered or not. A call has the runtime's
two headers, the voucher and the party it was minted for (`paidFor`), and the second may
be absent (`RpIdHeader`). Assumed: a presented holder key is a well-formed point (where the
attestation is required, `wia.py:138` parses the key before the ceremony is established);
the kinds of JWS the enclave signs cannot be taken for each other, their payloads having
different shapes (`receipt.py:108-119`). Exhaustion of memory or of the stack inside a
ceremony is left out. Failure receipts carry the presented key in `cnf`,
not the bound one. The signals an IVR only records are left out.

**IdentityCheck** opens up the identity check, which Disclosure has as one outcome, into
the gates of the code at the moments at which they are read: the wallet attestation
against the provider keys in force, Passive Authentication's verdict and the document's
expiry (`Accept`), Active Authentication after the page was read (`ActiveAuth`), the face
and the date on the IVR at the end (`FaceMatch`). A refused call changes nothing, so it
is a missing step before `work` is taken and a return to `Idle` after. The provider's
keys are exchanged between calls under the same kid (`Rotate`), attestations, challenge
tokens and chip signatures come from earlier and grow old (`Attest`, `AaChallenge`,
`ChipSigns`, `Tick`), a token can be answered any number of times because the enclave
does not remember it, and readers can bring a challenge of their own without a token.
`trusted` and the call recorded in an IVR are history. **It implements Disclosure**: with
the ledger, the signed requests and the receipts empty, `Issuing!Spec` is the part of
Disclosure that issues IVRs, under the mapping `Shown` and `Certified`.

**AccessKey** is the loop in front of the chip: a picture (`Photograph`, external: what
OCR makes of it), /read-mrz (`ReadMrz`), the chip (`TryChip`), another picture
(`Retake`). The pure part is translated operator by operator: `CharValue`, `CheckDigit`,
the look-alike tables as relations, `Swaps` (sets of at most two positions),
`Candidates`, the sort key `Rank` with its order `Before`, `BestReading`. A correction is
the set of positions it swaps, not the text it makes, so that the code's list of tuples
becomes a set with an order. A field is a sequence of any length; the code's lengths
(9 and 6) enter only through the slicing, which is left out with the other fields of the
row.

**Ages** follows a date of birth from the two digits of the page through the century that
`_date` gives it on the day of the verification, to the ages and bands that are proved on
later days from the certified date. Days are calendar dates; `Fail` is the charged failure
of a date that `strptime` rejects.

**HttpServer** has the listening queue, `serve_forever`'s one connection at a time, a
request that arrives in pieces (`Send`) from a client that may stop or hang up, and the
handler's path through header, freeze, body, handler and drain. What handlers compute is
a status. Closing a connection with unread bytes loses the answer, so `AnswerReachesClient`
speaks of what was read at the close.

**SigningKeyStore** interleaves any number of processes in `SigningKey.load`: look, read
or generate, create exclusively, write. The file exists, torn, between `Create` and
`Write`; `Write` may fall short, because `os.write`'s count is not looked at; `Flush` and
`PowerLoss` are there because nothing is fsynced. `made` and `durable` are history.

**TrustChains** has the climb of `_verify_chain_to_root` as a step machine (`at`, `pos`,
`depth` are the recursion's frame; the code's recursion returns whatever the deeper call
returns, so no stack is needed), then the check of documents against the anchors that
the climb put in force. A certificate says which key really signed it, so `Issued` is
both the comparison of names and the verification of a signature. `Chained` is a
reference definition that does not follow the code: a signer is chained if it is in
every set that has the pinned root and what its members issued.

The modules named `MC...` define the constants and symmetries of the runs; those named
`...Proofs` hold the theorems.

## The runs

| run | asks | bounds | states |
|---|---|---|---|
| `anchors` | configure-then-freeze under refused inputs, failing writes, failed, lost and late manager calls, crashes anywhere; the refinement; that the server comes back to taking calls, and that a configured one stays open | 2 anchor sets and 2 JWKS (one in force, one to replace it), 1 late call | 1 280 000 |
| `anchor_wallet_keys_doc` | is the JWKS always attested? (violated) | no late call | |
| `identity` | what an IVR stands for, with every gate at its own moment; the refinement of Disclosure | 2 wallets, 2 provider keys under one kid, 3 chips (EC, RSA, forged), 1 enclave and 1 reader challenge, an image with and without the liveness model, clock 0..2, lifetimes 1, 1 attestation, 1 chip signature, 1 IVR | 1 040 000 |
| `disclosure` | what is settled, what is proved, and what a failure receipt tells | 2 keys, 1 shop and the wallet's own audience, 1 voucher, 3 claims, clock 0..2, IVR lifetime 1, window 0, 1 IVR, 1 signed request, 2 tokens | 4 850 000 |
| `disclosure_charged_doc` | is an established ceremony always charged? (violated) | as above | |
| `disclosure_expiry_doc` | is an IVR bounded by its document? (violated) | as above, with a document that expires at 0 | |
| `access_key` | what misread pages give, picture after picture | every number of 4 characters from {1, O, 6} and two others, full and partly unknown dates, up to 3 misreads in one field, any check character misread | 147 000 |
| `ages` | ages and bands around birthdays, leap days, a new year and a hundredth birthday | 7 days, 11 births, thresholds 0, 18 and 65, 3 sets of bands, IVRs of 180 days, 2 proofs | 203 000 |
| `http_server` | answers, the freeze, and that everyone is served | 2 clients that come back, a backlog of 2, 8 kinds of request of up to 2 pieces of body | 79 000 |
| `signing_key` | one key, from the volume, for good | 3 processes, 4 keys, 1 external key, symmetric | 1 700 |
| `signing_key_loser_doc` | can a later start read the key file? (violated) | as above | |
| `trust_chains` | anchors and documents trace to the pin; what a runaway climb needs | 6 CA certificates in every order of up to two and of two triples, documents and signers at the edges of their periods, recursion limit 5 | 33 000 |

Why the bounds are enough. Two anchor sets and two JWKS show a stale value as different
from the current one; a third would behave as one of these. One late call is enough for
any of them to land in a later boot, or after a newer value. In `identity` the clock can
pass the end of the attestation, the challenge, the signature's moment and the document
between any two gates; one attestation and one signature are enough for a wrong holder, a
wrong provider key, a wrong chip or a wrong challenge, since the call names each on its
own. In `disclosure` the clock can pass both the end of the IVR and the window of the
request between any two steps, before the holder check and between it and the minting; two tokens and one voucher are enough to pay once for two,
or twice for one; one IVR and two keys are enough for the wrong key. In `access_key`
positions 1 and 4 of a number have the same weight, so swaps can cancel out in the check
digit, which is the collision the ranking is for; three misreads are one more than the
code corrects. In `ages` the days lie on both sides of every date that the computation
distinguishes. In `http_server` two clients are enough for one to wait behind the other;
the backlog is full with both. Four keys let each of three processes generate one, and
one of them a second time. The lists of `trust_chains` hold the root, a link certificate
of the same key, a namesake, a CA below the root, and two that certify each other, which
is every way two CA certificates can stand to each other in the climb; `MaxDepth` 5 is
more than their number needs for an honest climb, so the limit is only reached by running
in the circle.

Deadlock is checked in all runs but `ages`, whose calendar ends: on its last day the
holder of a passport that is refused has nothing left to do.

Each property has a mutant in `PROJECT.json`: a form of one definition with a plausible
bug, which TLC finds to violate the property. The bug forms stand beside the definitions
they vary, marked "Bug form", and no action uses them.

**Fairness.** `AnchorLifecycle!FairSpec`: weak fairness of `Start`, because the platform
restarts a dead container; of `SelfRecovery` and `Configure`, because the thread runs its
code and each manager call ends within its 5 s timeout, one way or the other. Nothing is
assumed of the owner, of crashes, or of late calls. Its liveness properties are
conditional on crashes stopping (`CrashesStop`): a verifier that crashes for ever need
not serve. `LateArrival` needs no fairness: a call that never lands is a lost one.
`HttpServer!FairSpec`: weak fairness of the server's own steps for each client, because
the thread runs; nothing is assumed of the clients, so `Served` is conditional on no
client stalling the thread for ever. Without that condition it does not hold, because no read
has a timeout.

## What the checks found

Four statements of the repository that the code does not keep, each a run whose
counterexample TLC prints (`findings` in `PROJECT.json` quotes them):

1. `wia.py:14-18` says the wallet provider's keys are attested like the anchors. If a
   JWKS is configured before any master list, and the process restarts, the next
   /configure with a list alone opens the service without the JWKS in the leaf: the
   startup republishes only `if trust_anchors.load()` (`main.py:588`).
2. `main.py:461-466` says an established ceremony is charged, pass or fail. A
   presence ceremony whose selfie has no face, or does not decode, ends in 400, and a
   derivation that raises any other exception (a salt that is no string, bands that are no
   list, an image buffer OpenCV rejects) in 500 (`main.py:235-236`). Neither is settled.
3. `config.py:69` bounds an IVR by the document's expiry; `receipt.py:103` does not.
4. `crypto.py:179-180` says a concurrent loser reads the winner's key on next start; a
   crash or a short write after the exclusive create leaves a file no start can read.

Seen on the way, without a run of their own:

- Requests and challenges: `privasys.json:211` calls the nonce replay protection; no nonce
  is recorded (`receipt.py:130-149`), and the same request proves again within 300 s, and any claim, since none is
  signed (`receipt.py:124-127`).
  `aa.py:14-16` says the challenge must come from the verifier; one without a token is
  accepted (`main.py:357-361`, which says so). A client may leave DG15 out, and
  `chip_auth` is then false.
- Vouchers: `main.py:57-64` says the voucher's buyer is compared with the party of the
  disclosure; a voucher that comes without its buyer is served for any party
  (`main.py:522`), as `tests/test_http.py:236-242` asserts. `SettledForItsToken` therefore
  holds a token to the buyer only where the runtime names one.
- Chains: `master_list.py:53` says the signer is verified to chain to the pinned root;
  the climb gives up on the first certificate of the right name and key, so the order of
  a link certificate and the root decides.
- The page: `mrz.py:262-265` says a misread cannot yield a wrong key; two look-alike
  corrections can share a check digit, as the comment at 282-285 admits
  (`WrongNumberIsNearer` says exactly when), and a G read for a 6, or a 6 for a G, is
  never noticed, because the two have values equal modulo ten (`OneLookAlikeIsNoticed`;
  every other single look-alike is). A page whose dates have a filler is
  never accepted (`mrz.py:273`).
- Ages: an age below the lowest band is labelled with the first band
  (`receipt.py:276-283`; `privasys.json` calls boundaries lower-inclusive). From the year
  of the hundredth birthday on, the certified century is wrong. A date of birth with 00
  for an unknown part is certified, and then every age proof of it is a charged failure.
- HTTP: a body on which `json.loads` raises anything but `JSONDecodeError` (bytes that are
  not UTF-8, an integer of too many digits, lists nested too deeply) is caught by no handler
  of `do_POST` or `_configure` at that place, so the connection closes without an answer. A method without a handler is answered 501 by the base class, undrained. The
  comment at `main.py:583-587` ("without draining") is out of date.
- `trust_anchors.py:93-95` says an unreachable manager is answered with False, but it
  raises; `main.py:558-560` says a non-match of presence releases the voucher, but it is
  a failure receipt, charged; `config/readme.md` has POST /trust-anchors, which answers
  410.

## What is proved

The proofs hold for every value of the constants that the named ASSUMEs of the modules
allow: any set of anchor lists, wallet keys, processes and clients, any number of late
calls, tokens and vouchers, lists, certificates and fields of any length and shape.

**AnchorLifecycleProofs.** `IInv` is inductive: to the properties it adds `Position`
(what the program counter says of the call and of the volume), `Opening` (no open gate,
nor a late call that would open it, without anchors), `Persistence` (what is published
was persisted, and what is on the volume too), `Volume` (how far the call at hand has
changed the volume since it came) and `Attestation` (what the leaf attests at each
location). The properties alone are not inductive: `OpenOnlyWithAnchors` needs that
`config_complete` is only ever sent, and only ever arrives, after the anchors are there,
and `RefusalIsInert` needs what was written before the step that refuses. The theorems
are `TypeCorrect`, `FreezeLiftsOnlyWithAnchors`, `PersistBeforePublish`,
`AttestationMatches`, `AnswerIsTrue`, `RefusalChangesNothingElse`,
`ConfigurationSurvives`, and `AnchorsImplementPromise`, the refinement of
ConfigureThenFreeze.

**IdentityCheckProofs.** `IdentityTypeCorrect`, `IvrsAreEarned`, `ChipsWereThere`,
`NoFailedChip`. The strengthening: the keys in force are recorded as in force now
(`InForce`), a nonce belongs to one token and is signed only after the token was made
(`Challenged`), and a call under way has what its IVR will be held to (`Underway`), which
sets and histories that only grow then keep true (`AllEarned`). `IdentityImplementsIssuing`
is the refinement of Disclosure; it needs one fact more, `Mappable`: before the face, the
`chip_auth` at hand is the one Disclosure computes from the chip shown. Each action maps
to a step of Disclosure or to a stutter, one lemma for each.

**DisclosureProofs.** `DisclosureTypeCorrect`, `MoneyMatchesTokens`, `NothingIsFree`,
`ProofsAreEarned`, `RetryableTellsTheFace`. The properties speak of tokens that are made;
the strengthening says what a ceremony under way has passed
(`InCeremony`), what the holder check found as of its own moment, which no later tick
changes (`InCheck`), that an answer
on its way is a 200 exactly if it carries an undelivered token of the voucher that is held
(`InAnswer`), what a token's making leaves for good (`TokensSound`), and that each voucher
has given one token if it is settled and none if it is not (`Given`).

**AccessKeyProofs.** `ExactReadsOpen`, `RecoverableNotRefused`, `AccessKeyTypeCorrect`
and `LookAlikesMisleadLittle`, and `OneChangeIsNoticed`, which says of fields of any
length what the check digit is for. The invariant is small, since what a picture leads to
is a function of the picture; the work is in the functions. The first two theorems do not
depend on what a check digit is: a page satisfies its own; the empty swap of a valid text
precedes every other in the ranking, which starts with the number of swaps; the positions
at which a picture differs by look-alikes are a candidate that gives back the page; and in
a date, where corrections turn letters to digits and never back, they are the only one.
The others need what folds and choices yield. A fold over a finite set has a value, and a
sum the value expected of it: the least size at which that fails would not be the least
(`FoldExists`, `SumSolves`). Two texts that differ in one character therefore have weighted
sums that differ by that character's part, and 7, 3 and 1 are prime to ten
(`CheckOfOneChange`). `BestExists` is the lexicographic minimum: the ranks of the candidates
are rows of naturals, equally long and no two equal (`RanksDiffer`), so that at each place
some have the least number, and in the end one is left (`FirstOfAll`).

**AgesProofs.** `AgesTypeCorrect`, `AgesAreTrueAlways`, `AgesOnlyGrow`, `BandsAgreeAlways`,
for all dates of 1901 to 2099. The strengthening ties each proof to the date certified on
the day of its IVR, which is the true one before the year of the hundredth birthday; the
arithmetic lemma is that the birthdays up to a day are as many as `_age_from` subtracts.

**HttpServerProofs.** `HttpTypeCorrect`, `AnswersReachClients`, `FreezeHoldsToTheAnswer`.
The strengthening: at most one client is being served (`Alone`), and at each stage as much
of the request is known as the code has looked at (`AllKept`); `FreezeIsCurrent` needs
`Alone`, because it is the single thread that keeps others from lifting the freeze between
the look at it and the answer. `WaitsShorten` is the part of `Served` that is safety: with
`StepsToGo`, which counts five for each place in the queue and what is left of the
connection in hand, nobody who waits has more than 5 * Backlog + 4 steps of the server
before the own connection is closed, each of the server's steps leaves fewer for everyone,
and no step of a client adds one. So nobody is overtaken, and only a stalled thread can
keep a client waiting; that a thread that is not stalled takes its steps is left to TLC.

**SigningKeyStoreProofs.** `KeyTypeCorrect`, `CustodyIsTheVolume`, `OneKey`,
`DurableKey`, for any number of processes, and `KeyFileStays`, an action property: no step
but a power loss before the flush replaces a whole key file. The strengthening says that at most one
process is past its exclusive create and the file is torn until it has written
(`Writing`), that keys in hand were generated and are distinct (`Generated`), that a
process serves only once the file exists (`Serving`), and that what is flushed stays
(`Durability`).

**TrustChainsProofs.** `ChainsTypeCorrect`, `AnchorsChainToPin`, `DocumentsTraceToPin`,
`RunawaysAreCircles`. The strengthening, `Climbing`, says that whatever certificate the
climb has arrived at, the list's signer descends from it. Descent is defined through closed
sets, as `Chained` is, so a step of the climb is a step of logic and needs no induction
over the chain. For the runaway climb there must be more: `Trail` says that the climb has
left behind it a row of certificates of the list, as long as it is deep, each issued by the
next. When it comes to a certificate of the row again, what lies between is a circle
(`ReturnIsCircle`); if it never does, the row is without repetition and longer than the
list has certificates, unless those are more than the recursion may be deep
(`LongTrailIsCircle`, a pigeonhole argument).

Only model-checked: liveness (`TakesCallsAgain`, `StaysOpen`, `Served`), which is out of
the prover's reach with fairness and ENABLED. Every invariant and every other action
property or refinement that a passing run checks is also a theorem.

## What is not modelled

- The cross-reference of the photographed page with the chip (`cross_reference`, its edit
  distance and DG11): its result is recorded and gates nothing. The plain fields of
  `parse_dg1`, and a negative Content-Length.
- Face, liveness and OCR inference, image decoding, the choice of the two rows of an MRZ:
  outcomes and inputs.
- CMS, ASN.1 and DER parsing, key encodings, digests and signature algorithms: one outcome
  per list, document or signature.
- The clock of the enclave is taken to be monotonic.
- In `AnchorLifecycle` a crash kills the process and leaves the volume; that the two files
  are renamed without fsync, and could be lost to a power failure, is modelled for the
  signing key alone.
- `IdentityCheck` takes the provider keys in force as given by `Rotate`; that they are
  attested, survive restarts and come only with anchors is `AnchorLifecycle`'s, and the two
  are not composed.
- The configuration script, the validation tools, CI and the store listing.

## Plan

Done so far: the core (provisioning, disclosures, signing key, chains), then the identity
check and its refinement, the page, ages, the HTTP server, and proofs for each. Left, in
this order:

1. `Verifier`: `AnchorLifecycle` composed with `IdentityCheck`, so that a freeze, a
   restart and a stored but unattested JWKS come between a wallet's calls.
2. Power loss for the anchor files, in `AnchorLifecycle`.
3. The cross-reference, as operators against a reference definition of edit distance.
