--------------------------- MODULE AnchorLifecycle ---------------------------
(***************************************************************************)
(* The configure-then-freeze life of the identity verifier: how a CSCA     *)
(* master list and a wallet-provider JWKS reach the sealed volume, how     *)
(* their digests reach the RA-TLS leaf through the container manager, and  *)
(* what a restart rebuilds.  main.py serves one request at a time          *)
(* (HTTPServer, main.py:621), so a /configure call is a sequence of steps  *)
(* that no other handler interleaves; what does interleave is a crash, a   *)
(* manager that answers late or not at all, and the platform's restart.    *)
(*                                                                         *)
(* A digest stands for the input it is taken of (SHA-256 is injective      *)
(* here), so the leaf holds inputs.  An input's content is abstract: a     *)
(* master list that verifies is the anchor set extracted from it.          *)
(***************************************************************************)
EXTENDS FiniteSets, Naturals

CONSTANTS AnchorSets,  \* what a verified master list yields
          JwksDocs,    \* well-formed wallet-provider JWKS documents
          None,        \* no file on the volume, no extension in the leaf
          Absent,      \* a /configure input that was not sent
          Rejected,    \* a /configure input that its validation refuses
          Managed,     \* manager.available(): both platform variables are set
          MaxLate      \* bound: manager calls that timed out and are still in flight

ASSUME InputsAssumption ==
    /\ {None, Absent, Rejected} \cap (AnchorSets \cup JwksDocs) = {}
    /\ AnchorSets \cap JwksDocs = {}
    /\ Absent # Rejected /\ None \notin {Absent, Rejected}
    /\ Managed \in BOOLEAN
    /\ MaxLate \in Nat

VARIABLES pc,          \* where the process is
          configured,  \* _CONFIGURED: this process serves every endpoint
          disk,        \* trust_anchors.pem and wallet_provider_jwks.json on the volume
          leaf,        \* the attestation extensions in the manager's leaf
          gate,        \* the manager routes more than /configure to the app
          late,        \* manager calls that timed out here and may still land
          req,         \* the inputs of the /configure call at hand, or the last one
          answer,      \* its status: 0 until it is answered
          before,      \* history: disk when that call was accepted
          persisted,   \* history: everything ever written to each file
          unsure,      \* history: what a manager call of this boot failed on, or changed late
          resumed,     \* history: this boot found anchors on the volume
          granted      \* history: some /configure call was answered 200

vars == <<pc, configured, disk, leaf, gate, late, req, answer, before, persisted,
          unsure, resumed, granted>>

Oids == {"anchors", "jwks"}   \* TRUST_ANCHORS_OID and WALLET_PROVIDER_JWKS_OID

Requests == [anchors : AnchorSets \cup {Absent, Rejected},
             jwks : JwksDocs \cup {Absent, Rejected}]

Boot == {"bootGate", "bootAnchors", "bootJwks"}
Handling == {"storeAnchors", "attestAnchors", "storeJwks", "attestJwks",
             "checkAnchors", "completeGate", "finish"}
Locations == {"down", "idle"} \cup Boot \cup Handling

\* Bodies of the manager calls, as manager._post sends them.
Publish(oid, value) == [kind |-> oid, value |-> value]
ConfigComplete == [kind |-> "gate", value |-> None]
Posts == [kind : {"anchors"}, value : AnchorSets] \cup [kind : {"jwks"}, value : JwksDocs]
            \cup {ConfigComplete}

\* What the volume, and the leaf, can hold.
Files == [anchors : AnchorSets \cup {None}, jwks : JwksDocs \cup {None}]

-----------------------------------------------------------------------------
(* The manager.                                                            *)

\* The manager takes a call in: it sets the leaf's extension, or opens the gate.
TakesIn(post) ==
    /\ leaf' = [o \in Oids |-> IF o = post.kind THEN post.value ELSE leaf[o]]
    /\ gate' = (gate \/ post.kind = "gate")

\* A call answered below 300.
Succeeds(post) ==
    /\ TakesIn(post)
    /\ unsure' = unsure \ {post.kind}
    /\ UNCHANGED late

\* A call that raises: refused or never delivered, taken in with the answer
\* lost, or timed out after 5 s and still on its way.  "unsent" are the
\* publications that its exception skips.
Raises(post, unsent) ==
    /\ unsure' = unsure \cup {post.kind} \cup unsent
    /\ \/ UNCHANGED <<leaf, gate, late>>
       \/ TakesIn(post) /\ UNCHANGED late
       \/ /\ Cardinality(late) < MaxLate
          /\ late' = late \cup {post}
          /\ UNCHANGED <<leaf, gate>>

\* A call this process gave up on reaches the manager after all.
LateArrival ==
    \E post \in late :
        /\ TakesIn(post)
        /\ late' = late \ {post}
        /\ unsure' = unsure \cup {post.kind}
        /\ UNCHANGED <<pc, configured, disk, req, answer, before, persisted, resumed, granted>>

-----------------------------------------------------------------------------
(* The process: crash, start and self-recovery (main.py:581-623).          *)

NoRequest == [anchors |-> Absent, jwks |-> Absent]

Crash ==
    /\ pc # "down"
    /\ pc' = "down"
    /\ configured' = FALSE
    /\ UNCHANGED <<disk, leaf, gate, late, req, answer, before, persisted, unsure,
                   resumed, granted>>

\* Bug form: a start that does not look at the volume.
StartUnaware ==
    /\ pc = "down"
    /\ configured' = FALSE
    /\ leaf' = [o \in Oids |-> None]
    /\ gate' = FALSE
    /\ unsure' = {}
    /\ req' = NoRequest /\ answer' = 0 /\ before' = disk
    /\ resumed' = FALSE
    /\ pc' = "idle"
    /\ UNCHANGED <<disk, late, persisted, granted>>

\* The platform starts the container: the manager has re-armed its gate and
\* dropped the leaf's extensions; persisted anchors lift the app's own freeze.
Start ==
    /\ pc = "down"
    /\ configured' = (disk.anchors # None)
    /\ leaf' = [o \in Oids |-> None]
    /\ gate' = FALSE
    /\ unsure' = {}
    /\ req' = NoRequest /\ answer' = 0 /\ before' = disk
    /\ resumed' = (disk.anchors # None)
    /\ pc' = IF disk.anchors # None /\ Managed THEN "bootGate" ELSE "idle"
    /\ UNCHANGED <<disk, late, persisted, granted>>

bootUnchanged ==
    UNCHANGED <<configured, disk, req, answer, before, persisted, resumed, granted>>

\* Bug form: a failed config_complete() ends the process.
FatalBootGate ==
    /\ pc = "bootGate"
    /\ \/ Succeeds(ConfigComplete) /\ pc' = "bootAnchors"
       \/ Raises(ConfigComplete, {}) /\ pc' = "down"
    /\ bootUnchanged

\* config_complete(); its failure is logged and the boot goes on.
BootGate ==
    /\ pc = "bootGate"
    /\ Succeeds(ConfigComplete) \/ Raises(ConfigComplete, {})
    /\ pc' = "bootAnchors"
    /\ bootUnchanged

\* trust_anchors.republish_oid(); its failure also skips wia.republish_oid(),
\* which shares its try block.
BootAnchors ==
    /\ pc = "bootAnchors"
    /\ \/ Succeeds(Publish("anchors", disk.anchors)) /\ pc' = "bootJwks"
       \/ Raises(Publish("anchors", disk.anchors), {"jwks"}) /\ pc' = "idle"
    /\ bootUnchanged

\* Bug form: only the anchors are republished.
SkipBootJwks ==
    /\ pc = "bootJwks"
    /\ UNCHANGED <<leaf, gate, late, unsure>>
    /\ pc' = "idle"
    /\ bootUnchanged

\* wia.republish_oid(): nothing to do when no JWKS is persisted.
BootJwks ==
    /\ pc = "bootJwks"
    /\ \/ disk.jwks = None /\ UNCHANGED <<leaf, gate, late, unsure>>
       \/ disk.jwks # None /\ Succeeds(Publish("jwks", disk.jwks))
       \/ disk.jwks # None /\ Raises(Publish("jwks", disk.jwks), {})
    /\ pc' = "idle"
    /\ bootUnchanged

-----------------------------------------------------------------------------
(* POST /configure (main.py:239-297).                                      *)

managerUnchanged == UNCHANGED <<leaf, gate, late, unsure>>
callUnchanged == UNCHANGED <<req, before, resumed>>

\* A response ends the call.
Answer(status) == answer' = status /\ pc' = "idle"

\* A call with neither input, or whose body does not parse, is refused (500 for a
\* JSON body that is not an object).
RefuseEmpty ==
    /\ pc = "idle"
    /\ req' = NoRequest /\ before' = disk
    /\ \E status \in {400, 500} : Answer(status)
    /\ UNCHANGED <<configured, disk, persisted, resumed, granted>> /\ managerUnchanged

\* A call with at least one input: the list is dealt with before the JWKS.
Accept ==
    \E r \in Requests \ {NoRequest} :
        /\ pc = "idle"
        /\ req' = r /\ before' = disk /\ answer' = 0
        /\ pc' = IF r.anchors # Absent THEN "storeAnchors" ELSE "storeJwks"
        /\ UNCHANGED <<configured, disk, persisted, resumed, granted>> /\ managerUnchanged

\* The atomic replacement of one of the two files.
Replace(oid, value) ==
    /\ disk' = [disk EXCEPT ![oid] = value]
    /\ persisted' = [persisted EXCEPT ![oid] = @ \cup {value}]

\* Bug form: a list and a JWKS are alternatives.
ListOrJwks == "checkAnchors"

afterAnchors == IF req.jwks = Absent THEN "checkAnchors" ELSE "storeJwks"

afterStoredAnchors == IF Managed THEN "attestAnchors" ELSE afterAnchors

\* Bug form: the file is written before the list is verified.
UnverifiedStoreAnchors ==
    /\ pc = "storeAnchors"
    /\ Replace("anchors", req.anchors)
    /\ \/ req.anchors = Rejected /\ Answer(400)
       \/ req.anchors # Rejected /\ pc' = afterStoredAnchors /\ UNCHANGED answer
    /\ UNCHANGED <<configured, granted>> /\ callUnchanged /\ managerUnchanged

\* Bug form: a failed write is swallowed and the digest published anyway.
SwallowingStoreAnchors ==
    /\ pc = "storeAnchors"
    /\ req.anchors # Rejected
    /\ Replace("anchors", req.anchors) \/ UNCHANGED <<disk, persisted>>
    /\ pc' = afterStoredAnchors
    /\ UNCHANGED <<configured, answer, granted>> /\ callUnchanged /\ managerUnchanged

\* Bug form: the old file is removed before the new one is written.
RemovingStoreAnchors ==
    /\ pc = "storeAnchors"
    /\ req.anchors # Rejected
    /\ \/ disk' = [disk EXCEPT !.anchors = None] /\ UNCHANGED persisted /\ Answer(500)
       \/ Replace("anchors", req.anchors) /\ pc' = afterStoredAnchors /\ UNCHANGED answer
    /\ UNCHANGED <<configured, granted>> /\ callUnchanged /\ managerUnchanged

\* master_list.verify_and_extract, then set_anchors up to the replaced file.
\* A list that does not verify answers 400 (500 for an exception of another
\* kind); a volume that cannot be written answers 500.
StoreAnchors ==
    /\ pc = "storeAnchors"
    /\ \/ /\ req.anchors = Rejected
          /\ \E status \in {400, 500} : Answer(status)
          /\ UNCHANGED <<disk, persisted>>
       \/ /\ req.anchors # Rejected
          /\ Answer(500)
          /\ UNCHANGED <<disk, persisted>>
       \/ /\ req.anchors # Rejected
          /\ Replace("anchors", req.anchors)
          /\ pc' = afterStoredAnchors /\ UNCHANGED answer
    /\ UNCHANGED <<configured, granted>> /\ callUnchanged /\ managerUnchanged

\* set_anchors publishes the digest of what it has just written.
AttestAnchors ==
    /\ pc = "attestAnchors"
    /\ \/ Succeeds(Publish("anchors", req.anchors)) /\ pc' = afterAnchors /\ UNCHANGED answer
       \/ Raises(Publish("anchors", req.anchors), {}) /\ Answer(500)
    /\ UNCHANGED <<configured, disk, persisted, granted>> /\ callUnchanged

\* wia.set_jwks up to the replaced file, with the answers of StoreAnchors.
StoreJwks ==
    /\ pc = "storeJwks"
    /\ \/ /\ req.jwks = Rejected
          /\ \E status \in {400, 500} : Answer(status)
          /\ UNCHANGED <<disk, persisted>>
       \/ /\ req.jwks # Rejected
          /\ Answer(500)
          /\ UNCHANGED <<disk, persisted>>
       \/ /\ req.jwks # Rejected
          /\ Replace("jwks", req.jwks)
          /\ pc' = (IF Managed THEN "attestJwks" ELSE "checkAnchors") /\ UNCHANGED answer
    /\ UNCHANGED <<configured, granted>> /\ callUnchanged /\ managerUnchanged

AttestJwks ==
    /\ pc = "attestJwks"
    /\ \/ Succeeds(Publish("jwks", req.jwks)) /\ pc' = "checkAnchors" /\ UNCHANGED answer
       \/ Raises(Publish("jwks", req.jwks), {}) /\ Answer(500)
    /\ UNCHANGED <<configured, disk, persisted, granted>> /\ callUnchanged

\* Bug form: a JWKS alone lifts the freeze.
UncheckedAnchors ==
    /\ pc = "checkAnchors"
    /\ pc' = (IF Managed THEN "completeGate" ELSE "finish") /\ UNCHANGED answer
    /\ UNCHANGED <<configured, disk, persisted, granted>> /\ callUnchanged /\ managerUnchanged

\* A JWKS alone does not lift the freeze: anchors must be on the volume.
CheckAnchors ==
    /\ pc = "checkAnchors"
    /\ \/ disk.anchors = None /\ Answer(400)
       \/ /\ disk.anchors # None
          /\ pc' = (IF Managed THEN "completeGate" ELSE "finish") /\ UNCHANGED answer
    /\ UNCHANGED <<configured, disk, persisted, granted>> /\ callUnchanged /\ managerUnchanged

CompleteGate ==
    /\ pc = "completeGate"
    /\ \/ Succeeds(ConfigComplete) /\ pc' = "finish" /\ UNCHANGED answer
       \/ Raises(ConfigComplete, {}) /\ Answer(500)
    /\ UNCHANGED <<configured, disk, persisted, granted>> /\ callUnchanged

\* The freeze is lifted for the rest of this process's life.
Finish ==
    /\ pc = "finish"
    /\ configured' = TRUE
    /\ granted' = TRUE
    /\ Answer(200)
    /\ UNCHANGED <<disk, persisted>> /\ callUnchanged /\ managerUnchanged

-----------------------------------------------------------------------------
Init ==
    /\ pc = "down"
    /\ configured = FALSE
    /\ disk = [o \in Oids |-> None]
    /\ leaf = [o \in Oids |-> None]
    /\ gate = FALSE
    /\ late = {}
    /\ req = NoRequest
    /\ answer = 0
    /\ before = disk
    /\ persisted = [o \in Oids |-> {}]
    /\ unsure = {}
    /\ resumed = FALSE
    /\ granted = FALSE

SelfRecovery == BootGate \/ BootAnchors \/ BootJwks
Configure == \/ StoreAnchors \/ AttestAnchors \/ StoreJwks \/ AttestJwks
             \/ CheckAnchors \/ CompleteGate \/ Finish
Owner == Accept \/ RefuseEmpty

Next == Start \/ SelfRecovery \/ Owner \/ Configure \/ Crash \/ LateArrival

Spec == Init /\ [][Next]_vars

(* The platform restarts a dead container and the process keeps running its *)
(* code; neither the owner's calls, nor crashes, nor the arrival of a call  *)
(* given up on, is owed to anyone.                                          *)
Fairness == WF_vars(Start) /\ WF_vars(SelfRecovery) /\ WF_vars(Configure)
FairSpec == Spec /\ Fairness

-----------------------------------------------------------------------------
(* Properties.                                                             *)

TypeOK ==
    /\ pc \in Locations
    /\ configured \in BOOLEAN
    /\ disk \in Files
    /\ leaf \in Files
    /\ gate \in BOOLEAN
    /\ late \in SUBSET Posts
    /\ req \in Requests
    /\ answer \in {0, 200, 400, 500}
    /\ before \in Files
    /\ persisted \in [anchors : SUBSET AnchorSets, jwks : SUBSET JwksDocs]
    /\ unsure \in SUBSET (Oids \cup {"gate"})
    /\ resumed \in BOOLEAN
    /\ granted \in BOOLEAN

\* "The freeze only lifts once the CSCA anchors exist" (main.py:275-277): neither
\* the app's own freeze nor the manager's gate is ever open without anchors on the
\* volume, whatever calls were refused, lost or late before.
OpenOnlyWithAnchors == (configured \/ gate) => disk.anchors # None

\* Persist before publish (trust_anchors.py:74-82, wia.py:90-98): the leaf never
\* attests a digest of something the volume has not held, nor does a call in flight.
LeafAttestsOnlyPersisted ==
    /\ \A o \in Oids : leaf[o] # None => leaf[o] \in persisted[o]
    /\ \A post \in late : post.kind \in Oids => post.value \in persisted[post.kind]

\* What relying parties pin is what is in force (trust_anchors.py:7-11): between
\* calls, a serving verifier on the platform attests exactly the files it uses,
\* except where one of this boot's manager calls failed or came late, and except
\* for a JWKS that the boot found on the volume without anchors beside it.
ServedIsAttested ==
    (pc = "idle" /\ configured /\ Managed)
        => /\ \A o \in Oids \ unsure :
                  leaf[o] = disk[o] \/ (o = "jwks" /\ ~resumed /\ leaf[o] = None)
           /\ "gate" \notin unsure => gate

\* A 200 from /configure (main.py:292-297) means every input it carried is the one
\* in force and the service is open.
AnswerMeansInForce ==
    (pc = "idle" /\ answer = 200)
        => /\ configured
           /\ disk.anchors # None
           /\ req.anchors # Absent => disk.anchors = req.anchors
           /\ req.jwks # Absent => disk.jwks = req.jwks

\* A 400 from /configure (main.py:278-288) leaves the volume as it was, but for the
\* two inputs that are stored before the refusal is known: a good list sent
\* with a bad JWKS, and a JWKS sent before any list.
RefusalIsInert ==
    (pc = "idle" /\ answer = 400)
        => \/ disk = before
           \/ /\ req.anchors \in AnchorSets /\ req.jwks = Rejected
              /\ disk = [before EXCEPT !.anchors = req.anchors]
           \/ /\ req.anchors = Absent /\ disk.anchors = None
              /\ disk = [before EXCEPT !.jwks = req.jwks]

\* "Lift the startup freeze if trust anchors were already loaded on a previous run"
\* (main.py:582-587): once an owner was answered 200, every process that answers
\* requests is open, whatever restarted it.
ConfiguredSurvivesRestart == (granted /\ pc \notin {"down"}) => configured

\* The promise: open only with anchors, anchors exchanged and never withdrawn.
Promise == INSTANCE ConfigureThenFreeze WITH inForce <- disk.anchors, open <- configured
ImplementsPromise == Promise!Spec

CrashesStop == <>[][~Crash]_vars

\* Self-recovery is never fatal (main.py:600, 610): with crashes over, the server
\* returns again and again to where it takes calls, even if every manager call fails.
TakesCallsAgain == CrashesStop => []<>(pc = "idle")

\* A verifier that was once configured is, with crashes over, open for good.
StaysOpen == CrashesStop => (granted ~> []configured)

\* wia.py:14-18: the JWKS's digest is published "exactly like the CSCA anchors, so a
\* relying party can pin which wallet-provider keys the verifier trusts": when no
\* manager call of this boot failed or came late, a serving verifier attests its JWKS.
WalletKeysAttested ==
    (pc = "idle" /\ configured /\ Managed /\ "jwks" \notin unsure)
        => leaf.jwks = disk.jwks
=============================================================================
