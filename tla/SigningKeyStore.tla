--------------------------- MODULE SigningKeyStore ---------------------------
(***************************************************************************)
(* The custody of the verifier's signing key (SigningKey.load, crypto.py   *)
(* 139-194): every process resolves its key when it starts, generates one  *)
(* only if the sealed volume has none, and creates the key file            *)
(* exclusively.  The write is not atomic: the file exists, empty, before   *)
(* its bytes do, a write can fail or fall short, and nothing is fsynced.   *)
(*                                                                         *)
(* main.py loads the key when it is imported, before it listens, so a      *)
(* process whose load raises never serves.  PEM text is abstract: a file   *)
(* holds a whole key or bytes that are no key.                             *)
(***************************************************************************)
EXTENDS FiniteSets

CONSTANTS Procs,         \* verifier processes that share the volume
          Keys,          \* keys that can be generated, a bound on how many are
          ExternalKeys,  \* keys of IDENTITY_VERIFIER_SIGNING_KEY_PEM
          NoFile,        \* the key file does not exist
          Torn,          \* it is empty or cut short
          NoKey          \* a process without a key

ASSUME KeysAssumption ==
    /\ Keys \cap ExternalKeys = {}
    /\ NoKey \notin Keys \cup ExternalKeys
    /\ {NoFile, Torn} \cap (Keys \cup ExternalKeys \cup {NoKey}) = {}
    /\ NoFile # Torn

VARIABLES platform,   \* PRIVASYS_IMAGE_DIGEST is set, the same for every start
          file,       \* the key file as processes see it
          flushed,    \* and whether a power loss leaves it so
          pc,         \* where each process is
          key,        \* the key each process has loaded or generated
          made,       \* history: the keys generated so far
          durable     \* history: the whole key that first reached the disk

vars == <<platform, file, flushed, pc, key, made, durable>>

-----------------------------------------------------------------------------
fileUnchanged == UNCHANGED <<platform, file, flushed, durable>>

Serve(p, k) == pc' = [pc EXCEPT ![p] = "serving"] /\ key' = [key EXCEPT ![p] = k]

Die(p) == pc' = [pc EXCEPT ![p] = "down"] /\ key' = [key EXCEPT ![p] = NoKey]

Goto(p, location) == pc' = [pc EXCEPT ![p] = location]

\* A key never generated before, for process p.
Generate(p) ==
    \E k \in Keys \ made :
        /\ made' = made \cup {k}
        /\ key' = [key EXCEPT ![p] = k]

\* Bug form: an unusable volume is survived with a key of the process's own.
AlwaysEphemeral(p) ==
    \E k \in Keys \ made : made' = made \cup {k} /\ Serve(p, k)

\* An OSError under the try: fatal on the platform, an ephemeral key in development.
OnOSError(p) ==
    \/ platform /\ Die(p) /\ UNCHANGED made
    \/ ~platform /\ \E k \in Keys \ made : made' = made \cup {k} /\ Serve(p, k)

\* Bug form: an external key is taken on the platform too.
TrustingStart(p) ==
    /\ pc[p] = "down"
    /\ \/ Goto(p, "look") /\ UNCHANGED key
       \/ \E k \in ExternalKeys : Serve(p, k)
    /\ UNCHANGED made /\ fileUnchanged

\* A start without an external key looks at the volume.  One with an external key
\* serves it in development; on the platform load refuses, and there is no process.
Start(p) ==
    /\ pc[p] = "down"
    /\ \/ Goto(p, "look") /\ UNCHANGED key
       \/ ~platform /\ \E k \in ExternalKeys : Serve(p, k)
    /\ UNCHANGED made /\ fileUnchanged

\* os.path.exists decides between reading a key and generating one.
Look(p) ==
    /\ pc[p] = "look"
    /\ \/ file # NoFile /\ Goto(p, "read") /\ UNCHANGED <<key, made>>
       \/ file = NoFile /\ Goto(p, "create") /\ Generate(p)
    /\ fileUnchanged

\* Bug form: what the file holds is used unparsed.
UnparsedRead(p) ==
    /\ pc[p] = "read"
    /\ Serve(p, file) /\ UNCHANGED made
    /\ fileUnchanged

\* The file is read: a whole key serves, other bytes raise ValueError, which is
\* not caught, and a read that fails is an OSError.
Read(p) ==
    /\ pc[p] = "read"
    /\ \/ file \in Keys /\ Serve(p, file) /\ UNCHANGED made
       \/ file \notin Keys /\ Die(p) /\ UNCHANGED made
       \/ OnOSError(p)
    /\ fileUnchanged

\* Bug form: the file is opened without O_EXCL, and truncated.
SharedCreate(p) ==
    /\ pc[p] = "create"
    /\ Goto(p, "write") /\ file' = Torn /\ flushed' = FALSE
    /\ UNCHANGED <<platform, key, made, durable>>

\* The exclusive create: it fails if another process was first, or if the volume
\* cannot be written.
Create(p) ==
    /\ pc[p] = "create"
    /\ \/ /\ file = NoFile
          /\ file' = Torn /\ flushed' = FALSE
          /\ Goto(p, "write")
          /\ UNCHANGED <<key, made>>
       \/ OnOSError(p) /\ UNCHANGED <<file, flushed>>
    /\ UNCHANGED <<platform, durable>>

\* One os.write, whose count is not looked at: the whole key, some of it, or an
\* OSError, which leaves the file empty.
Write(p) ==
    /\ pc[p] = "write"
    /\ \/ /\ file' = key[p] /\ flushed' = FALSE
          /\ Serve(p, key[p]) /\ UNCHANGED made
       \/ Serve(p, key[p]) /\ UNCHANGED <<file, flushed, made>>
       \/ OnOSError(p) /\ UNCHANGED <<file, flushed>>
    /\ UNCHANGED <<platform, durable>>

-----------------------------------------------------------------------------
(* What the code does not control.                                         *)

Crash(p) ==
    /\ pc[p] # "down"
    /\ Die(p)
    /\ UNCHANGED made /\ fileUnchanged

\* The system writes the file back in its own time: load does not call fsync.
Flush ==
    /\ ~flushed
    /\ flushed' = TRUE
    /\ durable' = IF durable = NoKey /\ file \in Keys THEN file ELSE durable
    /\ UNCHANGED <<platform, file, pc, key, made>>

\* Every process dies, and a file not written back is lost, or found cut short.
PowerLoss ==
    /\ pc' = [p \in Procs |-> "down"]
    /\ key' = [p \in Procs |-> NoKey]
    /\ flushed' = TRUE
    /\ IF flushed THEN UNCHANGED file ELSE file' \in {NoFile, Torn}
    /\ UNCHANGED <<platform, made, durable>>

Init ==
    /\ platform \in BOOLEAN
    /\ file = NoFile /\ flushed = TRUE
    /\ pc = [p \in Procs |-> "down"]
    /\ key = [p \in Procs |-> NoKey]
    /\ made = {} /\ durable = NoKey

Process(p) == Crash(p) \/ Start(p) \/ Look(p) \/ Read(p) \/ Create(p) \/ Write(p)

Next == (\E p \in Procs : Process(p)) \/ Flush \/ PowerLoss

Spec == Init /\ [][Next]_vars

-----------------------------------------------------------------------------
(* Properties.                                                             *)

TypeOK ==
    /\ platform \in BOOLEAN /\ flushed \in BOOLEAN
    /\ file \in Keys \cup {NoFile, Torn}
    /\ pc \in [Procs -> {"down", "look", "read", "create", "write", "serving"}]
    /\ key \in [Procs -> Keys \cup ExternalKeys \cup {NoKey}]
    /\ made \subseteq Keys
    /\ durable \in Keys \cup {NoKey}

\* "The sealed volume is the ONLY acceptable custody in prod" (crypto.py:187-193): a
\* process that serves on the platform uses the key that is on the volume, or one
\* whose write fell short; never an external key nor one of its own.
ServedKeyIsOnVolume ==
    platform => \A p \in Procs : pc[p] = "serving" => file \in {key[p], Torn}

\* "Single-writer app; a concurrent loser falls through" (crypto.py:179-180): however
\* starts interleave, fail and crash, two processes never serve with two keys, so
\* what one signs the other verifies.
ServersShareOneKey ==
    platform => \A p, q \in Procs :
        (pc[p] = "serving" /\ pc[q] = "serving") => key[p] = key[q]

\* "A restart no longer rotates the JWKS and strands outstanding IVRs" (crypto.py:
\* 142-147), for a key that has reached the disk: from then on no other key is ever
\* served, through crashes, failed starts and power losses.
DurableKeyIsForKeeps ==
    (platform /\ durable # NoKey)
        => /\ file = durable
           /\ \A p \in Procs : pc[p] = "serving" => key[p] = durable

\* "A concurrent loser falls through to reading the winner's key on next start"
\* (crypto.py:179-180): once no process is writing it, a key file can be read.
LoserReadsWinnersKey ==
    (file # NoFile /\ \A p \in Procs : pc[p] # "write") => file \in Keys
=============================================================================
