------------------------ MODULE SigningKeyStoreProofs ------------------------
(***************************************************************************)
(* The custody properties of SigningKeyStore for any number of processes   *)
(* and any keys.                                                           *)
(***************************************************************************)
EXTENDS SigningKeyStore, TLAPS

\* Exclusive creation: at most one process is writing, into a file with no key yet.
Writing ==
    /\ \A p \in Procs : pc[p] = "write" => file = Torn
    /\ \A p, q \in Procs : (pc[p] = "write" /\ pc[q] = "write") => p = q

\* A process on its way to writing a key has generated one.
Generated == \A p \in Procs : pc[p] \in {"create", "write"} => key[p] \in Keys

\* On the platform nobody serves while a process is writing, and a file cut short
\* has at most one server, the process that wrote it.
Serving ==
    platform => \A p, q \in Procs :
        pc[p] = "serving" => /\ pc[q] # "write"
                             /\ (pc[q] = "serving" /\ file = Torn) => p = q

Durability == durable # NoKey => file = durable /\ flushed

IInv ==
    /\ TypeOK
    /\ Writing
    /\ Generated
    /\ Serving
    /\ ServedKeyIsOnVolume
    /\ Durability

-----------------------------------------------------------------------------
\* Before any start there is no process, no file and no key.
LEMMA IInvInit == Init => IInv
BY DEF Init, IInv, TypeOK, Writing, Generated, Serving, ServedKeyIsOnVolume, Durability

\* A step of one process keeps the types.
LEMMA ProcessTypes ==
    ASSUME TypeOK, Generated, NEW p \in Procs, Process(p)
    PROVE  TypeOK'
<1>1. CASE Start(p)
  BY <1>1 DEF Start, Serve, Goto, fileUnchanged, TypeOK
<1>2. CASE Look(p)
  BY <1>2 DEF Look, Generate, Goto, fileUnchanged, TypeOK
<1>3. CASE Read(p)
  BY <1>3 DEF Read, OnOSError, Serve, Die, fileUnchanged, TypeOK
<1>4. CASE Create(p)
  BY <1>4 DEF Create, OnOSError, Serve, Die, Goto, TypeOK
<1>5. CASE Write(p)
  BY <1>5 DEF Write, OnOSError, Serve, Die, Generated, TypeOK
<1>6. CASE Crash(p)
  BY <1>6 DEF Crash, Die, fileUnchanged, TypeOK
<1> QED BY <1>1, <1>2, <1>3, <1>4, <1>5, <1>6 DEF Process

\* A step of one process keeps the rest of the invariant.
LEMMA ProcessStep ==
    ASSUME IInv, NEW p \in Procs, Process(p)
    PROVE  IInv'
<1> USE KeysAssumption DEF IInv
<1>0. TypeOK'
  BY ProcessTypes
<1>1. CASE Start(p)
  BY <1>0, <1>1 DEF Start, Serve, Goto, fileUnchanged, TypeOK, Writing, Generated,
                    Serving, ServedKeyIsOnVolume, Durability
<1>2. CASE Look(p)
  BY <1>0, <1>2 DEF Look, Generate, Goto, fileUnchanged, TypeOK, Writing, Generated,
                    Serving, ServedKeyIsOnVolume, Durability
<1>3. CASE Read(p)
  BY <1>0, <1>3 DEF Read, OnOSError, Serve, Die, fileUnchanged, TypeOK, Writing, Generated,
                    Serving, ServedKeyIsOnVolume, Durability
<1>4. CASE Create(p)
  <2>1. CASE pc'[p] = "write"
    <3>1. file = NoFile /\ file' = Torn /\ durable = NoKey /\ durable' = NoKey
      BY <1>4, <2>1 DEF Create, OnOSError, Serve, Die, TypeOK, Durability
    <3>2. UNCHANGED <<platform, key>> /\ pc' = [pc EXCEPT ![p] = "write"]
      BY <1>4, <2>1 DEF Create, OnOSError, Serve, Die, Goto, TypeOK
    <3>3. platform => \A q \in Procs : pc[q] # "serving"
      BY <3>1 DEF ServedKeyIsOnVolume, TypeOK
    <3>4. \A q \in Procs : pc[q] # "write"
      BY <3>1 DEF Writing
    <3>5. Generated'
      BY <1>4, <3>2 DEF Create, Generated, TypeOK
    <3> QED BY <1>0, <3>1, <3>2, <3>3, <3>4, <3>5
            DEF TypeOK, Writing, Serving, ServedKeyIsOnVolume, Durability
  <2>2. CASE pc'[p] # "write"
    BY <1>0, <1>4, <2>2 DEF Create, OnOSError, Serve, Die, Goto, TypeOK, Writing, Generated,
                            Serving, ServedKeyIsOnVolume, Durability
  <2> QED BY <2>1, <2>2
<1>5. CASE Write(p)
  BY <1>0, <1>5 DEF Write, OnOSError, Serve, Die, TypeOK, Writing, Generated,
                    Serving, ServedKeyIsOnVolume, Durability
<1>6. CASE Crash(p)
  BY <1>0, <1>6 DEF Crash, Die, fileUnchanged, TypeOK, Writing, Generated,
                    Serving, ServedKeyIsOnVolume, Durability
<1> QED BY <1>1, <1>2, <1>3, <1>4, <1>5, <1>6 DEF Process

\* Every step keeps the invariant.
LEMMA IInvStep == IInv /\ [Next]_vars => IInv'
<1> SUFFICES ASSUME IInv, [Next]_vars PROVE IInv'
  OBVIOUS
<1> USE KeysAssumption DEF IInv, TypeOK, Writing, Generated, Serving, ServedKeyIsOnVolume,
                           Durability
<1>1. CASE \E p \in Procs : Process(p)
  BY <1>1, ProcessStep
<1>2. CASE Flush
  BY <1>2 DEF Flush
<1>3. CASE PowerLoss
  BY <1>3 DEF PowerLoss
<1>4. CASE UNCHANGED vars
  BY <1>4 DEF vars
<1> QED BY <1>1, <1>2, <1>3, <1>4 DEF Next

\* The invariant holds throughout.
LEMMA Invariance == Spec => []IInv
BY IInvInit, IInvStep, PTL DEF Spec

\* Every variable keeps its type (crypto.py:139-194).
THEOREM KeyTypeCorrect == Spec => []TypeOK
<1>1. IInv => TypeOK
  BY DEF IInv
<1> QED BY <1>1, Invariance, PTL

\* On the platform the served key is the sealed volume's (crypto.py:187-193).
THEOREM CustodyIsTheVolume == Spec => []ServedKeyIsOnVolume
<1>1. IInv => ServedKeyIsOnVolume
  BY DEF IInv
<1> QED BY <1>1, Invariance, PTL

\* Any number of concurrent starts ends in one key (crypto.py:179-180).
THEOREM OneKey == Spec => []ServersShareOneKey
<1>1. IInv => ServersShareOneKey
  BY DEF IInv, TypeOK, Serving, ServedKeyIsOnVolume, ServersShareOneKey
<1> QED BY <1>1, Invariance, PTL

\* A key that reached the disk is the only one served from then on (crypto.py:142-147).
THEOREM DurableKey == Spec => []DurableKeyIsForKeeps
<1>1. IInv => DurableKeyIsForKeeps
  BY KeysAssumption DEF IInv, TypeOK, ServedKeyIsOnVolume, Durability, DurableKeyIsForKeeps
<1> QED BY <1>1, Invariance, PTL

\* What a step may do to a whole key file.
KeyFileChange == file \in Keys /\ file' # file => PowerLoss /\ ~flushed

\* A key file is written once: whoever starts, loses the race, fails or crashes, a whole
\* key stays on the volume, and only a power loss before it was flushed takes it away
\* (crypto.py:165-184).
THEOREM KeyFileStays == Spec => [][KeyFileChange]_vars
<1>1. IInv /\ [Next]_vars => KeyFileChange
  <2> SUFFICES ASSUME IInv, Next, file \in Keys, file' # file
               PROVE  PowerLoss /\ ~flushed
    BY DEF KeyFileChange, vars
  <2>1. CASE \E p \in Procs : Process(p)
    <3>1. PICK p \in Procs : Process(p)
      BY <2>1
    <3>2. file # NoFile /\ file # Torn
      BY KeysAssumption
    <3>3. pc[p] # "write"
      BY <3>2 DEF IInv, Writing
    <3> QED BY <3>1, <3>2, <3>3 DEF Process, Crash, Start, Look, Read, Create, Write, fileUnchanged
  <2>2. CASE Flush
    BY <2>2 DEF Flush
  <2>3. CASE PowerLoss
    BY <2>3 DEF PowerLoss
  <2> QED BY <2>1, <2>2, <2>3 DEF Next
<1> QED BY <1>1, Invariance, PTL DEF Spec
=============================================================================
