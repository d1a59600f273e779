------------------------ MODULE AnchorLifecycleProofs ------------------------
(***************************************************************************)
(* The safety properties of AnchorLifecycle for any sets of anchors and    *)
(* JWKS documents, on or off the platform, and any number of late manager  *)
(* calls; and that AnchorLifecycle implements ConfigureThenFreeze.         *)
(***************************************************************************)
EXTENDS AnchorLifecycle, TLAPS

\* What each location of the process says of the call at hand and of the volume.
Position ==
    /\ pc \in Boot \cup {"completeGate", "finish"} => disk.anchors # None
    /\ pc = "storeAnchors" => req.anchors # Absent
    /\ pc = "attestAnchors" => req.anchors \in AnchorSets
    /\ pc = "storeJwks" => req.jwks # Absent
    /\ pc = "attestJwks" => req.jwks \in JwksDocs
    /\ pc \in Handling => req # NoRequest
    /\ pc \in Boot \cup Handling => answer = 0

\* Nothing opens the service before anchors are on the volume, not even late.
Opening ==
    /\ (configured \/ gate \/ granted) => disk.anchors # None
    /\ \A post \in late : post.kind = "gate" => disk.anchors # None
    /\ (granted /\ pc # "down") => configured

\* Everything published, or about to be, was persisted.
Persistence ==
    /\ LeafAttestsOnlyPersisted
    /\ \A o \in Oids : disk[o] # None => disk[o] \in persisted[o]

\* The volume as a call has left it so far.
afterList == IF req.anchors = Absent THEN before ELSE [before EXCEPT !.anchors = req.anchors]
afterBoth == IF req.jwks = Absent THEN afterList ELSE [afterList EXCEPT !.jwks = req.jwks]

Volume ==
    /\ pc = "storeAnchors" => disk = before
    /\ pc \in {"attestAnchors", "storeJwks"} => disk = afterList
    /\ pc \in {"attestJwks", "checkAnchors", "completeGate", "finish"} => disk = afterBoth

\* What the leaf attests at each location, publications in doubt aside.
Attestation ==
    (Managed /\ pc # "down") =>
        /\ (pc \notin {"bootGate", "bootAnchors", "attestAnchors"} /\ "anchors" \notin unsure)
               => leaf.anchors = disk.anchors
        /\ (pc \notin Boot \cup {"attestJwks"} /\ "jwks" \notin unsure)
               => leaf.jwks = disk.jwks \/ (~resumed /\ leaf.jwks = None)
        /\ (pc \in Boot /\ "jwks" \notin unsure) => leaf.jwks = None
        /\ (pc # "bootGate" /\ (configured \/ pc = "finish") /\ "gate" \notin unsure) => gate

IInv ==
    /\ TypeOK
    /\ Position
    /\ Opening
    /\ Persistence
    /\ Volume
    /\ Attestation
    /\ AnswerMeansInForce
    /\ RefusalIsInert

-----------------------------------------------------------------------------
\* An empty volume, and a leaf without extensions, are of their type.
LEMMA NoFiles == [o \in Oids |-> None] \in Files
BY DEF Oids, Files

\* The kinds of manager calls, one by one.
LEMMA PostKinds ==
    ASSUME NEW post \in Posts
    PROVE  \/ post.kind = "anchors" /\ post.value \in AnchorSets
           \/ post.kind = "jwks" /\ post.value \in JwksDocs
           \/ post = ConfigComplete /\ post.kind = "gate"
BY DEF Posts, ConfigComplete

\* Whatever the manager takes in, the leaf and the gate keep their types.
LEMMA TakesInTypes ==
    ASSUME leaf \in Files, NEW post \in Posts, TakesIn(post)
    PROVE  leaf' \in Files /\ gate' \in BOOLEAN
<1>1. [o \in Oids |-> IF o = post.kind THEN post.value ELSE leaf[o]] \in Files
  BY PostKinds DEF Oids, Files
<1>2. gate' \in BOOLEAN
  BY Zenon DEF TakesIn
<1> QED BY <1>1, <1>2 DEF TakesIn

\* What a manager call may change, whatever becomes of it: the leaf and the
\* gate only as TakesIn does, the pool only by that call.
LEMMA SendTypes ==
    ASSUME TypeOK, NEW post \in Posts, NEW unsent \in SUBSET Oids,
           Succeeds(post) \/ Raises(post, unsent)
    PROVE  leaf' \in Files /\ gate' \in BOOLEAN /\ late' \in SUBSET Posts
               /\ unsure' \in SUBSET (Oids \cup {"gate"})
<1>1. leaf' \in Files /\ gate' \in BOOLEAN
  BY TakesInTypes DEF TypeOK, Succeeds, Raises
<1>2. late' \in SUBSET Posts
  BY DEF TypeOK, Succeeds, Raises
<1>3. post.kind \in Oids \cup {"gate"}
  BY PostKinds DEF Oids
<1>4. unsure' \in SUBSET (Oids \cup {"gate"})
  BY <1>3 DEF TypeOK, Succeeds, Raises
<1> QED BY <1>1, <1>2, <1>4

\* The bodies the handler and the boot send are manager calls.
LEMMA PostTypes ==
    ASSUME TypeOK, Position
    PROVE  /\ ConfigComplete \in Posts
           /\ pc \in Boot => Publish("anchors", disk.anchors) \in Posts
           /\ disk.jwks # None => Publish("jwks", disk.jwks) \in Posts
           /\ pc = "attestAnchors" => Publish("anchors", req.anchors) \in Posts
           /\ pc = "attestJwks" => Publish("jwks", req.jwks) \in Posts
BY DEF TypeOK, Position, ConfigComplete, Publish, Posts, Files, Boot

\* Every step keeps the types, given where the process is.
LEMMA TypeStep == TypeOK /\ Position /\ [Next]_vars => TypeOK'
<1> SUFFICES ASSUME TypeOK, Position, [Next]_vars PROVE TypeOK'
  OBVIOUS
<1> USE DEF TypeOK, Locations, Boot, Handling
<1>1. CASE Start
  BY <1>1, NoFiles DEF Start, NoRequest, Requests
<1>2. CASE BootGate
  BY <1>2, SendTypes, PostTypes DEF BootGate, bootUnchanged
<1>3. CASE BootAnchors
  BY <1>3, SendTypes, PostTypes DEF BootAnchors, bootUnchanged, Oids
<1>4. CASE BootJwks
  BY <1>4, SendTypes, PostTypes DEF BootJwks, bootUnchanged
<1>5. CASE Accept
  BY <1>5 DEF Accept, managerUnchanged
<1>6. CASE RefuseEmpty
  BY <1>6 DEF RefuseEmpty, Answer, managerUnchanged, NoRequest, Requests
<1>7. CASE StoreAnchors
  BY <1>7 DEF StoreAnchors, Answer, Replace, afterStoredAnchors, afterAnchors,
              Position, callUnchanged, managerUnchanged, Files, Requests
<1>8. CASE AttestAnchors
  BY <1>8, SendTypes, PostTypes DEF AttestAnchors, Answer, afterAnchors, callUnchanged
<1>9. CASE StoreJwks
  BY <1>9 DEF StoreJwks, Answer, Replace, Position, callUnchanged, managerUnchanged,
              Files, Requests
<1>10. CASE AttestJwks
  BY <1>10, SendTypes, PostTypes DEF AttestJwks, Answer, callUnchanged
<1>11. CASE CheckAnchors
  BY <1>11 DEF CheckAnchors, Answer, callUnchanged, managerUnchanged
<1>12. CASE CompleteGate
  BY <1>12, SendTypes, PostTypes DEF CompleteGate, Answer, callUnchanged
<1>13. CASE Finish
  BY <1>13 DEF Finish, Answer, callUnchanged, managerUnchanged
<1>14. CASE Crash
  BY <1>14 DEF Crash
<1>15. CASE LateArrival
  <2>1. PICK post \in late : TakesIn(post) /\ late' = late \ {post}
                                /\ unsure' = unsure \cup {post.kind}
    BY <1>15 DEF LateArrival
  <2>2. post \in Posts
    BY <2>1
  <2>3. leaf' \in Files /\ gate' \in BOOLEAN
    BY <2>1, <2>2, TakesInTypes
  <2>4. unsure' \in SUBSET (Oids \cup {"gate"})
    BY <2>1, <2>2, PostKinds DEF Oids
  <2> QED BY <1>15, <2>1, <2>3, <2>4 DEF LateArrival
<1>16. CASE UNCHANGED vars
  BY <1>16 DEF vars
<1> QED
  BY <1>1, <1>2, <1>3, <1>4, <1>5, <1>6, <1>7, <1>8, <1>9, <1>10, <1>11, <1>12, <1>13,
     <1>14, <1>15, <1>16 DEF Next, SelfRecovery, Owner, Configure

\* Each step leads where Position says it may.
LEMMA PositionStep == TypeOK /\ Position /\ Volume /\ [Next]_vars => Position'
<1> SUFFICES ASSUME TypeOK, Position, Volume, [Next]_vars PROVE Position'
  OBVIOUS
<1> USE DEF Position, Boot, Handling
<1>1. CASE Start
  BY <1>1 DEF Start
<1>2. CASE BootGate
  BY <1>2 DEF BootGate, bootUnchanged
<1>3. CASE BootAnchors
  BY <1>3 DEF BootAnchors, bootUnchanged
<1>4. CASE BootJwks
  BY <1>4 DEF BootJwks, bootUnchanged
<1>5. CASE Accept
  BY <1>5 DEF Accept, NoRequest, Requests
<1>6. CASE RefuseEmpty
  BY <1>6 DEF RefuseEmpty, Answer
<1>7. CASE StoreAnchors
  BY <1>7 DEF StoreAnchors, Answer, Replace, afterStoredAnchors, afterAnchors, callUnchanged,
              TypeOK, Requests
<1>8. CASE AttestAnchors
  BY <1>8 DEF AttestAnchors, Answer, afterAnchors, callUnchanged
<1>9. CASE StoreJwks
  BY <1>9 DEF StoreJwks, Answer, callUnchanged, TypeOK, Requests
<1>10. CASE AttestJwks
  BY <1>10 DEF AttestJwks, Answer, callUnchanged
<1>11. CASE CheckAnchors
  BY <1>11 DEF CheckAnchors, Answer, callUnchanged
<1>12. CASE CompleteGate
  BY <1>12 DEF CompleteGate, Answer, callUnchanged
<1>13. CASE Finish
  BY <1>13 DEF Finish, Answer
<1>14. CASE Crash
  BY <1>14 DEF Crash
<1>15. CASE LateArrival
  BY <1>15 DEF LateArrival
<1>16. CASE UNCHANGED vars
  BY <1>16 DEF vars
<1> QED
  BY <1>1, <1>2, <1>3, <1>4, <1>5, <1>6, <1>7, <1>8, <1>9, <1>10, <1>11, <1>12, <1>13,
     <1>14, <1>15, <1>16 DEF Next, SelfRecovery, Owner, Configure

\* Anchors are exchanged, never withdrawn: the fact behind Opening.
LEMMA AnchorsStay ==
    TypeOK /\ Position /\ [Next]_vars
        => \/ disk'.anchors = disk.anchors
           \/ pc = "storeAnchors" /\ disk'.anchors \in AnchorSets /\ configured' = configured
<1> SUFFICES ASSUME TypeOK, Position, [Next]_vars, disk' # disk
             PROVE  \/ disk'.anchors = disk.anchors
                    \/ pc = "storeAnchors" /\ disk'.anchors \in AnchorSets
                           /\ configured' = configured
  OBVIOUS
<1>1. StoreAnchors \/ StoreJwks
  BY DEF Next, SelfRecovery, Owner, Configure, vars, Start, BootGate, BootAnchors, BootJwks,
         bootUnchanged, Accept, RefuseEmpty, AttestAnchors, AttestJwks, CheckAnchors,
         CompleteGate, Finish, Crash, LateArrival
<1>2. CASE StoreAnchors
  BY <1>2 DEF StoreAnchors, Replace, TypeOK, Files, Requests, Position
<1>3. CASE StoreJwks
  BY <1>3 DEF StoreJwks, Replace, TypeOK, Files
<1> QED BY <1>1, <1>2, <1>3

\* The service's gates open only over anchors, and those stay.
LEMMA OpeningStep == TypeOK /\ Position /\ Opening /\ [Next]_vars => Opening'
<1> SUFFICES ASSUME TypeOK, Position, Opening, [Next]_vars PROVE Opening'
  OBVIOUS
<1> USE DEF Opening
<1>a. None \notin AnchorSets
  BY InputsAssumption
<1>b. disk.anchors # None => disk'.anchors # None
  BY <1>a, AnchorsStay
<1>1. CASE Start
  BY <1>1 DEF Start
<1>2. CASE BootGate \/ CompleteGate
  <2>1. disk.anchors # None /\ disk' = disk /\ configured' = configured /\ granted' = granted
    BY <1>2 DEF BootGate, CompleteGate, bootUnchanged, Position, Boot
  <2> QED BY <1>2, <2>1 DEF BootGate, CompleteGate
<1>3. CASE BootAnchors \/ BootJwks \/ AttestAnchors \/ AttestJwks
  <2>1. disk' = disk /\ configured' = configured /\ granted' = granted /\ pc # "down"
    BY <1>3 DEF BootAnchors, BootJwks, AttestAnchors, AttestJwks, bootUnchanged
  <2>2. gate' = gate /\ \A post \in late' \ late : post.kind # "gate"
    BY <1>3 DEF BootAnchors, BootJwks, AttestAnchors, AttestJwks, Succeeds, Raises, TakesIn,
                Publish, TypeOK
  <2> QED BY <2>1, <2>2
<1>4. CASE Accept \/ RefuseEmpty
  BY <1>4 DEF Accept, RefuseEmpty, managerUnchanged
<1>5. CASE StoreAnchors \/ StoreJwks \/ CheckAnchors
  BY <1>5, <1>b DEF StoreAnchors, StoreJwks, CheckAnchors, managerUnchanged
<1>6. CASE Finish
  BY <1>6 DEF Finish, managerUnchanged, Position
<1>7. CASE Crash
  BY <1>7 DEF Crash
<1>8. CASE LateArrival
  <2>1. PICK post \in late : gate' = (gate \/ post.kind = "gate") /\ late' = late \ {post}
    BY <1>8 DEF LateArrival, TakesIn
  <2>2. gate' => disk.anchors # None
    BY <2>1
  <2>3. disk' = disk /\ configured' = configured /\ granted' = granted /\ pc' = pc
    BY <1>8 DEF LateArrival
  <2> QED BY <2>1, <2>2, <2>3
<1>9. CASE UNCHANGED vars
  BY <1>9 DEF vars
<1> QED
  BY <1>1, <1>2, <1>3, <1>4, <1>5, <1>6, <1>7, <1>8, <1>9
  DEF Next, SelfRecovery, Owner, Configure

\* What a manager call can add to the leaf and to the pool is what it carries.
LEMMA SendAdds ==
    ASSUME NEW post, NEW unsent, Succeeds(post) \/ Raises(post, unsent)
    PROVE  /\ \A o \in Oids : leaf'[o] = leaf[o] \/ (o = post.kind /\ leaf'[o] = post.value)
           /\ late' \subseteq late \cup {post}
BY DEF Succeeds, Raises, TakesIn

\* Files are written before their digests are published.
LEMMA PersistenceStep == TypeOK /\ Position /\ Volume /\ Persistence /\ [Next]_vars
                             => Persistence'
<1> SUFFICES ASSUME TypeOK, Position, Volume, Persistence, [Next]_vars PROVE Persistence'
  OBVIOUS
<1> DEFINE Sent(post) == post.kind \in Oids => post.value \in persisted[post.kind]
<1> USE DEF Persistence, LeafAttestsOnlyPersisted
<1>a. ASSUME NEW post, NEW unsent, Sent(post), persisted' = persisted, disk' = disk,
             Succeeds(post) \/ Raises(post, unsent)
      PROVE  Persistence'
  BY <1>a, SendAdds
<1>1. CASE Start
  BY <1>1 DEF Start
<1>2. CASE BootGate \/ CompleteGate
  <2>1. Sent(ConfigComplete)
    BY DEF ConfigComplete, Oids
  <2> QED BY <1>2, <2>1, <1>a DEF BootGate, CompleteGate, bootUnchanged
<1>3. CASE BootAnchors
  <2>1. Sent(Publish("anchors", disk.anchors))
    BY <1>3 DEF BootAnchors, Publish, Position, Boot, Oids
  <2> QED BY <1>3, <2>1, <1>a DEF BootAnchors, bootUnchanged
<1>4. CASE BootJwks
  <2>1. disk.jwks # None => Sent(Publish("jwks", disk.jwks))
    BY DEF Publish, Oids
  <2> QED BY <1>4, <2>1, <1>a DEF BootJwks, bootUnchanged
<1>5. CASE AttestAnchors
  <2>1. Sent(Publish("anchors", req.anchors))
    BY <1>5, InputsAssumption
    DEF AttestAnchors, Publish, Position, Volume, afterList, TypeOK, Files, Oids
  <2> QED BY <1>5, <2>1, <1>a DEF AttestAnchors
<1>6. CASE AttestJwks
  <2>1. Sent(Publish("jwks", req.jwks))
    BY <1>6, InputsAssumption
    DEF AttestJwks, Publish, Position, Volume, afterList, afterBoth, TypeOK, Files, Oids
  <2> QED BY <1>6, <2>1, <1>a DEF AttestJwks
<1>7. CASE StoreAnchors
  BY <1>7 DEF StoreAnchors, Replace, managerUnchanged, TypeOK, Files, Oids
<1>8. CASE StoreJwks
  BY <1>8 DEF StoreJwks, Replace, managerUnchanged, TypeOK, Files, Oids
<1>9. CASE Accept \/ RefuseEmpty \/ CheckAnchors \/ Finish
  BY <1>9 DEF Accept, RefuseEmpty, CheckAnchors, Finish, managerUnchanged
<1>10. CASE Crash
  BY <1>10 DEF Crash
<1>11. CASE LateArrival
  BY <1>11 DEF LateArrival, TakesIn
<1>12. CASE UNCHANGED vars
  BY <1>12 DEF vars
<1> QED
  BY <1>1, <1>2, <1>3, <1>4, <1>5, <1>6, <1>7, <1>8, <1>9, <1>10, <1>11, <1>12
  DEF Next, SelfRecovery, Owner, Configure

\* A call's effect on the volume is the list it carried, then its JWKS.
LEMMA VolumeStep == TypeOK /\ Position /\ Volume /\ [Next]_vars => Volume'
<1> SUFFICES ASSUME TypeOK, Position, Volume, [Next]_vars PROVE Volume'
  OBVIOUS
<1> USE DEF Volume
<1>1. CASE Start \/ SelfRecovery
  BY <1>1 DEF Start, SelfRecovery, BootGate, BootAnchors, BootJwks
<1>2. CASE Owner
  BY <1>2 DEF Owner, Accept, RefuseEmpty, Answer, Requests, NoRequest, afterList
<1>3. CASE StoreAnchors
  BY <1>3 DEF StoreAnchors, Replace, Answer, afterStoredAnchors, afterAnchors, callUnchanged,
              Position, afterList, afterBoth
<1>4. CASE StoreJwks
  BY <1>4 DEF StoreJwks, Replace, Answer, callUnchanged, Position, afterList, afterBoth
<1>5. CASE AttestAnchors
  BY <1>5 DEF AttestAnchors, Answer, callUnchanged, afterAnchors, afterList, afterBoth
<1>6. CASE AttestJwks
  BY <1>6 DEF AttestJwks, Answer, callUnchanged, afterList, afterBoth
<1>7. CASE CheckAnchors
  BY <1>7 DEF CheckAnchors, Answer, callUnchanged, afterList, afterBoth
<1>8. CASE CompleteGate
  BY <1>8 DEF CompleteGate, Answer, callUnchanged, afterList, afterBoth
<1>9. CASE Finish \/ Crash
  BY <1>9 DEF Finish, Answer, Crash
<1>10. CASE LateArrival
  BY <1>10 DEF LateArrival, afterList, afterBoth
<1>11. CASE UNCHANGED vars
  BY <1>11 DEF vars, afterList, afterBoth
<1> QED
  BY <1>1, <1>2, <1>3, <1>4, <1>5, <1>6, <1>7, <1>8, <1>9, <1>10, <1>11 DEF Next, Configure

\* A 200 is given at the end of the call, when both inputs are on the volume.
LEMMA AnswerStep ==
    TypeOK /\ Position /\ Volume /\ AnswerMeansInForce /\ [Next]_vars => AnswerMeansInForce'
<1> SUFFICES ASSUME TypeOK, Position, Volume, AnswerMeansInForce, [Next]_vars,
                    pc' = "idle", answer' = 200
             PROVE  AnswerMeansInForce'
  BY DEF AnswerMeansInForce
<1>1. CASE Finish
  BY <1>1 DEF Finish, Answer, callUnchanged, AnswerMeansInForce, Volume, Position, afterList,
              afterBoth, TypeOK, Files
<1>2. CASE LateArrival
  BY <1>2 DEF LateArrival, AnswerMeansInForce
<1>3. CASE UNCHANGED vars
  BY <1>3 DEF vars, AnswerMeansInForce
<1>4. CASE SelfRecovery \/ Start
  BY <1>4 DEF SelfRecovery, Start, BootGate, BootAnchors, BootJwks, bootUnchanged, Position,
              Boot
<1>5. CASE StoreAnchors \/ AttestAnchors \/ StoreJwks \/ AttestJwks \/ CheckAnchors
              \/ CompleteGate
  BY <1>5 DEF StoreAnchors, AttestAnchors, StoreJwks, AttestJwks, CheckAnchors, CompleteGate,
              Answer, Position, Handling
<1>6. CASE Owner \/ Crash
  BY <1>6 DEF Owner, Accept, RefuseEmpty, Answer, Crash
<1> QED BY <1>1, <1>2, <1>3, <1>4, <1>5, <1>6 DEF Next, Configure

\* A refusal finds the volume as Volume describes it where the refusal is given.
LEMMA RefusalStep ==
    TypeOK /\ Position /\ Volume /\ RefusalIsInert /\ [Next]_vars => RefusalIsInert'
<1> SUFFICES ASSUME TypeOK, Position, Volume, RefusalIsInert, [Next]_vars,
                    pc' = "idle", answer' = 400
             PROVE  RefusalIsInert'
  BY DEF RefusalIsInert
<1>1. CASE StoreAnchors
  BY <1>1 DEF StoreAnchors, Answer, callUnchanged, RefusalIsInert, Volume, Position, Handling
<1>2. CASE StoreJwks
  <2>1. req.jwks = Rejected /\ disk' = disk /\ req' = req /\ before' = before
    BY <1>2 DEF StoreJwks, Answer, callUnchanged, Position, Handling
  <2>2. disk = afterList
    BY <1>2 DEF StoreJwks, Volume
  <2>3. req.anchors # Absent => req.anchors \in AnchorSets
    BY <2>2, InputsAssumption DEF afterList, TypeOK, Files, Requests
  <2> QED BY <2>1, <2>2, <2>3 DEF RefusalIsInert, afterList
<1>3. CASE CheckAnchors
  <2>1. disk.anchors = None /\ disk' = disk /\ req' = req /\ before' = before
    BY <1>3 DEF CheckAnchors, Answer, callUnchanged, Position, Handling
  <2>2. disk = afterBoth
    BY <1>3 DEF CheckAnchors, Volume
  <2>3. req.anchors = Absent
    BY <2>1, <2>2, InputsAssumption DEF afterList, afterBoth, TypeOK, Files, Requests
  <2> QED BY <2>1, <2>2, <2>3 DEF RefusalIsInert, afterList, afterBoth
<1>4. CASE LateArrival
  BY <1>4 DEF LateArrival, RefusalIsInert
<1>5. CASE UNCHANGED vars
  BY <1>5 DEF vars, RefusalIsInert
<1>6. CASE RefuseEmpty
  BY <1>6 DEF RefuseEmpty, RefusalIsInert
<1>7. CASE Start \/ SelfRecovery
  BY <1>7 DEF SelfRecovery, Start, BootGate, BootAnchors, BootJwks, bootUnchanged, Position,
              Boot
<1>8. CASE AttestAnchors \/ AttestJwks \/ CompleteGate \/ Finish
  BY <1>8 DEF AttestAnchors, AttestJwks, CompleteGate, Finish, Answer, Position, Handling
<1>9. CASE Accept \/ Crash
  BY <1>9 DEF Accept, Crash
<1> QED BY <1>1, <1>2, <1>3, <1>4, <1>5, <1>6, <1>7, <1>8, <1>9 DEF Next, Owner, Configure

\* A call that raises puts its own publication in doubt; one that succeeds
\* leaves every other publication as it was.
LEMMA SendEffect ==
    ASSUME NEW post, NEW unsent, Succeeds(post) \/ Raises(post, unsent)
    PROVE  /\ unsure \ {post.kind} \subseteq unsure'
           /\ post.kind \notin unsure'
                  => \A o \in Oids : o = post.kind => leaf'[o] = post.value
           /\ post.kind = "gate" /\ "gate" \notin unsure' => gate'
           /\ \A o \in Oids \ {post.kind} : leaf'[o] = leaf[o]
           /\ gate => gate'
           /\ Succeeds(post) \/ unsent \cup {post.kind} \subseteq unsure'
<1>1. unsure \ {post.kind} \subseteq unsure'
  BY DEF Succeeds, Raises
<1>2. post.kind \notin unsure' => TakesIn(post)
  BY DEF Succeeds, Raises
<1>3. \/ TakesIn(post)
      \/ leaf' = leaf /\ gate' = gate
  BY DEF Succeeds, Raises
<1>4. \A o \in Oids \ {post.kind} : leaf'[o] = leaf[o]
  BY <1>3 DEF TakesIn
<1>5. gate => gate'
  BY <1>3 DEF TakesIn
<1>6. post.kind \notin unsure' => \A o \in Oids : o = post.kind => leaf'[o] = post.value
  BY <1>2 DEF TakesIn
<1>7. post.kind = "gate" /\ "gate" \notin unsure' => gate'
  BY <1>2 DEF TakesIn
<1>8. Succeeds(post) \/ unsent \cup {post.kind} \subseteq unsure'
  BY DEF Raises
<1> QED BY <1>1, <1>4, <1>5, <1>6, <1>7, <1>8

\* Every step keeps the leaf as Attestation describes it at each location.
LEMMA AttestationStep ==
    TypeOK /\ Position /\ Volume /\ Attestation /\ [Next]_vars => Attestation'
<1> SUFFICES ASSUME TypeOK, Position, Volume, Attestation, [Next]_vars, Managed, pc' # "down"
             PROVE  Attestation'
  BY DEF Attestation
<1> USE DEF Attestation, Boot
<1>1. CASE Start
  BY <1>1 DEF Start, Oids
<1>2. CASE BootGate
  BY <1>2, SendEffect DEF BootGate, bootUnchanged, ConfigComplete, Oids
<1>3. CASE BootAnchors
  <2> DEFINE post == Publish("anchors", disk.anchors)
  <2>1. post.kind = "anchors" /\ post.value = disk.anchors
    BY DEF Publish
  <2>2. CASE Succeeds(post) /\ pc' = "bootJwks"
    BY <1>3, <2>1, <2>2, SendEffect DEF BootAnchors, bootUnchanged, Oids
  <2>3. CASE Raises(post, {"jwks"}) /\ pc' = "idle"
    <3>1. {"anchors", "jwks"} \subseteq unsure' /\ (gate => gate')
               /\ ("gate" \in unsure => "gate" \in unsure')
      BY <2>1, <2>3, SendEffect DEF Raises
    <3> QED BY <1>3, <2>3, <3>1 DEF BootAnchors, bootUnchanged
  <2> QED BY <1>3, <2>2, <2>3 DEF BootAnchors
<1>4. CASE BootJwks
  <2> DEFINE post == Publish("jwks", disk.jwks)
  <2>1. post.kind = "jwks" /\ post.value = disk.jwks
    BY DEF Publish
  <2>2. CASE disk.jwks = None /\ UNCHANGED <<leaf, gate, late, unsure>>
    BY <1>4, <2>2 DEF BootJwks, bootUnchanged
  <2>3. CASE Succeeds(post) \/ Raises(post, {})
    BY <1>4, <2>1, <2>3, SendEffect DEF BootJwks, bootUnchanged, Oids
  <2> QED BY <1>4, <2>2, <2>3 DEF BootJwks
<1>5. CASE Owner
  BY <1>5 DEF Owner, Accept, RefuseEmpty, Answer, managerUnchanged
<1>6. CASE StoreAnchors
  BY <1>6 DEF StoreAnchors, Replace, Answer, afterStoredAnchors, callUnchanged,
              managerUnchanged, TypeOK, Files
<1>7. CASE AttestAnchors
  <2> DEFINE post == Publish("anchors", req.anchors)
  <2>1. post.kind = "anchors" /\ post.value = req.anchors
    BY DEF Publish
  <2>2. disk.anchors = req.anchors
    BY <1>7, InputsAssumption
    DEF AttestAnchors, Position, Volume, afterList, TypeOK, Files
  <2>3. /\ \A o \in Oids \ {"anchors"} : leaf'[o] = leaf[o]
        /\ "anchors" \notin unsure' => leaf'.anchors = disk.anchors
        /\ gate => gate'
        /\ unsure \ {"anchors"} \subseteq unsure'
    BY <1>7, <2>1, <2>2, SendEffect DEF AttestAnchors, Oids
  <2>4. pc' \notin Boot \cup {"finish", "attestAnchors", "attestJwks"} /\ disk' = disk
            /\ configured' = configured /\ resumed' = resumed
    BY <1>7 DEF AttestAnchors, Answer, afterAnchors, callUnchanged
  <2> QED BY <1>7, <2>3, <2>4 DEF AttestAnchors, Oids
<1>8. CASE StoreJwks
  BY <1>8 DEF StoreJwks, Replace, Answer, callUnchanged, managerUnchanged, TypeOK, Files
<1>9. CASE AttestJwks
  <2> DEFINE post == Publish("jwks", req.jwks)
  <2>1. post.kind = "jwks" /\ post.value = req.jwks
    BY DEF Publish
  <2>2. disk.jwks = req.jwks
    BY <1>9, InputsAssumption
    DEF AttestJwks, Position, Volume, afterList, afterBoth, TypeOK, Files
  <2>3. /\ \A o \in Oids \ {"jwks"} : leaf'[o] = leaf[o]
        /\ "jwks" \notin unsure' => leaf'.jwks = disk.jwks
        /\ gate => gate'
        /\ unsure \ {"jwks"} \subseteq unsure'
    BY <1>9, <2>1, <2>2, SendEffect DEF AttestJwks, Oids
  <2>4. pc' \notin Boot \cup {"finish", "attestAnchors", "attestJwks"} /\ disk' = disk
            /\ configured' = configured /\ resumed' = resumed
    BY <1>9 DEF AttestJwks, Answer, callUnchanged
  <2> QED BY <1>9, <2>3, <2>4 DEF AttestJwks, Oids
<1>10. CASE CheckAnchors
  BY <1>10 DEF CheckAnchors, Answer, callUnchanged, managerUnchanged
<1>11. CASE CompleteGate
  BY <1>11, SendEffect DEF CompleteGate, Answer, callUnchanged, ConfigComplete, Oids
<1>12. CASE Finish
  BY <1>12 DEF Finish, Answer, callUnchanged, managerUnchanged
<1>13. CASE Crash
  BY <1>13 DEF Crash
<1>14. CASE LateArrival
  <2>1. PICK post \in late : TakesIn(post) /\ unsure' = unsure \cup {post.kind}
    BY <1>14 DEF LateArrival
  <2>2. \A o \in Oids \ unsure' : leaf'[o] = leaf[o] /\ o \notin unsure
    BY <2>1 DEF TakesIn
  <2>3. "gate" \notin unsure' => (gate => gate') /\ "gate" \notin unsure
    BY <2>1 DEF TakesIn
  <2>4. UNCHANGED <<pc, configured, disk, resumed>>
    BY <1>14 DEF LateArrival
  <2> QED BY <2>2, <2>3, <2>4 DEF Oids
<1>15. CASE UNCHANGED vars
  BY <1>15 DEF vars
<1> QED
  BY <1>1, <1>2, <1>3, <1>4, <1>5, <1>6, <1>7, <1>8, <1>9, <1>10, <1>11, <1>12, <1>13,
     <1>14, <1>15 DEF Next, SelfRecovery, Configure

-----------------------------------------------------------------------------
\* Before the first start there is nothing to hold anything against.
LEMMA IInvInit == Init => IInv
<1> SUFFICES ASSUME Init PROVE IInv
  OBVIOUS
<1> USE DEF Init
<1>1. TypeOK
  BY NoFiles DEF TypeOK, Locations, Requests, NoRequest, Oids
<1>2. Position /\ Volume /\ Attestation /\ AnswerMeansInForce /\ RefusalIsInert
  BY DEF Position, Volume, Attestation, AnswerMeansInForce, RefusalIsInert, Boot, Handling
<1>3. Opening /\ Persistence
  BY DEF Opening, Persistence, LeafAttestsOnlyPersisted, Oids
<1> QED BY <1>1, <1>2, <1>3 DEF IInv

\* Every step keeps the whole invariant.
LEMMA IInvStep == IInv /\ [Next]_vars => IInv'
BY TypeStep, PositionStep, OpeningStep, PersistenceStep, VolumeStep, AttestationStep,
   AnswerStep, RefusalStep DEF IInv

\* The invariant holds throughout.
LEMMA Invariance == Spec => []IInv
BY IInvInit, IInvStep, PTL DEF Spec

\* Every variable keeps its type: what is stored, published or in flight under a
\* file's name is a value of that file's kind.
THEOREM TypeCorrect == Spec => []TypeOK
<1>1. IInv => TypeOK
  BY DEF IInv
<1> QED BY <1>1, Invariance, PTL

\* The app's freeze and the manager's gate are open only with anchors on the volume.
THEOREM FreezeLiftsOnlyWithAnchors == Spec => []OpenOnlyWithAnchors
<1>1. IInv => OpenOnlyWithAnchors
  BY DEF IInv, Opening, OpenOnlyWithAnchors
<1> QED BY <1>1, Invariance, PTL

\* The leaf and the calls in flight name only what the volume has held.
THEOREM PersistBeforePublish == Spec => []LeafAttestsOnlyPersisted
<1>1. IInv => LeafAttestsOnlyPersisted
  BY DEF IInv, Persistence
<1> QED BY <1>1, Invariance, PTL

\* Between calls a serving verifier attests the files it uses, doubt aside.
THEOREM AttestationMatches == Spec => []ServedIsAttested
<1>1. IInv => ServedIsAttested
  BY DEF IInv, Attestation, ServedIsAttested, Boot, Oids
<1> QED BY <1>1, Invariance, PTL

\* A 200 from /configure means its inputs are in force.
THEOREM AnswerIsTrue == Spec => []AnswerMeansInForce
<1>1. IInv => AnswerMeansInForce
  BY DEF IInv
<1> QED BY <1>1, Invariance, PTL

\* A 400 from /configure changes nothing but what RefusalIsInert names.
THEOREM RefusalChangesNothingElse == Spec => []RefusalIsInert
<1>1. IInv => RefusalIsInert
  BY DEF IInv
<1> QED BY <1>1, Invariance, PTL

\* Once configured, open in every process that answers requests.
THEOREM ConfigurationSurvives == Spec => []ConfiguredSurvivesRestart
<1>1. IInv => ConfiguredSurvivesRestart
  BY DEF IInv, Opening, ConfiguredSurvivesRestart
<1> QED BY <1>1, Invariance, PTL

\* Every behaviour of the verifier is one of the promise: under the mapping, a step
\* exchanges the set in force, opens, closes, or is no step at all.
THEOREM AnchorsImplementPromise == Spec => ImplementsPromise
<1>1. Init => Promise!Init
  BY DEF Init, Promise!Init, Oids
<1>2. IInv /\ [Next]_vars => [Promise!Next]_(Promise!abstractVars)
  <2> SUFFICES ASSUME IInv, [Next]_vars
               PROVE  Promise!Next \/ UNCHANGED Promise!abstractVars
    OBVIOUS
  <2>a. TypeOK /\ Position
    BY DEF IInv
  <2> USE DEF Promise!Next, Promise!abstractVars, Promise!Exchange, Promise!Open, Promise!Close
  <2>1. CASE disk'.anchors # disk.anchors
    BY <2>1, <2>a, AnchorsStay
  <2>2. CASE disk'.anchors = disk.anchors /\ configured' # configured
    <3>1. Start \/ Crash \/ Finish
      BY <2>2 DEF Next, SelfRecovery, Owner, Configure, vars, BootGate, BootAnchors, BootJwks,
                  bootUnchanged, Accept, RefuseEmpty, StoreAnchors, AttestAnchors, StoreJwks,
                  AttestJwks, CheckAnchors, CompleteGate, LateArrival
    <3>2. CASE Start
      BY <2>2, <3>2 DEF Start
    <3>3. CASE Crash
      BY <2>2, <3>3 DEF Crash
    <3>4. CASE Finish
      BY <2>2, <2>a, <3>4 DEF Finish, Position
    <3> QED BY <3>1, <3>2, <3>3, <3>4
  <2>3. CASE disk'.anchors = disk.anchors /\ configured' = configured
    BY <2>3
  <2> QED BY <2>1, <2>2, <2>3
<1> QED BY <1>1, <1>2, Invariance, PTL DEF Spec, ImplementsPromise, Promise!Spec
=============================================================================
