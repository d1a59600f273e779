-------------------------- MODULE TrustChainsProofs --------------------------
(***************************************************************************)
(* What TrustChains accepts, for any certificates, lists, documents and    *)
(* order of calls.                                                         *)
(***************************************************************************)
EXTENDS TrustChains, TLAPS, FiniteSetTheorems

\* cert was issued by way of ca, whatever the chain between them: every set of the
\* list's certificates that is closed under issuing and holds ca holds cert.
Descends(cert, ca, certs) ==
    \A S \in SUBSET certs : (ca \in S /\ Closed(S, certs)) => cert \in S

\* The climb is at an ancestor of the signer of a list whose signature is good.
Climbing ==
    verdict = "climbing" =>
        /\ list \in Lists /\ list.intact /\ list.by = list.signer.key
        /\ at \in Range(list.certs)
        /\ Descends(list.signer, at, Range(list.certs))

\* The certificates climbed so far, each issued by the next, none of those climbed to a root.
IsTrail(path, n, certs) ==
    /\ path \in [1 .. n -> certs]
    /\ \A i \in 1 .. n - 1 : Issued(path[i + 1], path[i]) /\ ~SelfIssued(path[i + 1])

Circle(S, certs) ==
    /\ S \in (SUBSET certs) \ {{}}
    /\ \A cert \in S : \E ca \in S : Issued(ca, cert) /\ ~SelfIssued(ca)

\* As many certificates have been climbed as calls are open, the last is the one at hand.
Trail ==
    verdict = "climbing" =>
        /\ depth # 0
        /\ \E path : IsTrail(path, depth, Range(list.certs)) /\ path[depth] = at

IInv ==
    /\ TypeOK
    /\ Climbing
    /\ Trail
    /\ RunawayMeansCircle
    /\ AnchorsFromPinnedRoot
    /\ DocumentTracesToPinnedRoot

-----------------------------------------------------------------------------
\* An issuer of an ancestor is an ancestor.
LEMMA ClimbDescends ==
    ASSUME NEW certs, NEW signer, NEW cert \in certs, NEW ca \in certs,
           Descends(signer, cert, certs), Issued(ca, cert)
    PROVE  Descends(signer, ca, certs)
<1> SUFFICES ASSUME NEW S \in SUBSET certs, ca \in S, Closed(S, certs)
             PROVE  signer \in S
  BY DEF Descends
<1>1. cert \in S
  BY DEF Closed
<1> QED BY <1>1 DEF Descends

\* The issuer of the last certificate of a trail, if it is not a root, prolongs it.
LEMMA TrailGrows ==
    ASSUME NEW certs, NEW n \in Nat \ {0}, NEW path, IsTrail(path, n, certs),
           NEW ca \in certs, Issued(ca, path[n]), ~SelfIssued(ca)
    PROVE  \E longer : IsTrail(longer, n + 1, certs) /\ longer[n + 1] = ca
<1> DEFINE longer == [i \in 1 .. n + 1 |-> IF i = n + 1 THEN ca ELSE path[i]]
<1>1. longer \in [1 .. n + 1 -> certs]
  BY DEF IsTrail
<1>2. ASSUME NEW i \in 1 .. n
      PROVE  Issued(longer[i + 1], longer[i]) /\ ~SelfIssued(longer[i + 1])
  <2>1. longer[i] = path[i]
    OBVIOUS
  <2>2. CASE i = n
    <3>1. longer[i + 1] = ca
      BY <2>2
    <3> QED BY <2>1, <2>2, <3>1
  <2>3. CASE i # n
    <3>1. i \in 1 .. n - 1 /\ longer[i + 1] = path[i + 1]
      BY <2>3
    <3> QED BY <2>1, <3>1 DEF IsTrail
  <2> QED BY <2>2, <2>3
<1>3. longer[n + 1] = ca
  OBVIOUS
<1> HIDE DEF longer
<1>4. IsTrail(longer, n + 1, certs)
  BY <1>1, <1>2 DEF IsTrail
<1> QED BY <1>3, <1>4

\* A trail that comes by a certificate twice has gone in a circle.
LEMMA ReturnIsCircle ==
    ASSUME NEW certs, NEW n \in Nat, NEW path, IsTrail(path, n, certs),
           NEW x \in 1 .. n, NEW y \in 1 .. n, x < y, path[x] = path[y]
    PROVE  \E S : Circle(S, certs)
<1> DEFINE S == {path[k] : k \in x + 1 .. y}
<1>1. S \in SUBSET certs /\ path[y] \in S
  BY DEF IsTrail
<1>2. ASSUME NEW k \in x + 1 .. y
      PROVE  \E ca \in S : Issued(ca, path[k]) /\ ~SelfIssued(ca)
  <2>1. CASE k = y
    <3>1. x \in 1 .. n - 1 /\ x + 1 \in x + 1 .. y
      OBVIOUS
    <3>2. Issued(path[x + 1], path[x]) /\ ~SelfIssued(path[x + 1])
      BY <3>1 DEF IsTrail
    <3> QED BY <2>1, <3>1, <3>2
  <2>2. CASE k # y
    <3>1. k \in 1 .. n - 1 /\ k + 1 \in x + 1 .. y
      BY <2>2
    <3>2. Issued(path[k + 1], path[k]) /\ ~SelfIssued(path[k + 1])
      BY <3>1 DEF IsTrail
    <3> QED BY <3>1, <3>2
  <2> QED BY <2>1, <2>2
<1>3. Circle(S, certs)
  BY <1>1, <1>2 DEF Circle
<1> QED BY <1>3

\* A trail longer than there are certificates comes by one twice.
LEMMA LongTrailIsCircle ==
    ASSUME NEW certs, IsFiniteSet(certs), NEW n \in Nat, NEW path, IsTrail(path, n, certs),
           Cardinality(certs) < n
    PROVE  \E S : Circle(S, certs)
<1>1. IsFiniteSet(1 .. n) /\ Cardinality(1 .. n) = n
  <2>1. 1 \in Int /\ n \in Int
    OBVIOUS
  <2>2. Cardinality(1 .. n) = IF 1 > n THEN 0 ELSE n - 1 + 1
    BY <2>1, FS_Interval
  <2> QED BY <2>1, <2>2, FS_Interval
<1>2. path \in [1 .. n -> certs]
  BY DEF IsTrail
<1>3. PICK x, y \in 1 .. n : x # y /\ path[x] = path[y]
  BY <1>1, <1>2, FS_PigeonHole
<1>4. CASE x < y
  BY <1>3, <1>4, ReturnIsCircle
<1>5. CASE y < x
  BY <1>3, <1>5, ReturnIsCircle
<1> QED BY <1>3, <1>4, <1>5

\* A list has finitely many certificates.
LEMMA FiniteList ==
    ASSUME NEW certs \in Seq(Certs)
    PROVE  IsFiniteSet(Range(certs)) /\ Cardinality(Range(certs)) \in Nat
<1>1. IsFiniteSet(1 .. Len(certs))
  BY FS_Interval
<1>2. certs \in Surjection(1 .. Len(certs), Range(certs))
  BY DEF Surjection, Range
<1>3. IsFiniteSet(Range(certs))
  BY <1>1, <1>2, FS_Surjection
<1> QED BY <1>3, FS_CardinalityType

\* The certificate under the cursor is one of the list's.
LEMMA CandidateInList ==
    ASSUME TypeOK, Climbing, verdict = "climbing", pos <= Len(list.certs)
    PROVE  candidate \in Range(list.certs) /\ candidate \in Certs
<1>1. list.certs \in Seq(Certs) /\ pos \in 1 .. Len(list.certs)
  BY ChainsAssumption DEF TypeOK, Climbing
<1> QED BY <1>1 DEF candidate, Range

\* Nothing is in force or at hand at first.
LEMMA IInvInit == Init => IInv
BY ChainsAssumption DEF Init, IInv, TypeOK, Climbing, Trail, RunawayMeansCircle,
                        AnchorsFromPinnedRoot, DocumentTracesToPinnedRoot

\* A submitted list whose signature is good starts the climb at its signer.
LEMMA SubmitStep == IInv /\ Submit => IInv'
<1> SUFFICES ASSUME IInv, Submit PROVE IInv'
  OBVIOUS
<1>1. PICK l \in Lists :
          /\ list' = l /\ at' = l.signer /\ pos' = 1 /\ depth' = 1
          /\ verdict' = IF l.intact /\ l.by = l.signer.key THEN "climbing" ELSE "rejected"
  BY DEF Submit
<1>2. passed' = None /\ inForce' = inForce
  BY DEF Submit
<1>3. l.certs \in Seq(Certs) /\ l.signer \in Range(l.certs) /\ l.signer \in Certs
  BY ChainsAssumption DEF Range
<1>4. TypeOK'
  BY <1>1, <1>2, <1>3, ChainsAssumption DEF IInv, TypeOK
<1>5. Climbing'
  BY <1>1, <1>3 DEF Climbing, Descends
<1>6. AnchorsFromPinnedRoot'
  BY <1>2 DEF IInv, AnchorsFromPinnedRoot, Chained, Closed
<1>7. DocumentTracesToPinnedRoot'
  BY <1>2 DEF DocumentTracesToPinnedRoot
<1>8. Trail'
  <2> DEFINE path == [i \in 1 .. 1 |-> l.signer]
  <2>1. IsTrail(path, 1, Range(l.certs)) /\ path[1] = l.signer
    BY <1>3 DEF IsTrail
  <2> HIDE DEF path
  <2>2. IsTrail(path, depth, Range(list.certs))' /\ path[depth'] = at' /\ depth' # 0
    BY <1>1, <2>1 DEF IsTrail, Issued, SelfIssued
  <2> QED BY <2>2 DEF Trail
<1>9. RunawayMeansCircle'
  BY <1>1 DEF RunawayMeansCircle
<1> QED BY <1>4, <1>5, <1>6, <1>7, <1>8, <1>9 DEF IInv

\* Moving along the list, or giving up on it, changes nothing that counts.
LEMMA CursorStep == IInv /\ (Skip \/ Exhausted) => IInv'
<1> SUFFICES ASSUME IInv, Skip \/ Exhausted PROVE IInv'
  OBVIOUS
<1>1. UNCHANGED <<inForce, list, passed, at, depth>>
  BY DEF Skip, Exhausted, climbUnchanged
<1>2. pos' \in Nat \ {0} /\ verdict' \in {"climbing", "rejected"} /\ verdict = "climbing"
  BY DEF Skip, Exhausted, IInv, TypeOK
<1>3. TypeOK'
  BY <1>1, <1>2 DEF IInv, TypeOK
<1>4. Climbing'
  BY <1>1, <1>2 DEF IInv, Climbing, Descends, Closed
<1>5. AnchorsFromPinnedRoot'
  BY <1>1 DEF IInv, AnchorsFromPinnedRoot, Chained, Closed
<1>6. DocumentTracesToPinnedRoot'
  BY <1>1 DEF IInv, DocumentTracesToPinnedRoot, Chained, Closed
<1>7. Trail'
  BY <1>1, <1>2 DEF IInv, Trail, IsTrail, Issued, SelfIssued
<1>8. RunawayMeansCircle'
  BY <1>2 DEF RunawayMeansCircle
<1> QED BY <1>3, <1>4, <1>5, <1>6, <1>7, <1>8 DEF IInv

\* A climb that ends well ends at the pinned root, so the list is chained.
LEMMA RootStep == IInv /\ Root => IInv'
<1> SUFFICES ASSUME IInv, Root PROVE IInv'
  OBVIOUS
<1>1. UNCHANGED <<list, at, pos, depth, passed>> /\ verdict = "climbing"
  BY DEF Root
<1>2. candidate \in Range(list.certs) /\ list \in Lists
  BY CandidateInList DEF IInv, Root, Climbing
<1>3. verdict' \in {"accepted", "rejected"} /\ inForce' \in {inForce, list}
  BY DEF Root
<1>4. TypeOK'
  BY <1>1, <1>2, <1>3 DEF IInv, TypeOK
<1>5. Climbing' /\ Trail' /\ RunawayMeansCircle'
  BY <1>3 DEF Climbing, Trail, RunawayMeansCircle
<1>6. DocumentTracesToPinnedRoot'
  BY <1>1 DEF IInv, DocumentTracesToPinnedRoot, Chained, Closed
<1>7. CASE inForce' = inForce
  <2>1. AnchorsFromPinnedRoot'
    BY <1>7 DEF IInv, AnchorsFromPinnedRoot, Chained, Closed
  <2> QED BY <1>4, <1>5, <1>6, <2>1 DEF IInv
<1>8. CASE inForce' # inForce
  <2>1. candidate = Pinned /\ Issued(candidate, at) /\ inForce' = list
    BY <1>8, <1>3 DEF Root, IsRoot
  <2>2. Descends(list.signer, Pinned, Range(list.certs))
    BY <1>1, <1>2, <2>1, ClimbDescends DEF IInv, Climbing
  <2>3. Chained(list) /\ list.intact /\ list.by = list.signer.key
    BY <1>1, <1>2, <2>1, <2>2 DEF IInv, Climbing, Chained, Descends
  <2>4. AnchorsFromPinnedRoot'
    BY <2>1, <2>3 DEF AnchorsFromPinnedRoot, Chained, Closed
  <2> QED BY <1>4, <1>5, <1>6, <2>4 DEF IInv
<1> QED BY <1>7, <1>8

\* A climb goes to an issuer, from which the signer descends as well.
LEMMA ClimbStep == IInv /\ Climb => IInv'
<1> SUFFICES ASSUME IInv, Climb PROVE IInv'
  OBVIOUS
<1>1. UNCHANGED <<inForce, list, passed>> /\ verdict = "climbing"
  BY DEF Climb, climbUnchanged
<1>2. candidate \in Range(list.certs) /\ candidate \in Certs
  BY CandidateInList DEF IInv, Climb
<1>3. TypeOK'
  BY <1>1, <1>2, ChainsAssumption DEF IInv, TypeOK, Climb
<1>4. Climbing'
  <2>1. CASE depth < MaxDepth
    <3>1. at' = candidate /\ Issued(candidate, at)
      BY <2>1 DEF Climb, IInv, TypeOK
    <3>2. Descends(list.signer, candidate, Range(list.certs))
      BY <1>1, <1>2, <3>1, ClimbDescends DEF IInv, Climbing
    <3> QED BY <1>1, <1>2, <3>1, <3>2 DEF IInv, Climbing, Descends, Closed
  <2>2. CASE ~(depth < MaxDepth)
    BY <2>2 DEF Climb, Climbing
  <2> QED BY <2>1, <2>2
<1>5. AnchorsFromPinnedRoot'
  BY <1>1 DEF IInv, AnchorsFromPinnedRoot, Chained, Closed
<1>6. DocumentTracesToPinnedRoot'
  BY <1>1 DEF IInv, DocumentTracesToPinnedRoot, Chained, Closed
<1>7. /\ Issued(candidate, at) /\ ~SelfIssued(candidate)
      /\ depth \in Nat \ {0} /\ list \in Lists /\ list.certs \in Seq(Certs)
  BY <1>1, ChainsAssumption DEF Climb, IInv, TypeOK, Trail, Climbing
<1>8. PICK path : IsTrail(path, depth, Range(list.certs)) /\ path[depth] = at
  BY <1>1 DEF IInv, Trail
<1>9. PICK longer : IsTrail(longer, depth + 1, Range(list.certs)) /\ longer[depth + 1] = candidate
  BY <1>2, <1>7, <1>8, TrailGrows
<1>10. Trail' /\ RunawayMeansCircle'
  <2>1. CASE depth < MaxDepth
    <3>1. /\ at' = candidate /\ depth' = depth + 1 /\ list' = list /\ verdict' = "climbing"
      BY <1>1, <2>1 DEF Climb, IInv, TypeOK
    <3> QED BY <1>7, <1>9, <3>1
            DEF Trail, RunawayMeansCircle, IsTrail, Issued, SelfIssued
  <2>2. CASE ~(depth < MaxDepth)
    <3>1. verdict' = "error" /\ depth = MaxDepth
      BY <2>2 DEF Climb
    <3>2. ASSUME ~(Cardinality(Range(list.certs)) > MaxDepth)
          PROVE  \E S : Circle(S, Range(list.certs))
      <4>1. IsFiniteSet(Range(list.certs)) /\ Cardinality(Range(list.certs)) \in Nat
        BY <1>7, FiniteList
      <4>2. Cardinality(Range(list.certs)) < depth + 1
        BY <1>7, <3>1, <3>2, <4>1
      <4> QED BY <1>7, <1>9, <4>1, <4>2, LongTrailIsCircle
    <3> QED BY <1>1, <3>1, <3>2 DEF Trail, RunawayMeansCircle, Circle, Issued, SelfIssued
  <2> QED BY <2>1, <2>2
<1> QED BY <1>3, <1>4, <1>5, <1>6, <1>10 DEF IInv

\* A document that passes has its CSCA in the list in force.
LEMMA DocumentStep == IInv /\ CheckDocument => IInv'
<1> SUFFICES ASSUME IInv, CheckDocument PROVE IInv'
  OBVIOUS
<1>1. PICK d \in Documents, i \in DOMAIN anchors :
          /\ d.intact /\ d.by = d.dsc.key
          /\ ValidAt(d.dsc, d.signingTime)
          /\ FirstVerifying(i, d.dsc) /\ ValidAt(anchors[i], d.signingTime)
          /\ passed' = [doc |-> d, under |-> inForce]
  BY DEF CheckDocument
<1>2. UNCHANGED <<inForce, list, at, pos, depth, verdict>> /\ verdict # "climbing"
  BY DEF CheckDocument
<1>3. inForce # None /\ inForce \in Lists
  BY <1>1 DEF anchors, IInv, TypeOK
<1>4. anchors[i] \in Range(inForce.content)
  BY <1>1, <1>3 DEF anchors, Range
<1>5. Issued(anchors[i], d.dsc)
  BY <1>1 DEF FirstVerifying, Verifying
<1>6. TypeOK'
  BY <1>1, <1>2, <1>3 DEF IInv, TypeOK
<1>7. Climbing'
  BY <1>2 DEF Climbing
<1>8. AnchorsFromPinnedRoot'
  BY <1>2 DEF IInv, AnchorsFromPinnedRoot, Chained, Closed
<1>9. DocumentTracesToPinnedRoot'
  <2>1. Chained(inForce)
    BY <1>3 DEF IInv, AnchorsFromPinnedRoot
  <2>2. passed'.doc = d /\ passed'.under = inForce
    BY <1>1
  <2> QED BY <1>1, <1>4, <1>5, <2>1, <2>2
          DEF DocumentTracesToPinnedRoot, ValidWhenSigned, Chained, Closed, Issued, ValidAt
<1>10. Trail' /\ RunawayMeansCircle'
  BY <1>2 DEF IInv, Trail, RunawayMeansCircle, Issued, SelfIssued
<1> QED BY <1>6, <1>7, <1>8, <1>9, <1>10 DEF IInv

\* Every step keeps the invariant.
LEMMA IInvStep == IInv /\ [Next]_vars => IInv'
<1> SUFFICES ASSUME IInv, [Next]_vars PROVE IInv'
  OBVIOUS
<1>1. CASE UNCHANGED vars
  BY <1>1 DEF vars, IInv, TypeOK, Climbing, Descends, Trail, IsTrail, RunawayMeansCircle,
              AnchorsFromPinnedRoot, DocumentTracesToPinnedRoot, Chained, Closed,
              Issued, SelfIssued
<1> QED BY <1>1, SubmitStep, CursorStep, RootStep, ClimbStep, DocumentStep DEF Next

\* The invariant holds throughout.
LEMMA Invariance == Spec => []IInv
BY IInvInit, IInvStep, PTL DEF Spec

\* Every variable keeps its type (master_list.py:48-81, passive_auth.py:198-342).
THEOREM ChainsTypeCorrect == Spec => []TypeOK
<1>1. IInv => TypeOK
  BY DEF IInv
<1> QED BY <1>1, Invariance, PTL

\* Whatever lists are submitted, in whatever order and with whatever certificates,
\* the trust anchors come from one that chains to the pin (master_list.py:27-32).
THEOREM AnchorsChainToPin == Spec => []AnchorsFromPinnedRoot
<1>1. IInv => AnchorsFromPinnedRoot
  BY DEF IInv
<1> QED BY <1>1, Invariance, PTL

\* A document that passes Passive Authentication traces to the pin, through the
\* list it was checked under (passive_auth.py:198-272).
THEOREM DocumentsTraceToPin == Spec => []DocumentTracesToPinnedRoot
<1>1. IInv => DocumentTracesToPinnedRoot
  BY DEF IInv
<1> QED BY <1>1, Invariance, PTL

\* A climb that fills the stack was led in a circle by the list's own certificates,
\* unless the list is longer than the stack is deep (master_list.py:79).
THEOREM RunawaysAreCircles == Spec => []RunawayMeansCircle
<1>1. IInv => RunawayMeansCircle
  BY DEF IInv
<1> QED BY <1>1, Invariance, PTL
=============================================================================
