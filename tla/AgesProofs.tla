------------------------------ MODULE AgesProofs ------------------------------
(***************************************************************************)
(* Ages and bands are true of the holder and agree, for any dates of birth, *)
(* any days of calls, any thresholds and any bands.                        *)
(***************************************************************************)
EXTENDS Ages, TLAPS, FiniteSetTheorems, WellFoundedInduction

-----------------------------------------------------------------------------
(* Least and greatest numbers.                                             *)

\* A set of natural numbers has a least one.
LEMMA MinOfNat ==
    ASSUME NEW S \in SUBSET Nat, S # {}
    PROVE  Min(S) \in S /\ \A n \in S : Min(S) <= n
<1>1. \E n \in S : \A m \in S : ~(<<m, n>> \in OpToRel(<, Nat))
  BY NatLessThanWellFounded, WFMin
<1>2. \A m, n \in Nat : m < n => <<m, n>> \in OpToRel(<, Nat)
  BY DEF OpToRel
<1>3. \E n \in S : \A m \in S : ~(m < n)
  BY <1>1, <1>2
<1>4. \E n \in S : \A m \in S : n <= m
  BY <1>3
<1> QED BY <1>4 DEF Min

\* A set of natural numbers that has a bound has a greatest one.
LEMMA MaxOfNat ==
    ASSUME NEW S \in SUBSET Nat, S # {}, NEW bound \in Nat, \A n \in S : n <= bound
    PROVE  Max(S) \in S /\ \A n \in S : n <= Max(S)
<1> DEFINE T == {bound - n : n \in S}
<1>1. T \in SUBSET Nat /\ T # {}
  <2>1. \A n \in S : bound - n \in Nat
    OBVIOUS
  <2> QED BY <2>1
<1>2. Min(T) \in T /\ \A m \in T : Min(T) <= m
  BY <1>1, MinOfNat
<1>3. PICK n \in S : Min(T) = bound - n
  BY <1>2
<1>4. \A m \in S : m <= n
  <2> SUFFICES ASSUME NEW m \in S PROVE m <= n
    OBVIOUS
  <2>1. Min(T) <= bound - m
    BY <1>2
  <2> QED BY <1>3, <2>1
<1>5. \E x \in S : \A y \in S : x >= y
  BY <1>4
<1> QED BY <1>5 DEF Max

\* The next bound is past an age that does not reach it, by one at least.
LEMMA NextBound ==
    ASSUME NEW lo \in Nat, NEW next \in Nat, NEW age \in Int, lo < next,
           next <= age => next <= lo
    PROVE  next - 1 \in Nat /\ next - 1 >= age
OBVIOUS

\* The band of an age begins at a bound that the age has reached, or else the
\* first, and the age is not past its end.
LEMMA BandFacts ==
    ASSUME NEW bounds \in SUBSET Nat, bounds # {}, NEW age \in Int
    PROVE  /\ Band(age, bounds) \in [lo : Nat, hi : Nat \cup {None}]
           /\ Band(age, bounds).lo = Min(bounds) \/ Band(age, bounds).lo <= age
           /\ Band(age, bounds).hi = None \/ Band(age, bounds).hi >= age
<1> DEFINE reached == {Min(bounds)} \cup {b \in bounds : b <= age}
           lo == Max(reached)
           above == {b \in bounds : b > lo}
           hi == IF above = {} THEN None ELSE Min(above) - 1
<1>1. Min(bounds) \in bounds /\ Min(bounds) \in Nat
  BY MinOfNat
<1>2. lo \in reached /\ \A b \in reached : b <= lo
  <2> DEFINE bound == IF age > Min(bounds) THEN age ELSE Min(bounds)
  <2>1. bound \in Nat /\ Min(bounds) <= bound /\ age <= bound
    BY <1>1
  <2>2. reached \in SUBSET Nat /\ reached # {}
    BY <1>1
  <2>3. \A b \in reached : b = Min(bounds) \/ (b \in Nat /\ b <= age)
    OBVIOUS
  <2> HIDE DEF reached, bound
  <2>4. \A b \in reached : b <= bound
    BY <1>1, <2>1, <2>3
  <2> QED BY <2>1, <2>2, <2>4, MaxOfNat
<1>3. lo \in Nat /\ (lo = Min(bounds) \/ lo <= age)
  BY <1>1, <1>2
<1>4. hi \in Nat \cup {None} /\ (hi = None \/ hi >= age)
  <2>1. CASE above = {}
    BY <2>1
  <2>2. CASE above # {}
    <3>1. above \in SUBSET Nat
      OBVIOUS
    <3>2. Min(above) \in above
      BY <2>2, <3>1, MinOfNat
    <3>3. Min(above) \in bounds /\ Min(above) > lo
      BY <3>2
    <3>4. Min(above) <= age => Min(above) <= lo
      <4>1. Min(above) <= age => Min(above) \in reached
        BY <3>3
      <4> HIDE DEF above, lo, reached
      <4> QED BY <1>2, <4>1
    <3>5. hi = Min(above) - 1
      BY <2>2
    <3>6. Min(above) \in Nat /\ lo \in Nat /\ lo < Min(above)
      <4> HIDE DEF above, lo
      <4> QED BY <1>3, <3>3
    <3> HIDE DEF above, hi, lo
    <3>7. Min(above) - 1 \in Nat /\ Min(above) - 1 >= age
      BY <3>4, <3>6, NextBound
    <3> QED BY <3>5, <3>7
  <2> QED BY <2>1, <2>2
<1>5. Band(age, bounds) = [lo |-> lo, hi |-> hi]
  BY DEF Band
<1> HIDE DEF lo, hi
<1> QED BY <1>3, <1>4, <1>5

-----------------------------------------------------------------------------
(* Dates.                                                                  *)

\* The age on a day, and the date of birth as it is certified on a day.
AgeAt(day, birth) == day.year - birth.year - (IF YearDayBefore(day, birth) THEN 1 ELSE 0)

FullYear(y, t) == (IF y % 100 > t % 100 THEN 1900 ELSE 2000) + (y % 100)

Certified(day) == [born EXCEPT !.year = FullYear(born.year, day.year)]

LEMMA DateFields ==
    ASSUME NEW d \in Dates
    PROVE  /\ d.year \in Years /\ d.month \in -1 .. 12 /\ d.day \in -1 .. 31
           /\ d.year \in Int /\ d.month \in Int /\ d.day \in Int
BY DEF Dates, Years, Filler

LEMMA TodayFields ==
    ASSUME NEW t \in Todays
    PROVE  t \in Dates /\ t.year \in 2000 .. 2099
BY AgesAssumption, DateFields DEF Years

\* The year that two digits make on a day of the twenty-first century: a year
\* of the same digits, and the very year if it is one of the last hundred.
LEMMA Digits ==
    ASSUME NEW y \in Years
    PROVE  y % 100 = IF y < 2000 THEN y - 1900 ELSE y - 2000
<1>1. y \in Int /\ 1901 <= y /\ y <= 2099
  BY DEF Years
<1>2. CASE y < 2000
  <2>1. PICK r \in 0 .. 99 : r = y - 1900
    BY <1>1, <1>2
  <2>2. y = 19 * 100 + r
    BY <1>1, <2>1
  <2>3. (19 * 100 + r) % 100 = r
    OBVIOUS
  <2> QED BY <1>2, <2>1, <2>2, <2>3
<1>3. CASE ~(y < 2000)
  <2>1. PICK r \in 0 .. 99 : r = y - 2000
    BY <1>1, <1>3
  <2>2. y = 20 * 100 + r
    BY <1>1, <2>1
  <2>3. (20 * 100 + r) % 100 = r
    OBVIOUS
  <2> QED BY <1>3, <2>1, <2>2, <2>3
<1> QED BY <1>2, <1>3

LEMMA Century ==
    ASSUME NEW y \in Years, NEW t \in 2000 .. 2099
    PROVE  /\ FullYear(y, t) \in Years /\ (FullYear(y, t) % 4 = 0 <=> y % 4 = 0)
           /\ y <= t /\ t < y + 100 => FullYear(y, t) = y
<1> DEFINE year == FullYear(y, t)
<1>1. /\ y \in Int /\ 1901 <= y /\ y <= 2099 /\ t \in Int /\ 2000 <= t /\ t <= 2099
      /\ t \in Years
  BY DEF Years
<1>2. y % 100 = IF y < 2000 THEN y - 1900 ELSE y - 2000
  BY Digits
<1>3. t % 100 = t - 2000
  BY <1>1, Digits
<1>4. \/ year = y
      \/ year = y + 100 /\ y < 2000 /\ y - 1900 <= t - 2000
      \/ year = y - 100 /\ y >= 2000 /\ y - 2000 > t - 2000
  BY <1>1, <1>2, <1>3 DEF FullYear
<1> HIDE DEF year
<1>5. year \in Years
  BY <1>1, <1>4 DEF Years
<1>6. year % 4 = 0 <=> y % 4 = 0
  BY <1>1, <1>4
<1>7. y <= t /\ t < y + 100 => year = y
  BY <1>1, <1>4
<1> QED BY <1>5, <1>6, <1>7 DEF year

\* What is certified is a date, and a full one only if it was printed in full.
LEMMA CertifiedIsDate ==
    ASSUME born \in Dates, NEW day \in Todays
    PROVE  /\ Certified(day) \in Dates
           /\ Real(Certified(day)) => Real(born)
<1>1. born.year \in Years /\ day.year \in 2000 .. 2099
  BY DateFields, TodayFields
<1> DEFINE year == FullYear(born.year, day.year)
<1>2. year \in Years /\ (year % 4 = 0 <=> born.year % 4 = 0)
  BY <1>1, Century
<1>3. Certified(day) = [born EXCEPT !.year = year]
  BY DEF Certified
<1> HIDE DEF year
<1>4. Certified(day) \in Dates
  BY <1>2, <1>3 DEF Dates, Years
<1>5. /\ Certified(day).month = born.month /\ Certified(day).day = born.day
      /\ Certified(day).year = year
  BY <1>3 DEF Dates
<1> QED BY <1>2, <1>4, <1>5 DEF Real, MonthLength, Leap

\* In the holder's first century the certified date is the date of birth.
LEMMA CertifiedIsBorn ==
    ASSUME born \in Dates, NEW day \in Todays, born.year <= day.year, day.year < born.year + 100
    PROVE  Certified(day) = born
<1>1. born.year \in Years /\ day.year \in 2000 .. 2099
  BY DateFields, TodayFields
<1>2. FullYear(born.year, day.year) = born.year
  BY <1>1, Century
<1> QED BY <1>2 DEF Certified, Dates

LEMMA IntervalSize ==
    ASSUME NEW a \in Int, NEW b \in Int, a <= b
    PROVE  Cardinality(a + 1 .. b) = b - a
<1>1. a + 1 \in Int
  OBVIOUS
<1>2. Cardinality(a + 1 .. b) = IF a + 1 > b THEN 0 ELSE b - (a + 1) + 1
  BY <1>1, FS_Interval
<1>3. (IF a + 1 > b THEN 0 ELSE b - (a + 1) + 1) = b - a
  OBVIOUS
<1> QED BY <1>2, <1>3

\* Birthdays are counted by the age.
LEMMA AgeCountsBirthdays ==
    ASSUME born \in Dates, NEW day \in Todays, ~Earlier(day, born)
    PROVE  Birthdays(day) = AgeAt(day, born)
<1>1. /\ born.year \in Int /\ born.month \in Int /\ born.day \in Int
      /\ day.year \in Int /\ day.month \in Int /\ day.day \in Int
  BY DateFields, TodayFields
<1> DEFINE last == IF YearDayBefore(day, born) THEN day.year - 1 ELSE day.year
<1>2. ASSUME NEW y \in Int
      PROVE  Earlier(day, [born EXCEPT !.year = y])
                 <=> day.year < y \/ (day.year = y /\ YearDayBefore(day, born))
  BY DEF Earlier, YearDayBefore, Dates
<1>3. {y \in born.year + 1 .. day.year : ~Earlier(day, [born EXCEPT !.year = y])}
          = born.year + 1 .. last
  BY <1>1, <1>2
<1>4. born.year <= last
  BY <1>1 DEF Earlier
<1>5. last \in Int
  BY <1>1
<1> HIDE DEF last
<1>6. Cardinality(born.year + 1 .. last) = last - born.year
  BY <1>1, <1>4, <1>5, IntervalSize
<1>7. last - born.year = AgeAt(day, born)
  BY <1>1 DEF AgeAt, last
<1>8. Birthdays(day) = Cardinality(born.year + 1 .. last)
  BY <1>3 DEF Birthdays
<1> QED BY <1>6, <1>7, <1>8

\* Nobody grows younger.
LEMMA AgeIsMonotone ==
    ASSUME NEW birth \in Dates, NEW d \in Todays, NEW e \in Todays, ~Earlier(e, d)
    PROVE  AgeAt(d, birth) <= AgeAt(e, birth) /\ AgeAt(d, birth) \in Int /\ AgeAt(e, birth) \in Int
<1>1. /\ birth.year \in Int /\ birth.month \in Int /\ birth.day \in Int
      /\ d.year \in Int /\ d.month \in Int /\ d.day \in Int
      /\ e.year \in Int /\ e.month \in Int /\ e.day \in Int
  BY DateFields, TodayFields
<1> QED BY <1>1 DEF AgeAt, Earlier, YearDayBefore

-----------------------------------------------------------------------------
(* The invariant.                                                          *)

\* A proof was made from a certificate of the holder's, of an earlier day or the same.
Sound(p) ==
    /\ p.ivr.birth = Certified(p.ivr.at) /\ ~Earlier(p.ivr.at, born)
    /\ ~Earlier(p.at, p.ivr.at)
    /\ p.claim.kind # "failed" => Real(p.ivr.birth)
    /\ p.claim.kind = "over" =>
           (p.claim.value <=> AgeAt(p.at, p.ivr.birth) >= p.claim.threshold)
    /\ p.claim.kind = "band" =>
           /\ p.claim.bounds # {}
           /\ p.claim.band = Band(AgeAt(p.at, p.ivr.birth), p.claim.bounds)

Held ==
    /\ ~Earlier(today, born)
    /\ ivr # None => /\ ivr.birth = Certified(ivr.at) /\ ~Earlier(ivr.at, born)
                     /\ ~Earlier(today, ivr.at)

AllSound == \A p \in proofs : Sound(p)

IInv == TypeOK /\ Held /\ AllSound

LEMMA BornIsDate == ASSUME TypeOK PROVE born \in Dates
BY AgesAssumption DEF TypeOK

LEMMA NotEarlierIsTransitive ==
    ASSUME NEW a \in Dates, NEW b \in Dates, NEW c \in Dates, ~Earlier(b, a), ~Earlier(c, b)
    PROVE  ~Earlier(c, a)
<1>1. /\ a.year \in Int /\ a.month \in Int /\ a.day \in Int
      /\ b.year \in Int /\ b.month \in Int /\ b.day \in Int
      /\ c.year \in Int /\ c.month \in Int /\ c.day \in Int
  BY DateFields
<1> QED BY <1>1 DEF Earlier, YearDayBefore

LEMMA NotEarlierThanItself == ASSUME NEW d \in Dates PROVE ~Earlier(d, d)
<1>1. d.year \in Int /\ d.month \in Int /\ d.day \in Int
  BY DateFields
<1> QED BY <1>1 DEF Earlier, YearDayBefore

LEMMA IInvInit == Init => IInv
BY DEF Init, IInv, TypeOK, Held, AllSound

LEMMA VerifyStep == IInv /\ Verify => IInv'
<1> SUFFICES ASSUME IInv, Verify PROVE IInv'
  OBVIOUS
<1>1. born \in Dates /\ today \in Todays /\ today \in Dates
  BY BornIsDate, TodayFields DEF IInv, TypeOK
<1>2. /\ ivr' = [birth |-> Certified(today), at |-> today]
      /\ UNCHANGED <<today, born, proofs>>
  <2>1. [born EXCEPT !.year = CertifiedYear(born.year % 100)] = Certified(today)
    <3>1. CertifiedYear(born.year % 100) = FullYear(born.year, today.year)
      BY DEF CertifiedYear, FullYear
    <3> QED BY <3>1 DEF Certified
  <2> QED BY <2>1 DEF Verify
<1>3. ivr' \in Certificates
  BY <1>1, <1>2, CertifiedIsDate DEF Certificates
<1>4. TypeOK'
  BY <1>2, <1>3 DEF IInv, TypeOK
<1>5. Held'
  <2>1. ~Earlier(today, today)
    BY <1>1, NotEarlierThanItself
  <2> QED BY <1>2, <2>1 DEF IInv, Held, Certified, Earlier, YearDayBefore
<1>6. AllSound'
  BY <1>2 DEF IInv, AllSound, Sound, Certified
<1> QED BY <1>4, <1>5, <1>6 DEF IInv

LEMMA PassStep == IInv /\ Pass => IInv'
<1> SUFFICES ASSUME IInv, Pass PROVE IInv'
  OBVIOUS
<1>1. today' \in Todays /\ Earlier(today, today') /\ UNCHANGED <<born, ivr, proofs>>
  BY DEF Pass
<1>2. born \in Dates /\ today \in Dates /\ today' \in Dates
  BY <1>1, BornIsDate, TodayFields DEF IInv, TypeOK
<1>3. ~Earlier(today', today)
  <2>1. /\ today.year \in Int /\ today.month \in Int /\ today.day \in Int
        /\ today'.year \in Int /\ today'.month \in Int /\ today'.day \in Int
    BY <1>2, DateFields
  <2> QED BY <1>1, <2>1 DEF Earlier, YearDayBefore
<1>4. TypeOK'
  BY <1>1 DEF IInv, TypeOK
<1>5. Held'
  <2>1. ~Earlier(today', born)
    BY <1>2, <1>3, NotEarlierIsTransitive DEF IInv, Held
  <2>2. ASSUME ivr # None PROVE ~Earlier(today', ivr.at)
    <3>1. ivr.at \in Dates
      BY <2>2, TodayFields DEF IInv, TypeOK, Certificates
    <3> QED BY <1>2, <1>3, <2>2, <3>1, NotEarlierIsTransitive DEF IInv, Held
  <2> QED BY <1>1, <2>1, <2>2 DEF IInv, Held, Certified, Earlier, YearDayBefore
<1>6. AllSound'
  BY <1>1 DEF IInv, AllSound, Sound, Certified
<1> QED BY <1>4, <1>5, <1>6 DEF IInv

\* A new proof keeps the invariant if it claims the truth.
LEMMA ProofStep ==
    ASSUME IInv, Provable, NEW claim \in Claims, Proof(claim), UNCHANGED <<today, born, ivr>>,
           Sound([claim |-> claim, at |-> today, ivr |-> ivr])
    PROVE  IInv'
<1>1. proofs' = proofs \cup {[claim |-> claim, at |-> today, ivr |-> ivr]}
  BY DEF Proof
<1>2. ivr \in Certificates /\ today \in Todays
  BY DEF IInv, TypeOK, Provable
<1>3. TypeOK'
  BY <1>1, <1>2 DEF IInv, TypeOK
<1>4. Held'
  BY DEF IInv, Held, Certified
<1>5. \A p \in proofs' : Sound(p)
  BY <1>1 DEF IInv, AllSound
<1>6. AllSound'
  BY <1>5 DEF AllSound, Sound, Certified
<1> QED BY <1>3, <1>4, <1>6 DEF IInv

\* What the certificate at hand has, whatever the claim.
LEMMA Provided ==
    ASSUME IInv, Provable
    PROVE  /\ ivr.birth = Certified(ivr.at) /\ ~Earlier(ivr.at, born) /\ ~Earlier(today, ivr.at)
           /\ ivr.birth \in Dates /\ today \in Todays
           /\ AgeFrom(ivr.birth) = AgeAt(today, ivr.birth) /\ AgeAt(today, ivr.birth) \in Int
<1>1. /\ ivr.birth \in Dates /\ today \in Todays
  BY DEF IInv, TypeOK, Provable, Certificates
<1>2. AgeFrom(ivr.birth) = AgeAt(today, ivr.birth)
  BY DEF AgeFrom, AgeAt
<1>3. AgeAt(today, ivr.birth) \in Int
  BY <1>1, NotEarlierThanItself, AgeIsMonotone, TodayFields
<1> QED BY <1>1, <1>2, <1>3 DEF IInv, Held, Provable

LEMMA FailStep == IInv /\ Fail => IInv'
<1> SUFFICES ASSUME IInv, Fail PROVE IInv'
  OBVIOUS
<1> DEFINE claim == [kind |-> "failed"]
<1>1. Provable /\ Proof(claim) /\ UNCHANGED <<today, born, ivr>>
  BY DEF Fail
<1>2. claim \in Claims
  BY DEF Claims
<1>3. Sound([claim |-> claim, at |-> today, ivr |-> ivr])
  BY <1>1, Provided DEF Sound
<1> QED BY <1>1, <1>2, <1>3, ProofStep

LEMMA ProveAgeOverStep == IInv /\ ProveAgeOver => IInv'
<1> SUFFICES ASSUME IInv, ProveAgeOver PROVE IInv'
  OBVIOUS
<1>1. PICK t \in Thresholds :
          Proof([kind |-> "over", threshold |-> t, value |-> AgeFrom(ivr.birth) >= t])
  BY DEF ProveAgeOver
<1> DEFINE claim == [kind |-> "over", threshold |-> t, value |-> AgeFrom(ivr.birth) >= t]
<1>2. Provable /\ Real(ivr.birth) /\ UNCHANGED <<today, born, ivr>>
  BY DEF ProveAgeOver
<1>3. claim \in Claims
  BY DEF Claims
<1>4. Sound([claim |-> claim, at |-> today, ivr |-> ivr])
  BY <1>2, Provided DEF Sound
<1> QED BY <1>1, <1>2, <1>3, <1>4, ProofStep

LEMMA ProveAgeBandStep == IInv /\ ProveAgeBand => IInv'
<1> SUFFICES ASSUME IInv, ProveAgeBand PROVE IInv'
  OBVIOUS
<1>1. PICK asked \in BandSets :
          LET bounds == IF asked = {} THEN DefaultBands ELSE asked
          IN  Proof([kind |-> "band", bounds |-> bounds,
                     band |-> Band(AgeFrom(ivr.birth), bounds)])
  BY DEF ProveAgeBand
<1> DEFINE bounds == IF asked = {} THEN DefaultBands ELSE asked
           claim == [kind |-> "band", bounds |-> bounds,
                     band |-> Band(AgeFrom(ivr.birth), bounds)]
<1>2. Provable /\ Real(ivr.birth) /\ UNCHANGED <<today, born, ivr>>
  BY DEF ProveAgeBand
<1>3. bounds \in SUBSET Nat /\ bounds # {} /\ bounds \in BandSets \cup {DefaultBands}
  BY AgesAssumption DEF DefaultBands
<1>4. AgeFrom(ivr.birth) \in Int
  BY <1>2, Provided
<1>5. Proof(claim)
  BY <1>1
<1> HIDE DEF bounds
<1>6. claim \in Claims
  BY <1>3, <1>4, BandFacts DEF Claims
<1>7. Sound([claim |-> claim, at |-> today, ivr |-> ivr])
  BY <1>2, <1>3, Provided DEF Sound
<1> QED BY <1>2, <1>5, <1>6, <1>7, ProofStep

LEMMA IInvStep == IInv /\ [Next]_vars => IInv'
<1> SUFFICES ASSUME IInv, [Next]_vars PROVE IInv'
  OBVIOUS
<1>1. CASE UNCHANGED vars
  BY <1>1 DEF vars, IInv, TypeOK, Held, AllSound, Sound, Certified
<1> QED BY <1>1, VerifyStep, FailStep, ProveAgeOverStep, ProveAgeBandStep, PassStep DEF Next

\* The inductive invariant.
LEMMA Inductive == Spec => []IInv
BY IInvInit, IInvStep, PTL DEF Spec

-----------------------------------------------------------------------------
\* Types are kept; a band always has a first age, and its end, if any, is an age too.
THEOREM AgesTypeCorrect == Spec => []TypeOK
<1>1. IInv => TypeOK
  BY DEF IInv
<1> QED BY <1>1, Inductive, PTL

\* What an age proof needs to know of its proof.
LEMMA OverFacts ==
    ASSUME IInv, NEW p \in Proofs("over")
    PROVE  /\ p \in proofs /\ Sound(p) /\ p.at \in Todays /\ p.ivr.at \in Todays
           /\ p.ivr.birth \in Dates /\ p.claim.threshold \in Nat /\ p.claim.value \in BOOLEAN
           /\ p.claim.kind = "over"
<1>1. p \in proofs /\ p.claim.kind = "over"
  BY DEF Proofs
<1>2. p \in [claim : Claims, at : Todays, ivr : Certificates]
  BY <1>1 DEF IInv, TypeOK
<1>3. p.claim \in Claims /\ p.at \in Todays /\ p.ivr.at \in Todays /\ p.ivr.birth \in Dates
  BY <1>2 DEF Certificates
<1>4. p.claim \in [kind : {"over"}, threshold : Thresholds, value : BOOLEAN]
  BY <1>1, <1>3 DEF Claims
<1>5. p.claim.threshold \in Nat /\ p.claim.value \in BOOLEAN
  BY <1>4, AgesAssumption
<1> QED BY <1>1, <1>3, <1>5 DEF IInv, AllSound

LEMMA FirstCentury ==
    ASSUME IInv, NEW p \in Proofs("over"), InFirstCentury(p.ivr)
    PROVE  p.ivr.birth = born
<1>1. /\ Sound(p) /\ p.ivr.at \in Todays /\ born \in Dates
  BY OverFacts, BornIsDate DEF IInv
<1>2. p.ivr.at.year \in Int /\ born.year \in Int
  BY <1>1, TodayFields, DateFields
<1>3. born.year <= p.ivr.at.year
  BY <1>1, <1>2 DEF Sound, Earlier
<1> QED BY <1>1, <1>3, CertifiedIsBorn DEF Sound, InFirstCentury

\* An age_over counts the holder's birthdays, and takes a full date of birth.
THEOREM AgesAreTrueAlways == Spec => []AgesAreTrue
<1>1. IInv => AgesAreTrue
  <2> SUFFICES ASSUME IInv PROVE AgesAreTrue
    OBVIOUS
  <2>1. ASSUME NEW p \in Proofs("over"), InFirstCentury(p.ivr)
        PROVE  p.claim.value <=> Birthdays(p.at) >= p.claim.threshold
    <3>1. p.ivr.birth = born /\ Sound(p) /\ p.at \in Todays /\ p.claim.kind = "over"
      BY <2>1, FirstCentury, OverFacts
    <3>2. born \in Dates /\ p.at \in Dates /\ p.ivr.at \in Dates
      BY OverFacts, BornIsDate, TodayFields DEF IInv
    <3>3. ~Earlier(p.at, born)
      BY <3>1, <3>2, NotEarlierIsTransitive DEF Sound
    <3>4. Birthdays(p.at) = AgeAt(p.at, born)
      BY <3>1, <3>2, <3>3, AgeCountsBirthdays
    <3> QED BY <3>1, <3>4 DEF Sound
  <2>2. ASSUME NEW p \in Proofs("over") PROVE Real(born)
    <3>1. Sound(p) /\ p.claim.kind = "over" /\ p.ivr.at \in Todays /\ born \in Dates
      BY OverFacts, BornIsDate DEF IInv
    <3> QED BY <3>1, CertifiedIsDate DEF Sound
  <2> QED BY <2>1, <2>2 DEF AgesAreTrue
<1> QED BY <1>1, Inductive, PTL

\* An age once proven is never refuted.
THEOREM AgesOnlyGrow == Spec => []AgeOnlyGrows
<1>1. IInv => AgeOnlyGrows
  <2> SUFFICES ASSUME IInv, NEW p \in Proofs("over"), NEW q \in Proofs("over"),
                      p.claim.value, q.claim.threshold <= p.claim.threshold, ~Earlier(q.at, p.at),
                      p.ivr = q.ivr \/ (InFirstCentury(p.ivr) /\ InFirstCentury(q.ivr))
               PROVE  q.claim.value
    BY DEF AgeOnlyGrows
  <2>1. p.ivr.birth = q.ivr.birth
    BY FirstCentury
  <2>2. /\ Sound(p) /\ Sound(q) /\ p.at \in Todays /\ q.at \in Todays /\ p.ivr.birth \in Dates
        /\ p.claim.threshold \in Nat /\ q.claim.threshold \in Nat
        /\ p.claim.kind = "over" /\ q.claim.kind = "over"
    BY OverFacts
  <2>3. /\ AgeAt(p.at, p.ivr.birth) <= AgeAt(q.at, p.ivr.birth)
        /\ AgeAt(p.at, p.ivr.birth) \in Int /\ AgeAt(q.at, p.ivr.birth) \in Int
    BY <2>2, AgeIsMonotone
  <2>4. AgeAt(p.at, p.ivr.birth) >= p.claim.threshold
    BY <2>2 DEF Sound
  <2>5. AgeAt(q.at, q.ivr.birth) >= q.claim.threshold
    BY <2>1, <2>2, <2>3, <2>4
  <2> QED BY <2>2, <2>5 DEF Sound
<1> QED BY <1>1, Inductive, PTL

\* A band and an age_over of one day and IVR agree, but for ages below the first bound.
THEOREM BandsAgreeAlways == Spec => []BandsAgree
<1>1. IInv => BandsAgree
  <2> SUFFICES ASSUME IInv, NEW p \in Proofs("band"), NEW q \in Proofs("over"),
                      p.ivr = q.ivr, p.at = q.at
               PROVE  /\ q.claim.value => \/ p.claim.band.hi = None
                                          \/ p.claim.band.hi >= q.claim.threshold
                      /\ ~q.claim.value /\ p.claim.band.lo # Min(p.claim.bounds) =>
                             p.claim.band.lo < q.claim.threshold
    BY DEF BandsAgree
  <2> DEFINE age == AgeAt(q.at, q.ivr.birth)
  <2>1. /\ Sound(q) /\ q.at \in Todays /\ q.ivr.birth \in Dates /\ q.claim.threshold \in Nat
        /\ q.claim.kind = "over" /\ q.claim.value \in BOOLEAN
    BY OverFacts
  <2>2. age \in Int
    BY <2>1, NotEarlierThanItself, TodayFields, AgeIsMonotone
  <2>3. /\ Sound(p) /\ p.claim.kind = "band" /\ p.claim.bounds \in SUBSET Nat
        /\ p.claim.bounds # {}
    <3>1. p \in proofs /\ p.claim.kind = "band"
      BY DEF Proofs
    <3>2. p.claim \in Claims
      BY <3>1 DEF IInv, TypeOK
    <3>3. p.claim.bounds \in BandSets \cup {DefaultBands}
      BY <3>1, <3>2 DEF Claims
    <3>4. p.claim.bounds \in SUBSET Nat
      <4>1. DefaultBands \in SUBSET Nat
        BY DEF DefaultBands
      <4>2. BandSets \subseteq SUBSET Nat
        BY AgesAssumption
      <4> QED BY <3>3, <4>1, <4>2
    <3> QED BY <3>1, <3>4 DEF IInv, AllSound, Sound
  <2>4. p.claim.band = Band(age, p.claim.bounds)
    BY <2>3 DEF Sound
  <2>5. q.claim.value <=> age >= q.claim.threshold
    BY <2>1 DEF Sound
  <2> HIDE DEF age
  <2>6. /\ p.claim.band.lo \in Nat /\ p.claim.band.hi \in Nat \cup {None}
        /\ p.claim.band.lo = Min(p.claim.bounds) \/ p.claim.band.lo <= age
        /\ p.claim.band.hi = None \/ p.claim.band.hi >= age
    BY <2>2, <2>3, <2>4, BandFacts
  <2> QED BY <2>1, <2>2, <2>5, <2>6
<1> QED BY <1>1, Inductive, PTL
=============================================================================
