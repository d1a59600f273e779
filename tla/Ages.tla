-------------------------------- MODULE Ages --------------------------------
(***************************************************************************)
(* What becomes of a date of birth: the machine-readable zone prints two   *)
(* digits of its year; the verifier restores the century when it certifies *)
(* the date in an IVR (mrz.py:293-306, at POST /verify-identity) and       *)
(* computes ages from the certified date, on later days, when it is asked  *)
(* to prove one (receipt.py:253-291, POST /prove/age-over, /age-band).     *)
(*                                                                         *)
(* Dates are of the years 1901 to 2099, in which every fourth is a leap    *)
(* year.                                                                   *)
(***************************************************************************)
EXTENDS Integers, FiniteSets, FiniteSetsExt

CONSTANTS Births,      \* dates of birth as passports have them
          Todays,      \* the days on which the verifier is called
          Thresholds,  \* what age-over is asked for
          BandSets,    \* what age-band is asked for; {} leaves the default
          None,        \* no IVR; no upper end of a band
          IvrDays,     \* config.IVR_TTL_SECONDS, in days
          MaxProofs    \* bound

Unknown == 0   \* a month or day printed as 00
Filler == -1   \* a month or day printed as <<

Years == 1901 .. 2099
Dates == [year : Years, month : Filler .. 12, day : Filler .. 31]

Leap(year) == year % 4 = 0
MonthLength(year, month) ==
    IF month = 2 THEN (IF Leap(year) THEN 29 ELSE 28)
    ELSE IF month \in {4, 6, 9, 11} THEN 30 ELSE 31

\* The dates that datetime can represent.
Real(date) == date.month \in 1 .. 12 /\ date.day \in 1 .. MonthLength(date.year, date.month)

ASSUME AgesAssumption ==
    /\ Births \subseteq Dates
    /\ Todays \subseteq Dates /\ \A t \in Todays : Real(t) /\ t.year >= 2000
    /\ Thresholds \subseteq Nat /\ BandSets \subseteq SUBSET Nat
    /\ None \notin Nat /\ None \notin [birth : Dates, at : Todays]
    /\ IvrDays \in Nat /\ MaxProofs \in Nat

VARIABLES today,   \* the enclave's date
          born,    \* the holder's date of birth
          ivr,     \* the IVR the holder has: the certified date and the day it was made
          proofs   \* history: the proofs of age it gave

vars == <<today, born, ivr, proofs>>

-----------------------------------------------------------------------------
YearDayBefore(d, e) == d.month < e.month \/ (d.month = e.month /\ d.day < e.day)
Earlier(d, e) == d.year < e.year \/ (d.year = e.year /\ YearDayBefore(d, e))

\* The number of a day.
DayNumber(d) == 365 * d.year + ((d.year - 1) \div 4) + d.day
    + MapThenSumSet(LAMBDA m : MonthLength(d.year, m), 1 .. d.month - 1)

\* Bug forms: who was born this year is a hundred years old; the century is left out.
InclusivePivot(yy) == (IF yy >= today.year % 100 THEN 1900 ELSE 2000) + yy
NoCentury(yy) == yy

\* _date, birth=True: two digits after this year's mean the last century.
CertifiedYear(yy) == (IF yy > today.year % 100 THEN 1900 ELSE 2000) + yy

\* _date refuses what is not six digits, and what no date can be; 00 passes.
Legible(date) == date.month \in 0 .. 12 /\ date.day \in 0 .. 31

\* POST /verify-identity for the holder, the first time or again.
Verify ==
    /\ Legible(born)
    /\ ivr' = [birth |-> [born EXCEPT !.year = CertifiedYear(born.year % 100)], at |-> today]
    /\ UNCHANGED <<today, born, proofs>>

\* Bug form: the month is not looked at.
DayOnlyAge(birth) == today.year - birth.year - (IF today.day < birth.day THEN 1 ELSE 0)

\* _age_from, of a date that strptime accepts.
AgeFrom(birth) == today.year - birth.year - (IF YearDayBefore(today, birth) THEN 1 ELSE 0)

DefaultBands == {0, 13, 16, 18, 21, 25, 65}

\* Bug form: bounds belong to the band below them.
UpperInclusiveBand(age, bounds) ==
    LET lo == Max({Min(bounds)} \cup {b \in bounds : b < age})
        above == {b \in bounds : b > lo}
    IN  [lo |-> lo, hi |-> IF above = {} THEN None ELSE Min(above) - 1]

\* _band_label: from the last bound reached, or else the first, to the next one.
Band(age, bounds) ==
    LET lo == Max({Min(bounds)} \cup {b \in bounds : b <= age})
        above == {b \in bounds : b > lo}
    IN  [lo |-> lo, hi |-> IF above = {} THEN None ELSE Min(above) - 1]

\* Disclosure!Preflight: an IVR that has not expired.
Provable ==
    /\ ivr # None
    /\ DayNumber(today) <= DayNumber(ivr.at) + IvrDays
    /\ Cardinality(proofs) < MaxProofs

Proof(claim) == proofs' = proofs \cup {[claim |-> claim, at |-> today, ivr |-> ivr]}

\* A certified date that strptime rejects makes a charged failure of the proof.
Fail ==
    /\ Provable /\ ~Real(ivr.birth)
    /\ Proof([kind |-> "failed"])
    /\ UNCHANGED <<today, born, ivr>>

ProveAgeOver ==
    /\ Provable /\ Real(ivr.birth)
    /\ \E t \in Thresholds : Proof([kind |-> "over", threshold |-> t, value |-> AgeFrom(ivr.birth) >= t])
    /\ UNCHANGED <<today, born, ivr>>

ProveAgeBand ==
    /\ Provable /\ Real(ivr.birth)
    /\ \E asked \in BandSets :
           LET bounds == IF asked = {} THEN DefaultBands ELSE asked
           IN  Proof([kind |-> "band", bounds |-> bounds, band |-> Band(AgeFrom(ivr.birth), bounds)])
    /\ UNCHANGED <<today, born, ivr>>

Pass ==
    /\ today' \in {t \in Todays : Earlier(today, t)}
    /\ UNCHANGED <<born, ivr, proofs>>

\* The holder has been born.
Init ==
    /\ today \in Todays /\ born \in {b \in Births : ~Earlier(today, b)}
    /\ ivr = None /\ proofs = {}

Next == Verify \/ Fail \/ ProveAgeOver \/ ProveAgeBand \/ Pass

Spec == Init /\ [][Next]_vars

-----------------------------------------------------------------------------
(* What must hold.                                                         *)

Certificates == [birth : Dates, at : Todays]
Claims == [kind : {"failed"}]
    \cup [kind : {"over"}, threshold : Thresholds, value : BOOLEAN]
    \cup [kind : {"band"}, bounds : BandSets \cup {DefaultBands}, band : [lo : Nat, hi : Nat \cup {None}]]

TypeOK ==
    /\ today \in Todays /\ born \in Births
    /\ ivr \in Certificates \cup {None}
    /\ proofs \subseteq [claim : Claims, at : Todays, ivr : Certificates]

\* How many birthdays the holder has had by a day.  One who was born on 29
\* February has them on 1 March in other years.
Birthdays(day) ==
    Cardinality({y \in born.year + 1 .. day.year : ~Earlier(day, [born EXCEPT !.year = y])})

\* Two digits are enough until the year of the hundredth birthday.
InFirstCentury(certificate) == certificate.at.year < born.year + 100

Proofs(kind) == {p \in proofs : p.claim.kind = kind}

\* An age_over is true of the holder: it counts the birthdays he has had on that
\* day, on either side of a birthday, of a leap day, of a new year that moves the
\* century's pivot, with an IVR of another day - if the document was verified
\* before the year of his hundredth birthday.  Without a full date of birth there is no proof.
AgesAreTrue ==
    /\ \A p \in Proofs("over") : InFirstCentury(p.ivr) =>
           (p.claim.value <=> Birthdays(p.at) >= p.claim.threshold)
    /\ Proofs("over") # {} => Real(born)

\* An age once proven is never refuted, by the same IVR on a later day or by
\* another one made in the holder's first century.
AgeOnlyGrows ==
    \A p, q \in Proofs("over") :
        /\ p.claim.value /\ q.claim.threshold <= p.claim.threshold
        /\ ~Earlier(q.at, p.at)
        /\ p.ivr = q.ivr \/ (InFirstCentury(p.ivr) /\ InFirstCentury(q.ivr))
        => q.claim.value

\* A band and an age_over of the same IVR and day do not contradict each other,
\* unless the holder has not reached the first bound that was asked for: he is
\* then told to be in the first band.
BandsAgree ==
    \A p \in Proofs("band"), q \in Proofs("over") :
        p.ivr = q.ivr /\ p.at = q.at =>
            /\ q.claim.value => p.claim.band.hi = None \/ p.claim.band.hi >= q.claim.threshold
            /\ ~q.claim.value /\ p.claim.band.lo # Min(p.claim.bounds) =>
                   p.claim.band.lo < q.claim.threshold
=============================================================================
