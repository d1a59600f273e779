------------------------------ MODULE AccessKey ------------------------------
(***************************************************************************)
(* Reading the data page to unlock the chip: the wallet photographs the    *)
(* page, POST /read-mrz (main.py:299-333) reads the machine-readable zone  *)
(* and corrects OCR-B look-alikes against the ICAO check digits            *)
(* (mrz.py:154-290), and the wallet tries the key it is given on the chip, *)
(* or takes another picture.                                               *)
(*                                                                         *)
(* A field is a sequence of characters of any length; the model keeps the  *)
(* three fields the key is made of, each with its check character.         *)
(***************************************************************************)
EXTENDS Integers, Sequences, FiniteSets, FiniteSetsExt, Functions, SequencesExt

CONSTANTS Pages,       \* printed data pages: [number, birth, expiry] records of fields
          None,        \* no picture, no answer
          MaxMisreads  \* bound: characters of a page that one picture gets wrong

Alphabet == <<"0", "1", "2", "3", "4", "5", "6", "7", "8", "9", "<",
              "A", "B", "C", "D", "E", "F", "G", "H", "I", "J", "K", "L", "M",
              "N", "O", "P", "Q", "R", "S", "T", "U", "V", "W", "X", "Y", "Z">>
Letters == Range(Alphabet)
Code == AntiFunction(Alphabet)      \* a character's place in the ASCII order
Digits == {Alphabet[i] : i \in 1 .. 10}

Fields == {"number", "birth", "expiry"}
Texts == UNION {{page[f] : f \in Fields} : page \in Pages}

ASSUME AccessKeyAssumption ==
    /\ Pages \subseteq [Fields -> Seq(Letters)]
    /\ \A page \in Pages : Range(page.birth) \cup Range(page.expiry) \subseteq Digits \cup {"<"}
    /\ MaxMisreads \in Nat

VARIABLES page,    \* the passport in the holder's hand
          photo,   \* what the OCR engine reads on the last picture
          answer,  \* of /read-mrz to that picture
          chip     \* "closed" or "open"

vars == <<page, photo, answer, chip>>

-----------------------------------------------------------------------------
(* mrz.py.                                                                 *)

\* _char_value: digits, then A = 10 ...; the filler counts nothing.
CharValue(c) == IF c = "<" THEN 0 ELSE IF c \in Digits THEN Code[c] - 1 ELSE Code[c] - 2

\* _check_digit: the values weighted 7, 3, 1, 7, ..., modulo ten.
Weighted(text) == [i \in DOMAIN text |-> CharValue(text[i]) * <<7, 3, 1>>[1 + ((i - 1) % 3)]]

CheckDigit(text) == Alphabet[1 + (SumFunction(Weighted(text)) % 10)]

Pair == {<<"0", "O">>, <<"1", "I">>, <<"5", "S">>, <<"8", "B">>, <<"2", "Z">>, <<"6", "G">>}

\* _CONFUSE_ALNUM (both ways) and _CONFUSE_NUM (letter to digit), as relations.
ConfuseAlnum == Pair \cup {<<p[2], p[1]>> : p \in Pair}
ConfuseNum == {<<p[2], p[1]>> : p \in Pair}
    \cup {<<"Q", "0">>, <<"D", "0">>, <<"L", "1">>, <<"A", "4">>, <<"T", "7">>}

Confuse(f) == IF f = "number" THEN ConfuseAlnum ELSE ConfuseNum
LookAlike(f, c) == CHOOSE d \in Letters : <<c, d>> \in Confuse(f)

\* A text with the look-alikes at some positions swapped.
Swapped(f, text, at) == [i \in DOMAIN text |-> IF i \in at THEN LookAlike(f, text[i]) ELSE text[i]]

\* _swap_cost: I/1 and O/0 are the likely ones.
SwapCost(f, text, at) ==
    SumFunction([i \in at |-> IF <<text[i], LookAlike(f, text[i])>>
                                   \in {<<"1", "I">>, <<"I", "1">>, <<"0", "O">>, <<"O", "0">>}
                              THEN 1 ELSE 3])

\* Bug form: the number keeps its filler.
Filled(text) == text

\* replace("<", "").
Unfilled(text) == FoldLeft(LAMBDA kept, c : IF c = "<" THEN kept ELSE Append(kept, c), <<>>, text)

\* _transitions: changes between digits and letters, fillers left out.
Transitions(text) ==
    LET run == Unfilled(text)
    IN  Cardinality({i \in 2 .. Len(run) : (run[i] \in Digits) # (run[i - 1] \in Digits)})

\* Bug form: one look-alike at most is corrected.
OneSwap(f, text) == kSubset(0, DOMAIN text) \cup
    kSubset(1, {i \in DOMAIN text : \E d \in Letters : <<text[i], d>> \in Confuse(f)})

\* The sets of positions, at most two, that _candidates swaps.
Swaps(f, text) ==
    LET idxs == {i \in DOMAIN text : \E d \in Letters : <<text[i], d>> \in Confuse(f)}
    IN  UNION {kSubset(k, idxs) : k \in 0 .. 2}

\* The key _candidates sorts by.
Rank(f, text, at) ==
    LET new == Swapped(f, text, at)
    IN  <<Cardinality(at), SwapCost(f, text, at), Transitions(new)>>
        \o [i \in DOMAIN new |-> Code[new[i]]]

Before(r, s) == \E i \in DOMAIN r : r[i] < s[i] /\ \A j \in 1 .. i - 1 : r[j] = s[j]

\* _candidates; those of a date that are not all digits are dropped afterwards.
Candidates(f, text, check) ==
    {at \in Swaps(f, text) :
        /\ CheckDigit(Swapped(f, text, at)) = check
        /\ f # "number" => Range(Swapped(f, text, at)) \subseteq Digits}

\* Bug form: the reading with the fewest changes between digits and letters.
SmoothestReading(f, text, check) ==
    LET cands == Candidates(f, text, check)
    IN  Swapped(f, text, CHOOSE at \in cands : \A other \in cands :
                             Transitions(Swapped(f, text, at)) <= Transitions(Swapped(f, text, other)))

\* The first of the sorted candidates.
BestReading(f, text, check) ==
    LET cands == Candidates(f, text, check)
    IN  Swapped(f, text, CHOOSE at \in cands : \A other \in cands \ {at} :
                             Before(Rank(f, text, at), Rank(f, text, other)))

\* The key that opens the chip is made of the three printed fields.
KeyOf(texts) == [texts EXCEPT !.number = Unfilled(@)]

\* mrz_access_fields: the best readings make the key; without a candidate for each
\* field it raises.
Readable(read) == \A f \in Fields : Candidates(f, read[f].text, read[f].check) # {}

AccessFields(read) == KeyOf([f \in Fields |-> BestReading(f, read[f].text, read[f].check)])

-----------------------------------------------------------------------------
(* What a picture shows.                                                   *)

Exact == [f \in Fields |-> [text |-> page[f], check |-> CheckDigit(page[f])]]

\* What the camera can make of a character: itself, or what it takes for it - a
\* character that looks like it, or one that does not.
Misread(f, c) == {c} \cup {d \in Letters : <<d, c>> \in Confuse(f)} \cup {"7"}

Differ(text, other) == {i \in DOMAIN text : text[i] # other[i]}

\* Bound: the misreads of one picture fall into one field.
Photos ==
    UNION {{[Exact EXCEPT ![f] = [text |-> text, check |-> check]] :
                          text \in {t \in [DOMAIN page[f] -> UNION {Misread(f, c) : c \in Range(page[f])}] :
                                      /\ \A i \in DOMAIN t : t[i] \in Misread(f, page[f][i])
                                      /\ Cardinality(Differ(t, page[f])) <= MaxMisreads},
                          check \in Misread("number", Exact[f].check)} : f \in Fields}

\* The OCR engine behind doc_ocr.read_mrz, on a picture of the page.
Photograph ==
    /\ photo = None /\ answer = None /\ chip = "closed"
    /\ photo' \in Photos
    /\ UNCHANGED <<page, answer, chip>>

\* POST /read-mrz: the key, or 422, take another picture.
ReadMrz ==
    /\ photo # None /\ answer = None
    /\ answer' = IF Readable(photo) THEN [status |-> 200, key |-> AccessFields(photo)]
                 ELSE [status |-> 422]
    /\ UNCHANGED <<page, photo, chip>>

\* The gate in front of it, IdentityCheck!Attested, refuses the wallet.
RefuseWallet ==
    /\ photo # None /\ answer = None
    /\ answer' = [status |-> 400]
    /\ UNCHANGED <<page, photo, chip>>

\* A picture in which read_mrz finds no two MRZ rows, or cannot decode at all.
ReadNothing ==
    /\ photo = None /\ answer = None /\ chip = "closed"
    /\ answer' = [status |-> 422]
    /\ UNCHANGED <<page, photo, chip>>

\* The wallet: the chip opens for its own key only; otherwise, another picture.
TryChip ==
    /\ answer # None /\ answer.status = 200
    /\ chip' = IF answer.key = KeyOf(page) THEN "open" ELSE "closed"
    /\ photo' = None /\ answer' = None
    /\ UNCHANGED page

Retake ==
    /\ answer # None /\ answer.status \in {400, 422}
    /\ photo' = None /\ answer' = None
    /\ UNCHANGED <<page, chip>>

\* The next passport.
NextPage ==
    /\ chip = "open"
    /\ page' \in Pages /\ chip' = "closed"
    /\ UNCHANGED <<photo, answer>>

Init == page \in Pages /\ photo = None /\ answer = None /\ chip = "closed"

Next == Photograph \/ ReadMrz \/ RefuseWallet \/ ReadNothing \/ TryChip \/ Retake \/ NextPage

Spec == Init /\ [][Next]_vars

-----------------------------------------------------------------------------
(* What must hold.                                                         *)

TypeOK ==
    /\ page \in Pages
    /\ photo # None => \A f \in Fields : photo[f].text \in Seq(Letters) /\ photo[f].check \in Letters
    /\ \/ answer = None \/ answer \in [status : {400, 422}]
       \/ answer.status = 200 /\ \A f \in Fields : Range(answer.key[f]) \subseteq Letters \ {"<"}
    /\ chip \in {"closed", "open"}

\* The picture got nothing wrong but look-alikes, at most two in a field, and no
\* check character.
LookAlikesOnly ==
    \A f \in Fields :
        /\ photo[f].check = Exact[f].check
        /\ Cardinality(Differ(photo[f].text, page[f])) <= 2
        /\ \A i \in Differ(photo[f].text, page[f]) : <<photo[f].text[i], page[f][i]>> \in Confuse(f)

\* Dates without an unknown part, which the page prints as fillers.
FullDates == \A f \in {"birth", "expiry"} : Range(page[f]) \subseteq Digits

\* A page that was read without a mistake gives its own key, whatever other
\* readings of it the look-alikes and the check digits allow - unless a part of a
\* date is unknown: such a page is never accepted.
ExactReadOpens ==
    photo # None /\ photo = Exact /\ answer # None /\ answer.status # 400 =>
        answer = IF FullDates THEN [status |-> 200, key |-> KeyOf(page)] ELSE [status |-> 422]

\* Two look-alikes in a field are not too many: the holder is not sent back.
RecoverableIsNotRefused ==
    photo # None /\ answer # None /\ FullDates /\ LookAlikesOnly => answer.status # 422

\* Look-alikes alone never give a wrong date.
DatesAsPrinted ==
    photo # None /\ answer # None /\ answer.status = 200 /\ LookAlikesOnly =>
        answer.key.birth = page.birth /\ answer.key.expiry = page.expiry

\* When look-alikes alone give a wrong number, a reading that satisfies the same check
\* digit was no farther from the picture than the page itself.
WrongNumberIsNearer ==
    photo # None /\ answer # None /\ answer.status = 200 /\ LookAlikesOnly
            /\ answer.key.number # KeyOf(page).number =>
        Cardinality(Differ(photo.number.text, BestReading("number", photo.number.text, photo.number.check)))
            <= Cardinality(Differ(photo.number.text, page.number))

\* The check digit tells a look-alike from what was printed, so that one of them in the
\* number is not taken at face value (mrz.py:186-191) - all but 6 and G, whose values are
\* equal modulo ten: there the picture's character goes into the key.
OneLookAlikeIsNoticed ==
    photo # None /\ answer # None /\ answer.status = 200 /\ LookAlikesOnly =>
        \A i \in DOMAIN page.number : Differ(photo.number.text, page.number) = {i} =>
            (photo.number.text = BestReading("number", photo.number.text, photo.number.check)
                 <=> page.number[i] \in {"6", "G"})

\* What a picture with no mistakes but look-alikes can lead to.
LookAlikesMislead == DatesAsPrinted /\ WrongNumberIsNearer /\ OneLookAlikeIsNoticed
=============================================================================
