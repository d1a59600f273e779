------------------------------- MODULE MCAges -------------------------------
(***************************************************************************)
(* Days around a leap day, a year's end and birthdays; holders born on such *)
(* days, this year, eighteen and almost a hundred years ago, and with      *)
(* unknown parts of the date.                                              *)
(***************************************************************************)
EXTENDS Ages

D(y, m, d) == [year |-> y, month |-> m, day |-> d]
McBirths == {D(2012, 2, 28), D(2012, 2, 29), D(2012, 3, 1), D(2011, 12, 31), D(2030, 1, 1), D(1931, 6, 15),
             D(1930, 3, 1), D(2029, 12, 31), D(1990, 5, Unknown), D(1990, Unknown, Unknown), D(1990, 5, Filler)}
McTodays == {D(2028, 2, 29), D(2029, 12, 31), D(2030, 1, 1),
             D(2030, 2, 28), D(2030, 3, 1), D(2030, 6, 15), D(2031, 1, 1)}
=============================================================================
