------------------------------ MODULE SlotTexts ------------------------------
(***************************************************************************)
(* The order of slot ids as texts, for the instances TLC checks: `str` of  *)
(* the id (planning.py:46) is a decimal numeral, and "10" comes before "9" *)
(* and after "1".                                                          *)
(***************************************************************************)
EXTENDS Integers

Digits(s) == IF s < 10 THEN 1 ELSE IF s < 100 THEN 2 ELSE 3

\* Filled up to three digits, and the shorter text first.
TextRank(s) == 10 * (CASE Digits(s) = 1 -> 100 * s
                       [] Digits(s) = 2 -> 10 * s
                       [] Digits(s) = 3 -> s) + Digits(s)

MCSlotRank == [s \in 1..999 |-> TextRank(s)]
=============================================================================
