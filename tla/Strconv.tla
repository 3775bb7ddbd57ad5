------------------------------ MODULE Strconv ------------------------------
(***************************************************************************)
(* The part of Go's strconv the client handler relies on, over decimal    *)
(* strings: whether strconv.Atoi accepts a string, the sign of what it    *)
(* returns, and strconv.Itoa of a small index.                             *)
(***************************************************************************)
EXTENDS Integers, Sequences, SequencesExt

(* strconv.Atoi: an optional sign, then decimal digits whose value fits   *)
(* in a 64-bit int.  Values are compared digit-wise, as strings.           *)
Digits == <<"0", "1", "2", "3", "4", "5", "6", "7", "8", "9">>
Char(s, i) == SubSeq(s, i, i)
IsDigits(s) == Len(s) > 0 /\ \A i \in 1..Len(s) : Char(s, i) \in Range(Digits)
DigitValue(c) == CHOOSE d \in 0..9 : Digits[d + 1] = c

RECURSIVE NotAbove(_, _)
(* For digit strings of equal length: a <= b. *)
NotAbove(a, b) ==
    \/ a = ""
    \/ DigitValue(Char(a, 1)) < DigitValue(Char(b, 1))
    \/ /\ Char(a, 1) = Char(b, 1)
       /\ NotAbove(SubSeq(a, 2, Len(a)), SubSeq(b, 2, Len(b)))

FitsInt64(d, limit) ==
    \/ Len(d) < Len(limit)
    \/ Len(d) = Len(limit) /\ NotAbove(d, limit)

AtoiOk(s) ==
    IF Len(s) > 0 /\ Char(s, 1) \in {"+", "-"}
    THEN LET d == SubSeq(s, 2, Len(s))
         IN  IsDigits(d) /\ FitsInt64(d, IF Char(s, 1) = "-"
                                         THEN "9223372036854775808"
                                         ELSE "9223372036854775807")
    ELSE IsDigits(s) /\ FitsInt64(s, "9223372036854775807")

(* strconv.Atoi(s) succeeds with a value greater than 0. *)
AtoiPositive(s) ==
    /\ AtoiOk(s)
    /\ Char(s, 1) /= "-"
    /\ \E i \in 1..Len(s) : Char(s, i) \notin {"0", "+"}

(* strconv.Itoa(n) for a one-digit index. *)
Itoa(n) == Digits[n + 1]

=============================================================================
