----------------------------- MODULE PrintMath -----------------------------
(***************************************************************************)
(* src/printmath.c: exercises in sums and differences, drawn at random and *)
(* printed with one number left blank.                                     *)
(*                                                                         *)
(* A format is the sequence of its conversions, "d" and "c", and the       *)
(* arguments of a printf are the names of the variables that are passed;   *)
(* widths, blanks and the second copy into output.txt are left out.        *)
(***************************************************************************)
EXTENDS Integers, Sequences

CONSTANTS
  Ranges,    \* what may be entered for range
  Totals,    \* bound: what may be entered for total
  Options,   \* what may be entered for contiflag and format
  Widest     \* the largest range that has a format, 1000 in the source

ASSUME InputsAssumption ==
  /\ Ranges \subseteq Int
  /\ Totals \subseteq Nat
  /\ Options \subseteq Int
  /\ Widest \in Nat

VARIABLES
  mathAt,        \* "input", "draw", "draw more", "print", "trapped" or "ended"
  range, total, contiflag, format,   \* what was entered
  i,             \* the exercises that were printed
  a, b, c,       \* the first two numbers and their result
  calc,          \* 0 adds b, 1 subtracts it
  conti, sum,    \* the third number and the result of all three
  conticalc,     \* 0 adds conti, 1 subtracts it
  printformat,   \* the conversions of the format, <<>> before it is written
  printed        \* history: the last line, its format and its arguments

entered == <<range, total, contiflag, format>>
drawn == <<a, b, c, calc, conti, sum, conticalc>>
mathVars == <<mathAt, entered, i, drawn, printformat, printed>>

MathInit ==
  /\ mathAt = "input"
  /\ range = 0 /\ total = 0 /\ contiflag = 0 /\ format = 0
  /\ i = 0
  /\ a = 0 /\ b = 0 /\ c = 0 /\ calc = 0
  /\ conti = 0 /\ sum = 0 /\ conticalc = 0
  /\ printformat = <<>>
  /\ printed = [fmt |-> <<>>, args |-> <<>>]

-----------------------------------------------------------------------------
(* A rest of the division by n has the sign of what rand returns, never    *)
(* negative: for n # 0 it lies below the absolute value of n.  The code    *)
(* takes 0 instead of dividing by 0.                                       *)
RandBelow(n) ==
  IF n = 0 THEN {0} ELSE IF n > 0 THEN 0..n - 1 ELSE 0..-n - 1

(* Without a third number there is one format for each range up to Widest; *)
(* with one, there is a format for a blank result only.                    *)
FirstFormat(rng, flag, fmt) ==
  IF flag = 2
    THEN IF rng <= Widest THEN <<"d", "c", "d">> ELSE <<>>
    ELSE IF fmt = 1 THEN <<"d", "c", "d", "c", "d">> ELSE <<>>

Input ==
  /\ mathAt = "input"
  /\ range' \in Ranges /\ total' \in Totals
  /\ contiflag' \in Options /\ format' \in Options
  /\ printformat' = FirstFormat(range', contiflag', format')
  /\ mathAt' = "draw"
  /\ UNCHANGED <<i, drawn, printed>>

(* output.txt cannot be opened. *)
OpenFails ==
  /\ mathAt = "input"
  /\ mathAt' = "ended"
  /\ UNCHANGED <<entered, i, drawn, printformat, printed>>

(* Slip: the second number is drawn below the range, whatever the first. *)
DrawFreely ==
  /\ mathAt = "draw" /\ i < total /\ range # 0
  /\ a' \in RandBelow(range)
  /\ calc' \in {0, 1}
  /\ b' \in RandBelow(range)
  /\ c' = IF calc' = 0 THEN a' + b' ELSE a' - b'
  /\ mathAt' = IF contiflag = 2 THEN "print" ELSE "draw more"
  /\ UNCHANGED <<entered, i, conti, sum, conticalc, printformat, printed>>

Draw ==
  /\ mathAt = "draw" /\ i < total /\ range # 0
  /\ a' \in RandBelow(range)
  /\ calc' \in {0, 1}
  /\ b' \in RandBelow(IF calc' = 0 THEN range - a' ELSE a')
  /\ c' = IF calc' = 0 THEN a' + b' ELSE a' - b'
  /\ mathAt' = IF contiflag = 2 THEN "print" ELSE "draw more"
  /\ UNCHANGED <<entered, i, conti, sum, conticalc, printformat, printed>>

(* rand() % range divides by 0. *)
Trap ==
  /\ mathAt = "draw" /\ i < total /\ range = 0
  /\ mathAt' = "trapped"
  /\ UNCHANGED <<entered, i, drawn, printformat, printed>>

DrawMore ==
  /\ mathAt = "draw more"
  /\ conticalc' \in {0, 1}
  /\ conti' \in RandBelow(IF conticalc' = 0 THEN range - c ELSE c)
  /\ sum' = IF conticalc' = 0 THEN c + conti' ELSE c - conti'
  /\ mathAt' = "print"
  /\ UNCHANGED <<entered, i, a, b, c, calc, printformat, printed>>

-----------------------------------------------------------------------------
Printf(fmt, args) ==
  /\ mathAt = "print"
  /\ printformat' = fmt
  /\ printed' = [fmt |-> fmt, args |-> args]
  /\ i' = i + 1
  /\ mathAt' = "draw"
  /\ UNCHANGED <<entered, drawn>>

(* Slip: one format for both. *)
PrintResultAsThree ==
  \/ /\ contiflag = 2 /\ format # 2
     /\ Printf(<<"d", "c", "d", "c", "d">>, <<"a", "calc", "b">>)
  \/ /\ contiflag # 2 /\ format = 1
     /\ Printf(printformat, <<"a", "calc", "b", "conticalc", "conti">>)

(* The result is left blank, in the format written before the loop. *)
PrintResult ==
  \/ /\ contiflag = 2 /\ format # 2
     /\ Printf(printformat, <<"a", "calc", "b">>)
  \/ /\ contiflag # 2 /\ format = 1
     /\ Printf(printformat, <<"a", "calc", "b", "conticalc", "conti">>)

(* One of two numbers is left blank: mask is 0 or 1, never 2. *)
PrintOfTwo ==
  /\ contiflag = 2 /\ format = 2
  /\ \/ Printf(<<"c", "d", "d">>, <<"calc", "b", "c">>)
     \/ Printf(<<"d", "c", "d">>, <<"a", "calc", "c">>)

(* One of three numbers is left blank: mask is 0, 1 or 2. *)
PrintOfThree ==
  /\ contiflag # 2 /\ format # 1
  /\ \/ Printf(<<"c", "d", "c", "d", "d">>, <<"calc", "b", "conticalc", "conti", "sum">>)
     \/ Printf(<<"d", "c", "c", "d", "d">>, <<"a", "calc", "conticalc", "conti", "sum">>)
     \/ Printf(<<"d", "c", "d", "c", "d">>, <<"a", "calc", "b", "conticalc", "sum">>)

Finish ==
  /\ mathAt = "draw" /\ i >= total
  /\ mathAt' = "ended"
  /\ UNCHANGED <<entered, i, drawn, printformat, printed>>

MathNext ==
  \/ Input \/ OpenFails \/ Draw \/ Trap \/ DrawMore
  \/ PrintResult \/ PrintOfTwo \/ PrintOfThree \/ Finish

MathSpec == MathInit /\ [][MathNext]_mathVars

-----------------------------------------------------------------------------
Drawn == 0..range - 1

(* Whoever asks for numbers below a positive range gets them: every number *)
(* that may be printed, those drawn and both results, lies in 0..range-1.  *)
(* In particular no difference is negative, and the divisors range - a and *)
(* range - c never get to 0.                                               *)
AnswersInRange ==
  range > 0 /\ mathAt = "print" =>
    /\ {a, b, c} \subseteq Drawn
    /\ contiflag # 2 => {conti, sum} \subseteq Drawn

Conversion(arg) == IF arg \in {"calc", "conticalc"} THEN "c" ELSE "d"

(* Every line is printed with a format whose conversions fit its arguments *)
(* one by one.  The format is written in one place and used in another; it *)
(* was never written for plain exercises (contiflag 2) with a blank result *)
(* and a range above Widest, and there only.                               *)
FormatFits ==
  i > 0 =>
    IF contiflag = 2 /\ format # 2 /\ range > Widest
      THEN printed.fmt = <<>>
      ELSE /\ Len(printed.fmt) = Len(printed.args)
           /\ \A k \in 1..Len(printed.fmt) :
                printed.fmt[k] = Conversion(printed.args[k])

(* The format that was written before the loop is still there when a       *)
(* result is left blank.                                                   *)
FormatKept ==
  /\ contiflag = 2 /\ format # 2 =>
       printformat = IF range <= Widest THEN <<"d", "c", "d">> ELSE <<>>
  /\ contiflag # 2 /\ format = 1 => printformat = <<"d", "c", "d", "c", "d">>

(* The inductive invariant: the third number is drawn from a result that   *)
(* is in range itself, and formats are replaced by the branches that use   *)
(* them only.                                                              *)
MathIInv ==
  /\ range \in Int /\ i \in Nat
  /\ mathAt = "input" => i = 0
  /\ range > 0 =>
       /\ mathAt \in {"draw more", "print"} => {a, b, c} \subseteq Drawn
       /\ mathAt = "print" /\ contiflag # 2 => {conti, sum} \subseteq Drawn
  /\ FormatKept
  /\ FormatFits
=============================================================================
