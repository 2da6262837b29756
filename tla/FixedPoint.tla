----------------------------- MODULE FixedPoint -----------------------------
(***************************************************************************)
(* parse_decimal_to_fixed: a decimal text to an integer scaled by a power  *)
(* of ten, one character at a time, with the overflow guard before every   *)
(* digit.  The result has the width of Largest instead of int64's; value   *)
(* is unsigned and wider, and never passes Limit.                          *)
(*                                                                         *)
(* The characters come one by one, and text keeps what they say.  Those    *)
(* behind the place where the parser gave up come too: it must have been   *)
(* right about the whole text.                                             *)
(***************************************************************************)
EXTENDS Integers

CONSTANTS
  Largest,    \* the maximum of the result type; its minimum is -Largest - 1
  MaxScale,   \* kMaxFixedPointScale
  Digits,     \* the digits texts are written with
  MaxLength   \* bound on the length of a text

ASSUME FixedPointAssumption ==
  /\ Largest \in Nat /\ Largest >= 9 /\ MaxScale \in Nat /\ MaxLength \in Nat
  /\ Digits \subseteq 0 .. 9

VARIABLES
  scale,
  pc,           \* "reading", "padding" or "returned"
  negative, value, fraction, seenDigit, seenPoint,   \* the parser's locals
  answer,       \* what it returned, and out
  text          \* history: the text so far and the number it writes

locals == <<negative, value, fraction, seenDigit, seenPoint>>
vars == <<scale, pc, locals, answer, text>>

-----------------------------------------------------------------------------
(* The text.  Its number is magnitude / unit, unit being the power of ten  *)
(* that its places behind the point make.                                  *)

NoText ==
  [length |-> 0, ended |-> FALSE, minus |-> FALSE, decimal |-> TRUE, digits |-> FALSE,
   point |-> FALSE, magnitude |-> 0, unit |-> 1]

More == ~text.ended /\ text.length < MaxLength

SaysSign(minus) == text' = [text EXCEPT !.length = @ + 1, !.minus = minus]

SaysDigit(digit) ==
  text' = [text EXCEPT !.length = @ + 1, !.digits = TRUE,
                       !.magnitude = 10 * @ + digit,
                       !.unit = IF text.point THEN 10 * @ ELSE @]

SaysPoint ==
  text' = [text EXCEPT !.length = @ + 1, !.point = TRUE, !.decimal = @ /\ ~text.point]

SaysOther == text' = [text EXCEPT !.length = @ + 1, !.decimal = FALSE]

SaysNoMore == text' = [text EXCEPT !.ended = TRUE]

-----------------------------------------------------------------------------
Init ==
  /\ scale \in -1 .. MaxScale + 1
  /\ pc = "reading"
  /\ negative = FALSE /\ value = 0 /\ fraction = 0
  /\ seenDigit = FALSE /\ seenPoint = FALSE
  /\ answer = [ok |-> FALSE, out |-> 0]
  /\ text = NoText

Limit == IF negative THEN Largest + 1 ELSE Largest

SlipFits(digit) == value <= Limit \div 10   \* slip: the digit is left out of the guard

\* The guard of append_digit.
Fits(digit) == value <= (Limit - digit) \div 10

Refuse == pc' = "returned" /\ UNCHANGED <<locals, answer>>

ScaleIsGood == scale \in 0 .. MaxScale

RefuseScale == pc = "reading" /\ ~ScaleIsGood /\ Refuse /\ UNCHANGED <<scale, text>>

Reading == pc = "reading" /\ ScaleIsGood

TakeSign ==
  /\ Reading /\ More /\ text.length = 0
  /\ negative' \in BOOLEAN
  /\ SaysSign(negative')
  /\ UNCHANGED <<scale, pc, value, fraction, seenDigit, seenPoint, answer>>

\* append_digit, for a digit before the point or within the scale.
AppendDigit(digit) ==
  IF ~Fits(digit) THEN Refuse
  ELSE /\ value' = value * 10 + digit
       /\ fraction' = IF seenPoint THEN fraction + 1 ELSE fraction
       /\ seenDigit' = TRUE
       /\ UNCHANGED <<pc, negative, seenPoint, answer>>

\* Beyond the scale only zeros are accepted, and dropped.
DropDigit(digit) ==
  IF digit # 0 THEN Refuse
  ELSE seenDigit' = TRUE /\ UNCHANGED <<pc, negative, value, fraction, seenPoint, answer>>

TakeDigit ==
  /\ Reading /\ More
  /\ \E digit \in Digits :
       /\ IF seenPoint /\ fraction = scale THEN DropDigit(digit) ELSE AppendDigit(digit)
       /\ SaysDigit(digit)
  /\ UNCHANGED scale

TakePoint ==
  /\ Reading /\ More
  /\ IF seenPoint THEN Refuse
     ELSE seenPoint' = TRUE /\ UNCHANGED <<pc, negative, value, fraction, seenDigit, answer>>
  /\ SaysPoint
  /\ UNCHANGED scale

\* Any other character, a sign behind the first among them.
TakeOther == Reading /\ More /\ Refuse /\ SaysOther /\ UNCHANGED scale

\* The end of the text, which may come at once or behind a sign.
ReadEnd ==
  /\ Reading /\ ~text.ended
  /\ IF seenDigit THEN pc' = "padding" /\ UNCHANGED <<locals, answer>> ELSE Refuse
  /\ SaysNoMore
  /\ UNCHANGED scale

\* The missing fraction digits are appended as zeros, under the same guard.
PadZero ==
  /\ pc = "padding" /\ fraction < scale
  /\ IF ~Fits(0) THEN Refuse
     ELSE /\ value' = value * 10 /\ fraction' = fraction + 1
          /\ UNCHANGED <<pc, negative, seenDigit, seenPoint, answer>>
  /\ UNCHANGED <<scale, text>>

Signed == IF ~negative THEN value ELSE IF value = Limit THEN -Largest - 1 ELSE -value

ReturnValue ==
  /\ pc = "padding" /\ fraction >= scale
  /\ pc' = "returned"
  /\ answer' = [ok |-> TRUE, out |-> Signed]
  /\ UNCHANGED <<scale, locals, text>>

\* What the text says behind the place where the parser gave up.
Unread ==
  /\ pc = "returned" /\ ~text.ended
  /\ \/ More /\ ((\E digit \in Digits : SaysDigit(digit)) \/ SaysPoint \/ SaysOther)
     \/ More /\ text.length = 0 /\ \E minus \in BOOLEAN : SaysSign(minus)
     \/ SaysNoMore
  /\ UNCHANGED <<scale, pc, locals, answer>>

Next ==
  \/ RefuseScale \/ TakeSign \/ TakeDigit \/ TakePoint \/ TakeOther \/ ReadEnd
  \/ PadZero \/ ReturnValue \/ Unread

Spec == Init /\ [][Next]_vars

-----------------------------------------------------------------------------
(* What it should answer.                                                  *)

PowerOf10[n \in Nat] == IF n = 0 THEN 1 ELSE 10 * PowerOf10[n - 1]

\* The magnitudes the result type has for the sign of the text.
Magnitudes == 0 .. IF text.minus THEN Largest + 1 ELSE Largest

\* The text writes a number which at the scale is the whole number n.
Writes(n) ==
  /\ text.decimal /\ text.digits
  /\ n * text.unit = text.magnitude * PowerOf10[scale]

\* The parser accepts exactly the decimal numbers that are whole at the scale and
\* fit the type, -Largest - 1 included, and returns them: nothing overflows, is
\* rounded, or is refused though it fits.
ParseIsExact ==
  pc = "returned" /\ text.ended =>
    IF ScaleIsGood /\ \E n \in Magnitudes : Writes(n)
    THEN \E n \in Magnitudes :
           Writes(n) /\ answer = [ok |-> TRUE, out |-> IF text.minus THEN -n ELSE n]
    ELSE ~answer.ok

=============================================================================
