-------------------------- MODULE FixedPointProofs --------------------------
(***************************************************************************)
(* parse_decimal_to_fixed answers exactly, for every width of the result,  *)
(* every largest scale and texts of every length.                          *)
(***************************************************************************)
EXTENDS FixedPoint, WellFoundedInduction, TLAPS

-----------------------------------------------------------------------------
(* The powers of ten.                                                      *)

\* Induction, for a set of numbers instead of a predicate.
LEMMA SetInduction ==
  ASSUME NEW T, 0 \in T, \A n \in Nat : n \in T => n + 1 \in T
  PROVE  Nat \subseteq T
<1> DEFINE Less == OpToRel(<, Nat)
           Rest == {n \in Nat : n \notin T}
<1> SUFFICES ASSUME Rest # {} PROVE FALSE
  OBVIOUS
<1>1. PICK x \in Rest : \A y \in Rest : ~(<<y, x>> \in Less)
  <2>1. IsWellFoundedOn(Less, Nat)
    BY NatLessThanWellFounded
  <2>2. Rest \subseteq Nat
    OBVIOUS
  <2> HIDE DEF Less, Rest
  <2> QED BY <2>1, <2>2, WFMin
<1>2. x \in Nat /\ x # 0 /\ x \notin T
  OBVIOUS
<1>3. x - 1 \in Nat /\ x - 1 < x /\ (x - 1) + 1 = x
  BY <1>2, SMT
<1>4. x - 1 \in Rest
  BY <1>2, <1>3
<1>5. <<x - 1, x>> \in Less
  BY <1>2, <1>3 DEF OpToRel
<1> QED BY <1>1, <1>4, <1>5

\* A table of the powers of ten up to n.
IsTable(h, n) ==
  /\ h \in [0 .. n -> Nat]
  /\ h[0] = 1
  /\ \A i \in 1 .. n : h[i] = 10 * h[i - 1]

\* There is such a table for every n.
LEMMA TablesExist == \A n \in Nat : \E h : IsTable(h, n)
<1> DEFINE T == {n \in Nat : \E h : IsTable(h, n)}
<1>1. 0 \in T
  <2> DEFINE h == [i \in 0 .. 0 |-> 1]
  <2>1. IsTable(h, 0)
    BY SMT DEF IsTable
  <2> QED BY <2>1, SMT
<1>2. ASSUME NEW n \in Nat, n \in T PROVE n + 1 \in T
  <2>1. PICK h : IsTable(h, n)
    BY <1>2
  <2> DEFINE g == [i \in 0 .. n + 1 |-> IF i = n + 1 THEN 10 * h[n] ELSE h[i]]
  <2>2. g \in [0 .. n + 1 -> Nat]
    BY <2>1, SMT DEF IsTable
  <2>3. g[0] = 1
    BY <2>1, SMT DEF IsTable
  <2>4. \A i \in 1 .. n + 1 : g[i] = 10 * g[i - 1]
    BY <2>1, SMT DEF IsTable
  <2>5. IsTable(g, n + 1)
    BY <2>2, <2>3, <2>4 DEF IsTable
  <2> QED BY <2>5, SMT
<1> HIDE DEF T
<1>3. Nat \subseteq T
  BY <1>1, <1>2, SetInduction
<1> QED BY <1>3 DEF T

\* Two tables agree where both say something.
LEMMA TablesAgree ==
  ASSUME NEW m \in Nat, NEW n \in Nat, m <= n, NEW g, NEW h, IsTable(g, m), IsTable(h, n)
  PROVE  \A i \in 0 .. m : g[i] = h[i]
<1> DEFINE T == {i \in Nat : i <= m => g[i] = h[i]}
<1>1. 0 \in T
  BY DEF IsTable
<1>2. ASSUME NEW i \in Nat, i \in T PROVE i + 1 \in T
  <2> SUFFICES ASSUME i + 1 <= m PROVE g[i + 1] = h[i + 1]
    BY SMT
  <2>1. i + 1 \in 1 .. m /\ i + 1 \in 1 .. n /\ (i + 1) - 1 = i /\ i <= m
    BY SMT
  <2> QED BY <1>2, <2>1 DEF IsTable
<1> HIDE DEF T
<1>3. Nat \subseteq T
  BY <1>1, <1>2, SetInduction
<1> QED BY <1>3, SMT DEF T

\* The function that is defined in terms of itself exists.
LEMMA PowersDefined ==
  PowerOf10 = [n \in Nat |-> IF n = 0 THEN 1 ELSE 10 * PowerOf10[n - 1]]
<1> DEFINE Table(n) == CHOOSE h : IsTable(h, n)
           p == [n \in Nat |-> Table(n)[n]]
<1>1. \A n \in Nat : IsTable(Table(n), n)
  BY TablesExist
<1> HIDE DEF Table
<1>2. ASSUME NEW n \in Nat PROVE p[n] = IF n = 0 THEN 1 ELSE 10 * p[n - 1]
  <2>1. CASE n = 0
    BY <1>1, <2>1 DEF IsTable
  <2>2. CASE n # 0
    <3>1. n - 1 \in Nat /\ n - 1 <= n /\ n \in 1 .. n /\ n - 1 \in 0 .. n - 1
      BY <2>2, SMT
    <3>2. Table(n - 1)[n - 1] = Table(n)[n - 1]
      BY <1>1, <3>1, TablesAgree
    <3>3. Table(n)[n] = 10 * Table(n)[n - 1]
      BY <1>1, <3>1 DEF IsTable
    <3> QED BY <2>2, <3>1, <3>2, <3>3
  <2> QED BY <2>1, <2>2
<1>3. p = [n \in Nat |-> IF n = 0 THEN 1 ELSE 10 * p[n - 1]]
  BY <1>2
<1> HIDE DEF p
<1> QED BY <1>3 DEF PowerOf10

LEMMA PowerFacts ==
  /\ PowerOf10[0] = 1
  /\ \A n \in Nat : PowerOf10[n + 1] = 10 * PowerOf10[n]
<1>1. PowerOf10[0] = 1
  BY PowersDefined, SMT
<1>2. ASSUME NEW n \in Nat PROVE PowerOf10[n + 1] = 10 * PowerOf10[n]
  <2>1. n + 1 \in Nat /\ n + 1 # 0 /\ (n + 1) - 1 = n
    BY SMT
  <2> QED BY <2>1, PowersDefined
<1> QED BY <1>1, <1>2

\* Powers are positive and grow.
LEMMA PowersArePositive == \A n \in Nat : PowerOf10[n] \in Nat \ {0}
<1> DEFINE T == {n \in Nat : PowerOf10[n] \in Nat \ {0}}
<1>1. 0 \in T
  BY PowerFacts, SMT
<1>2. ASSUME NEW n \in Nat, n \in T PROVE n + 1 \in T
  BY <1>2, PowerFacts, SMT
<1> HIDE DEF T
<1>3. Nat \subseteq T
  BY <1>1, <1>2, SetInduction
<1> QED BY <1>3 DEF T

LEMMA PowersGrow ==
  ASSUME NEW m \in Nat, NEW n \in Nat, m <= n
  PROVE  PowerOf10[m] <= PowerOf10[n]
<1> DEFINE T == {k \in Nat : PowerOf10[m] <= PowerOf10[m + k]}
<1>1. 0 \in T
  BY PowersArePositive, SMT
<1>2. ASSUME NEW k \in Nat, k \in T PROVE k + 1 \in T
  <2>1. m + (k + 1) = (m + k) + 1 /\ m + k \in Nat
    BY SMT
  <2>2. PowerOf10[m + (k + 1)] = 10 * PowerOf10[m + k]
    BY <2>1, PowerFacts
  <2> QED BY <1>2, <2>1, <2>2, PowersArePositive, SMT
<1> HIDE DEF T
<1>3. Nat \subseteq T
  BY <1>1, <1>2, SetInduction
<1>4. n - m \in Nat /\ m + (n - m) = n
  BY SMT
<1> QED BY <1>3, <1>4 DEF T

-----------------------------------------------------------------------------
(* Arithmetic.  v is the parser's value, g / u the number of the text, p   *)
(* the power of ten the value has reached, P that of the scale.            *)

\* Products keep an order, and a factor can be cancelled.
LEMMA TimesOrder ==
  ASSUME NEW a \in Nat, NEW b \in Nat, NEW c \in Nat
  PROVE  /\ a <= b => a * c <= b * c
         /\ a < b /\ c # 0 => a * c < b * c
         /\ a * c = b * c /\ c # 0 => a = b
         /\ a * c \in Nat
<1>1. a * c \in Nat /\ b * c \in Nat
  BY SMT
<1>2. ASSUME NEW x \in Nat, NEW y \in Nat, x <= y PROVE x * c <= y * c
  <2>1. y - x \in Nat /\ (y - x) * c \in Nat /\ y * c = x * c + (y - x) * c
    BY <1>2, SMT
  <2> QED BY <2>1, SMT
<1>3. ASSUME NEW x \in Nat, NEW y \in Nat, x < y, c # 0 PROVE x * c < y * c
  <2>1. x + 1 \in Nat /\ x + 1 <= y /\ (x + 1) * c = x * c + c
    BY <1>3, SMT
  <2>2. (x + 1) * c <= y * c
    BY <1>2, <2>1
  <2> QED BY <1>3, <2>1, <2>2, SMT
<1>4. a * c = b * c /\ c # 0 => a = b
  <2>1. CASE a < b
    BY <1>1, <1>3, <2>1, SMT
  <2>2. CASE b < a
    BY <1>1, <1>3, <2>2, SMT
  <2> QED BY <2>1, <2>2, SMT
<1> QED BY <1>1, <1>2, <1>3, <1>4

\* A digit that is dropped: 0 changes nothing, another leaves a remainder.
LEMMA DropKeeps ==
  ASSUME NEW v \in Nat, NEW u \in Nat, NEW g \in Nat, NEW p \in Nat, NEW d \in 0 .. 9,
         v * u = g * p, p # 0, p <= u
  PROVE  /\ v * (10 * u) = (10 * g + 0) * p
         /\ d # 0 => /\ v * (10 * u) < (10 * g + d) * p
                     /\ ((10 * g + d) + 1) * p <= (v + 1) * (10 * u)
<1>1. PICK q \in Nat : q = v * u
  BY SMT
<1>2. v * (10 * u) = 10 * q /\ (10 * g + 0) * p = 10 * q
  BY <1>1, SMT
<1>3. (10 * g + d) * p = 10 * q + d * p /\ ((10 * g + d) + 1) * p = 10 * q + (d + 1) * p
  BY <1>1, SMT
<1>4. (v + 1) * (10 * u) = 10 * q + 10 * u
  BY <1>1, SMT
<1>5. d # 0 => p <= d * p
  BY SMT
<1>6. (d + 1) * p <= 10 * p /\ d * p \in Nat /\ (d + 1) * p \in Nat
  BY SMT
<1> QED BY <1>2, <1>3, <1>4, <1>5, <1>6, SMT

\* A number that is not whole at the scale does not become whole by more digits.
LEMMA RemainderStays ==
  ASSUME NEW v \in Nat, NEW u \in Nat, NEW g \in Nat, NEW P \in Nat, NEW d \in 0 .. 9,
         v * u < g * P, (g + 1) * P <= (v + 1) * u
  PROVE  /\ v * (10 * u) < (10 * g + d) * P
         /\ ((10 * g + d) + 1) * P <= (v + 1) * (10 * u)
<1>1. /\ v * (10 * u) = 10 * (v * u)
      /\ (10 * g + d) * P = 10 * (g * P) + d * P
      /\ ((10 * g + d) + 1) * P = 10 * (g * P) + (d + 1) * P
      /\ (v + 1) * (10 * u) = 10 * ((v + 1) * u)
      /\ (g + 1) * P = g * P + P
  BY SMT
<1>2. (d + 1) * P <= 10 * P /\ d * P \in Nat /\ (d + 1) * P \in Nat
  BY SMT
<1>3. v * u \in Nat /\ g * P \in Nat /\ (v + 1) * u \in Nat
  BY SMT
<1> QED BY <1>1, <1>2, <1>3, SMT

\* Nor does a number too large become smaller.
LEMMA ExcessStays ==
  ASSUME NEW L \in Nat, NEW u \in Nat, NEW g \in Nat, NEW P \in Nat, NEW d \in 0 .. 9,
         L * u < g * P
  PROVE  L * u < (10 * g + d) * P /\ L * (10 * u) < (10 * g + d) * P
<1>1. L * (10 * u) = 10 * (L * u) /\ (10 * g + d) * P = 10 * (g * P) + d * P
  BY SMT
<1>2. L * u \in Nat /\ g * P \in Nat /\ d * P \in Nat
  BY SMT
<1> QED BY <1>1, <1>2, SMT

\* A digit that does not fit makes a number that is too large.
LEMMA DigitExceeds ==
  ASSUME NEW v \in Nat, NEW L \in Nat, NEW d \in 0 .. 9, 9 <= L
  PROVE  IF v <= (L - d) \div 10 THEN v * 10 + d <= L ELSE L < v * 10 + d
<1>1. PICK q \in Nat : q = (L - d) \div 10 /\ 10 * q <= L - d /\ L - d < 10 * q + 10
  BY SMT
<1> QED BY <1>1, SMT

LEMMA NumberExceeds ==
  ASSUME NEW L \in Nat, NEW n \in Nat, NEW u \in Nat \ {0}, NEW P \in Nat, L < n, u <= P
  PROVE  L * u < n * P
<1>1. L * u < n * u
  BY TimesOrder
<1>2. n * u <= n * P
  <2>1. u * n <= P * n /\ u * n = n * u /\ P * n = n * P
    BY TimesOrder, SMT
  <2> QED BY <2>1
<1>3. L * u \in Nat /\ n * u \in Nat /\ n * P \in Nat
  BY SMT
<1> QED BY <1>1, <1>2, <1>3, SMT

\* A zero appended behind the number.
LEMMA PadKeeps ==
  ASSUME NEW v \in Nat, NEW u \in Nat \ {0}, NEW g \in Nat, NEW p \in Nat, NEW P \in Nat,
         NEW L \in Nat, v * u = g * p, 10 * p <= P
  PROVE  /\ (v * 10) * u = g * (10 * p)
         /\ L < v * 10 => L * u < g * P
<1>1. (v * 10) * u = 10 * (v * u) /\ g * (10 * p) = 10 * (g * p)
  BY SMT
<1>2. L < v * 10 => L * u < (v * 10) * u
  BY TimesOrder, SMT
<1>3. g * (10 * p) <= g * P
  <2>1. (10 * p) * g <= P * g /\ (10 * p) * g = g * (10 * p) /\ P * g = g * P
    BY TimesOrder, SMT
  <2> QED BY <2>1
<1>4. L * u \in Nat /\ (v * 10) * u \in Nat /\ g * P \in Nat /\ g * (10 * p) \in Nat
  BY SMT
<1> QED BY <1>1, <1>2, <1>3, <1>4, SMT

-----------------------------------------------------------------------------
(* The invariant.                                                          *)

Texts ==
  [length : Nat, ended : BOOLEAN, minus : BOOLEAN, decimal : BOOLEAN, digits : BOOLEAN,
   point : BOOLEAN, magnitude : Nat, unit : Nat \ {0}]

ParserType ==
  /\ scale \in -1 .. MaxScale + 1 /\ pc \in {"reading", "padding", "returned"}
  /\ negative \in BOOLEAN /\ value \in Nat /\ fraction \in Nat
  /\ seenDigit \in BOOLEAN /\ seenPoint \in BOOLEAN
  /\ answer \in [ok : BOOLEAN, out : Int]
  /\ text \in Texts

SignInv ==
  ScaleIsGood =>
    /\ negative = text.minus
    /\ pc = "returned" => text.ended \/ text.length # 0

\* The value is the number so far, scaled by the fraction digits taken; digits are
\* dropped only when all of the scale's are there.
ScaledInv ==
  /\ fraction <= scale /\ value <= Limit
  /\ value * text.unit = text.magnitude * PowerOf10[fraction]

ReadingInv ==
  pc = "reading" /\ ScaleIsGood =>
    /\ ScaledInv
    /\ text.decimal /\ ~text.ended /\ seenDigit = text.digits /\ seenPoint = text.point
    /\ PowerOf10[fraction] <= text.unit
    /\ fraction < scale => text.unit = PowerOf10[fraction]
    /\ ~text.point => fraction = 0 /\ text.unit = 1
    /\ text.length = 0 => value = 0

PaddingInv ==
  pc = "padding" =>
    ScaleIsGood /\ text.ended /\ text.decimal /\ text.digits /\ ScaledInv

TooLarge == Limit * text.unit < text.magnitude * PowerOf10[scale]

\* The number lies between two neighbours at the scale, and only more digits behind
\* the point can follow.
NotWhole ==
  /\ text.point
  /\ value * text.unit < text.magnitude * PowerOf10[scale]
  /\ (text.magnitude + 1) * PowerOf10[scale] <= (value + 1) * text.unit

Wrong == ~text.decimal \/ (text.ended /\ ~text.digits) \/ TooLarge \/ NotWhole

ReturnedInv ==
  IF pc = "returned" /\ answer.ok
  THEN /\ ScaleIsGood /\ text.ended /\ text.decimal /\ text.digits
       /\ ScaledInv /\ fraction = scale
       /\ answer = [ok |-> TRUE, out |-> IF negative THEN -value ELSE value]
  ELSE /\ ~answer.ok
       /\ pc = "returned" /\ ScaleIsGood => Wrong

ParserInv == ParserType /\ SignInv /\ ReadingInv /\ PaddingInv /\ ReturnedInv

-----------------------------------------------------------------------------
(* What one more character, or the end, makes of a text.                   *)

LEMMA SignFields ==
  ASSUME text \in Texts, NEW minus \in BOOLEAN, SaysSign(minus)
  PROVE  /\ text' \in Texts /\ text'.minus = minus
         /\ text'.length = text.length + 1 /\ text'.ended = text.ended
         /\ text'.decimal = text.decimal /\ text'.digits = text.digits
         /\ text'.point = text.point /\ text'.magnitude = text.magnitude
         /\ text'.unit = text.unit
<1>1. text.length + 1 \in Nat
  BY SMT DEF Texts
<1> QED BY <1>1, Zenon DEF Texts, SaysSign

LEMMA DigitFields ==
  ASSUME text \in Texts, NEW digit \in 0 .. 9, SaysDigit(digit)
  PROVE  /\ text' \in Texts /\ text'.minus = text.minus
         /\ text'.length = text.length + 1 /\ text'.ended = text.ended
         /\ text'.decimal = text.decimal /\ text'.digits = TRUE
         /\ text'.point = text.point /\ text'.magnitude = 10 * text.magnitude + digit
         /\ text'.unit = IF text.point THEN 10 * text.unit ELSE text.unit
<1> DEFINE unit == IF text.point THEN 10 * text.unit ELSE text.unit
<1>1. /\ text.length + 1 \in Nat /\ 10 * text.magnitude + digit \in Nat
      /\ unit \in Nat \ {0}
  BY SMT DEF Texts
<1>2. text' = [text EXCEPT !.length = @ + 1, !.digits = TRUE,
                           !.magnitude = 10 * @ + digit, !.unit = unit]
  BY Zenon DEF SaysDigit
<1> HIDE DEF unit
<1>3. /\ text' \in Texts /\ text'.minus = text.minus
      /\ text'.length = text.length + 1 /\ text'.ended = text.ended
      /\ text'.decimal = text.decimal /\ text'.digits = TRUE
      /\ text'.point = text.point /\ text'.magnitude = 10 * text.magnitude + digit
      /\ text'.unit = unit
  BY <1>1, <1>2, Zenon DEF Texts
<1> QED BY <1>3 DEF unit

LEMMA PointFields ==
  ASSUME text \in Texts, SaysPoint
  PROVE  /\ text' \in Texts /\ text'.minus = text.minus
         /\ text'.length = text.length + 1 /\ text'.ended = text.ended
         /\ text'.decimal = (text.decimal /\ ~text.point) /\ text'.digits = text.digits
         /\ text'.point = TRUE /\ text'.magnitude = text.magnitude
         /\ text'.unit = text.unit
<1>1. text.length + 1 \in Nat /\ (text.decimal /\ ~text.point) \in BOOLEAN
  BY SMT DEF Texts
<1> QED BY <1>1, Zenon DEF Texts, SaysPoint

LEMMA OtherFields ==
  ASSUME text \in Texts, SaysOther
  PROVE  /\ text' \in Texts /\ text'.minus = text.minus
         /\ text'.length = text.length + 1 /\ text'.ended = text.ended
         /\ text'.decimal = FALSE /\ text'.digits = text.digits
         /\ text'.point = text.point /\ text'.magnitude = text.magnitude
         /\ text'.unit = text.unit
<1>1. text.length + 1 \in Nat
  BY SMT DEF Texts
<1> QED BY <1>1, Zenon DEF Texts, SaysOther

LEMMA EndFields ==
  ASSUME text \in Texts, SaysNoMore
  PROVE  /\ text' \in Texts /\ text'.minus = text.minus
         /\ text'.length = text.length /\ text'.ended = TRUE
         /\ text'.decimal = text.decimal /\ text'.digits = text.digits
         /\ text'.point = text.point /\ text'.magnitude = text.magnitude
         /\ text'.unit = text.unit
BY Zenon DEF Texts, SaysNoMore

-----------------------------------------------------------------------------
(* Facts the steps share.                                                  *)

LEMMA Numbers ==
  ASSUME ParserType
  PROVE  /\ text.length \in Nat /\ text.magnitude \in Nat /\ text.unit \in Nat \ {0}
         /\ text.ended \in BOOLEAN /\ text.minus \in BOOLEAN /\ text.decimal \in BOOLEAN
         /\ text.digits \in BOOLEAN /\ text.point \in BOOLEAN
         /\ Limit \in Nat /\ 9 <= Limit /\ value \in Nat /\ fraction \in Nat
         /\ PowerOf10[fraction] \in Nat \ {0}
         /\ ScaleIsGood => scale \in Nat /\ PowerOf10[scale] \in Nat \ {0}
<1>1. /\ text.length \in Nat /\ text.magnitude \in Nat /\ text.unit \in Nat \ {0}
      /\ text.ended \in BOOLEAN /\ text.minus \in BOOLEAN /\ text.decimal \in BOOLEAN
      /\ text.digits \in BOOLEAN /\ text.point \in BOOLEAN
  BY Zenon DEF ParserType, Texts
<1>2. Limit \in Nat /\ 9 <= Limit
  BY FixedPointAssumption, SMT DEF Limit
<1>3. ScaleIsGood => scale \in Nat
  BY FixedPointAssumption, SMT DEF ScaleIsGood
<1> QED BY <1>1, <1>2, <1>3, PowersArePositive DEF ParserType

LEMMA LimitStays == negative' = negative => Limit' = Limit
BY DEF Limit

\* A digit the guard lets pass keeps the value within the limit, and no other would.
LEMMA FitsIsExact ==
  ASSUME ParserType, NEW digit \in 0 .. 9
  PROVE  IF Fits(digit) THEN value * 10 + digit <= Limit ELSE Limit < value * 10 + digit
BY Numbers, DigitExceeds DEF Fits

\* Before the scale's digits are complete nothing has been dropped.
LEMMA ValueIsMagnitude ==
  ASSUME ParserType, ReadingInv, Reading, ~(seenPoint /\ fraction = scale)
  PROVE  value = text.magnitude /\ text.unit = PowerOf10[fraction]
<1>1. text.unit = PowerOf10[fraction]
  BY PowerFacts, Numbers, SMT DEF ReadingInv, Reading, ScaledInv, ScaleIsGood
<1>2. value * text.unit = text.magnitude * text.unit
  BY <1>1 DEF ReadingInv, Reading, ScaledInv
<1> QED BY <1>1, <1>2, TimesOrder, Numbers

\* What is wrong with a text is not mended by what follows.
LEMMA WrongStays ==
  ASSUME ParserType, ParserType', ScaleIsGood, Wrong, UNCHANGED <<scale, locals>>,
         ~text.ended,
         \/ \E digit \in 0 .. 9 : SaysDigit(digit)
         \/ SaysPoint \/ SaysOther \/ SaysNoMore
  PROVE  Wrong'
<1> DEFINE p == PowerOf10[scale]
<1>1. /\ Limit' = Limit /\ value' = value /\ p' = p /\ p \in Nat \ {0}
      /\ PowerOf10[scale]' = p
  BY Numbers, LimitStays DEF locals
<1>2. text \in Texts
  BY DEF ParserType
<1>3. ASSUME NEW digit \in 0 .. 9, SaysDigit(digit) PROVE Wrong'
  <2>1. /\ text'.decimal = text.decimal /\ text'.point = text.point
        /\ text'.magnitude = 10 * text.magnitude + digit
        /\ text'.unit = IF text.point THEN 10 * text.unit ELSE text.unit
    BY <1>2, <1>3, DigitFields
  <2>2. CASE ~text.decimal
    BY <2>1, <2>2 DEF Wrong
  <2>3. CASE TooLarge
    <3>1. Limit * text'.unit < text'.magnitude * p
      BY <2>1, <2>3, Numbers, ExcessStays DEF TooLarge
    <3> QED BY <1>1, <3>1 DEF Wrong, TooLarge
  <2>4. CASE NotWhole
    <3>1. /\ value * text'.unit < text'.magnitude * p
          /\ (text'.magnitude + 1) * p <= (value + 1) * text'.unit
      BY <2>1, <2>4, Numbers, RemainderStays DEF NotWhole
    <3> QED BY <1>1, <2>1, <2>4, <3>1 DEF Wrong, NotWhole
  <2> QED BY <2>2, <2>3, <2>4 DEF Wrong
<1>4. ASSUME SaysPoint \/ SaysOther \/ SaysNoMore PROVE Wrong'
  <2>1. /\ ~text.decimal => ~text'.decimal
        /\ text'.magnitude = text.magnitude /\ text'.unit = text.unit
        /\ text.point => text'.point
    BY <1>2, <1>4, PointFields, OtherFields, EndFields
  <2> QED BY <1>1, <2>1 DEF Wrong, TooLarge, NotWhole
<1> QED BY <1>3, <1>4

-----------------------------------------------------------------------------
(* The steps.                                                              *)

LEMMA ParserInitInv == Init => ParserInv
<1> SUFFICES ASSUME Init PROVE ParserInv OBVIOUS
<1>1. /\ text \in Texts /\ text.length = 0 /\ text.ended = FALSE /\ text.minus = FALSE
      /\ text.decimal = TRUE /\ text.digits = FALSE /\ text.point = FALSE
      /\ text.magnitude = 0 /\ text.unit = 1
  <2>1. 0 \in Nat /\ 1 \in Nat \ {0}
    BY SMT
  <2> QED BY <2>1, Zenon DEF Init, NoText, Texts
<1>2. answer \in [ok : BOOLEAN, out : Int] /\ ~answer.ok
  BY SMT DEF Init
<1>3. ParserType
  <2>1. /\ negative \in BOOLEAN /\ seenDigit \in BOOLEAN /\ seenPoint \in BOOLEAN
        /\ pc \in {"reading", "padding", "returned"} /\ scale \in -1 .. MaxScale + 1
    BY DEF Init
  <2>2. value \in Nat /\ fraction \in Nat
    BY SMT DEF Init
  <2> QED BY <1>1, <1>2, <2>1, <2>2 DEF ParserType
<1>4. SignInv
  BY <1>1 DEF Init, SignInv
<1>5. ScaleIsGood => ScaledInv
  BY <1>1, <1>3, Numbers, FixedPointAssumption, SMT DEF Init, ScaledInv, ScaleIsGood
<1>6. PowerOf10[fraction] = 1
  BY PowerFacts DEF Init
<1>7. ReadingInv
  <2>1. PowerOf10[fraction] <= text.unit
    BY <1>1, <1>6, SMT
  <2> QED BY <1>1, <1>5, <1>6, <2>1 DEF Init, ReadingInv
<1> QED BY <1>2, <1>3, <1>4, <1>7 DEF Init, ParserInv, PaddingInv, ReturnedInv

\* Nothing has been returned before pc says so.
LEMMA NotYet == ASSUME ParserInv, pc # "returned" PROVE ~answer.ok
BY DEF ParserInv, ReturnedInv

\* A refusal keeps the invariant if there is a reason for it.
LEMMA RefuseStep ==
  ASSUME ParserInv, pc # "returned", Refuse, UNCHANGED scale, text' \in Texts,
         ScaleIsGood => /\ Wrong' /\ negative = text'.minus
                        /\ text'.ended \/ text'.length # 0
  PROVE  ParserInv'
<1>1. ScaleIsGood' = ScaleIsGood
  BY DEF ScaleIsGood
<1>2. pc' = "returned" /\ ~answer'.ok /\ negative' = negative
  BY NotYet DEF Refuse, locals
<1>3. ParserType'
  BY DEF ParserInv, ParserType, Refuse, locals
<1> QED BY <1>1, <1>2, <1>3 DEF ParserInv, SignInv, ReadingInv, PaddingInv, ReturnedInv

LEMMA SignStep == ASSUME ParserInv, TakeSign PROVE ParserInv'
<1>1. /\ ParserType /\ pc = "reading" /\ ScaleIsGood /\ negative' \in BOOLEAN
      /\ text.length = 0 /\ SaysSign(negative')
      /\ UNCHANGED <<scale, pc, value, fraction, seenDigit, seenPoint, answer>>
  BY DEF ParserInv, TakeSign, Reading
<1>2. /\ text' \in Texts /\ text'.minus = negative'
      /\ text'.length = 0 + 1 /\ text'.ended = text.ended
      /\ text'.decimal = text.decimal /\ text'.digits = text.digits
      /\ text'.point = text.point /\ text'.magnitude = text.magnitude
      /\ text'.unit = text.unit
  BY <1>1, SignFields DEF ParserType
<1>3. ParserType'
  BY <1>1, <1>2 DEF ParserType
<1>4. ScaleIsGood' /\ PowerOf10[fraction]' = PowerOf10[fraction]
  BY <1>1 DEF ScaleIsGood
<1>5. ScaledInv /\ value = 0 /\ ReadingInv
  BY <1>1 DEF ParserInv, ReadingInv
<1>6. 0 <= Limit'
  BY FixedPointAssumption, SMT DEF Limit
<1>7. ScaledInv'
  BY <1>1, <1>2, <1>4, <1>5, <1>6 DEF ScaledInv
<1>8. text'.length # 0
  BY <1>2, SMT
<1>9. ReadingInv'
  BY <1>1, <1>2, <1>4, <1>5, <1>7, <1>8 DEF ReadingInv
<1> QED BY <1>1, <1>2, <1>3, <1>9
        DEF ParserInv, SignInv, PaddingInv, ReturnedInv

\* A digit that is appended, or refused because the number has become too large.
LEMMA AppendStep ==
  ASSUME ParserInv, Reading, More, NEW digit \in 0 .. 9, ~(seenPoint /\ fraction = scale),
         AppendDigit(digit), SaysDigit(digit), UNCHANGED scale
  PROVE  ParserInv'
<1>1. /\ ParserType /\ ReadingInv /\ pc = "reading" /\ ScaleIsGood /\ ScaleIsGood'
      /\ ScaledInv /\ negative = text.minus
  BY DEF ParserInv, Reading, ReadingInv, SignInv, ScaleIsGood
<1>2. /\ text' \in Texts /\ text'.minus = text.minus
      /\ text'.length = text.length + 1 /\ text'.ended = text.ended
      /\ text'.decimal = text.decimal /\ text'.digits = TRUE
      /\ text'.point = text.point /\ text'.magnitude = 10 * text.magnitude + digit
      /\ text'.unit = IF text.point THEN 10 * text.unit ELSE text.unit
  BY <1>1, DigitFields DEF ParserType
<1>3. value = text.magnitude /\ text.unit = PowerOf10[fraction]
  BY <1>1, ValueIsMagnitude
<1>4. seenPoint = text.point /\ fraction <= scale
  BY <1>1 DEF ReadingInv, ScaledInv
<1>5. text'.length # 0
  BY <1>1, <1>2, Numbers, SMT
\* the next fraction, whether there is one or not
<1>6. PICK f \in Nat : f = IF seenPoint THEN fraction + 1 ELSE fraction
  BY <1>1, Numbers, SMT
<1>7. f <= scale /\ text'.unit = PowerOf10[f] /\ text'.unit <= PowerOf10[scale]
  <2>1. f <= scale
    BY <1>1, <1>4, <1>6, Numbers, SMT
  <2>2. text'.unit = PowerOf10[f]
    BY <1>1, <1>2, <1>3, <1>4, <1>6, PowerFacts, Numbers
  <2> QED BY <1>1, <2>1, <2>2, PowersGrow, Numbers
<1>8. text'.magnitude = value * 10 + digit /\ text'.magnitude \in Nat
  BY <1>1, <1>2, <1>3, Numbers, SMT
<1>9. CASE ~Fits(digit)
  <2>1. Refuse
    BY <1>9 DEF AppendDigit
  <2>2. Limit < text'.magnitude
    BY <1>1, <1>8, <1>9, FitsIsExact
  <2>3. text'.unit \in Nat \ {0}
    BY <1>2, Zenon DEF Texts
  <2>4. Limit * text'.unit < text'.magnitude * PowerOf10[scale]
    BY <1>1, <1>7, <1>8, <2>2, <2>3, Numbers, NumberExceeds
  <2>5. TooLarge'
    BY <2>1, <2>4, LimitStays DEF TooLarge, Refuse, locals
  <2> QED BY <1>1, <1>2, <1>5, <2>1, <2>5, RefuseStep DEF Wrong
<1>10. CASE Fits(digit)
  <2>1. /\ value' = value * 10 + digit /\ fraction' = f /\ seenDigit' = TRUE
        /\ UNCHANGED <<pc, negative, seenPoint, answer>>
    BY <1>6, <1>10 DEF AppendDigit
  <2>2. value' <= Limit
    BY <1>1, <1>10, <2>1, FitsIsExact
  <2>3. value' = text'.magnitude /\ value' \in Nat
    BY <1>8, <2>1
  <2>4. ParserType'
    BY <1>1, <1>2, <2>1, <2>3 DEF ParserType
  <2>5. PowerOf10[fraction'] = text'.unit
    BY <1>7, <2>1
  <2>6. ScaledInv'
    BY <1>7, <2>1, <2>2, <2>3, <2>5, LimitStays DEF ScaledInv
  <2>7. ~text'.point => fraction' = 0 /\ text'.unit = 1
    BY <1>1, <1>2, <1>4, <1>6, <2>1 DEF ReadingInv
  <2>8. text'.unit <= text'.unit
    BY <2>4, Numbers, SMT DEF ParserType, Texts
  <2>9. ReadingInv'
    BY <1>1, <1>2, <1>5, <2>1, <2>5, <2>6, <2>7, <2>8 DEF ReadingInv
  <2> QED BY <1>1, <1>2, <2>1, <2>4, <2>9, NotYet
          DEF ParserInv, SignInv, PaddingInv, ReturnedInv
<1> QED BY <1>9, <1>10

\* A digit beyond the scale.
LEMMA DropStep ==
  ASSUME ParserInv, Reading, More, NEW digit \in 0 .. 9, seenPoint, fraction = scale,
         DropDigit(digit), SaysDigit(digit), UNCHANGED scale
  PROVE  ParserInv'
<1>1. /\ ParserType /\ ReadingInv /\ pc = "reading" /\ ScaleIsGood /\ ScaleIsGood'
      /\ ScaledInv /\ negative = text.minus /\ text.point
      /\ PowerOf10[scale] <= text.unit
  BY DEF ParserInv, Reading, ReadingInv, SignInv, ScaleIsGood
<1>2. /\ text' \in Texts /\ text'.minus = text.minus
      /\ text'.length = text.length + 1 /\ text'.ended = text.ended
      /\ text'.decimal = text.decimal /\ text'.digits = TRUE
      /\ text'.point = text.point /\ text'.magnitude = 10 * text.magnitude + digit
      /\ text'.unit = 10 * text.unit
  BY <1>1, DigitFields DEF ParserType
<1>3. text'.length # 0
  BY <1>1, <1>2, Numbers, SMT
<1>4. value * text.unit = text.magnitude * PowerOf10[scale]
  BY <1>1 DEF ScaledInv
<1>5. /\ value * (10 * text.unit) = (10 * text.magnitude + 0) * PowerOf10[scale]
      /\ digit # 0 =>
           /\ value * (10 * text.unit) < (10 * text.magnitude + digit) * PowerOf10[scale]
           /\ ((10 * text.magnitude + digit) + 1) * PowerOf10[scale]
                <= (value + 1) * (10 * text.unit)
  BY <1>1, <1>4, Numbers, DropKeeps
<1>6. CASE digit # 0
  <2>1. Refuse
    BY <1>6 DEF DropDigit
  <2>2. NotWhole'
    BY <1>1, <1>2, <1>5, <1>6, <2>1 DEF NotWhole, Refuse, locals
  <2> QED BY <1>1, <1>2, <1>3, <2>1, <2>2, RefuseStep DEF Wrong
<1>7. CASE digit = 0
  <2>1. seenDigit' = TRUE /\ UNCHANGED <<pc, negative, value, fraction, seenPoint, answer>>
    BY <1>7 DEF DropDigit
  <2>2. ParserType'
    BY <1>1, <1>2, <2>1 DEF ParserType
  <2>3. value' * text'.unit = text'.magnitude * PowerOf10[fraction']
    BY <1>2, <1>5, <1>7, <2>1
  <2>4. ScaledInv'
    BY <1>1, <2>1, <2>3, LimitStays DEF ScaledInv
  <2>5. PowerOf10[fraction'] <= text'.unit
    BY <1>1, <1>2, <2>1, Numbers, SMT
  <2>6. ~(fraction' < scale')
    BY <1>1, <2>1, Numbers, SMT
  <2>7. ReadingInv'
    BY <1>1, <1>2, <1>3, <2>1, <2>4, <2>5, <2>6 DEF ReadingInv
  <2> QED BY <1>1, <1>2, <2>1, <2>2, <2>7, NotYet
          DEF ParserInv, SignInv, PaddingInv, ReturnedInv
<1> QED BY <1>6, <1>7

LEMMA DigitStep == ASSUME ParserInv, TakeDigit PROVE ParserInv'
<1>1. PICK digit \in Digits :
        /\ IF seenPoint /\ fraction = scale THEN DropDigit(digit) ELSE AppendDigit(digit)
        /\ SaysDigit(digit)
  BY DEF TakeDigit
<1>2. Reading /\ More /\ UNCHANGED scale /\ digit \in 0 .. 9
  BY FixedPointAssumption DEF TakeDigit
<1> QED BY <1>1, <1>2, AppendStep, DropStep

LEMMA PointStep == ASSUME ParserInv, TakePoint PROVE ParserInv'
<1>1. /\ ParserType /\ ReadingInv /\ pc = "reading" /\ ScaleIsGood /\ ScaleIsGood'
      /\ ScaledInv /\ negative = text.minus /\ UNCHANGED scale
  BY DEF ParserInv, Reading, ReadingInv, SignInv, ScaleIsGood, TakePoint
<1>2. /\ text' \in Texts /\ text'.minus = text.minus
      /\ text'.length = text.length + 1 /\ text'.ended = text.ended
      /\ text'.decimal = (text.decimal /\ ~text.point) /\ text'.digits = text.digits
      /\ text'.point = TRUE /\ text'.magnitude = text.magnitude
      /\ text'.unit = text.unit
  BY <1>1, PointFields DEF ParserType, TakePoint
<1>3. text'.length # 0
  BY <1>1, <1>2, Numbers, SMT
<1>4. seenPoint = text.point
  BY <1>1 DEF ReadingInv
<1>5. CASE seenPoint
  <2>1. Refuse
    BY <1>5 DEF TakePoint
  <2>2. ~text'.decimal
    BY <1>2, <1>4, <1>5
  <2> QED BY <1>1, <1>2, <1>3, <2>1, <2>2, RefuseStep DEF Wrong
<1>6. CASE ~seenPoint
  <2>1. seenPoint' = TRUE /\ UNCHANGED <<pc, negative, value, fraction, seenDigit, answer>>
    BY <1>6 DEF TakePoint
  <2>2. ParserType'
    BY <1>1, <1>2, <2>1 DEF ParserType
  <2>3. ScaledInv'
    BY <1>1, <1>2, <2>1, LimitStays DEF ScaledInv
  <2>4. ReadingInv'
    BY <1>1, <1>2, <1>3, <1>4, <1>6, <2>1, <2>3 DEF ReadingInv
  <2> QED BY <1>1, <1>2, <2>1, <2>2, <2>4, NotYet
          DEF ParserInv, SignInv, PaddingInv, ReturnedInv
<1> QED BY <1>5, <1>6

LEMMA OtherStep == ASSUME ParserInv, TakeOther PROVE ParserInv'
<1>1. /\ ParserType /\ pc = "reading" /\ ScaleIsGood /\ negative = text.minus
      /\ Refuse /\ UNCHANGED scale
  BY DEF ParserInv, Reading, SignInv, TakeOther
<1>2. /\ text' \in Texts /\ text'.minus = text.minus
      /\ text'.length = text.length + 1 /\ text'.decimal = FALSE
  BY <1>1, OtherFields DEF ParserType, TakeOther
<1>3. text'.length # 0
  BY <1>1, <1>2, Numbers, SMT
<1> QED BY <1>1, <1>2, <1>3, RefuseStep DEF Wrong

LEMMA EndStep == ASSUME ParserInv, ReadEnd PROVE ParserInv'
<1>1. /\ ParserType /\ ReadingInv /\ pc = "reading" /\ ScaleIsGood /\ ScaleIsGood'
      /\ ScaledInv /\ negative = text.minus /\ seenDigit = text.digits /\ UNCHANGED scale
  BY DEF ParserInv, Reading, ReadingInv, SignInv, ScaleIsGood, ReadEnd
<1>2. /\ text' \in Texts /\ text'.minus = text.minus
      /\ text'.length = text.length /\ text'.ended = TRUE
      /\ text'.decimal = text.decimal /\ text'.digits = text.digits
      /\ text'.point = text.point /\ text'.magnitude = text.magnitude
      /\ text'.unit = text.unit
  BY <1>1, EndFields DEF ParserType, ReadEnd
<1>3. CASE ~seenDigit
  <2>1. Refuse
    BY <1>3 DEF ReadEnd
  <2>2. text'.ended /\ ~text'.digits
    BY <1>1, <1>2, <1>3
  <2> QED BY <1>1, <1>2, <2>1, <2>2, RefuseStep DEF Wrong
<1>4. CASE seenDigit
  <2>1. pc' = "padding" /\ UNCHANGED <<locals, answer>>
    BY <1>4 DEF ReadEnd
  <2>2. ParserType'
    BY <1>1, <1>2, <2>1 DEF ParserType, locals
  <2>3. ScaledInv'
    BY <1>1, <1>2, <2>1, LimitStays DEF ScaledInv, locals
  <2>4. PaddingInv'
    BY <1>1, <1>2, <1>4, <2>3 DEF PaddingInv, ReadingInv
  <2> QED BY <1>1, <1>2, <2>1, <2>2, <2>4, NotYet
          DEF ParserInv, SignInv, ReadingInv, ReturnedInv, locals
<1> QED BY <1>3, <1>4

LEMMA PadStep == ASSUME ParserInv, PadZero PROVE ParserInv'
<1>1. /\ ParserType /\ pc = "padding" /\ ScaleIsGood /\ ScaleIsGood' /\ fraction < scale
      /\ ScaledInv /\ negative = text.minus /\ UNCHANGED <<scale, text>>
      /\ text.ended /\ text.decimal /\ text.digits
  BY DEF ParserInv, PaddingInv, SignInv, ScaleIsGood, PadZero
<1>2. 10 * PowerOf10[fraction] = PowerOf10[fraction + 1] /\ fraction + 1 \in Nat
      /\ fraction + 1 <= scale
  BY <1>1, PowerFacts, Numbers, SMT
<1>3. 10 * PowerOf10[fraction] <= PowerOf10[scale]
  BY <1>1, <1>2, PowersGrow, Numbers
<1>4. /\ (value * 10) * text.unit = text.magnitude * (10 * PowerOf10[fraction])
      /\ Limit < value * 10 =>
           Limit * text.unit < text.magnitude * PowerOf10[scale]
  <2>1. value * text.unit = text.magnitude * PowerOf10[fraction]
    BY <1>1 DEF ScaledInv
  <2>2. /\ value \in Nat /\ text.unit \in Nat \ {0} /\ text.magnitude \in Nat
        /\ PowerOf10[fraction] \in Nat /\ PowerOf10[scale] \in Nat /\ Limit \in Nat
    BY <1>1, Numbers
  <2> QED BY <1>3, <2>1, <2>2, PadKeeps
<1>5. value * 10 + 0 = value * 10 /\ value * 10 \in Nat
  BY <1>1, Numbers, SMT
<1>6. IF Fits(0) THEN value * 10 <= Limit ELSE Limit < value * 10
  <2>1. 0 \in 0 .. 9
    BY SMT
  <2> QED BY <1>1, <1>5, <2>1, FitsIsExact
<1>7. CASE ~Fits(0)
  <2>1. Refuse
    BY <1>7 DEF PadZero
  <2>2. TooLarge'
    BY <1>1, <1>4, <1>6, <1>7, <2>1, LimitStays DEF TooLarge, Refuse, locals
  <2> QED BY <1>1, <2>1, <2>2, RefuseStep DEF Wrong, ParserType
<1>8. CASE Fits(0)
  <2>1. /\ value' = value * 10 /\ fraction' = fraction + 1
        /\ UNCHANGED <<pc, negative, seenDigit, seenPoint, answer>>
    BY <1>8 DEF PadZero
  <2>2. ParserType'
    BY <1>1, <1>2, <1>5, <2>1 DEF ParserType
  <2>3. ScaledInv'
    BY <1>1, <1>2, <1>4, <1>6, <1>8, <2>1, LimitStays DEF ScaledInv
  <2>4. PaddingInv'
    BY <1>1, <2>3 DEF PaddingInv
  <2> QED BY <1>1, <2>1, <2>2, <2>4, NotYet
          DEF ParserInv, SignInv, ReadingInv, ReturnedInv
<1> QED BY <1>7, <1>8

\* The conversion of the value to the result type is exact at its minimum, too.
LEMMA SignedIsExact ==
  ASSUME ParserType PROVE Signed = (IF negative THEN -value ELSE value) /\ Signed \in Int
<1>1. CASE ~negative
  BY <1>1, SMT DEF Signed, ParserType
<1>2. CASE negative
  <2>1. Limit = Largest + 1 /\ -(Largest + 1) = -Largest - 1 /\ -value \in Int
    BY <1>2, FixedPointAssumption, SMT DEF Limit, ParserType
  <2> QED BY <1>2, <2>1 DEF Signed
<1> QED BY <1>1, <1>2

LEMMA ReturnStep == ASSUME ParserInv, ReturnValue PROVE ParserInv'
<1>1. /\ ParserType /\ pc = "padding" /\ ScaleIsGood /\ ScaleIsGood' /\ fraction >= scale
      /\ ScaledInv /\ negative = text.minus /\ UNCHANGED <<scale, locals, text>>
      /\ text.ended /\ text.decimal /\ text.digits
      /\ pc' = "returned" /\ answer' = [ok |-> TRUE, out |-> Signed]
  BY DEF ParserInv, PaddingInv, SignInv, ScaleIsGood, ReturnValue
<1>2. fraction = scale
  BY <1>1, Numbers, SMT DEF ScaledInv
<1>3. answer' = [ok |-> TRUE, out |-> IF negative THEN -value ELSE value]
      /\ answer' \in [ok : BOOLEAN, out : Int]
  BY <1>1, SignedIsExact
<1>4. ParserType'
  BY <1>1, <1>3 DEF ParserType, locals
<1>5. ScaledInv'
  BY <1>1, LimitStays DEF ScaledInv, locals
<1>6. SignInv'
  BY <1>1 DEF SignInv, locals
<1>7. ReturnedInv'
  <2>1. answer'.ok
    BY <1>1
  <2> QED BY <1>1, <1>2, <1>3, <1>5, <2>1 DEF ReturnedInv, locals
<1> QED BY <1>1, <1>4, <1>6, <1>7 DEF ParserInv, ReadingInv, PaddingInv

LEMMA UnreadStep == ASSUME ParserInv, Unread PROVE ParserInv'
<1>1. /\ ParserType /\ ReturnedInv /\ SignInv /\ pc = "returned" /\ ~text.ended
      /\ UNCHANGED <<scale, pc, locals, answer>> /\ ScaleIsGood' = ScaleIsGood
  BY DEF ParserInv, ScaleIsGood, Unread
<1>2. text \in Texts /\ ~answer.ok
  BY <1>1 DEF ParserType, ReturnedInv
<1>3. ASSUME text' \in Texts,
             ScaleIsGood => Wrong' /\ text'.minus = text.minus
                            /\ (text'.ended \/ text'.length # 0)
      PROVE  ParserInv'
  BY <1>1, <1>2, <1>3
     DEF ParserInv, ParserType, SignInv, ReadingInv, PaddingInv, ReturnedInv, locals
<1>4. ScaleIsGood => Wrong /\ text.length # 0
  BY <1>1, <1>2 DEF SignInv, ReturnedInv
<1>5. ASSUME \/ \E digit \in 0 .. 9 : SaysDigit(digit)
             \/ SaysPoint \/ SaysOther \/ SaysNoMore
      PROVE  ParserInv'
  <2>1. /\ text' \in Texts /\ text'.minus = text.minus
        /\ text'.length = text.length + 1 \/ text'.ended
    BY <1>2, <1>5, DigitFields, PointFields, OtherFields, EndFields
  <2>2. text'.ended \/ text'.length # 0
    BY <1>1, <2>1, Numbers, SMT
  <2>3. ParserType'
    BY <1>1, <2>1 DEF ParserType, locals
  <2>4. ScaleIsGood => Wrong'
    BY <1>1, <1>4, <1>5, <2>3, WrongStays
  <2> QED BY <1>3, <2>1, <2>2, <2>4
<1>6. ASSUME text.length = 0, NEW minus \in BOOLEAN, SaysSign(minus) PROVE ParserInv'
  <2>1. text' \in Texts /\ ~ScaleIsGood
    BY <1>2, <1>4, <1>6, SignFields
  <2> QED BY <1>3, <2>1
<1>7. Digits \subseteq 0 .. 9
  BY FixedPointAssumption
<1> QED BY <1>5, <1>6, <1>7 DEF Unread

\* Every step keeps the invariant.
LEMMA ParserNextInv == ParserInv /\ [Next]_vars => ParserInv'
<1> SUFFICES ASSUME ParserInv, [Next]_vars PROVE ParserInv'
  OBVIOUS
<1>1. CASE UNCHANGED vars
  BY <1>1 DEF vars, locals, ParserInv, ParserType, SignInv, ReadingInv, PaddingInv,
              ReturnedInv, ScaledInv, Wrong, TooLarge, NotWhole, Limit, ScaleIsGood
<1>2. CASE RefuseScale
  BY <1>2, RefuseStep DEF RefuseScale, ParserInv, ParserType
<1> QED BY <1>1, <1>2, SignStep, DigitStep, PointStep, OtherStep, EndStep, PadStep,
           ReturnStep, UnreadStep DEF Next

-----------------------------------------------------------------------------
\* The parser's locals against the text they were read from: an invariant of every
\* behaviour.
THEOREM ParserInvariance == Spec => []ParserInv
BY ParserInitInv, ParserNextInv, PTL DEF Spec

\* What the parser has refused is not a number the result type has at the scale.
LEMMA WrongWritesNothing ==
  ASSUME ParserType, ScaleIsGood, Wrong, text.ended, NEW n \in Nat, n <= Limit, Writes(n)
  PROVE  FALSE
<1> DEFINE p == PowerOf10[scale]
<1>1. /\ text.unit \in Nat \ {0} /\ text.magnitude \in Nat /\ p \in Nat \ {0}
      /\ value \in Nat /\ Limit \in Nat
  BY Numbers
<1>2. text.decimal /\ text.digits /\ n * text.unit = text.magnitude * p
  BY DEF Writes
<1>3. CASE TooLarge
  <2>1. n * text.unit <= Limit * text.unit /\ Limit * text.unit \in Nat /\ n * text.unit \in Nat
    BY <1>1, TimesOrder
  <2>2. Limit * text.unit < n * text.unit
    BY <1>2, <1>3 DEF TooLarge
  <2> QED BY <2>1, <2>2, SMT
<1>4. CASE NotWhole
  <2>1. value * text.unit < n * text.unit
    BY <1>2, <1>4 DEF NotWhole
  <2>2. ~(n <= value)
    <3>1. n <= value => n * text.unit <= value * text.unit
      BY <1>1, TimesOrder
    <3>2. n * text.unit \in Nat /\ value * text.unit \in Nat
      BY <1>1, TimesOrder
    <3> QED BY <2>1, <3>1, <3>2, SMT
  <2>3. value + 1 \in Nat /\ value + 1 <= n
    BY <1>1, <2>2, SMT
  <2>4. (value + 1) * text.unit <= n * text.unit /\ (value + 1) * text.unit \in Nat
    BY <1>1, <2>3, TimesOrder
  <2>5. text.magnitude * p < (text.magnitude + 1) * p
    <3>1. text.magnitude + 1 \in Nat /\ text.magnitude < text.magnitude + 1
      BY <1>1, SMT
    <3> QED BY <1>1, <3>1, TimesOrder
  <2>6. (text.magnitude + 1) * p <= (value + 1) * text.unit
    BY <1>4 DEF NotWhole
  <2>7. n * text.unit < (text.magnitude + 1) * p
    BY <1>2, <2>5
  <2>8. (text.magnitude + 1) * p \in Nat /\ n * text.unit \in Nat
    BY <1>1, SMT
  <2> HIDE DEF p
  <2> QED BY <2>4, <2>6, <2>7, <2>8, SMT
<1> QED BY <1>2, <1>3, <1>4 DEF Wrong

\* parse_decimal_to_fixed accepts exactly the decimal numbers that are whole at the scale
\* and fit the result type, and returns them, for every width, scale and text.
THEOREM ParseHolds == Spec => []ParseIsExact
<1>1. ParserInv => ParseIsExact
  <2> SUFFICES ASSUME ParserInv, pc = "returned", text.ended
               PROVE  IF ScaleIsGood /\ \E n \in Magnitudes : Writes(n)
                      THEN \E n \in Magnitudes :
                             /\ Writes(n)
                             /\ answer = [ok |-> TRUE, out |-> IF text.minus THEN -n ELSE n]
                      ELSE ~answer.ok
    BY DEF ParseIsExact
  <2>1. ParserType /\ SignInv /\ ReturnedInv
    BY DEF ParserInv
  <2>2. ScaleIsGood => \A n : n \in Magnitudes <=> n \in Nat /\ n <= Limit
    <3> SUFFICES ASSUME ScaleIsGood PROVE \A n : n \in Magnitudes <=> n \in Nat /\ n <= Limit
      OBVIOUS
    <3>1. Magnitudes = 0 .. Limit
      BY <2>1 DEF SignInv, Magnitudes, Limit
    <3>2. Limit \in Nat
      BY <2>1, Numbers
    <3> QED BY <3>1, <3>2, SMT
  <2>3. CASE answer.ok
    <3>1. /\ ScaleIsGood /\ text.decimal /\ text.digits /\ ScaledInv /\ fraction = scale
          /\ answer = [ok |-> TRUE, out |-> IF negative THEN -value ELSE value]
          /\ negative = text.minus
      BY <2>1, <2>3 DEF ReturnedInv, SignInv
    <3>2. Writes(value) /\ value \in Magnitudes
      BY <2>1, <2>2, <3>1, Numbers DEF Writes, ScaledInv
    <3> QED BY <3>1, <3>2
  <2>4. CASE ~answer.ok
    <3>1. ScaleIsGood => Wrong
      BY <2>1, <2>4 DEF ReturnedInv
    <3>2. ~(ScaleIsGood /\ \E n \in Magnitudes : Writes(n))
      BY <2>1, <2>2, <3>1, WrongWritesNothing
    <3> QED BY <2>4, <3>2
  <2> QED BY <2>3, <2>4
<1> QED BY <1>1, ParserInvariance, PTL
=============================================================================
