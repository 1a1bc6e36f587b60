------------------------------- MODULE Decimal -------------------------------
(***************************************************************************)
(* The fixed point number of types/decimal.cpp: an integer _v of any size  *)
(* and a _scale, with a default scale and rounding for the / operator and  *)
(* for str().  One object is modelled; the other operand of an operation   *)
(* is a temporary (one of Temporaries) or the object itself, which the     *)
(* code tells apart by address.  A text is a sequence of digits with Minus *)
(* and Dot for the other two characters.                                   *)
(***************************************************************************)
EXTENDS Integers, SequencesExt

CONSTANTS
    MaxUnits,     \* bound on |_v| of the object (the library has no such bound)
    MaxScale,     \* bound on the scale of the object and on the scales asked for
    MinQuotient,  \* the least scale of operator / without a default (6 in the code)
    Units         \* the sizes of the integers the constructors are given

VARIABLE object

Minus == 10

Dot == 11

Roundings == {"TiesToEven", "TiesAwayFromZero", "TowardsZero",
              "TowardsPositiveInfinity", "TowardsNegativeInfinity"}

Ten[n \in Nat] == IF n = 0 THEN 1 ELSE 10 * Ten[n - 1]

Magnitude(n) == IF n < 0 THEN -n ELSE n

Sign(n) == IF n > 0 THEN 1 ELSE IF n < 0 THEN -1 ELSE 0

(***************************************************************************)
(* Construction, copy and the representation                               *)
(***************************************************************************)
FromInteger(n) == [v |-> n, scale |-> 0, dscale |-> -1, rounding |-> "TiesToEven"]

\* Both the copy constructor and = keep the default scale and forget the rounding.
Copy(d) == [d EXCEPT !.rounding = "TiesToEven"]

Upscale(d, s) == [d EXCEPT !.v = @ * Ten[s], !.scale = @ + s]

\* Trailing zeros of the fraction are dropped.
Cleanup(d) ==
    LET drop == CHOOSE s \in 0 .. d.scale :
                   /\ d.v % Ten[s] = 0
                   /\ s = d.scale \/ d.v % Ten[s + 1] # 0
    IN [d EXCEPT !.v = Sign(@) * (Magnitude(@) \div Ten[drop]), !.scale = @ - drop]

(***************************************************************************)
(* Arithmetic; "alias" says that the operand is the object itself          *)
(***************************************************************************)
Align(d, o, Op(_, _)) ==
    IF d.scale < o.scale
    THEN LET u == Upscale(d, o.scale - d.scale) IN [u EXCEPT !.v = Op(@, o.v)]
    ELSE [d EXCEPT !.v = Op(@, Upscale(o, d.scale - o.scale).v)]

Add(d, o) == Cleanup(Align(d, o, LAMBDA a, b : a + b))

Sub(d, o, alias) ==
    IF alias THEN [d EXCEPT !.v = 0, !.scale = 0]
    ELSE Cleanup(Align(d, o, LAMBDA a, b : a - b))

Mul(d, o) == Cleanup([d EXCEPT !.v = @ * o.v, !.scale = @ + o.scale])

\* The quotient cut towards zero, and what is left, as mpz_tdiv_qr().
Quotient(n, m) == Sign(n) * Sign(m) * (Magnitude(n) \div Magnitude(m))

Remainder(n, m) == Sign(n) * (Magnitude(n) % Magnitude(m))

\* Mutant: a tie is bumped when the quotient is even.
BumpedOdd(q, r, m, rounding) ==
    \/ 2 * Magnitude(r) > Magnitude(m)
    \/ 2 * Magnitude(r) = Magnitude(m) /\ (rounding # "TiesToEven" \/ q % 2 = 0)

Bumped(q, r, m, rounding) ==
    \/ 2 * Magnitude(r) > Magnitude(m)
    \/ 2 * Magnitude(r) = Magnitude(m) /\ (rounding # "TiesToEven" \/ q % 2 = 1)

\* The direction a remainder moves the quotient in, and the code's return value.
Rounded(q, r, m, dir, rounding) ==
    IF r = 0 THEN [by |-> 0, ret |-> 0]
    ELSE IF rounding = "TowardsPositiveInfinity"
    THEN [by |-> IF dir > 0 THEN 1 ELSE 0, ret |-> 1]
    ELSE IF rounding = "TowardsNegativeInfinity"
    THEN [by |-> IF dir < 0 THEN -1 ELSE 0, ret |-> -1]
    ELSE IF rounding = "TowardsZero" THEN [by |-> 0, ret |-> -dir]
    ELSE IF Bumped(q, r, m, rounding) THEN [by |-> dir, ret |-> dir]
    ELSE [by |-> 0, ret |-> -dir]

\* A divisor of zero and a negative scale throw; the callers below rule them out.
Div(d, o, alias, scale, rounding) ==
    LET diff == d.scale - o.scale
        n == IF diff < scale THEN d.v * Ten[scale - diff] ELSE d.v
        m == IF diff > scale THEN o.v * Ten[diff - scale] ELSE o.v
        q == Quotient(n, m)
        dir == IF Sign(d.v) = Sign(m) THEN 1 ELSE -1
        how == Rounded(q, Remainder(n, m), m, dir, rounding)
    IN IF alias THEN [num |-> [d EXCEPT !.v = 1, !.scale = 0], ret |-> 0]
       ELSE IF d.v = 0 THEN [num |-> d, ret |-> 0]
       ELSE [num |-> Cleanup([d EXCEPT !.v = q + how.by, !.scale = scale]), ret |-> how.ret]

\* The scale of the / and /= operators.
QuotientScale(d, o) ==
    IF d.dscale >= 0 THEN d.dscale
    ELSE IF d.scale - o.scale > MinQuotient THEN d.scale - o.scale ELSE MinQuotient

Compare(d, o) == Sign(Align(d, o, LAMBDA a, b : a - b).v)

(***************************************************************************)
(* Text                                                                    *)
(***************************************************************************)
\* What mpz_get_str() writes for a natural number: no leading zeros, "0" for 0.
Digits[n \in Nat] == IF n < 10 THEN <<n>> ELSE Append(Digits[n \div 10], n % 10)

Number(s) == FoldLeft(LAMBDA n, digit : 10 * n + digit, 0, s)

Zeros(n) == [i \in 1 .. n |-> 0]

\* The digits with the dot put in, zeros before it when there are too few.
SerializeWithAppending(d, scale) ==
    LET digits == Digits[Magnitude(d.v)]
        len == Len(digits)
        body == IF d.scale = 0
                THEN digits \o (IF scale > d.scale THEN <<Dot>> ELSE <<>>)
                ELSE IF d.scale >= len
                THEN <<0, Dot>> \o Zeros(d.scale - len) \o digits
                ELSE SubSeq(digits, 1, len - d.scale) \o <<Dot>>
                         \o SubSeq(digits, len - d.scale + 1, len)
    IN (IF d.v < 0 THEN <<Minus>> ELSE <<>>) \o body \o Zeros(scale - d.scale)

SerializeWithRounding(d, scale, rounding) ==
    LET m == Div(Copy(d), FromInteger(1), FALSE, scale, rounding)
    IN [text |-> SerializeWithAppending(m.num, scale), ret |-> m.ret]

Serialize(d, scale, rounding) ==
    LET ns == IF scale >= 0 THEN scale ELSE d.scale
    IN IF scale < 0 /\ d.v = 0 THEN [text |-> <<0>>, ret |-> 0]
       ELSE IF ns >= d.scale THEN [text |-> SerializeWithAppending(d, ns), ret |-> 0]
       ELSE SerializeWithRounding(d, ns, rounding)

str(d, scale) == Serialize(d, IF scale >= 0 THEN scale ELSE d.dscale, d.rounding).text

\* An optional minus, digits and at most one dot, with a digit somewhere.
Parsable(s) ==
    LET body == IF s # <<>> /\ s[1] = Minus THEN Tail(s) ELSE s
    IN /\ \A i \in DOMAIN body : body[i] \in 0 .. 9 \cup {Dot}
       /\ \A i, j \in DOMAIN body : body[i] = Dot /\ body[j] = Dot => i = j
       /\ \E i \in DOMAIN body : body[i] # Dot

\* The trailing zeros counted over the whole text, and cut from the fraction only.
Parse(d, s) ==
    LET figures == SelectSeq(s, LAMBDA c : c \in 0 .. 9)
        digits == Len(figures)
        dots == {i \in DOMAIN s : s[i] = Dot}
        scale == IF dots = {} THEN 0 ELSE Len(s) - (CHOOSE i \in dots : TRUE)
        kept == {i \in 1 .. digits : figures[i] # 0}
        zdigits == digits - (CHOOSE i \in kept : \A j \in kept : j <= i)
        cut == IF zdigits < scale THEN zdigits ELSE scale
        size == Number(SubSeq(figures, 1, digits - cut))
    IN IF kept = {} THEN [d EXCEPT !.v = 0, !.scale = 0]
       ELSE [d EXCEPT !.v = IF s[1] = Minus THEN -size ELSE size, !.scale = scale - cut]

(***************************************************************************)
(* The object's life: each method of the class                             *)
(***************************************************************************)
Temporaries ==
    LET Signed == Units \cup {-n : n \in Units}
    IN {FromInteger(n) : n \in Signed}
           \cup {Parse(FromInteger(0),
                       SerializeWithAppending([FromInteger(n) EXCEPT !.scale = s], s)) :
                     n \in Signed, s \in 1 .. MaxScale}

Settings == {[dscale |-> -1, rounding |-> "TiesToEven"],
             [dscale |-> 0, rounding |-> "TiesAwayFromZero"],
             [dscale |-> 1, rounding |-> "TowardsNegativeInfinity"]}

Becomes(d) == Magnitude(d.v) <= MaxUnits /\ d.scale <= MaxScale /\ object' = d

Assign == \E o \in Temporaries : Becomes(Copy(o))

Configure == \E s \in Settings :
    Becomes([object EXCEPT !.dscale = s.dscale, !.rounding = s.rounding])

\* The compound operators; each also exists as a method, Div with its own rounding.
Update ==
    \/ \E o \in Temporaries \cup {object} :
          Becomes(Add(object, o)) \/ Becomes(Mul(object, o)) \/ Becomes(Sub(object, o, o = object))
    \/ \E o \in Temporaries : o.v # 0
          /\ Becomes(Div(object, o, FALSE, QuotientScale(object, o), object.rounding).num)
    \/ object.v # 0 /\ Becomes(Div(object, object, TRUE, 0, object.rounding).num)

\* The operators that make a new number, assigned to the object.
Operators ==
    \/ \E o \in Temporaries :
          \/ Becomes(Copy(Add(Copy(object), o))) \/ Becomes(Copy(Mul(Copy(object), o)))
          \/ Becomes(Copy(Sub(Copy(object), o, FALSE)))
          \/ o.v # 0 /\ Becomes(Copy(Div(Copy(object), o, FALSE, QuotientScale(object, o),
                                         object.rounding).num))
    \/ Becomes(Copy([object EXCEPT !.v = -@]))

\* A number written and read back.
Reread == \E scale \in -1 .. MaxScale : Becomes(Parse(object, str(object, scale)))

DecimalInit == object = FromInteger(0)

DecimalNext == Assign \/ Configure \/ Update \/ Operators \/ Reread

DecimalSpec == DecimalInit /\ [][DecimalNext]_object

(***************************************************************************)
(* Properties, against the rational numbers: d stands for _v / 10 ^ _scale *)
(***************************************************************************)
\* d's value over the common denominator of d and o.
Over(d, o) == d.v * Ten[o.scale]

\* The result is what the exact quotient rounds to, and ret says on which side of it
\* the result lies: the numerator and the denominator are brought to the wanted scale.
DividesRight(d, o, scale, rounding, res) ==
    LET flip == Sign(o.v)
        n == flip * d.v * Ten[o.scale] * Ten[scale]
        m == flip * o.v * Ten[d.scale]
        k == res.num.v * Ten[scale - res.num.scale]
        off == k * m - n
    IN /\ res.num.scale <= scale
       /\ Sign(off) = Sign(res.ret)
       /\ Magnitude(off) < m
       /\ rounding = "TowardsPositiveInfinity" => off >= 0
       /\ rounding = "TowardsNegativeInfinity" => off <= 0
       /\ rounding = "TowardsZero" => Sign(off) # Sign(n) \/ off = 0
       /\ rounding \in {"TiesToEven", "TiesAwayFromZero"} =>
              /\ 2 * Magnitude(off) <= m
              /\ 2 * Magnitude(off) = m =>
                    IF rounding = "TiesToEven" THEN k % 2 = 0 ELSE Sign(off) = Sign(n)

\* Whatever operations led to it, the number is in its shortest form; sums, differences,
\* products and comparisons are exact; every quotient is the right neighbour of the exact
\* one, with the return value decimal.h documents; and the text of a number, cut to any
\* scale or not, reads back as that number (decimal.cpp Add() to compare(), Serialize(),
\* Parse()).
DecimalsExact ==
    /\ object.scale > 0 => object.v % 10 # 0
    /\ \A o \in Temporaries \cup {object} :
          LET sum == Add(object, o)
              difference == Sub(object, o, o = object)
              product == Mul(object, o)
          IN /\ Over(sum, [scale |-> object.scale + o.scale])
                    = (Over(object, o) + Over(o, object)) * Ten[sum.scale]
             /\ Over(difference, [scale |-> object.scale + o.scale])
                    = (Over(object, o) - Over(o, object)) * Ten[difference.scale]
             /\ product.v * Ten[object.scale + o.scale] = object.v * o.v * Ten[product.scale]
             /\ Compare(object, o) = Sign(Over(object, o) - Over(o, object))
             /\ \A scale \in 0 .. MaxScale, rounding \in Roundings :
                   o.v # 0 => DividesRight(object, o, scale, rounding,
                                           Div(object, o, o = object, scale, rounding))
    /\ \A scale \in -1 .. MaxScale, rounding \in Roundings :
          LET written == Serialize(object, scale, rounding)
              back == Parse(FromInteger(0), written.text)
          IN /\ Parsable(written.text)
             /\ IF scale >= 0
                THEN DividesRight(object, FromInteger(1), scale, rounding,
                                  [num |-> back, ret |-> written.ret])
                ELSE back.v = object.v /\ back.scale = object.scale

DecimalOK ==
    /\ object.v \in -MaxUnits .. MaxUnits /\ object.scale \in Nat
    /\ object.dscale \in Int /\ object.rounding \in Roundings
=============================================================================
