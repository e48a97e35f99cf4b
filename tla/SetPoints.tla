------------------------------ MODULE SetPoints ------------------------------
(***************************************************************************)
(* What becomes of the parameter of a command on its way to the device.    *)
(* execute() is given a double; a coil, a holding register, a DINT, a REAL  *)
(* and a JSON body made with operator<< hold less.                         *)
(*                                                                         *)
(* Numbers are counted in halves: n stands for n / 2, so that there are    *)
(* fractions and lround() has ties.  There is no NaN.                      *)
(***************************************************************************)
EXTENDS Integers

CONSTANTS
    Numbers,        \* the parameters of commands; One is what a start writes
    WordMax,        \* the largest holding register: 65535
    DintHalf,       \* a DINT is -DintHalf .. DintHalf - 1: 2^31
    RealLimit,      \* the significands of a float: 2^24
    RealSpacings,   \* distances of neighbouring floats: 1, 2, 4, ...
    TextLimit,      \* what the digits of operator<< can count to: 10^6
    TextSpacings    \* distances of what they can tell apart: 1, 10, 100, ...

One == 2

Size(n) == IF n < 0 THEN -n ELSE n

Dist(a, b) == Size(a - b)

\* s is the place value of the last digit that n has room for.
Spaced(n, s, base, limit) ==
    Size(n) < s * limit /\ (s = 1 \/ Size(n) >= (s \div base) * limit)

PowersOf(base, S) == \A s \in S : s = 1 \/ (s % base = 0 /\ s \div base \in S)

ASSUME WidthsAssumption ==
    /\ WordMax \in Nat /\ DintHalf \in Nat \ {0}
    /\ RealLimit \in Nat \ {0} /\ RealSpacings \subseteq Nat \ {0}
    /\ TextLimit \in Nat \ {0} /\ TextSpacings \subseteq Nat \ {0}
    /\ PowersOf(2, RealSpacings) /\ PowersOf(10, TextSpacings)

\* The spacings go far enough.
ASSUME NumbersAssumption ==
    /\ Numbers \subseteq Int /\ One \in Numbers
    /\ \A n \in Numbers :
          /\ \E s \in RealSpacings : Spaced(n, s, 2, RealLimit)
          /\ \E s \in TextSpacings : Spaced(n, s, 10, 2 * TextLimit)

-------------------------------------------------------------------------------
(* Rounding                                                                *)

\* std::lround: a half goes away from zero.
Rounded(n) == IF n >= 0 THEN (n + 1) \div 2 ELSE -((1 - n) \div 2)

\* The multiple of s next to n; of two, the even one.
Nearest(n, s) ==
    LET below == n - (n % s)
    IN  IF 2 * (n % s) < s \/ (2 * (n % s) = s /\ (below % (2 * s)) = 0)
        THEN below ELSE below + s

-------------------------------------------------------------------------------
(* The conversions                                                         *)

\* A coil or a BOOL: anything but zero is TRUE.
Flag(n) == IF n = 0 THEN 0 ELSE One

\* (Bug: the value is not clipped before it is cast.)
Unclipped(n) == n

Clipped(n) == IF n < 0 THEN 0 ELSE IF n > 2 * WordMax THEN 2 * WordMax ELSE n

\* A holding register: clip, round and cast to uint16_t.
Word(n) == 2 * (Rounded(Clipped(n)) % (WordMax + 1))

\* A DINT: round and cast to int32_t, which wraps around.
Dint(n) == 2 * (((Rounded(n) + DintHalf) % (2 * DintHalf)) - DintHalf)

\* A REAL: the nearest float.
RealSpacing(n) == CHOOSE s \in RealSpacings : Spaced(n, s, 2, RealLimit)
Real(n) == Nearest(n, RealSpacing(n))

\* Every half has room before a digit is lost to the left of the point.
TextKeepsHalves(n) == 10 * Size(n) < 2 * TextLimit

TextSpacing(n) == CHOOSE s \in TextSpacings : Spaced(n, s, 10, 2 * TextLimit)

\* The text of a double with the precision a new ostringstream has.
Text(n) == IF TextKeepsHalves(n) THEN n ELSE Nearest(n, 2 * TextSpacing(n))

-------------------------------------------------------------------------------
(* What each of them can hold                                              *)

Words == {2 * w : w \in 0 .. WordMax}

IsWhole(n) == n % 2 = 0

DintHolds(n) == IsWhole(n) /\ -2 * DintHalf <= n /\ n < 2 * DintHalf

RealHolds(n) == n % RealSpacing(n) = 0

TextHolds(n) == TextKeepsHalves(n) \/ n % (2 * TextSpacing(n)) = 0
==============================================================================
