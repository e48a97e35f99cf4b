--------------------------- MODULE SetPoints_proofs ---------------------------
(***************************************************************************)
(* What the conversions of SetPoints do to every number, for all widths.   *)
(***************************************************************************)
EXTENDS SetPoints, TLAPS

\* Rounding moves a number by at most a half.
LEMMA RoundedIsClose ==
    ASSUME NEW n \in Int
    PROVE  /\ Rounded(n) \in Int
           /\ 2 * Rounded(n) - n \in {-1, 0, 1}
           /\ IsWhole(n) => 2 * Rounded(n) = n
<1>1. CASE n >= 0
    BY <1>1 DEF Rounded, IsWhole
<1>2. CASE n < 0
    BY <1>2 DEF Rounded, IsWhole
<1> QED BY <1>1, <1>2

LEMMA NearestIsMultiple ==
    ASSUME NEW n \in Int, NEW s \in Nat \ {0}
    PROVE  Nearest(n, s) \in Int /\ (n % s = 0 => Nearest(n, s) = n)
<1>1. n % s \in Int /\ n % s >= 0 /\ n % s < s
    OBVIOUS
<1> DEFINE r == n % s
<1> HIDE DEF r
<1>2. ASSUME r = 0
      PROVE  2 * r < s
    BY <1>2
<1>3. n - r \in Int /\ (r = 0 => n - r = n) /\ n - r + s \in Int
    BY <1>1 DEF r
<1> QED BY <1>2, <1>3 DEF Nearest, r

LEMMA ClippedIsWord ==
    ASSUME NEW n \in Int
    PROVE  /\ Rounded(Clipped(n)) \in 0 .. WordMax
           /\ Word(n) = 2 * Rounded(Clipped(n))
<1>1. Clipped(n) \in Int /\ 0 <= Clipped(n) /\ Clipped(n) <= 2 * WordMax
    BY WidthsAssumption DEF Clipped
<1>2. Rounded(Clipped(n)) \in 0 .. WordMax
    BY <1>1, WidthsAssumption DEF Rounded
<1>3. \A w \in 0 .. WordMax : w % (WordMax + 1) = w
    BY WidthsAssumption
<1> QED BY <1>2, <1>3 DEF Word

\* A holding register is given the word nearest to the set-point, whatever the
\* set-point and the width (ModbusIndustrialAdapter::writeDouble).
THEOREM WordIsNearest ==
    ASSUME NEW n \in Int
    PROVE  Word(n) \in Words /\ \A w \in Words : Dist(Word(n), n) <= Dist(w, n)
<1>1. Word(n) = 2 * Rounded(Clipped(n)) /\ Rounded(Clipped(n)) \in 0 .. WordMax
    BY ClippedIsWord
<1>2. ASSUME NEW w \in 0 .. WordMax
      PROVE  Dist(2 * Rounded(Clipped(n)), n) <= Dist(2 * w, n)
  <2>1. CASE n < 0
      BY <2>1, WidthsAssumption DEF Clipped, Rounded, Dist, Size
  <2>2. CASE n > 2 * WordMax
      BY <2>2, WidthsAssumption, RoundedIsClose DEF Clipped, Rounded, Dist, Size
  <2>3. CASE 0 <= n /\ n <= 2 * WordMax
    <3>1. Clipped(n) = n /\ 2 * Rounded(n) - n \in {-1, 0, 1} /\ Rounded(n) \in Int
        BY <2>3, RoundedIsClose, WidthsAssumption DEF Clipped
    <3>2. 2 * w = n => 2 * Rounded(n) = n
        BY <3>1
    <3> QED BY <3>1, <3>2 DEF Dist, Size
  <2> QED BY <2>1, <2>2, <2>3, WidthsAssumption
<1> QED BY <1>1, <1>2 DEF Words

\* A larger set-point never gives a smaller register.
THEOREM WordIsMonotonic ==
    ASSUME NEW m \in Int, NEW n \in Int, m <= n
    PROVE  Word(m) <= Word(n)
<1>1. Clipped(m) \in Nat /\ Clipped(n) \in Nat /\ Clipped(m) <= Clipped(n)
    BY WidthsAssumption DEF Clipped
<1>2. Rounded(Clipped(m)) <= Rounded(Clipped(n))
    BY <1>1 DEF Rounded
<1> QED BY <1>2, ClippedIsWord

\* A set-point that a DINT can hold arrives as it is; one that is out of its range
\* never does: it wraps around (EtherNetIpIndustrialAdapter::writeDouble).
THEOREM DintIsExactInRange ==
    ASSUME NEW n \in Int, IsWhole(n)
    PROVE  Dint(n) = n <=> DintHolds(n)
<1> DEFINE r == Rounded(n)
           m == (r + DintHalf) % (2 * DintHalf)
<1>1. r \in Int /\ n = 2 * r
    BY RoundedIsClose
<1> HIDE DEF r
<1>2. m \in 0 .. 2 * DintHalf - 1
    BY <1>1, WidthsAssumption
<1>3. r + DintHalf \in 0 .. 2 * DintHalf - 1 => m = r + DintHalf
    BY <1>1, WidthsAssumption
<1>4. Dint(n) = 2 * (m - DintHalf)
    BY DEF Dint, r
<1> HIDE DEF m
<1>5. DintHolds(n) <=> r + DintHalf \in 0 .. 2 * DintHalf - 1
    BY <1>1, WidthsAssumption DEF DintHolds, IsWhole
<1>6. DintHolds(n) => Dint(n) = n
    BY <1>1, <1>3, <1>4, <1>5, WidthsAssumption
<1>7. Dint(n) = n => m = r + DintHalf
    BY <1>1, <1>2, <1>4, WidthsAssumption
<1>8. Dint(n) = n => DintHolds(n)
    BY <1>2, <1>5, <1>7
<1> QED BY <1>6, <1>8

LEMMA DintIsInt == ASSUME NEW n \in Int PROVE Dint(n) \in Int
<1>1. Rounded(n) + DintHalf \in Int /\ 2 * DintHalf \in Nat \ {0}
    BY RoundedIsClose, WidthsAssumption
<1>2. (Rounded(n) + DintHalf) % (2 * DintHalf) \in Int
    BY <1>1
<1> QED BY <1>2, WidthsAssumption DEF Dint

LEMMA SpacingTypes ==
    ASSUME NEW n \in Numbers
    PROVE  RealSpacing(n) \in Nat \ {0} /\ 2 * TextSpacing(n) \in Nat \ {0}
<1>1. RealSpacing(n) \in RealSpacings
    BY NumbersAssumption DEF RealSpacing
<1>2. TextSpacing(n) \in TextSpacings
    BY NumbersAssumption DEF TextSpacing
<1>3. RealSpacing(n) \in Nat \ {0} /\ TextSpacing(n) \in Nat \ {0}
    BY <1>1, <1>2, WidthsAssumption
<1> QED BY <1>3

\* A REAL and a JSON body give back every number they have room for.
THEOREM RealAndTextAreExact ==
    ASSUME NEW n \in Numbers
    PROVE  /\ Real(n) \in Int /\ Text(n) \in Int
           /\ RealHolds(n) => Real(n) = n
           /\ TextHolds(n) => Text(n) = n
<1>1. n \in Int
    BY NumbersAssumption
<1>2. Real(n) \in Int /\ (RealHolds(n) => Real(n) = n)
    BY <1>1, SpacingTypes, NearestIsMultiple DEF Real, RealHolds
<1>3. CASE TextKeepsHalves(n)
    BY <1>1, <1>2, <1>3 DEF Text
<1>4. CASE ~TextKeepsHalves(n)
    BY <1>1, <1>2, <1>4, SpacingTypes, NearestIsMultiple DEF Text, TextHolds
<1> QED BY <1>3, <1>4

==============================================================================
