---------------------------- MODULE MoneyProofs ----------------------------
(***************************************************************************)
(* What Money.tla computes, for every amount, rate and pair of currencies. *)
(***************************************************************************)
EXTENDS Money, TLAPS

LEMMA Powers ==
  /\ TenToThe(0) = 1 /\ TenToThe(1) = 10 /\ TenToThe(2) = 100 /\ TenToThe(3) = 1000
BY DEF TenToThe, Tens

LEMMA PowersPositive == \A k \in 0..11 : TenToThe(k) \in Nat \ {0}
BY DEF TenToThe, Tens

\* A number is what its quotient and remainder by a power of ten spell.
LEMMA Split ==
  ASSUME NEW n \in Nat, NEW e \in Exponents
  PROVE  /\ n \div TenToThe(e) \in Nat
         /\ n % TenToThe(e) \in Nat
         /\ n % TenToThe(e) < TenToThe(e)
         /\ (n \div TenToThe(e)) * TenToThe(e) + (n % TenToThe(e)) = n
<1>1. CASE e = 0
  BY <1>1, Powers
<1>2. CASE e = 2
  BY <1>2, Powers
<1>3. CASE e = 3
  BY <1>3, Powers
<1> QED
  BY <1>1, <1>2, <1>3 DEF Exponents

\* An amount that was formatted is read back as the same number of minor
\* units, in every currency, negative balances included: Money.format claims to
\* be the inverse of Money.parse.
THEOREM FormatParsesBack ==
  ASSUME NEW n \in Int, NEW e \in Exponents
  PROVE  Format(n, e) \in Texts /\ Parse(Format(n, e), e) = Value(n)
<1> DEFINE t == Format(n, e)
<1>1. Magnitude(n) \in Nat
  BY DEF Magnitude
<1>2. /\ t.whole \in Nat /\ t.fraction \in Nat /\ t.fraction < TenToThe(t.places)
      /\ t.places = e /\ t.matches /\ ~t.padded /\ (t.negative <=> n < 0)
      /\ t.whole * TenToThe(e) + t.fraction = Magnitude(n)
  BY <1>1, Split DEF Format
<1>3. t \in Texts
  BY <1>2 DEF Texts, Format, TooLong, Exponents, MaxRateScale
<1>4. e - e = 0
  BY DEF Exponents
<1>5. Digits(t, e) = Magnitude(n)
  BY <1>2, <1>4, Powers DEF Digits
<1>6. Scaled(t, e) = n
  BY <1>2, <1>5 DEF Scaled, Magnitude
<1>7. ~(t.places > e)
  BY <1>2 DEF Exponents
<1> QED
  BY <1>2, <1>3, <1>6, <1>7 DEF Parse

\* Padding to a wider fraction multiplies by the power of ten between the two.
LEMMA Rescale ==
  ASSUME NEW t \in Texts, NEW w \in 0..3, NEW e \in 0..3, t.places <= w, w <= e
  PROVE  /\ Digits(t, w) \in Nat
         /\ Digits(t, e) = Digits(t, w) * TenToThe(e - w)
<1>1. t.whole \in Nat /\ t.fraction \in Nat /\ t.places \in 0..11
  BY DEF Texts, MaxRateScale
<1>2. \A p \in 0..3, v \in 0..3, f \in 0..3 :
         p <= v /\ v <= f => /\ TenToThe(f) = TenToThe(v) * TenToThe(f - v)
                             /\ TenToThe(f - p) = TenToThe(v - p) * TenToThe(f - v)
  BY Powers
<1>3. PICK p \in 0..3 : p = t.places
  BY <1>1
<1>4. /\ TenToThe(e) = TenToThe(w) * TenToThe(e - w)
      /\ TenToThe(e - p) = TenToThe(w - p) * TenToThe(e - w)
  BY <1>2, <1>3
<1>5. TenToThe(w) \in Nat /\ TenToThe(w - p) \in Nat /\ TenToThe(e - w) \in Nat
  BY <1>3, PowersPositive
<1>6. Digits(t, w) = t.whole * TenToThe(w) + t.fraction * TenToThe(w - p)
  BY <1>3 DEF Digits
<1>7. Digits(t, e) = t.whole * (TenToThe(w) * TenToThe(e - w))
                       + t.fraction * (TenToThe(w - p) * TenToThe(e - w))
  BY <1>3, <1>4 DEF Digits
<1>8. \A a, x, b, y, z \in Nat : a * (x * z) + b * (y * z) = (a * x + b * y) * z
  OBVIOUS
<1>9. \A a, x, b, y \in Nat : a * x + b * y \in Nat
  OBVIOUS
<1> QED
  BY <1>1, <1>5, <1>6, <1>7, <1>8, <1>9

LEMMA ExponentsSmall == \A e \in Exponents : e \in 0..3
BY DEF Exponents

\* What trimming leaves spells the same, and is nothing the schema's length refuses
\* when the console's does not.
LEMMA Trimmed ==
  ASSUME NEW t \in Texts
  PROVE  /\ Trim(t) \in Texts /\ ~Trim(t).padded /\ (Trim(t).spills <=> t.long)
         /\ Trim(t).matches = t.matches /\ Trim(t).empty = t.empty /\ Trim(t).long = t.long
         /\ Trim(t).places = t.places /\ Trim(t).negative = t.negative
         /\ \A w : Digits(Trim(t), w) = Digits(t, w) /\ Scaled(Trim(t), w) = Scaled(t, w)
         /\ ~t.padded => Trim(t) = t
<1>1. /\ Trim(t) \in Texts /\ ~Trim(t).padded /\ (Trim(t).spills <=> t.long)
      /\ Trim(t).matches = t.matches /\ Trim(t).empty = t.empty /\ Trim(t).long = t.long
      /\ Trim(t).places = t.places /\ Trim(t).whole = t.whole
      /\ Trim(t).fraction = t.fraction /\ Trim(t).negative = t.negative
  BY DEF Trim, Texts
<1>2. \A w : Digits(Trim(t), w) = Digits(t, w) /\ Scaled(Trim(t), w) = Scaled(t, w)
  BY <1>1 DEF Digits, Scaled
<1>3. ~t.padded => Trim(t) = t
  BY DEF Trim, Texts
<1> QED BY <1>1, <1>2, <1>3

\* What the console makes of what was typed is what the server makes of it sent
\* trimmed, with the same value: it accepts just what the server would.  Sent with
\* its blanks, the server refuses all of it, which is why the forms trim or format
\* what they send.  "empty" is nothing between the blanks, and "malformed" exactly
\* the texts that are not decimals: the range problem the console recovers from the
\* parser's answer (exceedsStorableRange) is never blamed on the grammar, nor the
\* reverse.
THEOREM ConsoleReadsLikeServer ==
  ASSUME NEW t \in Texts, NEW e \in Exponents
  PROVE  /\ ParseAmount(t, e).ok <=> ReadByServer(Trim(t), e).ok
         /\ ParseAmount(t, e).ok => ParseAmount(t, e) = ReadByServer(Trim(t), e)
         /\ t.padded => ~ReadByServer(t, e).ok
         /\ ~t.padded => (ParseAmount(t, e).ok <=> ReadByServer(t, e).ok)
         /\ ParseAmount(t, e).problem = "empty" <=> t.empty
         /\ ParseAmount(t, e).problem = "too_long" <=> t.long
         /\ ParseAmount(t, e).problem = "malformed" <=> (~t.empty /\ ~t.long /\ ~t.matches)
         /\ ParseAmount(t, e).problem = "out_of_range" <=>
              (~t.long /\ t.matches /\ t.places <= e /\ Digits(t, e) > MaxMinorUnits)
<1> PICK s \in Texts : s = Trim(t)
  BY Trimmed
<1>1. s.places \in 0..11 /\ e \in Int
  BY DEF Texts, MaxRateScale, Exponents
<1>2. s.places <= e => Digits(s, e) \in Nat
  BY <1>1, Rescale, ExponentsSmall
<1>3. s.places <= e => Magnitude(Scaled(s, e)) = Digits(s, e)
  BY <1>2 DEF Magnitude, Scaled
<1>4. /\ ~s.padded /\ (s.spills <=> s.long) /\ (s.empty => ~s.matches /\ ~s.long)
      /\ s.matches = t.matches /\ s.empty = t.empty /\ s.long = t.long
      /\ s.places = t.places /\ Digits(s, e) = Digits(t, e)
  BY Trimmed DEF Texts
<1>5. (t.padded => ~ReadByServer(t, e).ok) /\ (~t.padded => s = t)
  BY Trimmed DEF ReadByServer, ParseBounded, Parse, Problem
<1> DEFINE c == ParseAmount(t, e)
           r == ReadByServer(s, e)
<1>6. CASE ~s.matches
  <2>1. ParseBounded(s, e) = Problem("malformed-decimal") /\ ~ExceedsStorableRange(s, e)
    BY <1>6 DEF ParseBounded, Parse, Problem, ExceedsStorableRange
  <2>2. ~r.ok
    BY <1>4, <2>1 DEF ReadByServer, Problem
  <2>3. c = IF s.empty THEN Problem("empty") ELSE IF s.long THEN Problem("too_long")
            ELSE Problem("malformed")
    BY <2>1 DEF ParseAmount, Problem
  <2> QED BY <1>4, <1>6, <1>5, <2>2, <2>3 DEF Problem
<1>7. CASE s.matches
  <2>1. ~s.empty
    BY <1>4, <1>7
  <2>2. c = IF s.long THEN Problem("too_long")
            ELSE IF s.places > e THEN Problem("excess_precision")
            ELSE IF Digits(s, e) > MaxMinorUnits THEN Problem("out_of_range")
            ELSE Value(Scaled(s, e))
    BY <1>1, <1>2, <1>3, <1>4, <1>7, <2>1
       DEF ParseAmount, ParseBounded, Parse, Problem, Value, ExceedsStorableRange
  <2>3. r.ok => r = Value(Scaled(s, e)) /\ ~s.long /\ s.places <= e /\ ~(Digits(s, e) > MaxMinorUnits)
    BY <1>1, <1>2, <1>3, <1>4, <1>7, <2>1 DEF ReadByServer, ParseBounded, Parse, Problem, Value
  <2>4. ~s.long /\ s.places <= e /\ ~(Digits(s, e) > MaxMinorUnits) => r = Value(Scaled(s, e))
    BY <1>1, <1>2, <1>3, <1>4, <1>7, <2>1 DEF ReadByServer, ParseBounded, Parse, Problem, Value
  <2> QED BY <1>1, <1>4, <1>7, <1>5, <2>1, <2>2, <2>3, <2>4 DEF Problem, Value
<1> QED
  BY <1>6, <1>7

\* An accepted decimal is stored exactly: the minor units, scaled back to the
\* places it was written with, are the digits it was written with.
THEOREM ParseNeverRounds ==
  ASSUME NEW t \in Texts, NEW e \in Exponents, Parse(t, e).ok
  PROVE  /\ t.places <= e
         /\ Parse(t, e).minorUnits = Scaled(t, t.places) * TenToThe(e - t.places)
<1>1. t.matches /\ ~t.padded /\ t.places \in 0..11 /\ ~(t.places > e) /\ e \in 0..3
  BY ExponentsSmall DEF Texts, MaxRateScale, Parse, Problem
<1>2. t.places \in 0..3 /\ t.places <= e
  BY <1>1
<1>3. /\ Digits(t, t.places) \in Nat
      /\ Digits(t, e) = Digits(t, t.places) * TenToThe(e - t.places)
  BY <1>1, <1>2, Rescale
<1>4. TenToThe(e - t.places) \in Nat
  BY <1>1, <1>2, PowersPositive
<1>5. \A a, b \in Nat : (-a) * b = -(a * b)
  OBVIOUS
<1>6. Scaled(t, e) = Scaled(t, t.places) * TenToThe(e - t.places)
  BY <1>3, <1>4, <1>5 DEF Scaled
<1> QED
  BY <1>1, <1>2, <1>6 DEF Parse, Value

\* The conversion of a positive amount is the nearest integer to the exact
\* quotient, and the larger of the two when it lies halfway.
THEOREM HalfUpIsNearest ==
  ASSUME NEW n \in Nat, NEW d \in Nat \ {0}
  PROVE  /\ DivideRoundHalfUp(n, d) \in Nat
         /\ 2 * (n - DivideRoundHalfUp(n, d) * d) < d
         /\ 2 * (DivideRoundHalfUp(n, d) * d - n) <= d
<1> DEFINE a == 2 * n + d
           b == 2 * d
           q == a \div b
<1>1. a \in Nat /\ b \in Nat /\ b > 0
  OBVIOUS
<1>2. q \in Nat /\ b * q <= a /\ a < b * q + b
  <2> HIDE DEF a, b
  <2> QED BY <1>1
<1>3. DivideRoundHalfUp(n, d) = q
  BY <1>1 DEF DivideRoundHalfUp, Quotient
<1>4. b * q = 2 * (q * d)
  BY <1>2
<1>5. q * d \in Nat
  BY <1>2
<1> QED
  <2> HIDE DEF q
  <2> QED BY <1>2, <1>3, <1>4, <1>5

\* A conversion the form previewed is never refused as a mismatch: the server,
\* reading the submitted figures as text (the form sends the amount and the rate
\* trimmed), computes the same number.  If that number can be stored, none of the
\* figures is refused.
THEOREM PreviewIsAccepted ==
  ASSUME NEW t \in Texts, NEW rate \in Texts, NEW se \in Exponents, NEW te \in Exponents,
         NEW shown \in Preview(t, rate, se, te)
  PROVE  /\ FigureRefusal(Trim(t), shown, Trim(rate), se, te) # "conversion_mismatch"
         /\ ReadByServer(shown, te).ok =>
              FigureRefusal(Trim(t), shown, Trim(rate), se, te) = "none"
<1>1. PICK r \in ParseRate(rate) :
         /\ ParseAmount(t, se).ok
         /\ shown = Format(Convert(ParseAmount(t, se).minorUnits, r, se, te), te)
  BY DEF Preview
<1> DEFINE n == ParseAmount(t, se).minorUnits
           c == Convert(n, r, se, te)
<1> PICK s \in Texts : s = Trim(t)
  BY Trimmed
<1>2. ParseAmount(t, se) = ReadByServer(s, se) /\ ReadByServer(s, se).ok
  BY <1>1, ConsoleReadsLikeServer
<1>3. n \in Int
  <2>1. s.places <= se /\ se \in 0..3 /\ n = Scaled(s, se)
    BY <1>1, <1>2, ExponentsSmall
       DEF ReadByServer, ParseBounded, Parse, Problem, Value, Texts, MaxRateScale
  <2>2. Digits(s, se) \in Nat
    BY <2>1, Rescale
  <2> QED
    BY <2>1, <2>2 DEF Scaled
<1>4. c \in Int
  <2>1. r \in Rates
    BY DEF ParseRate
  <2>2. Numerator(n, r, se, te) \in Int
    BY <1>3, <2>1, Powers DEF Numerator, Rates, Exponents
  <2>3. Denominator(r, se, te) \in Nat \ {0}
    <3>1. TenToThe(r.scale) \in Nat \ {0}
      BY <2>1, PowersPositive DEF Rates, MaxRateScale
    <3>2. \A x \in Nat \ {0}, y \in {1, 10, 100, 1000} : x * y \in Nat \ {0}
      OBVIOUS
    <3> QED
      BY <3>1, <3>2, Powers DEF Denominator, Exponents
  <2>4. \A a \in Int, b \in Nat \ {0} : Quotient(2 * a + b, 2 * b) \in Int
    BY DEF Quotient
  <2> QED
    BY <2>2, <2>3, <2>4 DEF Convert, DivideRoundHalfUp
<1>5. Parse(shown, te) = Value(c)
  BY <1>1, <1>4, FormatParsesBack
<1>6. ReadByServer(shown, te).ok => ReadByServer(shown, te).minorUnits = c
  BY <1>5 DEF ReadByServer, ParseBounded, Value, Problem
<1>7. RateByServer(Trim(rate)) = {r}
  <2>1. \A q \in ParseRate(rate) : q = r
    BY DEF ParseRate, Rates
  <2>2. ParseRate(Trim(rate)) = ParseRate(rate) /\ ~Trim(rate).spills
    BY Trimmed DEF ParseRate, Texts
  <2> QED BY <2>1, <2>2 DEF RateByServer
<1> HIDE DEF n, c
<1>8. ReadByServer(shown, te).ok => FigureRefusal(s, shown, Trim(rate), se, te) = "none"
  BY <1>2, <1>6, <1>7 DEF FigureRefusal, n, c
<1>9. ~ReadByServer(shown, te).ok => FigureRefusal(s, shown, Trim(rate), se, te) = "invalid_amount"
  BY DEF FigureRefusal
<1> QED
  BY <1>8, <1>9

\* The console's padded comparison is the ledger's: two decimals of one currency
\* differ by nothing exactly when the server reads the same number of minor
\* units, and the one that is larger here is larger there.
THEOREM DriftIsDifference ==
  ASSUME NEW a \in Texts, NEW b \in Texts, NEW e \in Exponents,
         Parse(a, e).ok, Parse(b, e).ok
  PROVE  /\ Drift(a, b) = 0 <=> Parse(a, e).minorUnits = Parse(b, e).minorUnits
         /\ Drift(a, b) > 0 <=> Parse(a, e).minorUnits > Parse(b, e).minorUnits
         /\ AssertBalanced([debit |-> a, credit |-> b]) <=>
              Parse(a, e).minorUnits = Parse(b, e).minorUnits
<1> DEFINE w == Width(a, b)
<1>1. /\ e \in 0..3 /\ a.places \in 0..3 /\ b.places \in 0..3
      /\ a.places <= e /\ b.places <= e
      /\ Parse(a, e) = Value(Scaled(a, e)) /\ Parse(b, e) = Value(Scaled(b, e))
  BY ExponentsSmall DEF Texts, MaxRateScale, Parse, Problem
<1>2. w \in 0..3 /\ a.places <= w /\ b.places <= w /\ w <= e
  BY <1>1 DEF Width
<1> HIDE DEF w
<1>3. /\ Digits(a, w) \in Nat /\ Digits(a, e) = Digits(a, w) * TenToThe(e - w)
      /\ Digits(b, w) \in Nat /\ Digits(b, e) = Digits(b, w) * TenToThe(e - w)
  BY <1>1, <1>2, Rescale
<1>4. TenToThe(e - w) \in {1, 10, 100, 1000}
  BY <1>1, <1>2, Powers
<1>5. /\ Scaled(a, w) \in Int /\ Scaled(a, e) = Scaled(a, w) * TenToThe(e - w)
      /\ Scaled(b, w) \in Int /\ Scaled(b, e) = Scaled(b, w) * TenToThe(e - w)
  <2>1. \A x \in Nat, y \in {1, 10, 100, 1000} : (-x) * y = -(x * y) /\ -x \in Int
    OBVIOUS
  <2> QED
    BY <1>3, <1>4, <2>1 DEF Scaled
<1>6. \A x, y \in Int, z \in {1, 10, 100, 1000} :
         /\ x - y = 0 <=> x * z = y * z
         /\ x - y > 0 <=> x * z > y * z
  OBVIOUS
<1>7. Drift(a, b) = Scaled(a, w) - Scaled(b, w)
  BY DEF Drift, w
<1> QED
  BY <1>1, <1>4, <1>5, <1>6, <1>7 DEF Value, AssertBalanced

\* The overview says "conserved" of two totals exactly when they cancel, and
\* says it cannot tell only when one of them is out of the storable range.
THEOREM ConservedIsSeen ==
  ASSUME NEW n \in Int, NEW x \in Int, NEW e \in Exponents,
         Magnitude(n) <= MaxMinorUnits, Magnitude(x) <= MaxMinorUnits
  PROVE  /\ IsConserved(Format(n, e), Format(x, e), e) = "conserved" <=> n + x = 0
         /\ IsConserved(Format(n, e), Format(x, e), e) # "unknown"
<1>1. \A m \in Int : Magnitude(m) <= MaxMinorUnits => ParseAmount(Format(m, e), e) = Value(m)
  <2> SUFFICES ASSUME NEW m \in Int, Magnitude(m) <= MaxMinorUnits
               PROVE  ParseAmount(Format(m, e), e) = Value(m)
    OBVIOUS
  <2>1. Magnitude(m) \in Int /\ MaxMinorUnits \in Int
    BY DEF Magnitude, MaxMinorUnits
  <2>2. ~TooLong(m, e)
    BY <2>1 DEF TooLong, LeastTooLong, MaxMinorUnits
  <2>3. Parse(Format(m, e), e) = Value(m) /\ Trim(Format(m, e)) = Format(m, e)
    BY FormatParsesBack, Trimmed DEF Format
  <2>4. ~Format(m, e).empty /\ ~Format(m, e).long
    BY <2>2 DEF Format
  <2>5. ParseBounded(Format(m, e), e) = Value(m) /\ Value(m).ok
    BY <2>1, <2>3 DEF ParseBounded, Value
  <2> QED
    BY <2>3, <2>4, <2>5 DEF ParseAmount
<1>2. /\ ParseAmount(Format(n, e), e) = Value(n)
      /\ ParseAmount(Format(x, e), e) = Value(x)
  BY <1>1
<1> QED
  BY <1>2 DEF IsConserved, Value
=============================================================================
