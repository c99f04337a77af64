------------------------------- MODULE Money -------------------------------
(***************************************************************************)
(* The arithmetic of amounts: a decimal string into integer minor units    *)
(* and back (packages/core/src/money/money.ts), the bound the columns put  *)
(* on it (packages/api/src/contracts/money.ts), the console's own reading  *)
(* of what a person types (apps/web/src/lib/ledger/amount.ts), exchange    *)
(* conversion (packages/core/src/money/exchange.ts) with the preview the   *)
(* console submits, and the console's rescaled comparisons (postings.ts,   *)
(* drift.ts, dashboard/summary.ts).                                        *)
(*                                                                         *)
(* A currency is its minor-unit exponent, so there is none the ledger does *)
(* not know.  A text is what is left of it between blanks (`padded` says   *)
(* that there were any): whether that is empty, whether it matches the     *)
(* decimal pattern, whether it is longer than its kind may be (30 of an    *)
(* amount, 32 of a rate), and the sign, whole part and fraction it spells; *)
(* `spills` says that it is too long with its blanks.  The numbers are     *)
(* exact, as BigInt is; there is no state, and nothing to run.             *)
(***************************************************************************)
EXTENDS Integers

Exponents == {0, 2, 3}

\* The largest magnitude a bigint column holds.
MaxMinorUnits == 9223372036854775807

MaxRateScale == 10

Tens == << 1, 10, 100, 1000, 10000, 100000, 1000000, 10000000, 100000000,
           1000000000, 10000000000, 100000000000 >>
TenToThe(k) == Tens[k + 1]

\* Eleven places stand for any greater number of them: every reader refuses them.
Texts == {t \in [matches : BOOLEAN, empty : BOOLEAN, padded : BOOLEAN,
                 long : BOOLEAN, spills : BOOLEAN, negative : BOOLEAN,
                 whole : Nat, fraction : Nat, places : 0..(MaxRateScale + 1)] :
             /\ t.fraction < TenToThe(t.places)
             /\ t.empty => ~t.matches /\ ~t.long
             /\ t.long => t.spills
             /\ t.spills => t.long \/ t.padded}

\* String.prototype.trim
Trim(t) == [t EXCEPT !.padded = FALSE, !.spills = t.long]

Magnitude(n) == IF n < 0 THEN -n ELSE n

\* The digits of t, its fraction padded to the given width, as one integer.
Digits(t, width) == t.whole * TenToThe(width) + t.fraction * TenToThe(width - t.places)
Scaled(t, width) == IF t.negative THEN -Digits(t, width) ELSE Digits(t, width)

Value(n) == [ok |-> TRUE, minorUnits |-> n, problem |-> "none"]
Problem(p) == [ok |-> FALSE, minorUnits |-> 0, problem |-> p]

\* Money.parse: never rounds, and no blank matches its pattern.
Parse(t, e) ==
  IF ~t.matches \/ t.padded THEN Problem("malformed-decimal")
  ELSE IF t.places > e THEN Problem("excess-precision")
  ELSE Value(Scaled(t, e))

\* The least magnitude whose text, with its sign and its point, has 31 characters.
LeastTooLong(negative, e) ==
  CASE negative /\ e > 0 -> 10000000000000000000000000000
    [] ~negative /\ e = 0 -> 1000000000000000000000000000000
    [] OTHER -> 100000000000000000000000000000

TooLong(n, e) == Magnitude(n) >= LeastTooLong(n < 0, e)

\* Money.format, and the console's formatMinorUnits.
Format(n, e) ==
  [matches |-> TRUE, empty |-> FALSE, padded |-> FALSE,
   long |-> TooLong(n, e), spills |-> TooLong(n, e), negative |-> n < 0,
   whole |-> Magnitude(n) \div TenToThe(e), fraction |-> Magnitude(n) % TenToThe(e),
   places |-> e]

ParseBounded(t, e) ==
  LET parsed == Parse(t, e)
  IN  IF parsed.ok /\ Magnitude(parsed.minorUnits) > MaxMinorUnits
      THEN Problem("malformed-decimal")
      ELSE parsed

\* What a request carrying t gets: the schema's lengths, blanks included, then the
\* bounded parser.
ReadByServer(t, e) ==
  IF t.empty /\ ~t.padded THEN Problem("too_short")
  ELSE IF t.spills THEN Problem("too_long")
  ELSE ParseBounded(t, e)

ExceedsStorableRange(t, e) == t.matches /\ t.places <= e /\ Digits(t, e) > MaxMinorUnits

\* The console's parseAmount: the same parser on the trimmed text, and its own name
\* for each refusal.
ParseAmount(t, e) ==
  LET trimmed == Trim(t)
      parsed == ParseBounded(trimmed, e)
  IN  IF trimmed.empty THEN Problem("empty")
      ELSE IF trimmed.long THEN Problem("too_long")
      ELSE IF parsed.ok THEN parsed
      ELSE IF parsed.problem = "excess-precision" THEN Problem("excess_precision")
      ELSE IF ExceedsStorableRange(trimmed, e) THEN Problem("out_of_range")
      ELSE Problem("malformed")

-----------------------------------------------------------------------------
(* Exchange.                                                               *)

Rates == [numerator : Nat \ {0}, scale : 0..MaxRateScale]

\* Rate.parse: the rates a text denotes, one or none.  It trims, the console and the
\* server share it, and `long` is its own check on what is left.
ParseRate(t) ==
  {r \in Rates : /\ t.matches /\ ~t.negative /\ ~t.long
                 /\ r.scale = t.places
                 /\ r.numerator = Digits(t, t.places)}

\* What a request carrying t gets: the schema's length, blanks included, comes first.
RateByServer(t) == {r \in ParseRate(t) : ~t.spills}

\* BigInt division drops the fraction, whatever the sign.
Quotient(n, d) == IF n < 0 THEN -((-n) \div d) ELSE n \div d
DivideRoundHalfUp(n, d) == Quotient(2 * n + d, 2 * d)

Numerator(n, r, se, te) == n * r.numerator * (IF te > se THEN TenToThe(te - se) ELSE 1)
Denominator(r, se, te) == TenToThe(r.scale) * (IF te < se THEN TenToThe(se - te) ELSE 1)
Convert(n, r, se, te) == DivideRoundHalfUp(Numerator(n, r, se, te), Denominator(r, se, te))

\* The figure the form shows and submits, when it can show one.
Preview(t, rate, se, te) ==
  {Format(Convert(ParseAmount(t, se).minorUnits, r, se, te), te) :
      r \in {q \in ParseRate(rate) : ParseAmount(t, se).ok}}

\* The exchange handler's checks on the three figures, in its order.  The form sends
\* Trim(amount) and Trim(rate), and the figure it shows.
FigureRefusal(amount, stated, rate, se, te) ==
  IF ~ReadByServer(amount, se).ok \/ ~ReadByServer(stated, te).ok THEN "invalid_amount"
  ELSE IF RateByServer(rate) = {} THEN "invalid_rate"
  ELSE IF \E r \in RateByServer(rate) :
             Convert(ReadByServer(amount, se).minorUnits, r, se, te)
               # ReadByServer(stated, te).minorUnits
       THEN "conversion_mismatch"
  ELSE "none"

-----------------------------------------------------------------------------
(* The console's comparisons of two decimal strings, each padded to the    *)
(* wider of the two: the guard on a two-leg transfer, and the drift of a   *)
(* balance from its postings.                                              *)

Width(a, b) == IF a.places > b.places THEN a.places ELSE b.places
Drift(a, b) == Scaled(a, Width(a, b)) - Scaled(b, Width(a, b))

ComposeTransfer(n, e) == IF n <= 0 THEN {} ELSE {[debit |-> Format(n, e), credit |-> Format(n, e)]}
AssertBalanced(legs) == Drift(legs.debit, legs.credit) = 0

\* The overview's verdict on a currency's two totals: "unknown" when it cannot read one.
IsConserved(normal, external, e) ==
  IF ~ParseAmount(normal, e).ok \/ ~ParseAmount(external, e).ok THEN "unknown"
  ELSE IF ParseAmount(normal, e).minorUnits + ParseAmount(external, e).minorUnits = 0
       THEN "conserved" ELSE "broken"
=============================================================================
