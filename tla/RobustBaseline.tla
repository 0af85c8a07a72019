---------------------------- MODULE RobustBaseline ----------------------------
(***************************************************************************)
(* RobustBaseline of backend/src/anomaly/anomalyBaseline.ts: the window of *)
(* a metric's latest values, and how far the last of them rises above the  *)
(* rest, as a score in percent.  A window is a sequence of naturals.       *)
(*                                                                         *)
(* Medians are doubled and deviations quadrupled, which keeps the halves   *)
(* of even windows whole.  The error of floating-point numbers is left out.*)
(***************************************************************************)
EXTENDS Arrays, SequencesExt

CONSTANT WindowSize     \* ANOMALY_WINDOW_SIZE

\* The constructor of AnomalyDetector accepts no smaller window.
ASSUME WindowAssumption == WindowSize \in Nat /\ WindowSize >= 5

Abs(n) == IF n < 0 THEN -n ELSE n

\* push()
Pushed(window, value) ==
  LET all == Append(window, value)
  IN  IF Len(all) > WindowSize THEN SubSeq(all, 2, Len(all)) ELSE all

\* Mutant: sort() without a comparator compares numbers as texts.
SortedAsText(values) ==
  LET digits(n) == IF n < 10 THEN 1 ELSE IF n < 100 THEN 2 ELSE IF n < 1000 THEN 3 ELSE 4
      padded(n) == n * 10 ^ (4 - digits(n))
      textBefore(m, n) == padded(m) < padded(n) \/ (padded(m) = padded(n) /\ m < n)
  IN  SortedBy(values, {p \in (DOMAIN values) \X (DOMAIN values) :
                          textBefore(values[p[1]], values[p[2]])})

Sorted(values) == SortedBy(values, Smaller(values))

\* Twice the middle of sorted values; of an even number, the two middle ones.
TwiceMiddle(sorted) ==
  LET n == Len(sorted)
  IN  IF n % 2 = 1 THEN 2 * sorted[n \div 2 + 1]
      ELSE sorted[n \div 2] + sorted[n \div 2 + 1]

TwiceMedian(window) == TwiceMiddle(Sorted(window))

\* Four times the median absolute deviation.
FourMad(window) ==
  TwiceMiddle(Sorted([i \in DOMAIN window |-> Abs(2 * window[i] - TwiceMedian(window))]))

-----------------------------------------------------------------------------

Rounded(numerator, denominator) == (2 * numerator + denominator) \div (2 * denominator)

\* Mutant: a window without spread has no outliers.
UpperScoreNeedsSpread(window, floor) ==
  LET rise == 2 * Last(window) - TwiceMedian(window)
      spread == FourMad(window)
      score == IF rise <= 0 \/ spread = 0 THEN 0 ELSE Rounded(125000 * rise, 7413 * spread)
  IN  IF score < 100 THEN score ELSE 100

\* Mutant: a fall counts like a rise.
TwoSidedScore(window, floor) ==
  LET rise == Abs(2 * Last(window) - TwiceMedian(window))
      spread == FourMad(window)
      least == IF 5 * TwiceMedian(window) > floor THEN 5 * TwiceMedian(window) ELSE floor
      score == IF spread > 0 THEN Rounded(125000 * rise, 7413 * spread)
               ELSE Rounded(1250 * rise, least)
  IN  IF score < 100 THEN score ELSE 100

\* robustUpperZ() of the last value, divided by SCORING_Z_DENOMINATOR and given
\* in percent: a rise of 8 * 1.4826 deviations, or of 8 times 5% of the median or
\* the metric's floor where nothing deviates, is 100.  floor is 200 times the
\* metric's dispersion floor.
UpperScore(window, floor) ==
  LET rise == 2 * Last(window) - TwiceMedian(window)
      spread == FourMad(window)
      least == IF 5 * TwiceMedian(window) > floor THEN 5 * TwiceMedian(window) ELSE floor
      score == IF rise <= 0 THEN 0
               ELSE IF spread > 0 THEN Rounded(125000 * rise, 7413 * spread)
               ELSE Rounded(1250 * rise, least)
  IN  IF score < 100 THEN score ELSE 100

=============================================================================
