------------------------------ MODULE SwingPivots ------------------------------
(***************************************************************************)
(* The swing levels of src/common/swing_utils.py: raw pivots, zigzag, and   *)
(* the labels HH, LH, HL and LL, computed afresh from the whole history at  *)
(* every cycle of a swing strategy.  A history only ever grows by closed    *)
(* candles, one at a time.  Prices are small integers: the code compares    *)
(* them and nothing else.  Support, resistance and trend (:325-366), which  *)
(* no strategy reads, are left out.                                         *)
(***************************************************************************)
EXTENDS Integers, Sequences, SequencesExt

CONSTANTS LeftBars, RightBars,   \* the arguments left_bars and right_bars
          Candles,               \* the candles [high, low] that can come
          Histories,             \* the histories a strategy may find when it starts
          MaxBars                \* bound: the longest history

PivotConstants ==
  /\ LeftBars \in Nat /\ RightBars \in Nat /\ MaxBars \in Nat
  /\ Candles \subseteq [high : Int, low : Int]
  /\ \A h \in Histories : Len(h) <= MaxBars

VARIABLE bars    \* the candles so far, oldest first

--------------------------------------------------------------------------------
Window(i) == (i - LeftBars)..(i + RightBars)

\* The first of the highest candles of its window, and likewise for lows: a bar
\* that has too few neighbours on a side is no pivot yet.
InRange(h, i) == i > LeftBars /\ i + RightBars <= Len(h)

\* A mutant: the missing candles to the right of a bar are not waited for.
EagerPivotHigh(h, i) ==
  /\ i > LeftBars
  /\ \A j \in Window(i) \intersect DOMAIN h :
       IF j < i THEN h[j].high < h[i].high ELSE h[j].high <= h[i].high

PivotHigh(h, i) ==
  /\ InRange(h, i)
  /\ \A j \in Window(i) : IF j < i THEN h[j].high < h[i].high ELSE h[j].high <= h[i].high

PivotLow(h, i) ==
  /\ InRange(h, i)
  /\ \A j \in Window(i) : IF j < i THEN h[j].low > h[i].low ELSE h[j].low >= h[i].low

\* A bar that is both counts as a high.  hl is 1 for a high, -1 for a low.
RawPivots(h, i) ==
  IF PivotHigh(h, i) THEN <<[bar |-> i, hl |-> 1, zz |-> h[i].high]>>
  ELSE IF PivotLow(h, i) THEN <<[bar |-> i, hl |-> -1, zz |-> h[i].low]>>
  ELSE <<>>

\* The four filters: a low above the pivot kept before it is dropped, whatever
\* the kind of that pivot, and so is a high below it.
Filtered(p, kept) ==
  /\ kept # <<>>
  /\ IF p.hl = -1 THEN p.zz > Last(kept).zz ELSE p.zz < Last(kept).zz

\* apply_zigzag_filters: the pivots that are kept, in order.
Zigzag(h) ==
  LET Keep(kept, i) ==
        LET raw == RawPivots(h, i) IN
        IF raw = <<>> \/ Filtered(raw[1], kept) THEN kept ELSE kept \o raw
  IN  FoldLeftDomain(Keep, <<>>, h)

\* find_abcd_e: the prices of the last pivots before the k-th of z, of the other
\* kind, then of the same, then of the other, then of the same; as many as exist.
Previous(z, k) ==
  LET LastOf(hl, n) == SelectLastInSubSeq(z, 1, n - 1, LAMBDA p : p.hl = hl)
      b == LastOf(-z[k].hl, k)
      c == IF b = 0 THEN 0 ELSE LastOf(z[k].hl, b)
      d == IF c = 0 THEN 0 ELSE LastOf(-z[k].hl, c)
      e == IF d = 0 THEN 0 ELSE LastOf(z[k].hl, d)
  IN  [j \in 1..Cardinality({b, c, d, e} \ {0}) |-> z[<<b, c, d, e>>[j]].zz]

--------------------------------------------------------------------------------
(***************************************************************************)
(* finalize_hhlh_labels: x is the price of the pivot, p those of Previous.  *)
(* Missing prices are NaN, which compares as false.                        *)
(***************************************************************************)
IsHH(x, p) == Len(p) >= 3 /\ x > p[1] /\ x > p[2] /\ p[2] > p[1] /\ p[2] > p[3]
IsLL(x, p) == Len(p) >= 3 /\ x < p[1] /\ x < p[2] /\ p[2] < p[1] /\ p[2] < p[3]

IsHL(x, p) ==
  \/ Len(p) = 4 /\ x >= p[2] /\ p[1] > p[2] /\ p[1] > p[3] /\ p[3] > p[2] /\ p[3] > p[4]
  \/ Len(p) >= 3 /\ x < p[1] /\ x > p[2] /\ p[1] < p[3]

IsLH(x, p) ==
  \/ Len(p) = 4 /\ x <= p[2] /\ p[1] < p[2] /\ p[1] < p[3] /\ p[3] < p[2] /\ p[3] < p[4]
  \/ Len(p) >= 3 /\ x > p[1] /\ x < p[2] /\ p[1] > p[3]

\* The pivots with what get_latest_confirmed_high_low reads of their labels.
Swings(h) ==
  LET z == Zigzag(h) IN
  [k \in DOMAIN z |->
     LET x == z[k].zz  p == Previous(z, k) IN
     [pivot |-> z[k],
      high  |-> IsHH(x, p) \/ IsLH(x, p),
      low   |-> IsHL(x, p) \/ IsLL(x, p)]]

\* get_latest_confirmed_high_low: positions in s, 0 for none.
LatestHigh(s) == SelectLastInSeq(s, LAMBDA w : w.high)
LatestLow(s)  == SelectLastInSeq(s, LAMBDA w : w.low)

--------------------------------------------------------------------------------
PivotInit == bars \in Histories

NewCandle ==
  /\ Len(bars) < MaxBars
  /\ \E c \in Candles : bars' = Append(bars, c)

PivotSpec == PivotInit /\ [][NewCandle]_bars

--------------------------------------------------------------------------------
\* A swing level, once confirmed by RightBars candles, does not change when
\* later candles close, and each candle confirms one bar at most: stops already
\* placed under a swing stay under it.
NoRepaint ==
  [][LET old == Swings(bars)  new == Swings(bars') IN
     /\ IsPrefix(old, new)
     /\ \A k \in DOMAIN new \ DOMAIN old : new[k].pivot.bar = Len(bars') - RightBars]_bars

\* The swing high the strategies act on is a high, the swing low a low, and the
\* first is above the second: between them lies the range that breaks out.
SwingsOrdered ==
  LET s == Swings(bars)  hi == LatestHigh(s)  lo == LatestLow(s) IN
  /\ hi # 0 => s[hi].pivot.hl = 1
  /\ lo # 0 => s[lo].pivot.hl = -1
  /\ hi # 0 /\ lo # 0 => s[hi].pivot.zz > s[lo].pivot.zz

\* Both: what SwingTrade relies on, and what repainting would break
\* (swing_utils.py:46).
LevelsStand == []SwingsOrdered /\ NoRepaint

================================================================================
