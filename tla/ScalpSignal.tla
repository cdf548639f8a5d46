----------------------------- MODULE ScalpSignal -----------------------------
(* The streaming indicators of the mean-reversion scalp (signals/mr_scalp.py)*)
(* and its entry test.  Every bar moves five windows of different lengths    *)
(* and two recursions; nothing is ever worked out from the history again.    *)
(* A quotient is kept as numerator and denominator, the two averages of the  *)
(* RSI over one denominator, which cancels.                                  *)
EXTENDS Integers, Sequences, SequencesExt, FiniteSetsExt

CONSTANTS Closes, Ranges, Volumes,        \* what a bar may show
          EmaPeriod, Window, RsiPeriod, AtrFast, AtrSlow,
          ZEnter, RsiEnter, MinReturnPcts, AtrRatio,  \* -z_enter, ..., -min_return_30m
          MaxSeen                         \* bound: bars of the series

VARIABLES seen,     \* the bars so far
          stream    \* what the signal keeps of them

signalvars == <<seen, stream>>

MinuteBars == {[h |-> c + r, l |-> c, c |-> c, v |-> v] : c \in Closes, r \in Ranges, v \in Volumes}

Ups(n) == IF n > 0 THEN n ELSE 0
Sum(s) == FoldLeft(LAMBDA a, b : a + b, 0, s)

(* A deque of n places.                                                      *)
Push(s, x, n) == IF Len(s) < n THEN Append(s, x) ELSE Append(Tail(s), x)

Fresh0 == [ema |-> <<0, 0>>, closes |-> <<>>, tpv |-> <<>>, tr |-> <<>>,
           gain |-> 0, loss |-> 0, scale |-> 1, changes |-> 0]

TrueRange(b, closes) ==
  IF closes = <<>> THEN b.h - b.l
  ELSE LET p == Last(closes)
       IN  Max({b.h - b.l, b.h - p, p - b.h, b.l - p, p - b.l})

(* Wilder's average: the plain sum of the first RsiPeriod changes, and from  *)
(* then on the old average weighed RsiPeriod - 1 to one.                     *)
Wilder(s, change) ==
  IF s.changes < RsiPeriod
  THEN [s EXCEPT !.gain = @ + Ups(change), !.loss = @ + Ups(-change), !.changes = @ + 1]
  ELSE [s EXCEPT !.gain = @ * (RsiPeriod - 1) + Ups(change) * s.scale * RsiPeriod,
                 !.loss = @ * (RsiPeriod - 1) + Ups(-change) * s.scale * RsiPeriod,
                 !.scale = @ * RsiPeriod]

UpdateStream(s, b) ==
  LET w == IF s.closes = <<>> THEN s ELSE Wilder(s, b.c - Last(s.closes))
  IN  [w EXCEPT
        !.ema = IF s.closes = <<>> THEN <<b.c, 1>>
                ELSE <<2 * b.c * @[2] + (EmaPeriod - 1) * @[1], (EmaPeriod + 1) * @[2]>>,
        !.tr = Push(@, TrueRange(b, s.closes), AtrSlow),
        !.closes = Push(@, b.c, Window + 1),
        !.tpv = Push(@, <<b.h + b.l + b.c, b.v>>, Window)]

SignalReady(s) ==
  Len(s.closes) > Window /\ Len(s.tr) >= AtrSlow /\ s.changes >= RsiPeriod

(* The volume-weighted price of the window; without volume, its mean.        *)
Vwap(tpv, win) ==
  LET vol == Sum([i \in DOMAIN tpv |-> tpv[i][2]])
  IN  IF vol > 0 THEN <<Sum([i \in DOMAIN tpv |-> tpv[i][1] * tpv[i][2]]), 3 * vol>>
      ELSE <<Sum(win), Len(win)>>

(* zscore <= -ZEnter, without the root: the close is below the vwap by that  *)
(* many deviations of the window.                                            *)
IsLow(c, win, vwap) ==
  LET n == Len(win)
      spread == n * Sum([i \in 1..n |-> win[i] ^ 2]) - Sum(win) ^ 2
      below == vwap[1] - c * vwap[2]
  IN  spread > 0 /\ below > 0 /\ (below * n) ^ 2 >= ZEnter ^ 2 * spread * vwap[2] ^ 2

LastOf(s, n) == SubSeq(s, Len(s) - n + 1, Len(s))

(* entry_ok; tight is what the spread is now, pct how far the price may have *)
(* fallen over the window.                                                   *)
StreamEntry(s, tight, pct) ==
  LET c == Last(s.closes)
      win == LastOf(s.closes, Window)
  IN  /\ SignalReady(s) /\ tight
      /\ c * s.ema[2] > s.ema[1]
      /\ IsLow(c, win, Vwap(s.tpv, win))
      /\ s.loss > 0 /\ 100 * s.gain <= RsiEnter * (s.gain + s.loss)
      /\ (c - s.closes[1]) * 100 > -pct * s.closes[1]
      /\ Sum(LastOf(s.tr, AtrFast)) * AtrSlow <= AtrRatio * Sum(s.tr) * AtrFast

SignalInit == seen = <<>> /\ stream = Fresh0

SignalNext ==
  /\ Len(seen) < MaxSeen
  /\ \E b \in MinuteBars : seen' = Append(seen, b) /\ stream' = UpdateStream(stream, b)

------------------------------------------------------------------------------
(* The same questions asked of the history.                                  *)
Count == Len(seen)
At(k) == seen[Count - k]                      \* k bars ago
Change(i) == seen[i].c - seen[i - 1].c

(* What each change weighs in Wilder's average, over one denominator.        *)
Weight(i) ==
  LET n == Count - 1 - RsiPeriod              \* averages after the first
  IN  IF i - 1 <= RsiPeriod THEN (RsiPeriod - 1) ^ n
      ELSE (RsiPeriod - 1) ^ (Count - i) * RsiPeriod ^ (i - 1 - RsiPeriod)

HistoryEntry(pct) ==
  LET c == At(0).c
      win == [k \in 1..Window |-> At(Window - k).c]
      tpv == [k \in 1..Window |-> LET b == At(Window - k) IN <<b.h + b.l + b.c, b.v>>]
      gain == MapThenSumSet(LAMBDA i : Ups(Change(i)) * Weight(i), 2..Count)
      loss == MapThenSumSet(LAMBDA i : Ups(-Change(i)) * Weight(i), 2..Count)
      ema == (EmaPeriod - 1) ^ (Count - 1) * seen[1].c
             + MapThenSumSet(LAMBDA i : 2 * seen[i].c * (EmaPeriod - 1) ^ (Count - i)
                                          * (EmaPeriod + 1) ^ (i - 2), 2..Count)
      Swing(k) == LET reach == {At(k).h, At(k).l} \cup (IF k = Count - 1 THEN {} ELSE {At(k + 1).c})
                  IN  Max(reach) - Min(reach)
  IN  /\ Count > Window /\ Count >= AtrSlow /\ Count > RsiPeriod
      /\ c * (EmaPeriod + 1) ^ (Count - 1) > ema
      /\ IsLow(c, win, Vwap(tpv, win))
      /\ loss > 0 /\ 100 * gain <= RsiEnter * (gain + loss)
      /\ (c - At(Window).c) * 100 > -pct * At(Window).c
      /\ AtrSlow * MapThenSumSet(Swing, 0..(AtrFast - 1))
           <= AtrRatio * AtrFast * MapThenSumSet(Swing, 0..(AtrSlow - 1))

(* The signal enters where the indicators of the whole history say so: no    *)
(* window is one bar short or long, none is ready before the others, and a   *)
(* recursion remembers its seed as it should (mr_scalp.py 93-158).           *)
StreamIsBatch ==
  seen # <<>> => \A tight \in BOOLEAN, pct \in MinReturnPcts :
                  StreamEntry(stream, tight, pct) <=> tight /\ HistoryEntry(pct)
=============================================================================
