----------------------------- MODULE PairsTrade ------------------------------
(***************************************************************************)
(* The z-band signal of a pair and its backtest (signals/pairs.py,         *)
(* backtest/pairs_backtest.py), stepped one observation at a time; the     *)
(* vol-scaled position of signals/tsmom.py and tsmom_backtest.py; and the  *)
(* folds of backtest/cv.py, over the same series.                          *)
(***************************************************************************)
EXTENDS Integers, FiniteSets, Sequences, SequencesExt, FiniteSetsExt

CONSTANTS
  Spreads, Mid,              \* a - (alpha + beta b), and its mean
  ZWarmup,                   \* window - 1: observations without a z-score
  EntryZ, ExitZ, StopZ,      \* the bands (a z-score is a distance from Mid here)
  PairFee,                   \* fee_per_leg
  Lookback,                  \* lookback and vol_window of the momentum
  ReturnUnit,                \* a return of 1, in the unit they are kept in
  TargetVar, MaxLevVar,      \* target_vol (in that unit) and max_leverage, squared
  MaxPairObs                 \* bound: observations

ASSUME BandsAssumption ==
  /\ ExitZ \in Int /\ EntryZ \in Int /\ StopZ \in Int /\ ExitZ < EntryZ /\ EntryZ < StopZ
  /\ ZWarmup \in Nat \ {0} /\ PairFee \in Nat
ASSUME SeriesAssumption ==
  /\ Spreads \subseteq Int /\ Mid \in Int /\ MaxPairObs \in Nat
  /\ Lookback \in Nat \ {0, 1} /\ ReturnUnit \in Nat \ {0}
  /\ TargetVar \in Nat /\ MaxLevVar \in Nat

VARIABLES
  spread,    \* the series of spreads
  pairpos,   \* the position held after each of them
  vetoes,    \* n_gated
  paid       \* returns and costs so far, times the notional

pairvars == <<spread, pairpos, vetoes, paid>>

Abs(n) == IF n < 0 THEN 0 - n ELSE n

(* PairsSignal.update(): in at the entry band, out inside the exit band or *)
(* when it runs away against the position; never from one side to the other*)
Update(pos, z) ==
  IF pos = 0
  THEN IF z >= EntryZ THEN -1 ELSE IF z <= 0 - EntryZ THEN 1 ELSE 0
  ELSE LET blown == (pos = -1 /\ z >= StopZ) \/ (pos = 1 /\ z <= 0 - StopZ)
       IN IF blown \/ Abs(z) <= ExitZ THEN 0 ELSE pos

PosBefore == IF pairpos = <<>> THEN 0 ELSE Last(pairpos)

(* One observation: the return is earned by the position held into it, the *)
(* fee paid on its change; the regime gate may veto an entry.              *)
PairObserve(x, tradeable) ==
  LET was == PosBefore
      new == IF Len(spread) < ZWarmup THEN was ELSE Update(was, x - Mid)
      veto == was = 0 /\ new # 0 /\ ~tradeable
      pos == IF veto THEN 0 ELSE new
  IN /\ Len(spread) < MaxPairObs
     /\ tradeable \/ veto
     /\ spread' = Append(spread, x)
     /\ pairpos' = Append(pairpos, pos)
     /\ vetoes' = vetoes + (IF veto THEN 1 ELSE 0)
     /\ paid' = IF spread = <<>> THEN paid
                ELSE [pnl |-> paid.pnl + was * (x - Last(spread)), cost |-> paid.cost + PairFee * Abs(pos - was)]

PairInit == spread = <<>> /\ pairpos = <<>> /\ vetoes = 0 /\ paid = [pnl |-> 0, cost |-> 0]
PairNext == \E x \in Spreads, ok \in BOOLEAN : PairObserve(x, ok)

-----------------------------------------------------------------------------
(* target_position() after n closes: the sign of the move over the look-   *)
(* back, and the square of its size, min(target / vol, max_leverage), as a *)
(* quotient; flat if the variance is zero.  A return is over a close that  *)
(* is positive, and 0 (or no trend at all) otherwise.                      *)
Sign(n) == IF n > 0 THEN 1 ELSE IF n < 0 THEN -1 ELSE 0
RealizedVar(moves, n) ==
  LET w == (n - Lookback + 1)..n
      sum == MapThenSumSet(LAMBDA i : moves[i], w)
  IN Lookback * MapThenSumSet(LAMBDA i : moves[i] * moves[i], w) - sum * sum
Returns(closes, n) ==
  [i \in 2..n |-> IF closes[i - 1] > 0 THEN (ReturnUnit * (closes[i] - closes[i - 1])) \div closes[i - 1] ELSE 0]
MomentumSign(closes, n) ==
  IF closes[n - Lookback] <= 0 THEN 0 ELSE Sign(closes[n] - closes[n - Lookback])
TargetPosition(closes, n, longShort) ==
  LET sign  == MomentumSign(closes, n)
      var   == RealizedVar(Returns(closes, n), n)
      flat  == [sign |-> 0, of |-> 0, over |-> 1]
      sized == TargetVar * Lookback * Lookback
  IN IF sign = 0 \/ (~longShort /\ sign < 0) \/ var <= 0 THEN flat
     ELSE IF sized <= MaxLevVar * var THEN [sign |-> sign, of |-> sized, over |-> var]
     ELSE [sign |-> sign, of |-> MaxLevVar, over |-> 1]

(* backtest_tsmom(): the positions from the warm-up to the last bar but    *)
(* one, each decided at a bar and paid by the next one.                    *)
PaidBarToo(k) == k + Lookback + 2
DecidedAt(k) == k + Lookback + 1
BacktestTsmom(closes, longShort) ==
  [k \in 1..(IF Len(closes) > Lookback + 2 THEN Len(closes) - Lookback - 2 ELSE 0) |->
     TargetPosition(closes, DecidedAt(k), longShort)]

(* purged_kfold(): contiguous folds, and what is left of the samples once  *)
(* the fold and the embargo after it are taken out; samples count from 0.  *)
NoEmbargo(n, end, embargo) == end
PurgeEnd(n, end, embargo) == IF n < end + embargo THEN n ELSE end + embargo
Bound(n, k, i) == i * (n \div k) + (IF i < n % k THEN i ELSE n % k)
Folds(n, k, embargo) ==
  [i \in 1..k |-> [test  |-> Bound(n, k, i - 1)..(Bound(n, k, i) - 1),
                   train |-> {j \in 0..(n - 1) : j < Bound(n, k, i - 1)
                                              \/ j >= PurgeEnd(n, Bound(n, k, i), embargo)}]]

-----------------------------------------------------------------------------
IsTrade(i, j) ==
  /\ i <= j /\ pairpos[i] # 0
  /\ \A k \in i..j : pairpos[k] = pairpos[i]
  /\ i = 1 \/ pairpos[i - 1] = 0
  /\ j = Len(pairpos) \/ pairpos[j + 1] # pairpos[i]
Runs == {r \in (DOMAIN pairpos) \X (DOMAIN pairpos) : IsTrade(r[1], r[2])}

(* A position never turns over without being closed first; what the pair   *)
(* earned is, trade by trade, the move of the spread from the observation  *)
(* that opened it to the one that closed it (the last, if it is open), in  *)
(* its direction; every trade pays twice the fee, an open one once; and no *)
(* position outlives an observation that should have ended it.             *)
PairsTelescope ==
  LET end(r) == IF r[2] = Len(spread) THEN r[2] ELSE r[2] + 1
      open   == IF PosBefore # 0 THEN 1 ELSE 0
  IN /\ \A i \in DOMAIN pairpos : i > 1 => pairpos[i] * pairpos[i - 1] # -1
     /\ paid.pnl = MapThenSumSet(LAMBDA r : pairpos[r[1]] * (spread[end(r)] - spread[r[1]]), Runs)
     /\ paid.cost = PairFee * (2 * Cardinality(Runs) - open)
     /\ \A i \in DOMAIN pairpos :
          pairpos[i] # 0 => /\ i > ZWarmup /\ Abs(spread[i] - Mid) > ExitZ
                            /\ i > 1 /\ pairpos[i - 1] # 0 => pairpos[i] * (spread[i] - Mid) > 0 - StopZ

(* A label is computed from the sample and the h after it.  No fold trains *)
(* on a sample at or after its test whose label reads what a test label    *)
(* reads, as long as h is within the embargo; the tests partition the      *)
(* samples in order, within one of each other in size; and no sample is    *)
(* lost but to the embargo after the test.  (So the ones just before the   *)
(* test are kept, overlapping or not: nothing is purged there.  Folds      *)
(* depend on the number of samples only: one series of each length does.)  *)
Overlap(x, y, h) == (x..(x + h)) \cap (y..(y + h)) # {}
CleanFolds(n, k, embargo, fs) ==
  /\ UNION {fs[i].test : i \in 1..k} = 0..(n - 1)
  /\ \A i, j \in 1..k : i < j => \A x \in fs[i].test, y \in fs[j].test : x < y
  /\ \A i, j \in 1..k : Cardinality(fs[i].test) <= Cardinality(fs[j].test) + 1
  /\ \A i \in 1..k, h \in 0..embargo :
       \A x \in fs[i].train, y \in fs[i].test : Overlap(x, y, h) => x < y
  /\ \A i \in 1..k : \A x \in 0..(n - 1) :
       \/ x \in fs[i].train \/ x \in fs[i].test
       \/ \E y \in fs[i].test : y < x /\ x <= y + embargo
FoldsAreClean ==
  ToSet(spread) \subseteq {Mid} => \A k \in 2..4, embargo \in 0..2 :
    LET n == Len(spread) + k
    IN CleanFolds(n, k, embargo, Folds(n, k, embargo))

(* No position of the momentum backtest is decided by the close that pays  *)
(* it or by a later one: whatever that close had been, the position is the *)
(* same.  It is on the side of the trend, none is larger than the leverage *)
(* allows, and a long-only book only leaves the shorts out.                *)
PositionsLookBack ==
  LET closes == [i \in DOMAIN spread |-> spread[i] + 1]
      now    == BacktestTsmom(closes, TRUE)
      long   == BacktestTsmom(closes, FALSE)
      known(k) == SubSeq(closes, 1, DecidedAt(k))
  IN \A k \in DOMAIN now :
       /\ \A x \in Spreads : LET other == BacktestTsmom(Append(known(k), x + 1), TRUE)
                            IN Len(other) = k /\ other[k] = now[k]
       /\ long[k] = IF now[k].sign = 1 THEN now[k] ELSE [sign |-> 0, of |-> 0, over |-> 1]
       /\ now[k].sign * (closes[DecidedAt(k)] - closes[k + 1]) >= 0
       /\ now[k].of <= MaxLevVar * now[k].over
=============================================================================
