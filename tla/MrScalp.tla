------------------------------- MODULE MrScalp -------------------------------
(***************************************************************************)
(* The backtest of the mean-reversion scalp (backtest/mr_scalp_backtest.py)*)
(* with passive entries: a maker bid rests for one bar, is filled only if  *)
(* the price comes down to it, and a position may leave on a later bar     *)
(* only.  What the indicators of signals/mr_scalp.py say after a bar is    *)
(* one value of Says; fractions are hundredths.                            *)
(***************************************************************************)
EXTENDS Integers, Sequences, SequencesExt, FiniteSetsExt

CONSTANTS
  MrPrices,                          \* prices of a bar
  MakerPct, TakerPct, SlipPct, HalfSpreadPct,  \* CostModel
  TpPct, SlPct, MaxHoldBars,         \* tp_net, -sl and max_hold_bars
  MaxMrBars                          \* bound: bars of the series

(* Prices are positive, fees and slippage less than the whole, and what the *)
(* target leaves once both maker fees are paid is more than nothing.        *)
ASSUME CostsAssumption ==
  /\ MrPrices \subseteq Nat \ {0} /\ MaxMrBars \in Nat /\ MaxHoldBars \in Nat \ {0}
  /\ MakerPct \in 0..99 /\ TakerPct \in 0..99 /\ SlipPct \in 0..99
  /\ HalfSpreadPct \in 0..99 /\ SlPct \in 0..99 /\ TpPct \in Nat
  /\ TpPct * (100 - MakerPct) > 2 * MakerPct * MakerPct

VARIABLES
  mrbars,   \* the bars so far
  mr        \* the backtest: position, resting bid, indicators, trades, counters

mrvars == <<mrbars, mr>>

(* not ready; nothing; entry_ok() with and without enough snap-back to pay *)
(* the costs; zscore back at z_exit.                                       *)
Says == {"warming", "nothing", "entry", "thin entry", "reverted"}

NoPos == [in |-> FALSE, entry |-> 0, at |-> 0]
NoBid == 0
Start == [pos |-> NoPos, bid |-> NoBid, says |-> "warming", trades |-> <<>>,
          signaled |-> 0, skipped |-> 0, placed |-> 0, filled |-> 0, missed |-> 0]

(* Entry in hundredths of a price, levels in hundredths of that.           *)
TakeProfit(entry) == entry * (100 + TpPct + 2 * MakerPct)
StopLoss(entry)   == entry * (100 - SlPct)

(* What ends a position on bar b, the stop being assumed to come first;    *)
(* the price in hundredths of hundredths of hundredths.                    *)
ExitReason(pos, b, i, says) ==
  IF b.l * 100 * 100 <= StopLoss(pos.entry) THEN [reason |-> "SL", px |-> StopLoss(pos.entry) * (100 - SlipPct), fee |-> TakerPct]
  ELSE IF b.h * 100 * 100 >= TakeProfit(pos.entry) THEN [reason |-> "TP", px |-> TakeProfit(pos.entry) * 100, fee |-> MakerPct]
  ELSE IF says = "reverted" THEN [reason |-> "ZEXIT", px |-> b.c * 100 * 100 * (100 - SlipPct), fee |-> TakerPct]
  ELSE IF i - pos.at >= MaxHoldBars THEN [reason |-> "TIME", px |-> b.c * 100 * 100 * (100 - SlipPct), fee |-> TakerPct]
  ELSE [reason |-> "NONE", px |-> 0, fee |-> 0]

(* Compared with 1 + net: px (1 - fee) against entry (1 + maker fee).      *)
Gains(t) == (t.px \div 100) * (100 - t.fee) > t.entry * 100 * (100 + MakerPct)

(* 1. Exits, of a position opened on an earlier bar.                       *)
Exits(s, b, i) ==
  LET x == ExitReason(s.pos, b, i, s.says)
  IN IF ~s.pos.in \/ x.reason = "NONE" THEN s
     ELSE [s EXCEPT !.pos = NoPos,
            !.trades = Append(@, [from |-> s.pos.at, to |-> i, entry |-> s.pos.entry,
                                  reason |-> x.reason, px |-> x.px, fee |-> x.fee])]

(* 2. The resting bid meets this bar, and is gone after it.                *)
Bid(s, b, i) ==
  IF s.pos.in \/ s.bid = NoBid THEN s
  ELSE IF b.l * 100 <= s.bid
  THEN [s EXCEPT !.pos = [in |-> TRUE, entry |-> s.bid, at |-> i], !.bid = NoBid, !.filled = @ + 1]
  ELSE [s EXCEPT !.bid = NoBid, !.missed = @ + 1]

(* 3, 4. The indicators see the closed bar; a signal rests a bid.          *)
Signal(s, b) ==
  LET t == [s EXCEPT !.says = b.says]
  IN IF s.pos.in \/ s.bid # NoBid \/ b.says \notin {"entry", "thin entry"} THEN t
     ELSE IF b.says = "entry"
     THEN [t EXCEPT !.signaled = @ + 1, !.placed = @ + 1, !.bid = b.c * (100 - HalfSpreadPct)]
     ELSE [t EXCEPT !.signaled = @ + 1, !.skipped = @ + 1]

Step(s, b, i) == Signal(Bid(Exits(s, b, i), b, i), b)

MrBars == {b \in [h : MrPrices, l : MrPrices, c : MrPrices, says : Says] : b.l <= b.c /\ b.c <= b.h}

MrInit == mrbars = <<>> /\ mr = Start
MrNext ==
  /\ Len(mrbars) < MaxMrBars
  /\ \E b \in MrBars :
       /\ b.says = "warming" <=> mrbars = <<>>      \* the windows fill once
       /\ mrbars' = Append(mrbars, b)
       /\ mr' = Step(mr, b, Len(mrbars) + 1)

-----------------------------------------------------------------------------
(* Every signal, order and fill is accounted for; a position leaves at the *)
(* first later bar that lets it, at the worst of what that bar allows; a   *)
(* stop never gains and a target never loses; no bar is used twice.        *)
ScalpAccounts ==
  LET s == mr
      touched(t, i) == ExitReason([in |-> TRUE, entry |-> t.entry, at |-> t.from], mrbars[i], i,
                                  mrbars[i - 1].says).reason
  IN /\ s.signaled = s.skipped + s.placed
     /\ s.placed = s.filled + s.missed + (IF s.bid # NoBid THEN 1 ELSE 0)
     /\ s.filled = Len(s.trades) + (IF s.pos.in THEN 1 ELSE 0)
     /\ ~(s.pos.in /\ s.bid # NoBid)
     /\ \A k \in DOMAIN s.trades :
          LET t == s.trades[k]
          IN /\ t.from < t.to /\ t.to - t.from <= MaxHoldBars
             /\ k > 1 => s.trades[k - 1].to < t.from
             /\ \A i \in (t.from + 1)..(t.to - 1) : touched(t, i) = "NONE"
             /\ mrbars[t.to].l * 100 * 100 <= StopLoss(t.entry) => t.reason = "SL"
             /\ t.reason = "SL" => ~Gains(t)
             /\ t.reason = "TP" => Gains(t)

=============================================================================
