---------------------------- MODULE PolicyRunner ----------------------------
(***************************************************************************)
(* The decision loop of runner.py: a strategy proposes, the PolicyEngine   *)
(* of policy.py allows or denies, and an allowed intent is settled against *)
(* the wallet at the NEXT tick.  A fill is appended to the ledger and then *)
(* policy and wallet are checkpointed together (journal.py).  The process  *)
(* may die between any two steps; a new one takes up the checkpoint while  *)
(* the market has gone on.  The strategy may propose anything.             *)
(*                                                                         *)
(* Money and amounts are integers; execution_delay is 1 (its default), the *)
(* fee is Fee and the slippage Slip per unit of the asset.  The staleness  *)
(* rule is inert here: the runner supplies no data age.                    *)
(***************************************************************************)
EXTENDS Integers, FiniteSets, FiniteSetsExt

CONSTANTS
  Prices, Amounts,          \* the market, and the sizes an agent may propose
  OpenQuote, OpenBase,      \* the wallet of the first process
  Fee, Slip,                \* SimExecutor, per unit; Fee is also the policy's
  MaxNotional, MinNotional, \* rule 5
  MaxTx, Window,            \* rule 6
  MaxSpend, SpendWindow,    \* rule 7
  Drawdown,                 \* rule 2, in percent
  MaxTicks, MaxCrashes      \* bounds: ticks of the market, deaths

ASSUME MarketAssumption == /\ Prices \subseteq Nat /\ Amounts \subseteq Nat
                           /\ \A p \in Prices : p > Slip
                           /\ \E lo, hi \in Prices : \A p \in Prices : lo <= p /\ p <= hi
                           /\ \E hi \in Amounts : \A a \in Amounts : a <= hi
ASSUME WalletAssumption == {OpenQuote, OpenBase, Fee, Slip} \subseteq Nat
ASSUME ConfigAssumption ==
  /\ {MaxNotional, MinNotional, MaxTx, Window, MaxSpend, SpendWindow} \subseteq Nat
  /\ Drawdown \in 0 .. 100
ASSUME BoundsAssumption == {MaxTicks, MaxCrashes} \subseteq Nat

VARIABLES
  pc,        \* where the loop is
  kill,      \* the kill_switch this process was configured with
  ts, price, \* the current tick
  policy,    \* PolicyEngine: anchor, latch, the two rolling windows
  wallet,    \* SimWallet
  pending,   \* the allowed intent that the next tick settles
  fill,      \* the fill being journaled
  disk,      \* the checkpoint: its tick, policy and wallet
  ledger,    \* the lines of the ledger; whole: read_ledger() can parse it
  torn,      \* the ledger ends in a part of a line
  \* history, read by the properties only
  first,     \* the first anchor any process took
  lost,      \* ticks whose fill is in the ledger and in no checkpoint
  crashes

process == <<pc, kill, policy, wallet, pending, fill>>
market  == <<ts, price>>
files   == <<disk, ledger, torn>>
history == <<first, lost, crashes>>
vars    == <<process, market, files, history>>

NoAnchor == -1
NoIntent == [side |-> "none", base |-> 0, listed |-> FALSE]
NoFill   == [ts |-> 0, n |-> 0, dq |-> 0, db |-> 0]

Sides   == {"BUY", "SELL"}
Intents == [side : Sides, base : Amounts, listed : BOOLEAN]
Entries == [ts : Nat, n : Nat]
Fills   == [ts : Nat, n : Nat, dq : Int, db : Int]
Lines   == [ts : Nat, n : Nat, dq : Int, db : Int, whole : BOOLEAN]
Wallets == [quote : Nat, base : Nat]
Policies == [anchor : Nat \cup {NoAnchor}, tripped : BOOLEAN,
             recent : SUBSET Entries, spend : SUBSET Entries]
Labels  == {"down", "tick", "settle", "decide", "append", "save"}

(* A new engine; a configured wallet.                                      *)
Fresh   == [anchor |-> NoAnchor, tripped |-> FALSE, recent |-> {}, spend |-> {}]
Opening == [quote |-> OpenQuote, base |-> OpenBase]

(* Balances are never negative, whatever the strategy proposes and the     *)
(* market does between decision and fill (wallet.py: "never goes           *)
(* negative").                                                             *)
RunnerTypeOK ==
  /\ pc \in Labels /\ kill \in BOOLEAN /\ ts \in Nat /\ price \in Prices
  /\ policy \in Policies /\ wallet \in Wallets
  /\ pending \in Intents \cup {NoIntent} /\ fill \in Fills
  /\ disk \in [ts : Nat, policy : Policies, wallet : Wallets]
  /\ ledger \subseteq Lines /\ torn \in BOOLEAN
  /\ first \in Nat \cup {NoAnchor} /\ lost \subseteq Nat /\ crashes \in Nat

Init ==
  /\ pc = "down" /\ kill = FALSE /\ ts = 0 /\ price \in Prices
  /\ policy = Fresh /\ wallet = Opening /\ pending = NoIntent /\ fill = NoFill
  /\ disk = [ts |-> 0, policy |-> Fresh, wallet |-> Opening]
  /\ ledger = {} /\ torn = FALSE
  /\ first = NoAnchor /\ lost = {} /\ crashes = 0

-----------------------------------------------------------------------------
(* The market                                                              *)

Tick ==
  /\ pc = "tick" /\ ts < MaxTicks
  /\ ts' = ts + 1 /\ price' \in Prices
  /\ pc' = IF pending = NoIntent THEN "decide" ELSE "settle"
  /\ UNCHANGED <<kill, policy, wallet, pending, fill, files, history>>

-----------------------------------------------------------------------------
(* Settling the intent allowed at the tick before                          *)

(* The slippage is adverse; the fee is paid in quote.                      *)
FillOf(i) ==
  LET p == IF i.side = "BUY" THEN price + Slip ELSE price - Slip
      s == IF i.side = "BUY" THEN 1 ELSE -1
  IN  [ts |-> ts, n |-> i.base * p,
       dq |-> -s * i.base * p - i.base * Fee, db |-> s * i.base]

AffordableAlways(f) == TRUE
Affordable(f) == wallet.quote + f.dq >= 0 /\ wallet.base + f.db >= 0

AppliedFree(f) == [quote |-> wallet.quote + f.dq + Fee, base |-> wallet.base + f.db]
Applied(f) == [quote |-> wallet.quote + f.dq, base |-> wallet.base + f.db]

(* register_fill: the fill at its own price and tick enters both windows.  *)
Registered(f) == [policy EXCEPT !.recent = @ \cup {[ts |-> f.ts, n |-> f.n]},
                                !.spend = @ \cup {[ts |-> f.ts, n |-> f.n]}]

Settle ==
  /\ pc = "settle"
  /\ LET f == FillOf(pending) IN
       /\ Affordable(f)
       /\ wallet' = Applied(f)
       /\ policy' = Registered(f)
       /\ fill' = f
  /\ pending' = NoIntent /\ pc' = "append"
  /\ UNCHANGED <<kill, market, files, history>>

(* InsufficientFunds: the price moved between decision and fill.           *)
AbortFill ==
  /\ pc = "settle"
  /\ ~Affordable(FillOf(pending))
  /\ pending' = NoIntent /\ pc' = "decide"
  /\ UNCHANGED <<kill, policy, wallet, fill, market, files, history>>

(* append_event does not look at what the file ends with: a line after a   *)
(* torn one is glued to it and cannot be parsed.                           *)
Append ==
  /\ pc = "append"
  /\ ledger' = ledger \cup {[ts |-> fill.ts, n |-> fill.n, dq |-> fill.dq,
                             db |-> fill.db, whole |-> ~torn]}
  /\ torn' = FALSE
  /\ pc' = "save"
  /\ UNCHANGED <<kill, policy, wallet, pending, fill, market, disk, history>>

(* checkpoint(_state(ts)), after a fill or after a denial by the breaker.  *)
Save ==
  /\ pc = "save"
  /\ disk' = [ts |-> ts, policy |-> policy, wallet |-> wallet]
  /\ pc' = IF fill = NoFill THEN "tick" ELSE "decide"
  /\ fill' = NoFill
  /\ UNCHANGED <<kill, policy, wallet, pending, market, ledger, torn, history>>

-----------------------------------------------------------------------------
(* The strategy decides; evaluate() rules                                  *)

Equity == wallet.quote + wallet.base * price

(* The drawdown is measured from the equity of the first evaluation.       *)
AnchoredTrailing == IF policy.anchor > Equity THEN policy.anchor ELSE Equity
Anchored == IF policy.anchor = NoAnchor THEN Equity ELSE policy.anchor
Breached == policy.tripped \/ 100 * Equity < Anchored * (100 - Drawdown)

Notional(i) == i.base * price
Sized(i)    == i.listed /\ Notional(i) \in MinNotional .. MaxNotional

(* _prune: what has left the rolling window is dropped.                    *)
PruneEarly(entries, window) == {e \in entries : e.ts > ts - window + 1}
Prune(entries, window) == {e \in entries : e.ts > ts - window}

Total(field, records) == MapThenSumSet(LAMBDA r : r[field], records)
Notionals(entries) == Total("n", entries)
Recent  == Prune(policy.recent, Window)
Spend   == Prune(policy.spend, SpendWindow)
UnderRate     == Cardinality(Recent) < MaxTx
UnderSpend(i) == Notionals(Spend) + Notional(i) <= MaxSpend
Solvent(i)    == IF i.side = "BUY" THEN Notional(i) + i.base * Fee <= wallet.quote
                                   ELSE i.base <= wallet.base

(* evaluate() has run with this engine as its result.  A denial while the  *)
(* breaker is tripped is checkpointed at once.                             *)
Evaluated(p, allowed) ==
  /\ pc = "decide"
  /\ policy' = p
  /\ first' = IF first = NoAnchor THEN p.anchor ELSE first
  /\ pc' = IF p.tripped /\ ~allowed THEN "save" ELSE "tick"
  /\ UNCHANGED <<kill, wallet, fill, market, files, lost, crashes>>

Deny(p) == Evaluated(p, FALSE) /\ UNCHANGED pending

(* The strategy has no signal: evaluate() is not called at all.            *)
Hold ==
  /\ pc = "decide" /\ pc' = "tick"
  /\ UNCHANGED <<kill, policy, wallet, pending, fill, market, files, history>>

(* Rule 1 comes before the breaker is looked at.                           *)
DenyKilled == kill /\ Deny([policy EXCEPT !.anchor = Anchored])

DenyBreaker ==
  /\ ~kill /\ Breached
  /\ Deny([policy EXCEPT !.anchor = Anchored, !.tripped = TRUE])

Cleared == ~kill /\ ~Breached

DenySize(i) == Cleared /\ ~Sized(i) /\ Deny([policy EXCEPT !.anchor = Anchored])

DenyRate(i) ==
  /\ Cleared /\ Sized(i) /\ ~UnderRate
  /\ Deny([policy EXCEPT !.anchor = Anchored, !.recent = Recent])

(* The engine after every rule up to the spend budget has been looked at.  *)
Pruned == [policy EXCEPT !.anchor = Anchored, !.recent = Recent, !.spend = Spend]

DenyFunds(i) ==
  /\ Cleared /\ Sized(i) /\ UnderRate /\ ~(UnderSpend(i) /\ Solvent(i))
  /\ Deny(Pruned)

Allow(i) ==
  /\ Cleared /\ Sized(i) /\ UnderRate /\ UnderSpend(i) /\ Solvent(i)
  /\ Evaluated(Pruned, TRUE)
  /\ pending' = i

-----------------------------------------------------------------------------
(* Crashes                                                                 *)

(* Dying inside append_event may leave a part of the line; dying after it  *)
(* leaves a line that no checkpoint covers.                                *)
Crash ==
  /\ pc # "down" /\ crashes < MaxCrashes
  /\ crashes' = crashes + 1
  /\ pc' = "down"
  /\ torn' \in IF pc = "append" THEN {torn, TRUE} ELSE {torn}
  /\ lost' = IF pc = "save" /\ fill # NoFill THEN lost \cup {fill.ts} ELSE lost
  /\ policy' = Fresh /\ wallet' = Opening /\ pending' = NoIntent /\ fill' = NoFill
  /\ UNCHANGED <<kill, market, disk, ledger, first>>

(* restore() and from_snapshot() of the checkpoint; before the first one   *)
(* there is nothing to restore.                                            *)
RestoredUntripped == [disk.policy EXCEPT !.tripped = FALSE]
Restored == disk.policy

Restart ==
  /\ pc = "down"
  /\ policy' = Restored /\ wallet' = disk.wallet /\ kill' \in BOOLEAN
  /\ pc' = "tick"
  /\ UNCHANGED <<pending, fill, market, files, history>>

-----------------------------------------------------------------------------
Decide ==
  \/ Hold \/ DenyKilled \/ DenyBreaker
  \/ \E i \in Intents : DenySize(i) \/ DenyRate(i) \/ DenyFunds(i) \/ Allow(i)

Next == Tick \/ Settle \/ AbortFill \/ Append \/ Save \/ Decide \/ Crash \/ Restart

Spec == Init /\ [][Next]_vars

-----------------------------------------------------------------------------
(* Properties                                                              *)

(* A tripped breaker stays tripped and nothing trades under it: once the   *)
(* latch is on disk no restart takes it back, and neither a later tick nor *)
(* a settlement adds a fill ("a crash cannot silently un-trip the          *)
(* breaker").                                                              *)
TripIsForever ==
  [][/\ disk.policy.tripped => disk'.policy.tripped
     /\ policy.tripped \/ disk.policy.tripped => ledger' = ledger]_vars

(* Once a checkpoint holds the drawdown anchor, it holds that anchor for   *)
(* good: no restart measures the drawdown from a lower equity.             *)
AnchorIsDurable ==
  [][disk.policy.anchor # NoAnchor
       => disk'.policy.anchor = disk.policy.anchor]_vars

(* The fills that a process still knows of, now or after a restart.        *)
Known == {f \in ledger : f.ts \notin lost}
Within(window, t) == {f \in Known : t - window < f.ts /\ f.ts <= t}

(* At most max_tx_per_window fills in any window, over restarts; and as a  *)
(* fill comes one tick after the evaluation that allowed it, even in any   *)
(* window that is one tick longer.                                         *)
RateKept == \A t \in 1 .. ts : Cardinality(Within(Window + 1, t)) <= MaxTx

(* In any window no more is spent than the budget and the price move of    *)
(* one fill between its decision and its settlement.                       *)
MaxMove == Max(Amounts) * (Max(Prices) - Min(Prices) + Slip)
SpendKept == \A t \in 1 .. ts : Notionals(Within(SpendWindow, t)) <= MaxSpend + MaxMove

(* Both rolling windows of the engine hold what they promise, whatever was *)
(* filled late and restored after a crash (policy.py:122-139).             *)
WindowsKept == RateKept /\ SpendKept

(* The checkpointed wallet is the opening wallet and the fills of the      *)
(* ledger up to its tick, except those a crash kept from being             *)
(* checkpointed: no aborted, denied or forgotten fill leaves a trace.      *)
Saved == {f \in Known : f.ts <= disk.ts}
CheckpointExplained ==
  disk.wallet = [quote |-> OpenQuote + Total("dq", Saved),
                 base  |-> OpenBase + Total("db", Saved)]

(* The drawdown floor is never re-anchored by a restart.  This fails when a*)
(* crash precedes the first checkpoint.                                    *)
AnchorSurvives == policy.anchor \in {NoAnchor, first}

(* A line whose append returned is read back: only the torn line itself is *)
(* dropped.  This fails for the line appended after a torn one.            *)
CompleteLinesAreRead == \A f \in ledger : f.whole
=============================================================================
