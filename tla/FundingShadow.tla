---------------------------- MODULE FundingShadow ----------------------------
(***************************************************************************)
(* The paper book of the funding carry (shadow.py, signals/funding.py),    *)
(* rebuilt from its ledger by every hourly call of run_shadow.py, behind   *)
(* the cost gate of carry_screener.py; and the batch programs that read    *)
(* the same rates: carry_backtest.py, funding_backtest.py,                 *)
(* funding_persistence.py, pnl_decomposition.py, duty cycle.               *)
(***************************************************************************)
EXTENDS Integers, FiniteSets, Sequences, SequencesExt, FiniteSetsExt

CONSTANTS
  Rates, EnterRate, ExitRate,   \* funding per hour, and the two thresholds
  MinAges,                      \* values of --min-age
  LegFee,                       \* entry_cost and exit_cost
  MakerFee, TakerFee, Legs, HoldHours, \* the screener's costs and horizon
  MaxObs,                       \* bound: hours observed
  MaxShadowFaults               \* bound: appends that do not complete

ASSUME HysteresisAssumption ==
  /\ Rates \subseteq Int /\ EnterRate \in Int /\ ExitRate \in Int /\ ExitRate <= EnterRate
  /\ MinAges \subseteq Int /\ LegFee \in Nat /\ MaxObs \in Nat
  /\ MakerFee \in Int /\ TakerFee \in Int /\ Legs \in Nat /\ HoldHours \in Nat

VARIABLES
  carry,     \* the ledger of the book: its readable lines
  cut,       \* the ledger ends in a part of a line
  minAge,    \* --min-age of this book
  gated,     \* whether the caller consults the screener (run_cross_shadow does not)
  sfails     \* appends that did not complete so far

shadowvars == <<carry, cut, minAge, gated, sfails>>

-----------------------------------------------------------------------------
(* FundingCarrySignal                                                      *)

Out == [in |-> FALSE, age |-> 0]
AdvanceAge(age, f) ==
  IF age = 0 THEN (IF f >= EnterRate THEN 1 ELSE 0)
  ELSE IF f < ExitRate THEN 0 ELSE age + 1

AtLeastOne(n) == IF n < 1 THEN 1 ELSE n
Decide(sig, f) ==
  LET age == AdvanceAge(sig.age, f)
      to(in, action) == [sig |-> [in |-> in, age |-> age], action |-> action]
  IN IF sig.in THEN (IF age = 0 THEN to(FALSE, "EXIT") ELSE to(TRUE, "HOLD"))
     ELSE IF age >= AtLeastOne(minAge) THEN to(TRUE, "ENTER") ELSE to(FALSE, "FLAT")

(* The screener: what the carry would earn over the hold, less the costs   *)
(* of its legs when tenths of them are filled as maker.                    *)
LegCost(tenths)   == tenths * MakerFee + (10 - tenths) * TakerFee
RoundTrip(tenths) == Legs * LegCost(tenths)
NetEdge(f, tenths) == 10 * f * HoldHours - RoundTrip(tenths)

-----------------------------------------------------------------------------
(* ShadowBook                                                              *)

ReturnFor(action, f) ==
  CASE action \in {"ENTER", "EXIT"} -> 0 - LegFee
    [] action = "HOLD" -> f
    [] action = "FLAT" -> 0

(* Replay trusts the stored actions: the signal is as the last line says.  *)
ReplayAgeless == IF carry = <<>> THEN Out
                 ELSE [in |-> Last(carry).action \in {"ENTER", "HOLD"}, age |-> 0]
Replay == IF carry = <<>> THEN Out
          ELSE [in |-> Last(carry).action \in {"ENTER", "HOLD"}, age |-> Last(carry).age]

(* The gate is asked only for an entry on the table.                       *)
AllowEntry(sig, f, tenths) ==
  IF gated /\ ~sig.in /\ f >= EnterRate THEN NetEdge(f, tenths) > 0 ELSE TRUE

(* What observe() appends; a vetoed entry is undone, and recorded as FLAT. *)
Observed(f, tenths) ==
  LET sig == Replay
      d   == Decide(sig, f)
      act == IF d.action = "ENTER" /\ ~AllowEntry(sig, f, tenths) THEN "FLAT" ELSE d.action
  IN [action |-> act, f |-> f, r |-> ReturnFor(act, f), age |-> d.sig.age,
      vetoed |-> act # d.action, net |-> NetEdge(f, tenths)]

(* One hourly call: replay, decide, append.  A line appended after a part  *)
(* of a line is read as one unreadable line with it.                       *)
Observe(f, tenths) ==
  /\ Len(carry) < MaxObs
  /\ carry' = IF cut THEN carry ELSE Append(carry, Observed(f, tenths))
  /\ cut' = FALSE
  /\ UNCHANGED <<minAge, gated, sfails>>

ObserveCut ==
  /\ sfails < MaxShadowFaults
  /\ cut' = TRUE
  /\ sfails' = sfails + 1
  /\ UNCHANGED <<carry, minAge, gated>>

ShadowInit ==
  /\ carry = <<>> /\ cut = FALSE /\ sfails = 0
  /\ minAge \in MinAges /\ gated \in BOOLEAN

ShadowNext ==
  \/ \E f \in Rates, tenths \in {0, 10} : Observe(f, tenths)
  \/ ObserveCut

-----------------------------------------------------------------------------
(* The batch programs, over a history of rates                             *)

(* backtest_carry(): one position per episode, funding from the entry on.  *)
CarryStart == [ep |-> FALSE, age |-> 0, in |-> FALSE, got |-> 0, hold |-> 0,
               nets |-> <<>>, holds |-> <<>>, funding |-> 0]
Close(c) == IF ~c.in THEN c
            ELSE [c EXCEPT !.nets = Append(@, c.got - 2 * LegFee), !.holds = Append(@, c.hold),
                           !.funding = @ + c.got, !.in = FALSE, !.got = 0, !.hold = 0]
CarryEpisode(c, f) ==
  IF ~c.ep THEN (IF f >= EnterRate THEN [c EXCEPT !.ep = TRUE, !.age = 1] ELSE c)
  ELSE IF f < ExitRate THEN [Close(c) EXCEPT !.ep = FALSE, !.age = 0]
  ELSE [c EXCEPT !.age = @ + 1]
CarryStep(c, f, ripe) ==
  LET e == CarryEpisode(c, f)
      in == e.in \/ (e.ep /\ e.age >= ripe)
  IN IF in THEN [e EXCEPT !.in = TRUE, !.got = @ + f, !.hold = @ + 1] ELSE e
BacktestCarry(fs, ripe) == Close(FoldLeft(LAMBDA c, f : CarryStep(c, f, ripe), CarryStart, fs))

(* backtest_funding_carry(): the signal without an age rule.               *)
FundingStep(b, f) ==
  LET age == AdvanceAge(b.age, f)
      in  == age > 0
  IN [age |-> age, held |-> b.held + (IF in THEN 1 ELSE 0),
      trades |-> b.trades + (IF in /\ b.age = 0 THEN 1 ELSE 0),
      total |-> b.total + (IF in THEN f ELSE 0) - (IF in # (b.age > 0) THEN LegFee ELSE 0)]
BacktestFunding(fs) == FoldLeft(FundingStep, [age |-> 0, held |-> 0, trades |-> 0, total |-> 0], fs)

(* funding_persistence(): how long each episode lasted.                    *)
PersistStep(p, f) ==
  IF ~p.in THEN (IF f >= EnterRate THEN [p EXCEPT !.in = TRUE, !.dur = 1] ELSE p)
  ELSE IF f < ExitRate THEN [p EXCEPT !.in = FALSE, !.out = Append(@, p.dur)]
  ELSE [p EXCEPT !.dur = @ + 1]
Persistence(fs) ==
  LET p == FoldLeft(PersistStep, [in |-> FALSE, dur |-> 0, out |-> <<>>], fs)
  IN [durations |-> IF p.in THEN Append(p.out, p.dur) ELSE p.out, censored |-> p.in]

(* conditional_reach(): of the episodes that came to this age, how many    *)
(* lasted for be more hours.                                               *)
Lasting(s, least) == Cardinality({i \in DOMAIN s : s[i] >= least})
ConditionalReach(durations, age, be) == <<Lasting(durations, age + be), Lasting(durations, age)>>

(* opportunity_duty_cycle(), with EnterRate as the break-even.             *)
DutyStep(d, f) ==
  LET streak == IF f >= EnterRate THEN d.streak + 1 ELSE 0
  IN [streak |-> streak, best |-> IF streak > d.best THEN streak ELSE d.best,
      on |-> d.on + (IF f >= EnterRate THEN 1 ELSE 0)]
DutyCycle(fs) == FoldLeft(DutyStep, [streak |-> 0, best |-> 0, on |-> 0], fs)

(* decompose(): where the return of a ledger came from.                    *)
DecomposeStep(p, e) ==
  CASE e.action \in {"ENTER", "EXIT"} -> [p EXCEPT !.fees = @ + e.r]
    [] e.action = "HOLD" -> [p EXCEPT !.funding = @ + e.f, !.convergence = @ + e.r - e.f]
    [] e.action = "FLAT" -> p
Decompose(events) ==
  FoldLeft(DecomposeStep, [funding |-> 0, convergence |-> 0, fees |-> 0], events)

-----------------------------------------------------------------------------
Fs == [i \in DOMAIN carry |-> carry[i].f]
Acts(a) == {i \in DOMAIN carry : carry[i].action = a}
Net(s) == FoldLeft(LAMBDA x, y : x + y, 0, s)

(* The age of the episode after i hours, from the rates alone.             *)
AgeAt(i) ==
  LET starts == {k \in 1..i : /\ Fs[k] >= EnterRate
                              /\ \A j \in k..i : Fs[j] >= ExitRate}
  IN IF starts = {} THEN 0 ELSE i - Min(starts) + 1

(* Rebuilt every hour from a ledger that may have lost lines, the book is  *)
(* one continuous book of the rates it holds: a position is entered from   *)
(* flat, only in an episode old enough, is held while the episode lasts    *)
(* and is closed when it ends; only a veto delays an entry.                *)
BookIsContinuous ==
  \A i \in DOMAIN carry :
    LET was == i > 1 /\ carry[i - 1].action \in {"ENTER", "HOLD"}
        due == AgeAt(i) >= AtLeastOne(minAge)
    IN carry[i].action = CASE was /\ AgeAt(i) > 0 -> "HOLD"
                           [] was /\ AgeAt(i) = 0 -> "EXIT"
                           [] ~was /\ due /\ ~carry[i].vetoed -> "ENTER"
                           [] OTHER -> "FLAT"

(* The time each lasting episode had left when it was old enough.          *)
Ripened(s, d, ripe) == IF d >= ripe THEN Append(s, d - ripe + 1) ELSE s
TimeLeft(durations, ripe) == FoldLeft(LAMBDA s, d : Ripened(s, d, ripe), <<>>, durations)

(* Four programs read the same episodes.  Without a veto the book enters   *)
(* as often as the backtest and holds as long, less the hour of entry; the *)
(* backtest's holds are the lasting episodes of funding_persistence() less *)
(* their youth, so that what funding_predictor says of an age is the share *)
(* of its positions that get past the break-even; without an age rule the  *)
(* two backtests agree; and the parts of the decomposition add up to the   *)
(* return.                                                                 *)
EpisodesAgree ==
  LET ripe == AtLeastOne(minAge)
      bt   == BacktestCarry(Fs, ripe)
      ps   == Persistence(Fs)
      dec  == Decompose(carry)
      fb   == BacktestFunding(Fs)
  IN /\ bt.holds = TimeLeft(ps.durations, ripe)
     /\ \A be \in 1..MaxObs :
          ConditionalReach(ps.durations, ripe, be) = <<Lasting(bt.holds, be + 1), Len(bt.holds)>>
     /\ Net(bt.nets) = bt.funding - 2 * LegFee * Len(bt.holds)
     /\ ripe = 1 => /\ fb.trades = Len(bt.holds) /\ fb.held = Net(bt.holds)
                    /\ fb.total = Net(bt.nets) + (IF ps.censored THEN LegFee ELSE 0)
     /\ (\A i \in DOMAIN carry : ~carry[i].vetoed) =>
          /\ Cardinality(Acts("ENTER")) = Len(bt.holds)
          /\ Cardinality(Acts("HOLD")) = Net(bt.holds) - Len(bt.holds)
          /\ dec.funding = bt.funding - MapThenSumSet(LAMBDA i : Fs[i], Acts("ENTER"))
     /\ dec.funding + dec.convergence + dec.fees = Net([i \in DOMAIN carry |-> carry[i].r])
     /\ dec.convergence = 0
     /\ DutyCycle(Fs).on <= Net(ps.durations)
     /\ \A i \in DOMAIN carry :
          (\A j \in 1..i : Fs[j] >= EnterRate) => DutyCycle(Fs).best >= i

(* "the cost-gate: an ENTER the screener vetoes becomes FLAT ... this is   *)
(* what stops fee-bleed churn": no gated book enters at a loss.  It does,  *)
(* where the age rule enters after the rate has sunk below EnterRate.      *)
EntriesPay ==
  \A i \in Acts("ENTER") : gated => carry[i].net > 0
=============================================================================
