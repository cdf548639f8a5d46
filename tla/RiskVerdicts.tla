---------------------------- MODULE RiskVerdicts ----------------------------
(* The judges of a strategy's live risk, each a function of what was         *)
(* measured; the drift monitor, which watches a stream; and the allocator,   *)
(* which divides the capital among the survivors.                            *)
(*                                                                           *)
(* Fractions are whole per cents.  A question to a judge is a vector of      *)
(* indices into the scales below, each from the best answer to the worst,    *)
(* with the values on both sides of every threshold of the code.             *)
EXTENDS Integers, Sequences, SequencesExt, FiniteSetsExt, LiveGates

CONSTANTS Xs, Delta, Lam, Band,   \* observations, slack, alarm threshold, stress band
          MaxSeen,                \* bound: observations of one stream
          Whole,                  \* detectors' statistics are kept times Whole
          Scores, Clusters, OwnCaps, MaxPosition, MaxCluster,
          MaxWants                \* bound: candidates

ASSUME VerdictAssumption ==
  /\ Xs \subseteq Int \ {-1} /\ Delta \in Int /\ Lam \in Nat /\ Band \in Nat
  /\ MaxSeen \in Nat /\ Whole \in Nat \ {0} /\ \A n \in 1..MaxSeen : Whole % n = 0
  /\ Scores \subseteq Int /\ OwnCaps \subseteq Int
  /\ MaxPosition \in Nat \ {0} /\ MaxCluster \in Nat \ {0}

VARIABLES asked,    \* the question put to a judge
          drift,    \* the kill switch and its two detectors
          seen,     \* what the switch was shown, in order
          wants     \* the candidates the allocator was given

verdictvars == <<asked, drift, seen, wants>>

Smaller(a, b) == IF a < b THEN a ELSE b
Larger(a, b) == IF a < b THEN b ELSE a

(* ---- the stage ladder: DEAD -1, PAPER_LIVE 0, ..., CAPPED_PRODUCTION 4 --- *)
Kills(p) == p.dd > 3 \/ p.retention < 25 \/ p.failed
Demotes(p) == p.retention < 50 \/ p.slippage > 200 \/ p.dd > 2
Promotes(p) == p.retention >= 70 /\ p.slippage <= 150 /\ p.dd <= 1 /\ p.sample >= 30

DemoteFirst(p) ==
  IF p.current = -1 THEN -1
  ELSE IF Demotes(p) THEN Larger(p.current - 1, 0)
  ELSE IF Kills(p) THEN -1
  ELSE IF Promotes(p) THEN Smaller(p.current + 1, 4)
  ELSE p.current

EvaluateStage(p) ==
  IF p.current = -1 THEN -1
  ELSE IF Kills(p) THEN -1
  ELSE IF Demotes(p) THEN Larger(p.current - 1, 0)
  ELSE IF Promotes(p) THEN Smaller(p.current + 1, 4)
  ELSE p.current

(* ---- backtest against live ----------------------------------------------- *)
BacktestLiveGap(p) ==
  /\ p.backtest > 0 /\ p.trades >= 30 /\ p.live > 0
  /\ 100 * p.live >= 50 * p.backtest
  /\ p.modeled > 0 /\ p.realized <= 2 * p.modeled

(* ---- the promotion gate -------------------------------------------------- *)
PromotionCriteria == [dsr |-> 60, apr |-> 5, events |-> 30, days |-> 14, duty |-> 0,
                      slippage |-> 150, sigmas |-> 2]

EvaluatePromotion(p) ==
  /\ \A f \in {"dsr", "apr", "events", "days", "duty"} : p[f] >= PromotionCriteria[f]
  /\ 100 * p.realized <= PromotionCriteria.slippage * p.modeled
  /\ p.live >= p.shadow - PromotionCriteria.sigmas * p.std

(* ---- the loss limits ----------------------------------------------------- *)
LossLimits == [day |-> 2, week |-> 5, month |-> 10, cooldown |-> 7, errors |-> 3, gap |-> 30]

CheckBreakers(p) ==
  /\ \A f \in {"day", "week", "month"} : p[f] > -LossLimits[f]
  /\ p.sinceKill >= LossLimits.cooldown
  /\ p.errors < LossLimits.errors /\ p.gap <= LossLimits.gap

(* ---- maturity: days and events that earn the next tier -------------------- *)
Tiers == <<[cap |-> 2, days |-> 0, events |-> 0], [cap |-> 5, days |-> 14, events |-> 30],
           [cap |-> 12, days |-> 60, events |-> 100], [cap |-> 20, days |-> 120, events |-> 200],
           [cap |-> 25, days |-> 240, events |-> 400]>>

CanAdvance(p) ==
  /\ p.tier < Len(Tiers)
  /\ p.days >= Tiers[p.tier + 1].days /\ p.events >= Tiers[p.tier + 1].events

(* ---- cross-venue economics ------------------------------------------------ *)
(* All in per cents a year: one-time costs of 12 spread over p.hold years,   *)
(* 4 of drag on the notional, 5 on the capital, and p.locked/2 of capital    *)
(* for each unit of notional.                                                *)
Amortised(p) == 12 \div p.hold
NetFunding(p) == p.spread - Amortised(p) - 4
NetOnCapital(p) == 4 * NetFunding(p) - 5 * p.locked * p.locked    \* times 2 p.locked

EconomicGate(p) ==
  LET cost == p.spread - NetFunding(p)
  IN  IF p.spread <= 0 \/ cost >= p.spread \/ p.duty * NetOnCapital(p) <= 0 THEN 0
      ELSE IF 100 * cost > 35 * p.spread THEN 1
      ELSE 2

(* ---- the carry screener and the legger ------------------------------------ *)
ScreenCoin(p) ==
  LET net == p.gross - p.cost
  IN  IF net <= 0 THEN 0
      ELSE IF net < 2 \/ 100 * p.cost > 35 * p.gross THEN 1
      ELSE IF p.dsr >= 60 /\ p.days >= 30 THEN 4
      ELSE IF p.dsr >= 60 /\ p.days >= 7 THEN 3
      ELSE 2

(* The short leg after a long one that filled: SAFE, RESIDUAL, ORPHAN.       *)
CrossLegs(p) == IF p.short <= 0 THEN 0 ELSE IF p.long - p.short > 5 THEN 1 ELSE 2

(* ---- volatility targeting, in sixths -------------------------------------- *)
VolTargetSize(p) == Larger(0, Smaller((6 * p.base * p.target) \div Larger(p.vol, 1), 6 * p.max))

(* ---- the risk policy ------------------------------------------------------ *)
(* The growth at the leverage is positive when the product of the factors is  *)
(* above one; a quarter of Kelly is mean/(4 variance).                        *)
Assess(p) ==
  LET rs == <<20 - p.shift, 10 - p.shift, 5 - p.shift>>
      sum == rs[1] + rs[2] + rs[3]
      Square(r) == (3 * r - sum) * (3 * r - sum)
      squares == Square(rs[1]) + Square(rs[2]) + Square(rs[3])    \* 27 variances
      Factor(r) == 100 + p.leverage * r
      growth == Factor(rs[1]) * Factor(rs[2]) * Factor(rs[3])
  IN  /\ p.dsr >= 60
      /\ sum > 0
      /\ \A i \in DOMAIN rs : Factor(rs[i]) > 0
      /\ growth > 1000000
      /\ squares > 0
      /\ 4 * p.leverage * squares <= 900 * sum /\ p.leverage <= 10
      /\ p.safe

(* ---- what each judge is told ---------------------------------------------- *)
Wanted == <<TRUE, FALSE>>
Unwanted == <<FALSE, TRUE>>

LivePerformance ==
  [current |-> <<4, 3, 1, 0, -1>>, retention |-> <<70, 69, 50, 49, 25, 24>>,
   slippage |-> <<150, 151, 200, 201>>, dd |-> <<1, 2, 3, 4>>,
   sample |-> <<30, 29>>, failed |-> Unwanted]

LiveGapInputs ==
  [backtest |-> <<2>>, trades |-> <<30, 29>>, live |-> <<2, 1, 0, -1>>,
   realized |-> <<1, 2, 3>>, modeled |-> <<2, 1, 0>>]

StrategyEvidence ==
  [dsr |-> <<60, 59>>, apr |-> <<5, 4>>, events |-> <<30, 29>>, days |-> <<14, 13>>,
   duty |-> <<0>>, realized |-> <<3, 4>>, modeled |-> <<3, 2>>,
   live |-> <<1, 0, -1>>, shadow |-> <<1, 2>>, std |-> <<1, 0>>]

BreakerInputs ==
  [day |-> <<-1, -2>>, week |-> <<-4, -5>>, month |-> <<-9, -10>>,
   sinceKill |-> <<7, 6>>, errors |-> <<2, 3>>, gap |-> <<30, 31>>]

Record ==
  [tier |-> <<1, 2, 3, 4, 5>>, days |-> <<240, 239, 60, 59, 14, 13>>,
   events |-> <<400, 399, 100, 99, 30, 29>>]

CrossVenueParams ==
  [spread |-> <<60, 20, 19, 13, 12, 0, -1>>, duty |-> <<100, 1, 0>>,
   hold |-> <<4, 2, 1>>, locked |-> <<2, 3>>]

CarryCandidate ==
  [gross |-> <<60, 20, 19, 9, 8, 7>>, cost |-> <<7, 8>>,
   dsr |-> <<60, 59, -1>>, days |-> <<30, 29, 7, 6, -1>>]

PreflightInputs ==
  [mode |-> <<"paper", "live", "none">>, config |-> Wanted, journal |-> Wanted,
   credentials |-> Wanted, allowed |-> <<1, 0>>, cap |-> <<1, 0>>,
   spendCap |-> Wanted, killSwitch |-> Unwanted, clockSane |-> Wanted,
   age |-> <<5, 6, 99>>, skew |-> <<2, 3, 99>>, reachable |-> Wanted]

ArmFacts ==
  [api |-> Wanted, known |-> Wanted, agent |-> Wanted,
   collateral |-> <<1000, 999, 0>>, age |-> <<900, 901>>, latched |-> Unwanted]

LegFills == [long |-> <<100>>, short |-> <<100, 95, 94, 1, 0>>]

Sizing == [vol |-> <<0, 1, 2, 3>>, base |-> <<3, 1, 0>>, target |-> <<2, 1>>, max |-> <<4, 2, 0>>]

PolicyQuestion ==
  [shift |-> <<0, 5, 11, 12, 40>>, leverage |-> <<1, 3, 7, 8, 10, 11>>,
   dsr |-> <<60, 59>>, safe |-> Wanted]

Scales ==
  [stage |-> LivePerformance, gap |-> LiveGapInputs, promotion |-> StrategyEvidence,
   breakers |-> BreakerInputs, maturity |-> Record, economics |-> CrossVenueParams,
   screen |-> CarryCandidate, preflight |-> PreflightInputs, arm |-> ArmFacts,
   legs |-> LegFills, sizing |-> Sizing, policy |-> PolicyQuestion]

Answer(judge, at) == [f \in DOMAIN at |-> Scales[judge][f][at[f]]]

(* A judge's answer as a number: the more, the more capital.                 *)
Yes(b) == IF b THEN 1 ELSE 0
Grade(judge, p) ==
  CASE judge = "stage" -> EvaluateStage(p)
    [] judge = "gap" -> Yes(BacktestLiveGap(p))
    [] judge = "promotion" -> Yes(EvaluatePromotion(p))
    [] judge = "breakers" -> Yes(CheckBreakers(p))
    [] judge = "maturity" -> Yes(CanAdvance(p))
    [] judge = "economics" -> EconomicGate(p)
    [] judge = "screen" -> ScreenCoin(p)
    [] judge = "preflight" -> Yes(RunPreflight(p))
    [] judge = "arm" -> Yes(CheckAll(p))
    [] judge = "legs" -> CrossLegs(p)
    [] judge = "sizing" -> VolTargetSize(p)
    [] judge = "policy" -> Yes(Assess(p))

Worsened(q) ==
  {[q EXCEPT !.at[f] = @ + 1] : f \in {g \in DOMAIN q.at : q.at[g] < Len(Scales[q.judge][g])}}

GradeOf(q) == Grade(q.judge, Answer(q.judge, q.at))

Worsen ==
  /\ asked' \in Worsened(asked)
  /\ UNCHANGED <<drift, seen, wants>>

(* ---- the drift monitor ---------------------------------------------------- *)
(* A Page-Hinkley detector.  Its running mean is sum/n, and every n up to    *)
(* MaxSeen divides Whole.                                                    *)
Calm == [n |-> 0, sum |-> 0, m |-> 0, extreme |-> 0, alarm |-> FALSE]

Advance(ph, x, slack) ==
  LET n == ph.n + 1
      sum == ph.sum + x
  IN  [n |-> n, sum |-> sum, m |-> ph.m + Whole * x - (Whole \div n) * sum + Whole * slack]

ForgetfulUpdate(ph, x, falling) ==
  LET next == Advance(ph, x, IF falling THEN Delta ELSE -Delta)
      extreme == IF falling THEN Larger(ph.m, next.m) ELSE Smaller(ph.m, next.m)
      gap == IF falling THEN extreme - next.m ELSE next.m - extreme
  IN  [n |-> next.n, sum |-> next.sum, m |-> next.m, extreme |-> extreme,
       alarm |-> ph.alarm \/ gap > Whole * Lam]

Update(ph, x, falling) ==
  LET next == Advance(ph, x, IF falling THEN Delta ELSE -Delta)
      extreme == IF falling THEN Larger(ph.extreme, next.m) ELSE Smaller(ph.extreme, next.m)
      gap == IF falling THEN extreme - next.m ELSE next.m - extreme
  IN  [n |-> next.n, sum |-> next.sum, m |-> next.m, extreme |-> extreme,
       alarm |-> ph.alarm \/ gap > Whole * Lam]

(* One observation: a return, a slippage and a drawdown, of which any may be *)
(* missing (-1).  A killed switch looks at nothing any more.                 *)
Observe ==
  /\ Len(seen) < MaxSeen
  /\ \E ret, slip \in Xs \cup {-1}, dd \in {-1, Band, Band + 1} :
       LET exp == IF ret = -1 THEN drift.exp ELSE Update(drift.exp, ret, TRUE)
           slp == IF slip = -1 THEN drift.slp ELSE Update(drift.slp, slip, FALSE)
       IN  /\ seen' = Append(seen, [ret |-> ret, slip |-> slip, dd |-> dd])
           /\ drift' = IF drift.killed # "no" THEN drift
                       ELSE [exp |-> exp, slp |-> slp,
                             killed |-> IF dd > Band THEN "stress band"
                                        ELSE IF exp.alarm THEN "edge drift"
                                        ELSE IF slp.alarm THEN "execution" ELSE "no"]
  /\ UNCHANGED <<asked, wants>>

(* ---- the allocator -------------------------------------------------------- *)
(* A candidate's own cap of 0 stands for none.  A weight is num/den per cent. *)
Positive(cs) == {i \in DOMAIN cs : cs[i].score > 0}
Mates(cs, i) == {j \in Positive(cs) : cs[j].cluster = cs[i].cluster}
CapOf(c) == IF c.own > 0 THEN c.own ELSE MaxPosition

Proportional(cs, i) ==
  LET total == SumFunctionOnSet([j \in DOMAIN cs |-> cs[j].score], Positive(cs))
  IN  [num |-> Smaller(CapOf(cs[i]) * total, 100 * cs[i].score), den |-> total]

Allocate(cs, i) ==
  LET w == Proportional(cs, i)
      csum == SumFunctionOnSet([j \in DOMAIN cs |-> Proportional(cs, j).num], Mates(cs, i))
  IN  IF csum > MaxCluster * w.den
      THEN [num |-> w.num * MaxCluster, den |-> csum] ELSE w

Offer ==
  /\ Len(wants) < MaxWants
  /\ \E c \in Clusters, n \in Scores, o \in OwnCaps :
       wants' = Append(wants, [cluster |-> c, score |-> n, own |-> o])
  /\ UNCHANGED <<asked, drift, seen>>

VerdictInit ==
  /\ asked \in {[judge |-> j, at |-> [f \in DOMAIN Scales[j] |-> 1]] : j \in DOMAIN Scales}
  /\ drift = [exp |-> Calm, slp |-> Calm, killed |-> "no"]
  /\ seen = <<>>
  /\ wants = <<>>

(* The three share nothing: a behaviour is of one of them.                   *)
Unasked == \A f \in DOMAIN asked.at : asked.at[f] = 1
FirstJudge == asked.judge = "legs" /\ Unasked

VerdictNext ==
  \/ seen = <<>> /\ wants = <<>> /\ Worsen
  \/ FirstJudge /\ wants = <<>> /\ Observe
  \/ FirstJudge /\ seen = <<>> /\ Offer

(* Whatever was measured, a worse measurement never earns more capital: not  *)
(* a higher stage, a promotion, a passed gate, a bigger size or more         *)
(* leverage.  The verdicts are cascades of thresholds (stages.py 66-112 has   *)
(* four levels over seven inputs), where one branch tested too early would    *)
(* let a deterioration climb the ladder.                                     *)
WorseIsNeverBetter ==
  \A w \in Worsened(asked) : GradeOf(w) <= GradeOf(asked)

(* What a detector should hold of a stream: the statistic worked out from    *)
(* the whole stream, against the best it ever was, the start included.       *)
Shown(f, k) == {i \in 1..k : seen[i][f] # -1}
MeanOf(f, k) ==
  (Whole \div Cardinality(Shown(f, k))) * SumFunctionOnSet([i \in 1..k |-> seen[i][f]], Shown(f, k))
Drifted(f, sign, k) ==
  SumFunctionOnSet([i \in 1..k |-> sign * (Whole * seen[i][f] - MeanOf(f, i)) + Whole * Delta],
                   Shown(f, k))
Alarming(f, sign, k) ==
  \E j \in 1..k : \E i \in 0..j : Drifted(f, sign, i) - Drifted(f, sign, j) > Whole * Lam

CauseAt(k) ==
  IF seen[k].dd > Band THEN "stress band"
  ELSE IF Alarming("ret", 1, k) THEN "edge drift"
  ELSE IF Alarming("slip", -1, k) THEN "execution" ELSE "no"

(* The switch is killed exactly when, at some observation, the drawdown was  *)
(* beyond the band or a detector's whole stream was alarming, and its reason *)
(* is the first one's, for good (drift.py 34-84).                            *)
KilledAsShown ==
  \/ drift.killed = "no" /\ \A k \in DOMAIN seen : CauseAt(k) = "no"
  \/ /\ drift.killed # "no"
     /\ \E k \in DOMAIN seen : /\ CauseAt(k) = drift.killed
                              /\ \A j \in 1..(k - 1) : CauseAt(j) = "no"

(* No position above its cap, no cluster above its budget, no weight above  *)
(* its part of the scores, so that the whole is within the capital (for two  *)
(* clusters said outright), every viable candidate with something, and of    *)
(* two in the same cluster under the same cap the better with no less        *)
(* (carry_portfolio_allocator.py 46-69).                                     *)
BudgetsHold ==
  LET ws == [i \in Positive(wants) |-> Allocate(wants, i)]
      total == SumFunctionOnSet([i \in DOMAIN wants |-> wants[i].score], Positive(wants))
      In(c) == {i \in Positive(wants) : wants[i].cluster = c}
      Budget(c) == [num |-> SumFunctionOnSet([i \in Positive(wants) |-> ws[i].num], In(c)),
                    den |-> IF In(c) = {} THEN 1 ELSE ws[CHOOSE i \in In(c) : TRUE].den]
  IN  /\ \A i \in DOMAIN ws : /\ ws[i].num > 0
                              /\ ws[i].num <= CapOf(wants[i]) * ws[i].den
                              /\ ws[i].num * total <= 100 * wants[i].score * ws[i].den
      /\ \A c \in Clusters : Budget(c).num <= MaxCluster * Budget(c).den
      /\ \A c, d \in Clusters : c # d =>
           Budget(c).num * Budget(d).den + Budget(d).num * Budget(c).den
             <= 100 * Budget(c).den * Budget(d).den
      /\ \A i, j \in DOMAIN ws :
           wants[i].cluster = wants[j].cluster /\ wants[i].own = wants[j].own
             /\ wants[i].score <= wants[j].score => ws[i].num <= ws[j].num

(* carry_portfolio_allocator.py 52-53: "cap per position -- by the TIGHTER   *)
(* of the global cap and the candidate's own".  It is the candidate's own,   *)
(* where it has one, tighter or not.                                         *)
TighterCap ==
  \A i \in Positive(wants) :
    Allocate(wants, i).num <= MaxPosition * Allocate(wants, i).den
=============================================================================
