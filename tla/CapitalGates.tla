---------------------------- MODULE CapitalGates ----------------------------
(* What has to agree before a strategy is given money: the deployment gate,  *)
(* the committee of consultants, the broker that fills the portfolio, the    *)
(* orchestrator that stages what the broker deploys, and the analyst's       *)
(* digest, which works the same verdicts out again.                          *)
(*                                                                           *)
(* A strategy's record is its paper returns, in units of 1/Unit, one a day.  *)
(* Two statistics of it are not worked out: the deflated Sharpe ratio is     *)
(* drawn when the record changes, and so is what the bootstrap answers when  *)
(* some of its paths breach the drawdown and others do not.                  *)
EXTENDS Integers, Sequences, SequencesExt, FiniteSetsExt

CONSTANTS Strategies,
          Factors, Unit,            \* an interval multiplies the equity by f/Unit
          MaxN, MaxTotal,           \* bounds: returns in a record, and in all of them
          Dsrs, MinDsr, ApproachDsr,\* deflated Sharpe ratios, in tenths
          MinIntervals, MinDays, MinAprPct, YearDays,
          Tier, PortfolioCap,       \* shares of the bankroll
          VrK,                      \* the lag of the variance ratio
          MaxStops                  \* bound: failed appends and restarts

ASSUME CapAssumption ==
  /\ IsFiniteSet(Strategies) /\ Factors \subseteq Int /\ Unit \in Int
  /\ Dsrs \subseteq Int /\ MinDsr \in Int /\ Tier \in Nat /\ PortfolioCap \in Nat

VARIABLES books,    \* strategy -> its record
          awake,    \* the orchestrator runs
          prev,     \* the status it last saw, in memory
          todo,     \* the decisions of this cycle it has still to look at
          staged,   \* strategy -> its newest PENDING_OK events in the orchestrator's ledger
          stops

capvars == <<books, awake, prev, todo, staged, stops>>

Returns == {f - Unit : f \in Factors}

NoLine == [n |-> 0, dsr |-> 0]
Statuses == {"none", "HOLD", "APPROACH", "DEPLOY"}

(* The equity after each return, brought to one denominator.                 *)
Equity(rs) ==
  LET grown[k \in 0..Len(rs)] == IF k = 0 THEN 1 ELSE grown[k - 1] * (Unit + rs[k])
  IN  [k \in 0..Len(rs) |-> grown[k] * Unit ^ (Len(rs) - k)]

FallsBy(rs, pct) ==
  LET eq == Equity(rs)
  IN  \E j \in 1..Len(rs) : \E i \in 0..(j - 1) : 100 * eq[j] <= (100 - pct) * eq[i]

FallsBeyond(rs, pct) ==
  LET eq == Equity(rs)
  IN  \E j \in 1..Len(rs) : \E i \in 0..(j - 1) : 100 * eq[j] < (100 - pct) * eq[i]

Total(rs) == FoldLeft(LAMBDA a, r : a + r, 0, rs)
Wins(rs) == SelectSeq(rs, LAMBDA r : r > 0)

(* ---- the gate ----------------------------------------------------------- *)
(* Below MinIntervals the verdict carries a Sharpe ratio of zero.            *)
Enough(b) == Len(b.rs) >= MinIntervals /\ \E i \in DOMAIN b.rs : b.rs[i] # 0
GateDsr(b) == IF Enough(b) THEN b.dsr ELSE 0

GateDeploys(b) ==
  LET days == Len(b.rs) - 1
      eq == Equity(b.rs)
  IN  /\ Enough(b)
      /\ b.dsr >= MinDsr
      /\ days > 0
      /\ (eq[Len(b.rs)] - eq[0]) * YearDays * 100 >= MinAprPct * days * eq[0]
      /\ days >= MinDays

(* ---- the consultants ---------------------------------------------------- *)
Edge(b) == b.dsr >= MinDsr

Concentration(rs) ==
  Wins(rs) # <<>> /\ \A i \in DOMAIN rs : 100 * rs[i] <= 40 * Total(Wins(rs))

Consistency(rs) ==
  LET half == Len(rs) \div 2
  IN  /\ half >= 1 /\ Total(SubSeq(rs, 1, half)) > 0
      /\ Total(SubSeq(rs, half + 1, Len(rs))) > 0
      /\ 2 * Len(Wins(rs)) >= Len(rs)

Drawdown(rs) == ~FallsBeyond(rs, 25)

(* Every path the block bootstrap can draw.                                  *)
BlockBootstrap(rs) ==
  LET n == Len(rs)
      len == IF n > 10 THEN 10 ELSE IF n \div 2 > 1 THEN n \div 2 ELSE 1
      blocks == (n + len - 1) \div len
  IN  {SubSeq(FlattenSeq([i \in 1..blocks |-> SubSeq(rs, at[i] + 1, at[i] + len)]), 1, n)
         : at \in [1..blocks -> 0..(n - len)]}

Ruin(b) ==
  IF Len(b.rs) < 2 THEN TRUE
  ELSE IF \A p \in BlockBootstrap(b.rs) : ~FallsBy(p, 20) THEN TRUE
  ELSE IF \A p \in BlockBootstrap(b.rs) : FallsBy(p, 20) THEN FALSE
  ELSE b.lucky

(* Lo-MacKinlay on the equity curve: VR(k) < 0.9, without the divisions.     *)
RevertsToMean(rs) ==
  LET m == Len(rs)
      eq == Equity(rs)
      drift == eq[m] - eq[0]
      Squares(k) == [i \in 1..(m - k + 1) |->
                       (m * (eq[i + k - 1] - eq[i - 1]) - k * drift) ^ 2]
  IN  Total(Squares(1)) > 0
      /\ 10 * m * Total(Squares(VrK)) < 9 * VrK * (m - VrK + 1) * Total(Squares(1))

Regime(rs) ==
  LET n == Len(rs)
      w == IF n \div 3 > 1 THEN n \div 3 ELSE 1
      steady == Equity(rs)[n] > Equity(rs)[0] /\ ~FallsBy(rs, 5)
  IN  n >= 1 => /\ Total(SubSeq(rs, n - w + 1, n)) > 0
                /\ n > VrK + 1 => steady \/ ~RevertsToMean(rs)

Approved(b) ==
  /\ Edge(b)
  /\ Concentration(b.rs)
  /\ Consistency(b.rs)
  /\ Drawdown(b.rs)
  /\ Ruin(b)
  /\ Regime(b.rs)

(* ---- the broker --------------------------------------------------------- *)
(* Best ratio first; equal ratios in either order.                           *)
Ranked(bs, order) ==
  \A i, j \in DOMAIN order : i < j => GateDsr(bs[order[i]]) >= GateDsr(bs[order[j]])

Rankings(bs) == {order \in SetToSeqs(Strategies) : Ranked(bs, order)}

(* The strategies deployed: those the gate and the committee let through, as *)
(* long as the portfolio has room.                                           *)
Decide(bs, order) ==
  FoldLeft(LAMBDA d, s :
             IF GateDeploys(bs[s]) /\ Approved(bs[s]) /\ d.total + Tier <= PortfolioCap
             THEN [total |-> d.total + Tier, deploys |-> d.deploys \cup {s}]
             ELSE d,
           [total |-> 0, deploys |-> {}], order)

(* ---- the analyst's digest ------------------------------------------------ *)
DigestStatus(b) ==
  IF GateDeploys(b) THEN IF Approved(b) THEN "DEPLOY" ELSE "HOLD"
  ELSE IF GateDsr(b) >= ApproachDsr THEN "APPROACH" ELSE "HOLD"

(* The verdict of the risk report; safe is what the stressed runs answer.    *)
RiskVerdict(b, safe) ==
  IF Len(b.rs) < 2 THEN "INSUFFICIENT_DATA"
  ELSE IF Total(b.rs) <= 0 THEN "NO_EDGE"
  ELSE IF b.dsr < MinDsr THEN "EDGE_IS_NOT_RELIABLE"
  ELSE IF ~safe THEN "PATH_TOO_DANGEROUS"
  ELSE "DEPLOY_SMALL"

(* ---- the orchestrator ---------------------------------------------------- *)
Status(bs, d, s) ==
  IF s \in d.deploys THEN "DEPLOY"
  ELSE IF GateDsr(bs[s]) >= ApproachDsr THEN "APPROACH" ELSE "HOLD"

(* The shadows have run for two intervals before the orchestrator starts.    *)
Young == [rs : [1..2 -> Returns], dsr : Dsrs, lucky : {TRUE}]

CapInit ==
  /\ books \in [Strategies -> Young]
  /\ awake = FALSE
  /\ prev = [s \in Strategies |-> "none"]
  /\ todo = <<>>
  /\ staged = [s \in Strategies |-> NoLine]
  /\ stops = 0

(* Another process: the strategy's shadow closes one more interval.  Where a *)
(* draw cannot matter it is not made.                                        *)
Close ==
  \E s \in Strategies, r \in Returns, q \in Dsrs, l \in BOOLEAN :
    LET grown == [rs |-> Append(books[s].rs, r), dsr |-> q, lucky |-> l]
    IN  /\ Len(books[s].rs) < MaxN
        /\ FoldSet(LAMBDA t, n : n + Len(books[t].rs), 0, Strategies) < MaxTotal
        /\ ~l => Ruin([grown EXCEPT !.lucky = TRUE])
        /\ books' = [books EXCEPT ![s] = grown]
        /\ UNCHANGED <<awake, prev, todo, staged, stops>>

Arm ==
  /\ ~awake
  /\ awake' = TRUE
  /\ UNCHANGED <<books, prev, todo, staged, stops>>

(* The ledgers are read one by one, but each is read once and they share     *)
(* nothing, so that one reading of all of them gives the same snapshots.     *)
Load ==
  /\ awake /\ todo = <<>>
  /\ \E order \in Rankings(books) :
       LET d == Decide(books, order)
       IN  todo' = [i \in DOMAIN order |->
                      [s |-> order[i], status |-> Status(books, d, order[i]),
                       line |-> [n |-> Len(books[order[i]].rs), dsr |-> GateDsr(books[order[i]])]]]
  /\ UNCHANGED <<books, awake, prev, staged, stops>>

(* The event is appended before the status is remembered.                    *)
Noted(s, status, failed) == [prev EXCEPT ![s] = IF failed THEN @ ELSE status]
NotedFirst(s, status, failed) == [prev EXCEPT ![s] = status]

Remember(s, status, failed) == Noted(s, status, failed)

Watch ==
  /\ awake /\ todo # <<>>
  /\ LET d == Head(todo)
     IN  /\ prev' = Remember(d.s, d.status, FALSE)
         /\ staged' = IF d.status # prev[d.s] /\ d.status = "DEPLOY"
                      THEN [staged EXCEPT ![d.s] = d.line] ELSE staged
  /\ todo' = Tail(todo)
  /\ UNCHANGED <<books, awake, stops>>

(* The append fails, with or without the line on the disk; the exception     *)
(* ends the cycle and the loop goes on.                                      *)
WatchRaises ==
  /\ awake /\ todo # <<>> /\ stops < MaxStops
  /\ LET d == Head(todo)
     IN  /\ d.status = "DEPLOY" /\ prev[d.s] # "DEPLOY"
         /\ prev' = Remember(d.s, d.status, TRUE)
         /\ \E landed \in BOOLEAN :
              staged' = IF landed THEN [staged EXCEPT ![d.s] = d.line] ELSE staged
  /\ todo' = <<>>
  /\ stops' = stops + 1
  /\ UNCHANGED <<books, awake>>

Stop ==
  /\ awake /\ stops < MaxStops
  /\ awake' = FALSE
  /\ prev' = [s \in Strategies |-> "none"]
  /\ todo' = <<>>
  /\ stops' = stops + 1
  /\ UNCHANGED <<books, staged>>

CapNext == Close \/ Arm \/ Load \/ Watch \/ WatchRaises \/ Stop

CapTypeOK ==
  /\ \A s \in Strategies : Len(books[s].rs) <= MaxN /\ prev[s] \in Statuses
  /\ Len(todo) <= Cardinality(Strategies) /\ stops \in 0..MaxStops

(* A deployment the orchestrator has seen is on its ledger, and every staged *)
(* event is of a strategy that had passed the gate and the committee when it *)
(* was staged (run_orchestrator.py 74-85): whatever stops the orchestrator   *)
(* between the two, no crossing is lost and none is made up.                 *)
StagedIsEarned ==
  \A s \in Strategies :
    /\ prev[s] = "DEPLOY" => staged[s] # NoLine
    /\ staged[s] # NoLine =>
         LET then == [rs |-> SubSeq(books[s].rs, 1, staged[s].n),
                      dsr |-> staged[s].dsr, lucky |-> TRUE]
         IN  GateDeploys(then) /\ Approved(then)

(* The broker passes over a strategy that earned its place only for others   *)
(* with at least its Sharpe ratio which fill the portfolio (broker.py        *)
(* 52-68); the digest, which never sees the cap, deploys the same strategies *)
(* and those passed over (analyst.py 88-103); and what either deploys is     *)
(* never called edgeless or unreliable by the risk report beside it.         *)
VerdictsAgree ==
  ~awake /\ stops = 0 =>     \* the records alone matter, and all are met here
  \A order \in Rankings(books) :
    LET d == Decide(books, order)
        shown == {s \in Strategies : DigestStatus(books[s]) = "DEPLOY"}
    IN  /\ d.total = Tier * Cardinality(d.deploys) /\ d.total <= PortfolioCap
        /\ d.deploys \subseteq shown
        /\ \A s \in shown \ d.deploys :
             /\ d.total + Tier > PortfolioCap
             /\ \A t \in d.deploys : books[t].dsr >= books[s].dsr
        /\ \A s \in shown, safe \in BOOLEAN :
             RiskVerdict(books[s], safe) \in {"PATH_TOO_DANGEROUS", "DEPLOY_SMALL"}
=============================================================================
