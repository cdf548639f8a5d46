----------------------------- MODULE ScalpShadow -----------------------------
(***************************************************************************)
(* The paper scalper (scalp_shadow.py), stepped one closed minute bar at a *)
(* time by scripts/run_scalp_shadow.py, which logs one row per completed   *)
(* trade and after a restart begins with a new book; and the backtest of   *)
(* the same rules over the same bars (momentum_backtest.py,                *)
(* signals/momentum.py).  Fractions are tenths; a return is the ratio of   *)
(* two prices and the number of half costs taken.                          *)
(***************************************************************************)
EXTENDS Integers, Sequences, SequencesExt, FiniteSetsExt, Journal

CONSTANTS
  Prices,                     \* prices of a bar
  Ignition, Confirm,          \* enter_1m and confirm_1m
  Trail, HardStop, MaxHold,   \* trail_frac, stop_frac and max_hold
  MaxBars, MaxBarsAgain,      \* bounds: bars seen, before and after a restart
  MaxRowFaults                \* bound: rows whose append raises, and restarts

(* A trail and a stop of less than the whole price.                        *)
ASSUME ScalpAssumption ==
  /\ Prices \subseteq Nat \ {0} /\ Ignition \in Nat /\ Confirm \in Nat
  /\ Trail \in 0..9 /\ HardStop \in 0..9
  /\ MaxHold \in Nat \ {0} /\ MaxBars \in Nat /\ MaxBarsAgain \in Nat /\ MaxRowFaults \in Nat

VARIABLES
  bars,     \* the bars the book was shown
  scalp,    \* ScalpBook
  eq,       \* trade_eq: what the row of the open trade will say
  since,    \* history: the trades completed since trade_eq was 1.0
  rowfile,  \* the ledger
  done,     \* history: the trades the book completed
  told,     \* history: the rows whose append returned
  again,    \* history: the program has been started again
  rfaults   \* faults so far

scalpvars == <<bars, scalp, eq, since, rowfile, done, told, again, rfaults>>

rows == ReadLedger(rowfile)

Bars == {b \in [h : Prices, l : Prices, c : Prices] : b.l <= b.c /\ b.c <= b.h /\ b.h - b.l <= 1}

(* entry_ok(): ignition and follow-through.                                *)
EntryOk(prev2, prev, close) ==
  /\ prev2 > 0 /\ prev > 0
  /\ close * 10 >= prev * (10 + Ignition)
  /\ prev * 10 >= prev2 * (10 + Confirm)

(* Levels, in tenths of a price.                                           *)
TrailLevel(peak) == peak * (10 - Trail)
StopLevel(entry) == entry * (10 - HardStop)

Flat == [in |-> FALSE, entry |-> 0, peak |-> 0, held |-> 0]
Even == [num |-> 1, den |-> 1, halves |-> 0]
Larger(a, b) == IF a > b THEN a ELSE b

(* ScalpBook.observe(): the low is looked at before the new high counts.   *)
TrailNow(p, b) == TrailLevel(p.peak)
ExitOf(p, b) ==
  LET trail == TrailNow(p, b)
      stop  == StopLevel(p.entry)
  IN IF b.l * 10 <= stop /\ stop <= trail THEN [action |-> "EXIT_STOP", level |-> stop]
     ELSE IF b.l * 10 <= trail THEN [action |-> "EXIT_TRAIL", level |-> trail]
     ELSE IF p.held + 1 >= MaxHold THEN [action |-> "EXIT_TIME", level |-> b.c * 10]
     ELSE [action |-> "HOLD", level |-> b.c * 10]

Accrue(e, num, den, halves) ==
  [num |-> e.num * num, den |-> e.den * den, halves |-> e.halves + halves]

NewBook == [prev2 |-> 0, prev |-> 0, pos |-> Flat]

Bar(b, left, returned) ==
  LET prev  == scalp.prev
      exit  == ExitOf(scalp.pos, b)
      ends  == scalp.pos.in /\ exit.action # "HOLD"
      enter == ~scalp.pos.in /\ EntryOk(scalp.prev2, prev, b.c)
      trade == IF scalp.pos.in THEN Accrue(eq, exit.level, 10 * prev, IF ends THEN 1 ELSE 0)
               ELSE IF enter THEN Accrue(eq, 1, 1, 1) ELSE eq
      ended == [entry |-> scalp.pos.entry, level |-> exit.level, held |-> scalp.pos.held + 1]
      row   == [eq |-> trade, of |-> Append(since, ended)]
  IN /\ Len(bars) < (IF again THEN MaxBarsAgain ELSE MaxBars)
     /\ returned => left = "line"
     /\ returned \/ (ends /\ rfaults < MaxRowFaults)
     /\ bars' = Append(bars, b)
     /\ scalp' = [prev2 |-> prev, prev |-> b.c,
                  pos |-> IF ends THEN Flat
                          ELSE IF enter THEN [in |-> TRUE, entry |-> b.c, peak |-> b.c, held |-> 0]
                          ELSE IF scalp.pos.in
                          THEN [scalp.pos EXCEPT !.held = @ + 1, !.peak = Larger(@, b.h)]
                          ELSE Flat]
     /\ done' = IF ends THEN Append(done, ended) ELSE done
     \* the row, and only then the reset: an append that raises skips it
     /\ rowfile' = IF ends THEN Appended(rowfile, row, left) ELSE rowfile
     /\ eq' = IF ends /\ returned THEN Even ELSE trade
     /\ since' = IF ~ends THEN since ELSE IF returned THEN <<>> ELSE row.of
     /\ told' = IF ends /\ returned THEN told + 1 ELSE told
     /\ rfaults' = IF returned THEN rfaults ELSE rfaults + 1
     /\ UNCHANGED again

(* The program is started again: the open trade, and what trade_eq carries *)
(* of trades whose append raised, are gone.                                *)
ScalpRestart ==
  /\ rfaults < MaxRowFaults
  /\ bars' = <<>> /\ scalp' = NewBook /\ eq' = Even /\ since' = <<>> /\ done' = <<>>
  /\ again' = TRUE /\ rfaults' = rfaults + 1
  /\ UNCHANGED <<rowfile, told>>

ScalpInit ==
  /\ bars = <<>> /\ scalp = NewBook /\ eq = Even /\ since = <<>> /\ done = <<>>
  /\ rowfile = NewLedger /\ told = 0 /\ again = FALSE /\ rfaults = 0

ScalpNext ==
  \/ \E b \in Bars, left \in Leavings, returned \in BOOLEAN : Bar(b, left, returned)
  \/ ScalpRestart

-----------------------------------------------------------------------------
(* simulate_exit() and backtest_momentum(): the whole series at once       *)

PeakAt(entry, i, j) == Max({entry} \cup {bars[k].h : k \in (i + 1)..(j - 1)})

(* The first bar after i whose low touches a level; the time stop; the end.*)
SimulateExit(i) ==
  LET entry == bars[i].c
      last  == IF i + MaxHold <= Len(bars) THEN i + MaxHold ELSE Len(bars)
      hits  == {j \in (i + 1)..last : bars[j].l * 10 <= TrailLevel(PeakAt(entry, i, j))}
      j     == IF hits = {} THEN last ELSE Min(hits)
      trail == TrailLevel(PeakAt(entry, i, j))
      stop  == StopLevel(entry)
  IN [entry |-> entry, held |-> j - i,
      level |-> IF hits = {} THEN 10 * bars[last].c
                ELSE IF bars[j].l * 10 <= stop /\ stop <= trail THEN stop ELSE trail]

(* Trades do not overlap: the scan resumes after the bar of the exit.      *)
BacktestMomentum ==
  LET scan(s, i) ==
        IF i < s.next \/ ~EntryOk(bars[i - 2].c, bars[i - 1].c, bars[i].c) THEN s
        ELSE LET t == SimulateExit(i) IN [next |-> i + t.held + 1, trades |-> Append(s.trades, t)]
  IN FoldLeft(scan, [next |-> 3, trades |-> <<>>],
              [k \in 1..Larger(Len(bars) - 3, 0) |-> k + 2]).trades

-----------------------------------------------------------------------------
(* Fed one bar at a time, the paper book trades as the backtest does over  *)
(* the same bars: the same entries, exits, levels and times; the backtest  *)
(* only adds the position still open, valued at the last close.            *)
BookIsBacktest ==
  LET bt == BacktestMomentum
      open == scalp.pos.in /\ scalp.pos.held > 0
  IN /\ Len(bt) = Len(done) + (IF open THEN 1 ELSE 0)
     /\ \A k \in DOMAIN done : bt[k] = done[k]
     /\ open => Last(bt) = [entry |-> scalp.pos.entry, level |-> 10 * scalp.prev,
                            held |-> scalp.pos.held]

Product(s, f(_)) == FoldLeft(LAMBDA x, y : x * f(y), 1, s)

(* A ratio is the return of these trades, and of a position opened at one  *)
(* price and now at another, with all their half costs.                    *)
IsReturnOf(e, trades, entry, now, halves) ==
  /\ e.num * (Product(trades, LAMBDA d : d.entry * 10) * entry)
       = e.den * (Product(trades, LAMBDA d : d.level) * now)
  /\ e.halves = 2 * Len(trades) + halves

(* Every row that reads is the return of whole trades, each with both half *)
(* costs, and what still accrues is that of the trades since and of the    *)
(* open one; one row at most is missing or too many for each fault; and    *)
(* without a fault every trade has its row.                                *)
RowsCompound ==
  /\ \A k \in DOMAIN rows : IsReturnOf(rows[k].eq, rows[k].of, 1, 1, 0)
  /\ IF scalp.pos.in THEN IsReturnOf(eq, since, scalp.pos.entry, scalp.prev, 1)
     ELSE IsReturnOf(eq, since, 1, 1, 0)
  /\ OffByOneEach(rowfile, told, rfaults)
  /\ rfaults = 0 => /\ since = <<>> /\ Len(rows) = Len(done)
                     /\ \A k \in DOMAIN rows : rows[k].of = <<done[k]>>

(* "one ledger row per COMPLETED trade = its net return": fails, since an  *)
(* append that raises leaves the finished trade in trade_eq.               *)
RowIsItsTrade ==
  \A k \in DOMAIN rows : Len(rows[k].of) = 1
=============================================================================
