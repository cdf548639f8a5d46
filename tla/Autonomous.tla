----------------------------- MODULE Autonomous -----------------------------
(***************************************************************************)
(* The armed loop of scripts/run_autonomous.py: every poll, each watched   *)
(* coin's newest bar steps its paper book (scalp_shadow.py); an entry or   *)
(* an exit of the paper book is carried out with real orders if the coin's *)
(* deployment gate is open, an entry only if the policy engine allows it.  *)
(* The process may die anywhere; systemd starts it again.                  *)
(*                                                                         *)
(* The gate is a fixed function of the journals, so its verdict moves only *)
(* after a trade was recorded.  Positions are counted in lots, one per     *)
(* entry; money is integer, a notional in hundredths.  One age unit of the *)
(* policy's window is one poll.  The order manager is its outcomes:        *)
(* settled, refused, or out of sight (OPEN, UNKNOWN) and executed later or *)
(* never, since the loop neither recovers nor reuses an origin_id.         *)
(***************************************************************************)
EXTENDS Integers, FiniteSets, FiniteSetsExt

CONSTANTS
  Coins,
  Collaterals,            \* what the account may be worth
  MaxHold,                \* MomentumParams.max_hold, in bars
  Tier,                   \* --tier, in percent
  MinOrder,               \* _HL_MIN
  NotionalPct, SpendPct,  \* --max-notional-pct, --max-spend-pct
  Drawdown,               \* --max-dd, in percent
  MaxTx, Window,          \* --max-tx, --policy-window (in polls)
  MaxLots,                \* bound: lots of a coin; the code has none
  MaxFaults, MaxCrashes   \* bounds: things that go wrong, deaths

ASSUME AccountAssumption == Collaterals \subseteq Nat /\ Collaterals # {}
ASSUME KnobAssumption ==
  /\ {MaxHold, Window} \subseteq Nat \ {0}
  /\ {Tier, MinOrder, NotionalPct, SpendPct, MaxTx} \subseteq Nat
  /\ Drawdown \in 0 .. 100
ASSUME BudgetAssumption == {MaxLots, MaxFaults, MaxCrashes} \subseteq Nat

VARIABLES
  pc,             \* where the process is
  watched, todo,  \* the coins of this process; those left in this poll
  book,           \* ScalpBook of each coin: bars held, or Flat
  job,            \* the call of _maybe_execute in progress
  engine,         \* the PolicyEngine of this process
  col0,           \* the collateral its caps are anchored to
  saved,          \* the last policy_state event of state/policy_live
  open, fresh,    \* the gate's verdicts; trades were recorded since the last poll
  \* the exchange
  col, pos,       \* collateral, position of each coin in lots
  late,           \* orders the process no longer follows
  \* history, read by the properties only
  loose,          \* coins with an exit missed or an order out of sight
  entered,        \* the entries filled within the policy's window
  faults, crashes

process  == <<pc, watched, todo, book, job, engine, col0>>
journals == <<saved, open, fresh>>
exchange == <<col, pos, late>>
history  == <<loose, entered, faults, crashes>>
vars     == <<process, journals, exchange, history>>

Flat    == -1
Nothing == "nothing"
NoAnchor == -1
NoJob   == [coin |-> Nothing, n |-> 0]
Labels  == {"down", "scan", "entry", "exit", "buy", "close"}

Entries == [coin : Coins, age : Nat, n : Nat]
Engines == [anchor : Nat \cup {NoAnchor}, tripped : BOOLEAN, counted : SUBSET Entries]
Orders  == [id : Nat, coin : Coins, side : {"BUY", "SELL"}, size : Nat]
Fresh   == [anchor |-> NoAnchor, tripped |-> FALSE, counted |-> {}]

(* A live position is never short: every sell is reduce-only, whenever it  *)
(* is executed and whatever happened to the position it was meant for.     *)
AutoTypeOK ==
  /\ pc \in Labels /\ watched \subseteq Coins /\ todo \subseteq watched
  /\ book \in [Coins -> Nat \cup {Flat}]
  /\ job \in [coin : Coins \cup {Nothing}, n : Nat]
  /\ pc \notin {"down", "scan"} => job.coin \in Coins
  /\ engine \in Engines /\ saved \in Engines \cup {Nothing} /\ col0 \in Nat
  /\ open \in [Coins -> BOOLEAN] /\ fresh \in BOOLEAN
  /\ col \in Nat /\ pos \in [Coins -> Nat] /\ late \subseteq Orders
  /\ loose \subseteq Coins /\ entered \subseteq Entries
  /\ faults \in Nat /\ crashes \in Nat

AllFlat == [c \in Coins |-> Flat]

Init ==
  /\ pc = "down" /\ watched = {} /\ todo = {} /\ book = AllFlat /\ job = NoJob
  /\ engine = Fresh /\ col0 = 0
  /\ saved = Nothing /\ open \in [Coins -> BOOLEAN] /\ fresh = FALSE
  /\ col \in Collaterals /\ pos = [c \in Coins |-> 0] /\ late = {}
  /\ loose = {} /\ entered = {} /\ faults = 0 /\ crashes = 0

-----------------------------------------------------------------------------
(* Start-up and the poll                                                   *)

(* The coins are ranked anew by volume; caps are anchored to the present   *)
(* collateral; the paper books start flat whatever the account holds.      *)
Start ==
  /\ pc = "down"
  /\ \E w \in SUBSET Coins \ {{}} : watched' = w
  /\ engine' = IF saved = Nothing THEN Fresh ELSE saved
  /\ col0' = col
  /\ pc' = "scan" /\ todo' = {}
  /\ UNCHANGED <<book, job, journals, exchange, history>>

(* What leaves the rolling window is pruned.                               *)
Aged(entries) == {[e EXCEPT !.age = @ + 1] : e \in {d \in entries : d.age + 1 < Window}}

(* All coins were seen: the next poll, with the multiple-testing burden of *)
(* every journal computed anew.                                            *)
Poll ==
  /\ pc = "scan" /\ todo = {}
  /\ todo' = watched
  /\ engine' = [engine EXCEPT !.counted = Aged(engine.counted)]
  /\ entered' = Aged(entered)
  /\ open' \in IF fresh THEN [Coins -> BOOLEAN] ELSE {open}
  /\ fresh' = FALSE
  /\ loose' = {c \in loose : pos[c] > 0 \/ \E o \in late : o.coin = c}
  /\ UNCHANGED <<pc, watched, book, job, col0, saved, exchange, faults, crashes>>

(* No new bar, or the request for it raised.                               *)
SameBar(c) ==
  /\ pc = "scan" /\ c \in todo
  /\ todo' = todo \ {c}
  /\ UNCHANGED <<pc, watched, book, job, engine, col0, journals, exchange, history>>

(* A bar without a trade: flat without ignition, or a position held short  *)
(* of the time stop.                                                       *)
MayHold(c) == book[c] + 1 < MaxHold

Quiet(c) ==
  /\ pc = "scan" /\ c \in todo
  /\ \/ book[c] = Flat /\ UNCHANGED book
     \/ book[c] # Flat /\ MayHold(c) /\ book' = [book EXCEPT ![c] = @ + 1]
  /\ todo' = todo \ {c}
  /\ UNCHANGED <<pc, watched, job, engine, col0, journals, exchange, history>>

Enter(c) ==
  /\ pc = "scan" /\ c \in todo /\ book[c] = Flat
  /\ pos[c] + Cardinality({o \in late : o.coin = c}) < MaxLots
  /\ book' = [book EXCEPT ![c] = 0]
  /\ todo' = todo \ {c} /\ pc' = "entry" /\ job' = [coin |-> c, n |-> 0]
  /\ UNCHANGED <<watched, engine, col0, journals, exchange, history>>

(* The actions of the paper book, and those carried out with real orders.  *)
Exits(c) == {"EXIT_STOP", "EXIT_TRAIL"} \cup IF MayHold(c) THEN {} ELSE {"EXIT_TIME"}
CarriedOutTrailing == {"ENTER", "EXIT_STOP", "EXIT_TRAILING", "EXIT_TIME"}
CarriedOutEarly == {"ENTER", "EXIT_STOP", "EXIT_TRAIL"}
CarriedOut == {"ENTER", "EXIT_STOP", "EXIT_TRAIL", "EXIT_TIME"}

(* The paper trade is over and recorded before the live position is looked *)
(* at.                                                                     *)
Exit(c) ==
  /\ pc = "scan" /\ c \in todo /\ book[c] # Flat
  /\ book' = [book EXCEPT ![c] = Flat]
  /\ \E verdict \in BOOLEAN : open' = [open EXCEPT ![c] = verdict]
  /\ fresh' = TRUE
  /\ todo' = todo \ {c}
  /\ \E action \in Exits(c) :
       IF action \in CarriedOut THEN pc' = "exit" /\ job' = [coin |-> c, n |-> 0]
                               ELSE UNCHANGED <<pc, job>>
  /\ UNCHANGED <<watched, engine, col0, saved, exchange, history>>

(* append_event raises after the book went flat: the exit is not retried.  *)
ExitUnrecorded(c) ==
  /\ pc = "scan" /\ c \in todo /\ book[c] # Flat /\ faults < MaxFaults
  /\ book' = [book EXCEPT ![c] = Flat]
  /\ todo' = todo \ {c} /\ loose' = loose \cup {c} /\ faults' = faults + 1
  /\ UNCHANGED <<pc, watched, job, engine, col0, journals, exchange, entered, crashes>>

-----------------------------------------------------------------------------
(* _maybe_execute                                                          *)

(* Back to the loop over the coins.                                        *)
Back == pc' = "scan" /\ job' = NoJob /\ UNCHANGED <<watched, todo, book, col0>>

(* An exit that did nothing leaves its coin loose.                         *)
Missed == loose' = IF pc \in {"exit", "close"} THEN loose \cup {job.coin} ELSE loose

(* The gate is asked before an exit as before an entry.                    *)
GateShut ==
  /\ pc \in {"entry", "exit"} /\ ~open[job.coin]
  /\ Back /\ Missed
  /\ UNCHANGED <<engine, journals, exchange, entered, faults, crashes>>

(* A read or the building of the exchange client raises; main() prints it  *)
(* and goes on with the next coin.                                         *)
Raises ==
  /\ pc \notin {"down", "scan"} /\ faults < MaxFaults
  /\ Back /\ Missed
  /\ faults' = faults + 1
  /\ UNCHANGED <<engine, journals, exchange, entered, crashes>>

Notional == Tier * col

TooSmall ==
  /\ pc = "entry" /\ open[job.coin] /\ Notional < 100 * MinOrder
  /\ Back
  /\ UNCHANGED <<engine, journals, exchange, history>>

(* evaluate(): the equity is the collateral.                               *)
Anchored == IF engine.anchor = NoAnchor THEN col ELSE engine.anchor
BreachedNow == 100 * col < Anchored * (100 - Drawdown)
Breached == engine.tripped \/ BreachedNow
Spent    == MapThenSumSet(LAMBDA e : e.n, engine.counted)
Within   ==
  /\ Notional <= NotionalPct * col0
  /\ Cardinality(engine.counted) < MaxTx
  /\ Spent + Notional <= SpendPct * col0
  /\ Notional * 1001 <= 100 * col * 1000

Asked == pc = "entry" /\ open[job.coin] /\ Notional >= 100 * MinOrder

DenyBreaker ==
  /\ Asked /\ Breached
  /\ engine' = [anchor |-> Anchored, tripped |-> TRUE, counted |-> engine.counted]
  /\ Back
  /\ UNCHANGED <<journals, exchange, history>>

Deny ==
  /\ Asked /\ ~Breached /\ ~Within
  /\ engine' = [anchor |-> Anchored, tripped |-> engine.tripped, counted |-> engine.counted]
  /\ Back
  /\ UNCHANGED <<journals, exchange, history>>

Allow ==
  /\ Asked /\ ~Breached /\ Within
  /\ engine' = [anchor |-> Anchored, tripped |-> engine.tripped, counted |-> engine.counted]
  /\ pc' = "buy" /\ job' = [coin |-> job.coin, n |-> Notional]
  /\ UNCHANGED <<watched, todo, book, col0, journals, exchange, history>>

(* open_positions() has the position to be closed, or none.                *)
FindPosition ==
  /\ pc = "exit" /\ open[job.coin] /\ pos[job.coin] > 0
  /\ pc' = "close" /\ job' = [coin |-> job.coin, n |-> pos[job.coin]]
  /\ UNCHANGED <<watched, todo, book, engine, col0, journals, exchange, history>>

FindNothing ==
  /\ pc = "exit" /\ open[job.coin] /\ pos[job.coin] = 0
  /\ Back
  /\ UNCHANGED <<engine, journals, exchange, history>>

-----------------------------------------------------------------------------
(* submit()                                                                *)

(* The entry is registered, and the engine's state saved, for two values   *)
(* that OrderState does not have.                                          *)
Counted(state) == state \in {"FILLED", "OPEN"}

Entry == [coin |-> job.coin, age |-> 0, n |-> job.n]
Registered ==
  [anchor |-> engine.anchor, tripped |-> engine.tripped, counted |-> engine.counted \cup {Entry}]
Registers(state) ==
  /\ engine' = IF Counted(state) THEN Registered ELSE engine
  /\ saved'  = IF Counted(state) THEN Registered ELSE saved

Bought ==
  /\ pc = "buy"
  /\ pos' = [pos EXCEPT ![job.coin] = @ + 1]
  /\ entered' = entered \cup {Entry}
  /\ Registers("filled") /\ Back
  /\ UNCHANGED <<open, fresh, col, late, loose, faults, crashes>>

(* Reduce-only: what is no longer there cannot be sold.                    *)
ReducedBelow(held, size) == held - size
Reduced(held, size) == IF size <= held THEN held - size ELSE 0

(* An IOC close may be filled in part.                                     *)
Closed ==
  /\ pc = "close"
  /\ \E size \in 1 .. job.n :
       /\ size < job.n => faults < MaxFaults
       /\ faults' = IF size < job.n THEN faults + 1 ELSE faults
       /\ loose' = IF size < job.n THEN loose \cup {job.coin} ELSE loose
       /\ pos' = [pos EXCEPT ![job.coin] = Reduced(@, size)]
  /\ Back
  /\ UNCHANGED <<engine, journals, col, late, entered, crashes>>

Refused ==
  /\ pc \in {"buy", "close"} /\ faults < MaxFaults
  /\ faults' = faults + 1
  /\ Missed /\ Back
  /\ IF pc = "buy" THEN Registers("rejected") ELSE UNCHANGED <<engine, saved>>
  /\ UNCHANGED <<open, fresh, exchange, entered, crashes>>

(* The order of the call in progress.                                      *)
Sent == [id |-> faults, coin |-> job.coin,
         side |-> IF pc = "buy" THEN "BUY" ELSE "SELL",
         size |-> IF pc = "buy" THEN 1 ELSE job.n]

OutOfSight(state) ==
  /\ pc \in {"buy", "close"} /\ faults < MaxFaults
  /\ faults' = faults + 1
  /\ late' = late \cup {Sent} /\ loose' = loose \cup {job.coin}
  /\ Back
  /\ IF pc = "buy" THEN Registers(state) ELSE UNCHANGED <<engine, saved>>
  /\ UNCHANGED <<open, fresh, col, pos, entered, crashes>>

-----------------------------------------------------------------------------
(* The exchange, deaths                                                    *)

Executed(o) == IF o.side = "BUY" THEN pos[o.coin] + o.size ELSE Reduced(pos[o.coin], o.size)

Land(o) ==
  /\ pos' = [pos EXCEPT ![o.coin] = Executed(o)]
  /\ late' = late \ {o}
  /\ UNCHANGED <<process, journals, col, history>>

Vanish(o) ==
  /\ late' = late \ {o}
  /\ UNCHANGED <<process, journals, col, pos, history>>

Reprice ==
  /\ pc \in {"down", "scan"}
  /\ col' \in Collaterals \ {col}
  /\ UNCHANGED <<process, journals, pos, late, history>>

(* The process dies; a POST under way may have left it.  What it held open *)
(* is nobody's business any more.                                          *)
Exposed(c) == pos[c] > 0 \/ c = job.coin \/ \E o \in late : o.coin = c

Crash ==
  /\ pc # "down" /\ crashes < MaxCrashes
  /\ crashes' = crashes + 1
  /\ pc' = "down" /\ watched' = {} /\ todo' = {} /\ book' = AllFlat /\ job' = NoJob
  /\ engine' = Fresh /\ col0' = 0
  /\ late' \in {late} \cup
       IF pc \in {"buy", "close"} THEN {late \cup {[Sent EXCEPT !.id = MaxFaults + crashes]}}
                                  ELSE {}
  /\ loose' = loose \cup {c \in Coins : Exposed(c)}
  /\ UNCHANGED <<journals, col, pos, entered, faults>>

-----------------------------------------------------------------------------
NewBar(c) == Quiet(c) \/ Enter(c) \/ Exit(c) \/ ExitUnrecorded(c)

Execute ==
  \/ GateShut \/ TooSmall \/ DenyBreaker \/ Deny \/ Allow \/ FindPosition \/ FindNothing
  \/ Bought \/ Closed

Trouble == Raises \/ Refused \/ OutOfSight("open") \/ OutOfSight("unknown")

Next ==
  \/ Start \/ Poll \/ Execute \/ Trouble \/ Reprice \/ Crash
  \/ \E c \in Coins : SameBar(c) \/ NewBar(c)
  \/ \E o \in late : Land(o) \/ Vanish(o)

Spec == Init /\ [][Next]_vars

(* systemd restarts the unit, the loop never blocks for good, and a minute *)
(* after the last bar of a coin there is a new one.                        *)
AutoFairness ==
  /\ WF_vars(Start) /\ WF_vars(Poll) /\ WF_vars(Execute)
  /\ \A c \in Coins : WF_vars(SameBar(c) \/ NewBar(c)) /\ SF_vars(NewBar(c))

AutoFairSpec == Spec /\ AutoFairness

-----------------------------------------------------------------------------
(* Properties                                                              *)

(* A paper book that is flat while the account holds the coin.             *)
Orphan(c) == pos[c] > 0 /\ book[c] = Flat /\ ~(pc \in {"exit", "close"} /\ job.coin = c)

(* A live position outlives its paper trade only if the gate was shut at   *)
(* the exit, something raised, the order was refused, filled in part or    *)
(* went out of sight, or the process died: there is no other way out of    *)
(* _maybe_execute that leaves one behind.                                  *)
OrphanExplained == \A c \in Coins : Orphan(c) => c \in loose

(* Every live position is closed in the end, by the time stop at the       *)
(* latest, unless one of those things happened to its coin.                *)
PositionIsClosed == \A c \in Coins : pos[c] > 0 ~> (pos[c] = 0 \/ c \in loose)

(* While a process runs, a tripped breaker stays tripped and lets it buy   *)
(* nothing, however the collateral recovers.                               *)
TrippedBuysNothing ==
  [][engine.tripped /\ pc # "down" /\ pc' # "down"
       => engine'.tripped /\ (pc' = "buy" => pc = "buy")]_vars

(* An exit is never blocked: with the paper book flat the account is flat  *)
(* (_maybe_execute: a blocked exit would strand a live position).  This    *)
(* fails when the gate shuts while a position is held.                     *)
NeverStranded == \A c \in Coins : ~Orphan(c)

(* The entries filled within a window stay within the spend budget         *)
(* (PolicyConfig: rule 7, "cumulative spend").                             *)
SpendBudgetKept ==
  pc # "down" => MapThenSumSet(LAMBDA e : e.n, entered) <= SpendPct * col0

(* A tripped breaker is on disk before the loop goes on (_build_policy:    *)
(* "a restart cannot silently un-trip the breaker").                       *)
TripIsDurable ==
  pc = "scan" /\ engine.tripped => saved # Nothing /\ saved.tripped
=============================================================================
