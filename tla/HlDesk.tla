------------------------------- MODULE HlDesk -------------------------------
(* The two desk scripts that move money on Hyperliquid by hand:              *)
(* hl_scalp.py, which brackets an entry with a reduce-only stop and flattens *)
(* with --close, and hl_live_order.py, which opens without a stop.  Each is  *)
(* one process that lives as long as one order: it checks, posts, reconciles *)
(* by client order id, places the stop and ends.  Meanwhile the price may    *)
(* reach a stop, and the process may die or raise at any call.               *)
(*                                                                           *)
(* Amounts are dollars at a price that stands still; buying is TRUE.         *)
EXTENDS Integers, Sequences, SequencesExt

CONSTANTS Usds, Collaterals, MaxLevs, Caps,  \* --usd, the account, --max-lev, --cap
          Lot,                               \* what a partial fill is a multiple of
          MaxFires                           \* bound: processes started with --send

ASSUME DeskAssumption == Usds \subseteq Nat

VARIABLES desk,      \* the process, or NoDesk
          position,  \* the account's position, signed
          guards,    \* the resting reduce-only stops
          bare,      \* how much of the position has a known reason to lack a stop, per side
          flips,     \* orders meant to reduce that opened the other side
          fires      \* processes started

deskvars == <<desk, position, guards, bare, flips, fires>>

NoDesk == [script |-> "none"]
MinNotional == 10
MaxLevHard == 5
MaxAttempts == 3

Size(n) == IF n < 0 THEN -n ELSE n
Least(a, b) == IF a < b THEN a ELSE b
Signed(buy, n) == IF buy THEN n ELSE -n
Held(p, buy) == IF Signed(buy, p) > 0 THEN Size(p) ELSE 0   \* of p, on that side

(* HyperliquidExecutor._guard: the cap binds even a close, the floor an open. *)
WithinGuard(usd, cap, ro) == usd <= cap /\ (ro \/ (usd >= MinNotional /\ cap >= MinNotional))

(* hl_scalp's own guard: of this order, whatever is held already.            *)
WithinLeverage(usd, collateral, lev) == usd <= Least(lev, MaxLevHard) * collateral

Process(script, buy, usd, cap, ro) ==
  [script |-> script, at |-> "post", buy |-> buy, usd |-> usd, cap |-> cap, ro |-> ro,
   tries |-> 0, filled |-> 0, known |-> 0, sure |-> FALSE]

Launch(d) ==
  /\ desk = NoDesk /\ fires < MaxFires
  /\ desk' = d /\ fires' = fires + 1
  /\ UNCHANGED <<position, guards, bare, flips>>

Scalp ==
  \E buy \in BOOLEAN, usd \in Usds, cap \in Caps, lev \in MaxLevs, c \in Collaterals :
    /\ c > 0 /\ WithinLeverage(usd, c, lev)
    /\ WithinGuard(usd, cap, FALSE)
    /\ Launch(Process("scalp", buy, usd, cap, FALSE))

(* Both close what they saw held; only hl_live_order previews it first.      *)
Flatten ==
  \E script \in {"close", "order"}, cap \in Caps :
    /\ position # 0
    /\ script = "order" => WithinGuard(Size(position), cap, TRUE)
    /\ Launch(Process(script, position < 0, Size(position), cap, TRUE))

LiveOrder ==
  \E buy \in BOOLEAN, usd \in Usds, cap \in Caps :
    /\ WithinGuard(usd, cap, FALSE)
    /\ Launch(Process("order", buy, usd, cap, FALSE))

(* The process is gone, and n of the position it opened has no stop of its   *)
(* own.  What is flat, or on the other side, needs none.                     *)
Excused(b, buy, n, p) ==
  [s \in BOOLEAN |-> Least(b[s] + (IF s = buy THEN n ELSE 0), Held(p, s))]

Exit(n) ==
  /\ desk' = NoDesk
  /\ bare' = Excused(bare, desk.buy, IF desk.ro THEN 0 ELSE n, position)
  /\ UNCHANGED <<position, guards, flips, fires>>

(* What the venue may execute of an immediate-or-cancel order: nothing, or   *)
(* lots of it; of a reduce-only one at most what it can reduce; nothing      *)
(* twice under one client order id.                                          *)
CanReduce(buy, p) == Held(p, ~buy)
SentSize(usd, ro, buy, p) == IF ro THEN Least(usd, CanReduce(buy, p)) ELSE usd
Executions(d) ==
  IF d.filled > 0 THEN {0}
  ELSE {0} \cup {n \in 1..SentSize(d.usd, d.ro, d.buy, position) : n % Lot = 0}

Opens(p, q) == \E buy \in BOOLEAN : Held(q, buy) > Held(p, buy)

(* place_order: the guard again, and the answer as the manager hears it --   *)
(* "accepted", "refused" (an in-band error, never reconciled) or "unknown"   *)
(* (no answer, or one that does not parse: reconciled and posted again).     *)
Refused ==
  /\ desk # NoDesk /\ desk.at = "post"
  /\ ~WithinGuard(desk.usd, desk.cap, desk.ro)
  /\ Exit(desk.filled)

Post ==
  /\ desk # NoDesk /\ desk.at = "post"
  /\ WithinGuard(desk.usd, desk.cap, desk.ro)
  /\ \E n \in Executions(desk), answer \in {"accepted", "refused", "unknown"} :
       LET held == position + Signed(desk.buy, n)
       IN  /\ answer = "accepted" => n > 0
           /\ answer = "refused" => n = 0
           /\ position' = held
           /\ flips' = IF desk.ro /\ Opens(position, held)
                       THEN flips + 1 ELSE flips
           /\ IF answer = "refused"
              THEN /\ desk' = NoDesk
                   /\ bare' = Excused(bare, desk.buy, IF desk.ro THEN 0 ELSE desk.filled, held)
              ELSE /\ desk' = [desk EXCEPT !.at = "reconcile", !.tries = @ + 1,
                                           !.filled = @ + n, !.sure = answer = "accepted"]
                   /\ bare' = Excused(bare, desk.buy, 0, held)
  /\ UNCHANGED <<guards, fires>>

(* reconcile: the fills the info endpoint lists by now under the client      *)
(* order id, which may be none or only the first of them.                    *)
Listed == {n \in 0..desk.filled : n % Lot = 0}

Learn ==
  /\ desk # NoDesk /\ desk.at = "reconcile"
  /\ \E n \in Listed \ {0} :
       IF desk.script = "scalp"
       THEN /\ desk' = [desk EXCEPT !.at = "stop", !.known = n]
            /\ UNCHANGED <<position, guards, bare, flips, fires>>
       ELSE Exit(desk.filled)

LearnNothing ==
  /\ desk # NoDesk /\ desk.at = "reconcile"
  /\ IF desk.sure \/ desk.tries >= MaxAttempts
     THEN Exit(desk.filled)
     ELSE /\ desk' = [desk EXCEPT !.at = "post"]
          /\ UNCHANGED <<position, guards, bare, flips, fires>>

(* _place_stop: opposite to the entry, of the size the fill was learned to   *)
(* have.  An in-band error is printed as a stop that was placed.             *)
StopFor(buy, n) == [buy |-> ~buy, size |-> n]

PlaceStop ==
  /\ desk # NoDesk /\ desk.at = "stop"
  /\ guards' = Append(guards, StopFor(desk.buy, desk.known))
  /\ bare' = Excused(bare, desk.buy, desk.filled - desk.known, position)
  /\ desk' = NoDesk
  /\ UNCHANGED <<position, flips, fires>>

StopRefused == desk # NoDesk /\ desk.at = "stop" /\ Exit(desk.filled)

(* Killed, or a call of the info endpoint that raises: the manager catches   *)
(* what place_order classifies, and reconcile classifies nothing.            *)
Die == desk # NoDesk /\ Exit(desk.filled)

(* The price reaches a stop: reduce-only, at the market, once.               *)
Fire ==
  /\ \E i \in DOMAIN guards :
       LET g == guards[i]
           held == position + Signed(g.buy, Least(g.size, CanReduce(g.buy, position)))
       IN  /\ guards' = RemoveAt(guards, i)
           /\ position' = held
           /\ bare' = Excused(bare, TRUE, 0, held)
           /\ flips' = IF Opens(position, held) THEN flips + 1 ELSE flips
  /\ UNCHANGED <<desk, fires>>

DeskInit ==
  /\ desk = NoDesk /\ position = 0 /\ guards = <<>> /\ flips = 0 /\ fires = 0
  /\ bare = [s \in BOOLEAN |-> 0]

DeskNext ==
  \/ Scalp \/ Flatten \/ LiveOrder
  \/ Post \/ Refused \/ Learn \/ LearnNothing
  \/ PlaceStop \/ StopRefused \/ Die \/ Fire

StopsOn(buy) == FoldSeq(LAMBDA g, a : IF g.buy = buy THEN a + g.size ELSE a, 0, guards)

(* Whatever the order of entries on both sides, closes and stops that fire,  *)
(* between processes the resting stops cover the position but for what has a *)
(* known reason to lack one: opened without a stop, a fill the venue did not *)
(* list yet, a stop that was refused, a process that died.  A close leaves   *)
(* its stops resting and a later entry is netted against them                *)
(* (hl_scalp.py 82-98, 149-156).                                             *)
PositionIsGuarded ==
  desk = NoDesk =>
    \A buy \in BOOLEAN : Held(position, buy) <= StopsOn(~buy) + bare[buy]

(* What is meant to reduce only reduces: a close sized on a position that a  *)
(* stop has taken meanwhile, posted again after a lost answer, or a stop     *)
(* left from an earlier entry, opens nothing (live_executor.py:61).          *)
ReducesOnly == flips = 0
=============================================================================
