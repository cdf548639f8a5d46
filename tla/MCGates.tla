------------------------------- MODULE MCGates -------------------------------
(* Everything that has to say yes before money moves.  The parts share no    *)
(* state, so that every behaviour is one of one of them.                     *)
EXTENDS TLC, CapitalGates, RiskVerdicts, BitsoLadder, HlDesk, Staleness

VARIABLE part    \* whose behaviour this is

Alike == Permutations(Strategies)

gatevars == <<capvars, verdictvars, relayvars, ladvars, deskvars, freshvars>>

GatesInit ==
  /\ part \in {"capital", "verdicts", "relay", "ladder", "desk", "clock"}
  /\ CapInit /\ VerdictInit /\ RelayInit /\ LadInit /\ DeskInit /\ FreshInit
  /\ part # "capital" => books = [s \in Strategies |-> CHOOSE b \in Young : TRUE]
  /\ part # "verdicts" => asked.judge = "legs"
  /\ part # "relay" => skew = 0
  /\ part # "ladder" => ~emu.withdrawals

GatesNext ==
  /\ UNCHANGED part
  /\ \/ /\ part = "capital" /\ CapNext
        /\ UNCHANGED <<verdictvars, relayvars, ladvars, deskvars, freshvars>>
     \/ /\ part = "verdicts" /\ VerdictNext
        /\ UNCHANGED <<capvars, relayvars, ladvars, deskvars, freshvars>>
     \/ /\ part = "relay" /\ RelayNext
        /\ UNCHANGED <<capvars, verdictvars, ladvars, deskvars, freshvars>>
     \/ /\ part = "ladder" /\ LadNext
        /\ UNCHANGED <<capvars, verdictvars, relayvars, deskvars, freshvars>>
     \/ /\ part = "desk" /\ DeskNext
        /\ UNCHANGED <<capvars, verdictvars, relayvars, ladvars, freshvars>>
     \/ /\ part = "clock" /\ FreshNext
        /\ UNCHANGED <<capvars, verdictvars, relayvars, ladvars, deskvars>>

GatesSpec == GatesInit /\ [][GatesNext]_<<part, gatevars>>

------------------------------------------------------------------------------
(* Money is staged only for what earned it, and the broker, the digest and   *)
(* the risk report, which work the verdict out apart, do not contradict each *)
(* other (run_orchestrator.py:74, broker.py:52, analyst.py:88).              *)
CapitalIsEarned == part = "capital" => StagedIsEarned /\ VerdictsAgree

(* The limits that stop or bound what runs: the drift kill switch answers    *)
(* for the whole stream it was shown (drift.py:34), and the allocator's      *)
(* budgets hold with every candidate in it (carry_portfolio_allocator.py:46).*)
LimitsHold == part = "verdicts" => KilledAsShown /\ BudgetsHold

(* No decision is made on data older than it says: the live loop's gate      *)
(* through a clock that drifts and steps (staleness.py:55), and the spread    *)
(* log through a relay that stops (relay_feed.py:25).                         *)
DataIsYoung == (part = "clock" => FreshIsYoung) /\ (part = "relay" => SpreadIsLive)

(* Whatever the transport does to the answers, the validation ladder places  *)
(* nothing unarmed; nothing with a key that can withdraw, unless its probe   *)
(* was not heard (404, or not authenticated), and then with a WARN; leaves   *)
(* nothing behind unless a call of an order rung failed; and tells a fill of *)
(* its own.  The emulator it is rehearsed on balances with its trade log.    *)
(* And the desk's Hyperliquid position is covered by its stops, and only     *)
(* opened on purpose (validation.py:38, mock.py:43, hl_scalp.py:149).        *)
VenueIsSafe ==
  /\ part = "ladder" => LadderIsSafe /\ EmulatorBalances
  /\ part = "desk" => PositionIsGuarded /\ ReducesOnly
=============================================================================
