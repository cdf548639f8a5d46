-------------------------- MODULE AutonomousProofs --------------------------
(***************************************************************************)
(* Proofs about Autonomous, for any coins, knobs and budgets of faults:    *)
(* its types (with them, that no position is ever short), that a stranded  *)
(* position is always explained, and that a tripped engine buys nothing.   *)
(***************************************************************************)
EXTENDS Autonomous, TLAPS

LEMMA NatTimes == ASSUME NEW a \in Nat, NEW b \in Nat PROVE a * b \in Nat
  OBVIOUS

LEMMA ReducedNat == ASSUME NEW held \in Nat, NEW size \in Nat
                    PROVE  Reduced(held, size) \in Nat
  BY DEF Reduced

LEMMA AgedEntries == ASSUME NEW E, E \subseteq Entries PROVE Aged(E) \subseteq Entries
<1>1. SUFFICES ASSUME NEW d \in E PROVE [d EXCEPT !.age = @ + 1] \in Entries
  BY <1>1 DEF Aged
<1>2. d \in [coin : Coins, age : Nat, n : Nat]
  BY DEF Entries
<1>3. [d EXCEPT !.age = @ + 1] \in [coin : Coins, age : Nat, n : Nat]
  BY <1>2
<1> QED BY <1>3 DEF Entries

LEMMA FreshIsEngine == Fresh \in Engines
  BY DEF Fresh, Engines, NoAnchor

(* The anchor an evaluation leaves behind.                                 *)
LEMMA EvaluatedEngine ==
  ASSUME AutoTypeOK, NEW t \in BOOLEAN
  PROVE  [anchor |-> Anchored, tripped |-> t, counted |-> engine.counted] \in Engines
<1>1. engine \in Engines /\ col \in Nat
  BY DEF AutoTypeOK
<1>2. Anchored \in Nat \cup {NoAnchor}
  BY <1>1 DEF Anchored, Engines
<1>3. engine.counted \in SUBSET Entries
  BY <1>1 DEF Engines
<1> QED BY <1>2, <1>3 DEF Engines

LEMMA RegisteredEngine ==
  ASSUME AutoTypeOK, pc = "buy"
  PROVE  Entry \in Entries /\ Registered \in Engines
<1>1. Entry \in Entries
  BY DEF AutoTypeOK, Entry, Entries
<1>2. engine.anchor \in Nat \cup {NoAnchor} /\ engine.tripped \in BOOLEAN
      /\ engine.counted \subseteq Entries
  BY DEF AutoTypeOK, Engines
<1>3. engine.counted \cup {Entry} \in SUBSET Entries
  BY <1>1, <1>2
<1> QED BY <1>1, <1>2, <1>3 DEF Registered, Engines

LEMMA RegistersTypes ==
  ASSUME AutoTypeOK, pc = "buy", NEW state, Registers(state)
  PROVE  engine' \in Engines /\ saved' \in Engines \cup {Nothing}
  BY RegisteredEngine DEF Registers, AutoTypeOK

LEMMA SentIsOrder ==
  ASSUME AutoTypeOK, pc \in {"buy", "close"}
  PROVE  Sent \in Orders
<1>1. job.coin \in Coins /\ job.n \in Nat /\ faults \in Nat
  BY DEF AutoTypeOK
<1>2. (IF pc = "buy" THEN "BUY" ELSE "SELL") \in {"BUY", "SELL"}
  OBVIOUS
<1>3. (IF pc = "buy" THEN 1 ELSE job.n) \in Nat
  BY <1>1
<1> QED BY <1>1, <1>2, <1>3 DEF Sent, Orders

LEMMA BackTypes ==
  ASSUME AutoTypeOK, Back
  PROVE  /\ pc' \in Labels /\ watched' \subseteq Coins /\ todo' \subseteq watched'
         /\ book' \in [Coins -> Nat \cup {Flat}] /\ col0' \in Nat
         /\ job' \in [coin : Coins \cup {Nothing}, n : Nat]
         /\ pc' \notin {"down", "scan"} => job'.coin \in Coins
  BY DEF AutoTypeOK, Back, Labels, NoJob

LEMMA MissedTypes ==
  ASSUME AutoTypeOK, Missed, pc \notin {"down", "scan"}
  PROVE  loose' \subseteq Coins
  BY DEF AutoTypeOK, Missed

-----------------------------------------------------------------------------
(* Types                                                                   *)

LEMMA InitTypes == Init => AutoTypeOK
<1> SUFFICES ASSUME Init PROVE AutoTypeOK
  OBVIOUS
<1>1. book \in [Coins -> Nat \cup {Flat}] /\ pos \in [Coins -> Nat]
  BY DEF Init, AllFlat
<1>2. job \in [coin : Coins \cup {Nothing}, n : Nat]
  BY DEF Init, NoJob
<1>3. engine \in Engines /\ saved \in Engines \cup {Nothing} /\ col \in Nat
  BY AccountAssumption, FreshIsEngine DEF Init
<1> QED BY <1>1, <1>2, <1>3 DEF Init, AutoTypeOK, Labels

(* The armed loop's state keeps its types, whatever fails and whenever the *)
(* process dies; so no live position is ever short.                        *)
LEMMA StepTypes == AutoTypeOK /\ [Next]_vars => AutoTypeOK'
<1> SUFFICES ASSUME AutoTypeOK, [Next]_vars PROVE AutoTypeOK'
  OBVIOUS
<1> USE BudgetAssumption, KnobAssumption, AccountAssumption
<1>1. CASE Start
  <2>1. engine' \in Engines
    BY <1>1, FreshIsEngine DEF Start, AutoTypeOK
  <2> QED BY <1>1, <2>1 DEF Start, AutoTypeOK, Labels, journals, exchange, history
<1>2. CASE Poll
  <2>1. engine.counted \subseteq Entries
    BY DEF AutoTypeOK, Engines
  <2>2. Aged(engine.counted) \in SUBSET Entries /\ Aged(entered) \in SUBSET Entries
    BY <2>1, AgedEntries DEF AutoTypeOK
  <2>3. engine' \in Engines
    BY <1>2, <2>2 DEF Poll, AutoTypeOK, Engines
  <2> QED BY <1>2, <2>2, <2>3 DEF Poll, AutoTypeOK, Labels, exchange
<1>3. ASSUME NEW c \in Coins, SameBar(c) PROVE AutoTypeOK'
  BY <1>3 DEF SameBar, AutoTypeOK, Labels, journals, exchange, history
<1>4. ASSUME NEW c \in Coins, Quiet(c) PROVE AutoTypeOK'
  <2>1. book' \in [Coins -> Nat \cup {Flat}]
    BY <1>4 DEF Quiet, AutoTypeOK, Flat
  <2> QED BY <1>4, <2>1 DEF Quiet, AutoTypeOK, Labels, journals, exchange, history
<1>5. ASSUME NEW c \in Coins, Enter(c) PROVE AutoTypeOK'
  BY <1>5 DEF Enter, AutoTypeOK, Labels, journals, exchange, history
<1>6. ASSUME NEW c \in Coins, Exit(c) PROVE AutoTypeOK'
  <2>1. book' \in [Coins -> Nat \cup {Flat}] /\ open' \in [Coins -> BOOLEAN]
    BY <1>6 DEF Exit, AutoTypeOK, Flat
  <2>2. /\ pc' \in Labels /\ job' \in [coin : Coins \cup {Nothing}, n : Nat]
        /\ pc' \notin {"down", "scan"} => job'.coin \in Coins
    BY <1>6 DEF Exit, AutoTypeOK, Labels
  <2> QED BY <1>6, <2>1, <2>2 DEF Exit, AutoTypeOK, exchange, history
<1>7. ASSUME NEW c \in Coins, ExitUnrecorded(c) PROVE AutoTypeOK'
  <2>1. book' \in [Coins -> Nat \cup {Flat}]
    BY <1>7 DEF ExitUnrecorded, AutoTypeOK, Flat
  <2> QED BY <1>7, <2>1 DEF ExitUnrecorded, AutoTypeOK, Labels, journals, exchange
<1>8. CASE GateShut
  BY <1>8, BackTypes, MissedTypes DEF GateShut, AutoTypeOK, journals, exchange
<1>9. CASE Raises
  BY <1>9, BackTypes, MissedTypes DEF Raises, AutoTypeOK, journals, exchange
<1>10. CASE TooSmall
  BY <1>10, BackTypes DEF TooSmall, AutoTypeOK, journals, exchange, history
<1>11. CASE DenyBreaker
  <2>1. engine' \in Engines
    BY <1>11, EvaluatedEngine DEF DenyBreaker
  <2> QED BY <1>11, <2>1, BackTypes DEF DenyBreaker, AutoTypeOK, journals, exchange, history
<1>12. CASE Deny
  <2>1. engine' \in Engines
    BY <1>12, EvaluatedEngine DEF Deny, AutoTypeOK, Engines
  <2> QED BY <1>12, <2>1, BackTypes DEF Deny, AutoTypeOK, journals, exchange, history
<1>13. CASE Allow
  <2>1. engine' \in Engines
    BY <1>13, EvaluatedEngine DEF Allow, AutoTypeOK, Engines
  <2>2. Notional \in Nat
    BY NatTimes DEF AutoTypeOK, Notional
  <2>3. job.coin \in Coins
    BY <1>13 DEF Allow, Asked, AutoTypeOK
  <2> QED BY <1>13, <2>1, <2>2, <2>3 DEF Allow, AutoTypeOK, Labels, journals, exchange, history
<1>14. CASE FindPosition
  BY <1>14 DEF FindPosition, AutoTypeOK, Labels, journals, exchange, history
<1>15. CASE FindNothing
  BY <1>15, BackTypes DEF FindNothing, AutoTypeOK, journals, exchange, history
<1>16. CASE Bought
  <2>1. job.coin \in Coins /\ pos' \in [Coins -> Nat]
    BY <1>16 DEF Bought, AutoTypeOK
  <2>2. entered' \subseteq Entries
    BY <1>16, RegisteredEngine DEF Bought, AutoTypeOK
  <2>3. engine' \in Engines /\ saved' \in Engines \cup {Nothing}
    BY <1>16, RegistersTypes DEF Bought
  <2> QED BY <1>16, <2>1, <2>2, <2>3, BackTypes DEF Bought, AutoTypeOK
<1>17. CASE Closed
  <2>1. job.coin \in Coins /\ job.n \in Nat
    BY <1>17 DEF Closed, AutoTypeOK
  <2>2. PICK size \in 1 .. job.n :
          /\ faults' = IF size < job.n THEN faults + 1 ELSE faults
          /\ loose' = IF size < job.n THEN loose \cup {job.coin} ELSE loose
          /\ pos' = [pos EXCEPT ![job.coin] = Reduced(@, size)]
    BY <1>17 DEF Closed
  <2>3. size \in Nat
    BY <2>1
  <2>4. pos' \in [Coins -> Nat]
    BY <2>1, <2>2, <2>3, ReducedNat DEF AutoTypeOK
  <2>5. faults' \in Nat /\ loose' \subseteq Coins
    BY <2>1, <2>2 DEF AutoTypeOK
  <2> QED BY <1>17, <2>4, <2>5, BackTypes DEF Closed, AutoTypeOK, journals
<1>18. CASE Refused
  <2>1. engine' \in Engines /\ saved' \in Engines \cup {Nothing}
    BY <1>18, RegistersTypes DEF Refused, AutoTypeOK
  <2> QED BY <1>18, <2>1, BackTypes, MissedTypes DEF Refused, AutoTypeOK, exchange
<1>19. ASSUME NEW state, OutOfSight(state) PROVE AutoTypeOK'
  <2>1. engine' \in Engines /\ saved' \in Engines \cup {Nothing}
    BY <1>19, RegistersTypes DEF OutOfSight, AutoTypeOK
  <2>2. late' \subseteq Orders
    BY <1>19, SentIsOrder DEF OutOfSight, AutoTypeOK
  <2>3. loose' \subseteq Coins
    BY <1>19 DEF OutOfSight, AutoTypeOK
  <2> QED BY <1>19, <2>1, <2>2, <2>3, BackTypes DEF OutOfSight, AutoTypeOK
<1>20. ASSUME NEW o \in late, Land(o) PROVE AutoTypeOK'
  <2>1. o.coin \in Coins /\ o.size \in Nat
    BY DEF AutoTypeOK, Orders
  <2> DEFINE held == pos[o.coin]
  <2>a. held \in Nat
    BY <2>1 DEF AutoTypeOK
  <2>b. Reduced(held, o.size) \in Nat
    <3> HIDE DEF held
    <3> QED BY <2>1, <2>a, ReducedNat
  <2>c. held + o.size \in Nat
    BY <2>1, <2>a
  <2>2. Executed(o) \in Nat
    BY <2>b, <2>c DEF Executed
  <2>3. pos' \in [Coins -> Nat]
    BY <1>20, <2>2 DEF Land, AutoTypeOK
  <2> QED BY <1>20, <2>3 DEF Land, AutoTypeOK, process, journals, history
<1>21. ASSUME NEW o \in late, Vanish(o) PROVE AutoTypeOK'
  BY <1>21 DEF Vanish, AutoTypeOK, process, journals, history
<1>22. CASE Reprice
  BY <1>22 DEF Reprice, AutoTypeOK, process, journals, history
<1>23. CASE Crash
  <2>1. pc \in {"buy", "close"} => [Sent EXCEPT !.id = MaxFaults + crashes] \in Orders
    BY SentIsOrder DEF AutoTypeOK, Orders
  <2>2. late' \subseteq Orders
    BY <1>23, <2>1 DEF Crash, AutoTypeOK
  <2> QED BY <1>23, <2>2, FreshIsEngine
          DEF Crash, AutoTypeOK, AllFlat, NoJob, Labels, journals
<1>24. CASE UNCHANGED vars
  BY <1>24 DEF vars, process, journals, exchange, history, AutoTypeOK
<1> QED
  BY <1>1, <1>2, <1>3, <1>4, <1>5, <1>6, <1>7, <1>8, <1>9, <1>10, <1>11, <1>12, <1>13,
     <1>14, <1>15, <1>16, <1>17, <1>18, <1>19, <1>20, <1>21, <1>22, <1>23, <1>24
  DEF Next, NewBar, Execute, Trouble

(* No live position is ever short: every sell is reduce-only, whenever it  *)
(* is executed.                                                            *)
THEOREM NeverShort == Spec => []AutoTypeOK
  BY InitTypes, StepTypes, PTL DEF Spec
-----------------------------------------------------------------------------
(* Stranded positions                                                      *)

(* A coin with an order out of sight is loose; an entry under way has its  *)
(* paper trade; a close under way covers the position, or the coin is      *)
(* loose.                                                                  *)
LateIsLoose   == \A o \in late : o.coin \in loose
EntryIsHeld   == pc \in {"entry", "buy"} => book[job.coin] # Flat
CloseCovers   == pc = "close" => pos[job.coin] <= job.n \/ job.coin \in loose
OrphanInv     == OrphanExplained /\ LateIsLoose /\ EntryIsHeld /\ CloseCovers

(* Ending the call in progress loses its coin's exemption only.            *)
LEMMA BackOrphans ==
  ASSUME AutoTypeOK, OrphanInv, Back, pc \notin {"down", "scan"},
         loose \subseteq loose',
         \A c \in Coins : c # job.coin => pos'[c] = pos[c],
         pc \in {"exit", "close"} => pos'[job.coin] = 0 \/ job.coin \in loose',
         \A o \in late' : o.coin \in loose'
  PROVE  OrphanInv'
<1>1. job.coin \in Coins
  BY DEF AutoTypeOK
<1>2. ASSUME NEW c \in Coins, Orphan(c)' PROVE c \in loose'
  <2>1. book[c] = Flat /\ pos'[c] > 0
    BY <1>2 DEF Orphan, Back
  <2>2. CASE c # job.coin
    BY <2>1, <2>2 DEF Orphan, OrphanInv, OrphanExplained
  <2>3. CASE c = job.coin /\ pc \in {"exit", "close"}
    BY <2>1, <2>3
  <2>4. CASE c = job.coin /\ pc \in {"entry", "buy"}
    BY <2>1, <2>4 DEF OrphanInv, EntryIsHeld
  <2> QED BY <2>2, <2>3, <2>4 DEF AutoTypeOK, Labels
<1> QED BY <1>2 DEF OrphanInv, OrphanExplained, LateIsLoose, EntryIsHeld, CloseCovers, Back

(* However the loop, the exchange and the machine misbehave, a position    *)
(* whose paper trade is over belongs to a coin that is known to be loose.  *)
LEMMA StepOrphans == AutoTypeOK /\ OrphanInv /\ [Next]_vars => OrphanInv'
<1> SUFFICES ASSUME AutoTypeOK, OrphanInv, [Next]_vars PROVE OrphanInv'
  OBVIOUS
<1> USE DEF OrphanInv, OrphanExplained, LateIsLoose, EntryIsHeld, CloseCovers, Orphan
<1>0. late \subseteq Orders /\ pos \in [Coins -> Nat] /\ loose \subseteq Coins
  BY DEF AutoTypeOK
<1>1. CASE Start
  BY <1>1 DEF Start, journals, exchange, history
<1>2. CASE Poll
  BY <1>0, <1>2 DEF Poll, exchange, Orders
<1>3. ASSUME NEW c \in Coins, SameBar(c) PROVE OrphanInv'
  BY <1>3 DEF SameBar, exchange, history
<1>4. ASSUME NEW c \in Coins, Quiet(c) PROVE OrphanInv'
  <2>1. \A d \in Coins : book'[d] = Flat <=> book[d] = Flat
    BY <1>4 DEF Quiet, AutoTypeOK, Flat
  <2> QED BY <1>4, <2>1 DEF Quiet, exchange, history
<1>5. ASSUME NEW c \in Coins, Enter(c) PROVE OrphanInv'
  BY <1>5 DEF Enter, exchange, history, AutoTypeOK, Flat
<1>6. ASSUME NEW c \in Coins, Exit(c) PROVE OrphanInv'
  <2>1. pc = "scan" /\ pc' = "exit" /\ job'.coin = c
    BY <1>6 DEF Exit, Exits, CarriedOut
  <2>2. \A d \in Coins : d # c => book'[d] = book[d]
    BY <1>6 DEF Exit, AutoTypeOK
  <2>3. UNCHANGED <<pos, late, loose>>
    BY <1>6 DEF Exit, exchange, history
  <2> QED BY <2>1, <2>2, <2>3
<1>7. ASSUME NEW c \in Coins, ExitUnrecorded(c) PROVE OrphanInv'
  BY <1>7 DEF ExitUnrecorded, exchange, AutoTypeOK
<1>8. CASE GateShut
  BY <1>8, BackOrphans DEF GateShut, Missed, exchange
<1>9. CASE Raises
  BY <1>9, BackOrphans DEF Raises, Missed, exchange
<1>10. CASE TooSmall
  BY <1>10, BackOrphans DEF TooSmall, exchange, history
<1>11. CASE DenyBreaker
  BY <1>11, BackOrphans DEF DenyBreaker, Asked, exchange, history
<1>12. CASE Deny
  BY <1>12, BackOrphans DEF Deny, Asked, exchange, history
<1>13. CASE Allow
  BY <1>13 DEF Allow, Asked, exchange, history
<1>14. CASE FindPosition
  BY <1>0, <1>14 DEF FindPosition, exchange, history, AutoTypeOK
<1>15. CASE FindNothing
  BY <1>15, BackOrphans DEF FindNothing, exchange, history
<1>16. CASE Bought
  BY <1>0, <1>16, BackOrphans DEF Bought
<1>17. CASE Closed
  <2>1. job.coin \in Coins /\ job.n \in Nat
    BY <1>17 DEF Closed, AutoTypeOK
  <2>2. PICK size \in 1 .. job.n :
          /\ loose' = IF size < job.n THEN loose \cup {job.coin} ELSE loose
          /\ pos' = [pos EXCEPT ![job.coin] = Reduced(@, size)]
    BY <1>17 DEF Closed
  <2>3. pos'[job.coin] = 0 \/ job.coin \in loose'
    BY <1>0, <1>17, <2>1, <2>2 DEF Closed, Reduced
  <2> QED BY <1>0, <1>17, <2>1, <2>2, <2>3, BackOrphans DEF Closed
<1>18. CASE Refused
  BY <1>18, BackOrphans DEF Refused, Missed, exchange
<1>19. ASSUME NEW state, OutOfSight(state) PROVE OrphanInv'
  BY <1>19, BackOrphans DEF OutOfSight, Sent
<1>20. ASSUME NEW o \in late, Land(o) PROVE OrphanInv'
  <2>1. o.coin \in loose /\ loose' = loose /\ late' \subseteq late
    BY <1>20 DEF Land, history
  <2>2. \A c \in Coins : c # o.coin => pos'[c] = pos[c]
    BY <1>0, <1>20 DEF Land
  <2>3. UNCHANGED <<pc, book, job>>
    BY <1>20 DEF Land, process
  <2>4. pc = "close" => job.coin \in Coins
    BY DEF AutoTypeOK
  <2> QED BY <2>1, <2>2, <2>3, <2>4
<1>21. ASSUME NEW o \in late, Vanish(o) PROVE OrphanInv'
  BY <1>21 DEF Vanish, process, history
<1>22. CASE Reprice
  BY <1>22 DEF Reprice, process, history
<1>23. CASE Crash
  <2>1. \A o \in late' : o.coin \in loose'
    BY <1>0, <1>23 DEF Crash, Exposed, Sent, Orders, AutoTypeOK
  <2> QED BY <1>23, <2>1 DEF Crash, Exposed
<1>24. CASE UNCHANGED vars
  BY <1>24 DEF vars, process, exchange, history
<1> QED
  BY <1>1, <1>2, <1>3, <1>4, <1>5, <1>6, <1>7, <1>8, <1>9, <1>10, <1>11, <1>12, <1>13,
     <1>14, <1>15, <1>16, <1>17, <1>18, <1>19, <1>20, <1>21, <1>22, <1>23, <1>24
  DEF Next, NewBar, Execute, Trouble

(* A live position outlives its paper trade only for a coin that is loose. *)
THEOREM StrandedIsExplained == Spec => []OrphanExplained
<1>1. Init => OrphanInv
  BY DEF Init, OrphanInv, OrphanExplained, LateIsLoose, EntryIsHeld, CloseCovers, Orphan
<1>2. OrphanInv => OrphanExplained
  BY DEF OrphanInv
<1> QED BY <1>1, <1>2, InitTypes, StepTypes, StepOrphans, PTL DEF Spec

-----------------------------------------------------------------------------
(* The breaker within a process                                            *)

(* While a process runs, a tripped breaker stays tripped and buys nothing. *)
LEMMA StepTripped ==
  AutoTypeOK /\ [Next]_vars
    => (engine.tripped /\ pc # "down" /\ pc' # "down"
          => engine'.tripped /\ (pc' = "buy" => pc = "buy"))
<1> SUFFICES ASSUME AutoTypeOK, [Next]_vars, engine.tripped, pc # "down", pc' # "down"
             PROVE  engine'.tripped /\ (pc' = "buy" => pc = "buy")
  OBVIOUS
<1>1. CASE Start \/ Crash
  BY <1>1 DEF Start, Crash
<1>2. CASE Poll
  BY <1>2 DEF Poll, AutoTypeOK, Engines
<1>3. ASSUME NEW c \in Coins, SameBar(c) \/ NewBar(c)
      PROVE  engine'.tripped /\ (pc' = "buy" => pc = "buy")
  BY <1>3 DEF SameBar, NewBar, Quiet, Enter, Exit, ExitUnrecorded
<1>4. CASE GateShut \/ Raises \/ TooSmall \/ FindNothing \/ FindPosition \/ Closed
  BY <1>4 DEF GateShut, Raises, TooSmall, FindNothing, FindPosition, Closed, Back
<1>5. CASE DenyBreaker \/ Deny
  BY <1>5 DEF DenyBreaker, Deny, Back
<1>6. CASE Allow
  BY <1>6 DEF Allow, Breached
<1>7. CASE Bought
  BY <1>7 DEF Bought, Back, Registers, Registered
<1>8. CASE Refused
  BY <1>8 DEF Refused, Back, Registers, Registered
<1>9. ASSUME NEW state, OutOfSight(state)
      PROVE  engine'.tripped /\ (pc' = "buy" => pc = "buy")
  BY <1>9 DEF OutOfSight, Back, Registers, Registered
<1>10. ASSUME NEW o \in late, Land(o) \/ Vanish(o)
       PROVE  engine'.tripped /\ (pc' = "buy" => pc = "buy")
  BY <1>10 DEF Land, Vanish, process
<1>11. CASE Reprice \/ UNCHANGED vars
  BY <1>11 DEF Reprice, vars, process
<1> QED
  BY <1>1, <1>2, <1>3, <1>4, <1>5, <1>6, <1>7, <1>8, <1>9, <1>10, <1>11
  DEF Next, Execute, Trouble

(* While a process runs, a tripped breaker stays tripped and lets it buy   *)
(* nothing.                                                                *)
THEOREM TripHoldsInProcess == Spec => TrippedBuysNothing
<1>1. AutoTypeOK /\ [Next]_vars
        => [engine.tripped /\ pc # "down" /\ pc' # "down"
              => engine'.tripped /\ (pc' = "buy" => pc = "buy")]_vars
  BY StepTripped
<1> QED BY <1>1, InitTypes, StepTypes, PTL DEF Spec, TrippedBuysNothing
=============================================================================
