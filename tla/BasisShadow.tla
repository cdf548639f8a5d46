----------------------------- MODULE BasisShadow -----------------------------
(***************************************************************************)
(* The paper book of the basis carry (shadow_basis.py, signals/basis.py),  *)
(* rebuilt from its ledger by every call of run_shadow_basis.py: it enters *)
(* on a rich premium, earns funding and the convergence of the premium,    *)
(* and leaves when it has converged.                                       *)
(***************************************************************************)
EXTENDS Integers, FiniteSets, Sequences, SequencesExt, FiniteSetsExt, Journal

CONSTANTS
  Premiums, EnterPremium, ExitPremium,  \* (mark - oracle) / oracle, and thresholds
  Fundings,                             \* funding of the interval
  BasisFee,                             \* entry_cost and exit_cost
  MaxBasisObs,                          \* bound: intervals in the ledger
  MaxBasisFaults                        \* bound: calls whose append did not return

ASSUME BasisHysteresisAssumption == ExitPremium <= EnterPremium
ASSUME BasisAssumption ==
  /\ Premiums \subseteq Int /\ Fundings \subseteq Int /\ BasisFee \in Nat
  /\ EnterPremium \in Int /\ ExitPremium \in Int
  /\ MaxBasisObs \in Nat /\ MaxBasisFaults \in Nat

VARIABLES
  bfile,     \* the ledger
  bbook,     \* what the last call that ended reported: in position,
             \* prev_premium, totals
  bkept,     \* history: that call's line can be read
  btold,     \* history: the calls that ended
  brun       \* faults so far

basisvars == <<bfile, bbook, bkept, btold, brun>>

basis == ReadLedger(bfile)

BasisNew == [in |-> FALSE, prev |-> 0, entries |-> 0, exits |-> 0, holds |-> 0,
           funding |-> 0, conv |-> 0, costs |-> 0, net |-> 0]

(* BasisSignal.decide().                                                   *)
BasisDecide(in, premium) ==
  IF ~in THEN (IF premium >= EnterPremium THEN "ENTER" ELSE "FLAT")
  ELSE IF premium <= ExitPremium THEN "EXIT" ELSE "HOLD"

(* _record(): the totals.                                                  *)
RecordBasis(b, action, funding, conv, r) ==
  LET n == [b EXCEPT !.net = @ + r]
  IN CASE action = "ENTER" -> [n EXCEPT !.entries = @ + 1, !.costs = @ + BasisFee]
       [] action = "HOLD"  -> [n EXCEPT !.holds = @ + 1, !.funding = @ + funding, !.conv = @ + conv]
       [] action = "EXIT"  -> [n EXCEPT !.exits = @ + 1, !.costs = @ + BasisFee]
       [] action = "FLAT"  -> n

(* __post_init__: the counters, the position and the anchor from the lines.*)
StoredKeepingAnchor(b, e) ==
  LET conv == IF e.action = "HOLD" THEN e.r - e.f ELSE 0
      n    == RecordBasis(b, e.action, e.f, conv, e.r)
      in   == e.action \in {"ENTER", "HOLD"}
  IN [n EXCEPT !.in = in, !.prev = IF e.action = "ENTER" THEN e.premium ELSE @]
ApplyStored(b, e) ==
  LET conv == IF e.action = "HOLD" THEN e.r - e.f ELSE 0
      n    == RecordBasis(b, e.action, e.f, conv, e.r)
      in   == e.action \in {"ENTER", "HOLD"}
  IN [n EXCEPT !.in = in, !.prev = IF in THEN e.premium ELSE @]
BasisReplay == FoldLeft(ApplyStored, BasisNew, basis)

(* One call: the book is rebuilt; observe() decides, vetoes, earns against *)
(* the premium of the last interval in position, records and appends.      *)
BasisCall(funding, premium, allow, left, returned) ==
  LET book == BasisReplay
      raw  == BasisDecide(book.in, premium)
      act  == IF raw = "ENTER" /\ ~allow THEN "FLAT" ELSE raw
      conv == IF act = "HOLD" THEN book.prev - premium ELSE 0
      r    == CASE act \in {"ENTER", "EXIT"} -> 0 - BasisFee
                [] act = "HOLD" -> funding + conv
                [] act = "FLAT" -> 0
      b    == RecordBasis(book, act, funding, conv, r)
      seen == [b EXCEPT !.in = act \in {"ENTER", "HOLD"},
                        !.prev = IF act \in {"ENTER", "HOLD"} THEN premium ELSE @]
      line == [action |-> act, f |-> funding, premium |-> premium, r |-> r]
  IN /\ Len(basis) < MaxBasisObs
     /\ allow \/ raw = "ENTER"
     /\ returned => left = "line"
     /\ bfile' = Appended(bfile, line, left)
     /\ \/ /\ returned
           /\ bbook' = seen /\ bkept' = (bfile.tail = "none")
           /\ btold' = btold + 1 /\ UNCHANGED brun
        \/ /\ ~returned /\ brun < MaxBasisFaults
           /\ bkept' = FALSE /\ brun' = brun + 1
           /\ UNCHANGED <<bbook, btold>>

BasisInit ==
  /\ bfile = NewLedger /\ bbook = BasisNew /\ bkept = TRUE /\ btold = 0 /\ brun = 0

BasisNext ==
  \E f \in Fundings, p \in Premiums, allow \in BOOLEAN, left \in Leavings, returned \in BOOLEAN :
    BasisCall(f, p, allow, left, returned)

-----------------------------------------------------------------------------
BasisActs(a) == {i \in DOMAIN basis : basis[i].action = a}

(* The last line of the episode that line i enters.                        *)
EpisodeEnd(i) ==
  LET holds == {j \in i..Len(basis) : \A k \in (i + 1)..j : basis[k].action = "HOLD"}
  IN Max(holds)

(* Whatever the appends have left of the ledger, the book a call rebuilds  *)
(* is the book of the lines that read: they are a sequence of positions    *)
(* entered from flat and closed once; what was earned by convergence is,   *)
(* position by position, the premium at entry less the premium last seen;  *)
(* the return is funding and convergence less one fee per entry and per    *)
(* exit.  It is what the last call reported, if that call's line reads;    *)
(* and one line at most is missing or too many for each fault.             *)
ConvergenceTelescopes ==
  LET book == BasisReplay IN
  /\ \A i \in DOMAIN basis :
       basis[i].action \in {"HOLD", "EXIT"}
         <=> (i > 1 /\ basis[i - 1].action \in {"ENTER", "HOLD"})
  /\ book.conv = MapThenSumSet(LAMBDA i : basis[i].premium - basis[EpisodeEnd(i)].premium,
                               BasisActs("ENTER"))
  /\ book.net = book.funding + book.conv - book.costs
  /\ book.costs = BasisFee * (Cardinality(BasisActs("ENTER")) + Cardinality(BasisActs("EXIT")))
  /\ book.entries - book.exits = (IF book.in THEN 1 ELSE 0)
  /\ bkept => bbook = book
  /\ OffByOneEach(bfile, btold, brun)
=============================================================================
