----------------------------- MODULE FillEngine -----------------------------
(***************************************************************************)
(* The fill engine (marketlab/fills.py): a market order walks the depth of *)
(* the book.                                                               *)
(***************************************************************************)
EXTENDS Integers, FiniteSets, Sequences, SequencesExt

CONSTANTS Px, Sz    \* prices and sizes of a depth level

VARIABLE walk       \* the last fill: levels, side, size, answer

-----------------------------------------------------------------------------
(* walk_book() and MatchingFillModel.fill(): a market order eats the book  *)
(* level by level, best price first.                                       *)

Levels == [px : Px, sz : Sz]
Best(levels, side) ==
  SortSeq(levels, LAMBDA a, b : IF side = "buy" THEN a.px < b.px ELSE a.px > b.px)

WalkBook(levels, size) ==
  FoldLeft(LAMBDA w, l :
             LET take == IF w.left < l.sz THEN w.left ELSE l.sz
             IN [left |-> w.left - take, cost |-> w.cost + take * l.px, filled |-> w.filled + take],
           [left |-> size, cost |-> 0, filled |-> 0], levels)

NoWalk == [levels |-> <<>>, side |-> "buy", size |-> 0,
           fill |-> [left |-> 0, cost |-> 0, filled |-> 0]]

Fill(levels, side, size) ==
  /\ walk = NoWalk
  /\ walk' = [levels |-> levels, side |-> side, size |-> size,
              fill |-> WalkBook(Best(levels, side), size)]

FillInit == walk = NoWalk
FillNext ==
  \E n \in 1..3, side \in {"buy", "sell"}, size \in 1..4 :
    \E levels \in [1..n -> Levels] : Fill(levels, side, size)

-----------------------------------------------------------------------------
(* What single units would cost, each taken where it is cheapest.          *)
UnitPrices(levels) ==
  FoldLeft(LAMBDA s, l : s \o [i \in 1..l.sz |-> l.px], <<>>, levels)

(* No way of taking the same number of units from the book costs a buyer   *)
(* less, or pays a seller more; only an exhausted book fills in part.      *)
WalkIsBest ==
  LET units == UnitPrices(walk.levels)
      f     == walk.fill
  IN /\ f.filled = IF Len(units) < walk.size THEN Len(units) ELSE walk.size
     /\ \A S \in SUBSET DOMAIN units :
          Cardinality(S) = f.filled =>
            LET cost == FoldLeft(LAMBDA c, i : IF i \in S THEN c + units[i] ELSE c,
                                 0, [i \in 1..Len(units) |-> i])
            IN IF walk.side = "buy" THEN f.cost <= cost ELSE f.cost >= cost
=============================================================================
