------------------------------ MODULE TaxLedger ------------------------------
(***************************************************************************)
(* The FIFO tax ledger (treasuryforge/risk/tax.py): fills enter, sells are *)
(* matched against the oldest lots, the whole book is saved after each     *)
(* fill and loaded at the start.  Quantities, prices and fees are small    *)
(* numbers; a fee is a multiple of its quantity, so that proportional fees *)
(* are exact and the float tolerance of the code plays no part.            *)
(***************************************************************************)
EXTENDS Integers, Sequences, SequencesExt

CONSTANTS
  Coins,          \* the coins traded
  TaxPrices,      \* prices
  TaxQtys,        \* quantities
  MaxFills,       \* bound: fills that enter the book
  MaxTaxFaults    \* bound: failed saves, crashes, spoilt files

ASSUME TaxAssumption == TaxPrices \subseteq Nat /\ TaxQtys \subseteq Nat

VARIABLES
  tax,        \* the book in memory: active lots and matched trades
  taxfile,    \* the file: what it is, and the book it holds
  taxat,      \* "idle", "save" (inside add_fill), or "down"
  taxhist,    \* history: the fills behind tax, oldest first
  taxkept,    \* history: the fills behind taxfile
  taxids,     \* fills entered so far, each with an id of its own
  taxacked,   \* history: ids of the fills whose add_fill returned
  taxfaults,  \* faults so far
  taxspoilt   \* the file has been spoilt

taxvars == <<tax, taxfile, taxat, taxhist, taxkept, taxids, taxacked, taxfaults,
             taxspoilt>>

BuyLot == [coin : Coins, qty : Nat \ {0}, price : Nat \ {0}, fee : Nat, id : Nat]
MatchedTrade == [coin : Coins, qty : Nat \ {0}, bfee : Nat, sfee : Nat,
                 buy : Nat, sell : Nat, pnl : Int]
NoBook == [lots |-> <<>>, trades |-> <<>>]
OnDisk(book) == [is |-> "book", book |-> book]

(* An upper-case coin and side, and the checks that open add_fill.         *)
Fills == [coin : Coins, side : {"BUY", "SELL"}, qty : TaxQtys, price : TaxPrices, unit : {0, 1}]
BadFills == [coin : Coins, side : {"HOLD"}, qty : {1}, price : {1}, unit : {0}]
            \cup [coin : Coins, side : {"SELL"}, qty : {0, 1}, price : {0}, unit : {0}]
            \cup [coin : Coins, side : {"BUY"}, qty : {1}, price : {1}, unit : {-1}]
ValidFill(f) == f.qty > 0 /\ f.price > 0 /\ f.unit >= 0 /\ f.side \in {"BUY", "SELL"}

Fresh == taxids + 1

-----------------------------------------------------------------------------
(* _match_sell()                                                           *)

Available(lots, coin) ==
  FoldLeft(LAMBDA q, lot : IF lot.coin = coin THEN q + lot.qty ELSE q, 0, lots)

(* What stays of a lot when q of it is sold: its fee shrinks with it.      *)
Rest(lot, q, bfee) == [lot EXCEPT !.qty = @ - q, !.fee = @ - bfee]

(* One lot is matched against what is left of the sell f.                  *)
MatchLot(m, lot, f) ==
  IF lot.coin # f.coin \/ m.left = 0
  THEN [m EXCEPT !.lots = Append(@, lot)]
  ELSE LET q    == IF m.left < lot.qty THEN m.left ELSE lot.qty
           bfee == (lot.fee * q) \div lot.qty
           sfee == q * f.unit
       IN [left   |-> m.left - q,
           lots   |-> IF q = lot.qty THEN m.lots ELSE Append(m.lots, Rest(lot, q, bfee)),
           trades |-> Append(m.trades,
             [coin |-> f.coin, qty |-> q, bfee |-> bfee, sfee |-> sfee,
              buy |-> lot.id, sell |-> f.id,
              pnl |-> q * f.price - q * lot.price - bfee - sfee])]

MatchSell(lots, f) ==
  FoldLeft(LAMBDA m, lot : MatchLot(m, lot, f),
           [left |-> f.qty, lots |-> <<>>, trades |-> <<>>], lots)

-----------------------------------------------------------------------------
(* add_fill(), as far as the call of save()                                *)

Named(f) == [coin |-> f.coin, side |-> f.side, qty |-> f.qty, price |-> f.price,
             unit |-> f.unit, id |-> Fresh]

TaxBuy(f) ==
  /\ taxat = "idle" /\ taxids < MaxFills
  /\ ValidFill(f) /\ f.side = "BUY"
  /\ tax' = [tax EXCEPT !.lots = Append(@,
               [coin |-> f.coin, qty |-> f.qty, price |-> f.price,
                fee |-> f.qty * f.unit, id |-> Fresh])]
  /\ taxhist' = Append(taxhist, Named(f))
  /\ taxat' = "save" /\ taxids' = Fresh
  /\ UNCHANGED <<taxfile, taxkept, taxacked, taxfaults, taxspoilt>>

TaxSell(f) ==
  /\ taxat = "idle" /\ taxids < MaxFills
  /\ ValidFill(f) /\ f.side = "SELL"
  /\ Available(tax.lots, f.coin) >= f.qty
  /\ LET m == MatchSell(tax.lots, Named(f))
     IN tax' = [lots |-> m.lots, trades |-> tax.trades \o m.trades]
  /\ taxhist' = Append(taxhist, Named(f))
  /\ taxat' = "save" /\ taxids' = Fresh
  /\ UNCHANGED <<taxfile, taxkept, taxacked, taxfaults, taxspoilt>>

(* ValueError: a value out of range, an unknown side, or more sold than    *)
(* is held; the book is as it was.                                         *)
TaxRefuse(f) ==
  /\ taxat = "idle"
  /\ \/ ~ValidFill(f)
     \/ f.side = "SELL" /\ Available(tax.lots, f.coin) < f.qty
  /\ UNCHANGED taxvars

-----------------------------------------------------------------------------
(* save(): a temporary file, then os.replace                               *)

TaxSave ==
  /\ taxat = "save"
  /\ taxfile' = OnDisk(tax) /\ taxkept' = taxhist
  /\ taxacked' = taxacked \cup {taxhist[Len(taxhist)].id}
  /\ taxat' = "idle"
  /\ UNCHANGED <<taxids, tax, taxhist, taxfaults, taxspoilt>>

(* The disk refuses: the temporary file is removed and add_fill raises,    *)
(* with the fill in memory.                                                *)
TaxSaveFails ==
  /\ taxat = "save" /\ taxfaults < MaxTaxFaults
  /\ taxat' = "idle" /\ taxfaults' = taxfaults + 1
  /\ UNCHANGED <<taxids, tax, taxfile, taxhist, taxkept, taxacked, taxspoilt>>

(* The process dies inside save(), before or after the replacement, or it  *)
(* ends between two fills, which counts as no fault.                       *)
TaxCrash ==
  /\ \/ taxat = "idle" /\ UNCHANGED <<taxfile, taxkept, taxfaults>>
     \/ /\ taxat = "save" /\ taxfaults < MaxTaxFaults
        /\ \/ UNCHANGED <<taxfile, taxkept>>
           \/ taxfile' = OnDisk(tax) /\ taxkept' = taxhist
        /\ taxfaults' = taxfaults + 1
  /\ taxat' = "down"
  /\ tax' = NoBook /\ taxhist' = <<>>
  /\ UNCHANGED <<taxids, taxacked, taxspoilt>>

(* The file is spoilt from outside while no process runs: its text is no   *)
(* JSON or lacks a key, or it is JSON of another shape.                    *)
TaxSpoil ==
  /\ taxat = "down" /\ taxfaults < MaxTaxFaults /\ taxfile.is # "absent"
  /\ \E is \in {"garbled", "misshapen"} : taxfile' = [is |-> is, book |-> NoBook]
  /\ taxkept' = <<>>
  /\ taxspoilt' = TRUE /\ taxfaults' = taxfaults + 1
  /\ UNCHANGED <<taxids, tax, taxat, taxhist, taxacked>>

(* load(): no file and a garbled file give an empty book; of a misshapen   *)
(* one the error leaves the constructor.                                   *)
TaxLoad ==
  /\ taxat = "down" /\ taxfile.is # "misshapen"
  /\ tax' = taxfile.book
  /\ taxhist' = taxkept
  /\ taxat' = "idle"
  /\ UNCHANGED <<taxids, taxfile, taxkept, taxacked, taxfaults, taxspoilt>>

TaxLoadRaises ==
  /\ taxat = "down" /\ taxfile.is = "misshapen"
  /\ UNCHANGED taxvars

TaxInit ==
  /\ tax = NoBook /\ taxfile = [is |-> "absent", book |-> NoBook] /\ taxat = "idle"
  /\ taxhist = <<>> /\ taxkept = <<>> /\ taxacked = {} /\ taxids = 0
  /\ taxfaults = 0 /\ taxspoilt = FALSE

TaxNext ==
  \/ \E f \in Fills : TaxBuy(f) \/ TaxSell(f)
  \/ \E f \in Fills \cup BadFills : TaxRefuse(f)
  \/ TaxSave \/ TaxSaveFails \/ TaxCrash \/ TaxSpoil \/ TaxLoad \/ TaxLoadRaises

-----------------------------------------------------------------------------
(* The reference: a queue of single units.  A sell takes the oldest units  *)
(* of its coin, one at a time, and each unit knows its own result.         *)

Repeat(x, n) == [i \in 1..n |-> x]

(* What one unit earned, and what a unit that nobody held is booked as.      *)
Profit(u, f) == [buy |-> u.id, sell |-> f.id, pnl |-> f.price - u.price - u.unit - f.unit]
Short(f) == [buy |-> 0, sell |-> f.id, pnl |-> 0]

IsOldest(units, i, coin) ==
  units[i].coin = coin /\ \A j \in 1..(i - 1) : units[j].coin # coin

SellUnit(r, f) ==
  IF \A i \in DOMAIN r.units : r.units[i].coin # f.coin
  THEN [units |-> r.units, sold |-> Append(r.sold, Short(f))]
  ELSE LET k == CHOOSE i \in DOMAIN r.units : IsOldest(r.units, i, f.coin)
       IN  [units |-> RemoveAt(r.units, k), sold |-> Append(r.sold, Profit(r.units[k], f))]

Enter(r, f) ==
  IF f.side = "BUY"
  THEN [r EXCEPT !.units = @ \o Repeat([coin |-> f.coin, price |-> f.price,
                                        unit |-> f.unit, id |-> f.id], f.qty)]
  ELSE FoldLeft(SellUnit, r, Repeat(f, f.qty))

Reference(h) == FoldLeft(Enter, [units |-> <<>>, sold |-> <<>>], h)

(* A book, unit by unit.                                                   *)
UnitsOf(lots) ==
  FoldLeft(LAMBDA s, l : s \o Repeat([coin |-> l.coin, price |-> l.price,
                                      unit |-> l.fee \div l.qty, id |-> l.id], l.qty),
           <<>>, lots)
SoldOf(trades) ==
  FoldLeft(LAMBDA s, t : s \o Repeat([buy |-> t.buy, sell |-> t.sell,
                                      pnl |-> t.pnl \div t.qty], t.qty),
           <<>>, trades)

Tells(book, h) ==
  /\ UnitsOf(book.lots) = Reference(h).units
  /\ SoldOf(book.trades) = Reference(h).sold

(* get_inventory(), get_unrealized_cost_basis()                            *)
GetInventory(coin) ==
  FoldLeft(LAMBDA s, l : IF l.coin = coin THEN Append(s, l) ELSE s, <<>>, tax.lots)
CostBasis(coin) == FoldLeft(LAMBDA s, l : s + l.qty * l.price, 0, GetInventory(coin))

TotalPnl == FoldLeft(LAMBDA s, t : s + t.pnl, 0, tax.trades)

TaxTypeOK ==
  /\ \A i \in DOMAIN tax.lots : tax.lots[i] \in BuyLot
  /\ \A i \in DOMAIN tax.trades : tax.trades[i] \in MatchedTrade
  /\ taxat \in {"idle", "save", "down"}

(* However the lots are split by partial sells, and through failed saves,  *)
(* crashes and restarts, the book and the file hold what selling unit by   *)
(* unit, oldest first, gives for the fills behind them: the same units     *)
(* with their fees, the same profits, the same cost basis and the same     *)
(* total in the report.                                                    *)
TaxBooksAgree ==
  /\ TaxTypeOK
  /\ Tells(tax, taxhist)
  /\ Tells(taxfile.book, taxkept)
  /\ TotalPnl = FoldLeft(LAMBDA s, u : s + u.pnl, 0, Reference(taxhist).sold)
  /\ \A c \in Coins :
       CostBasis(c) = FoldLeft(LAMBDA s, u : IF u.coin = c THEN s + u.price ELSE s,
                               0, Reference(taxhist).units)

(* A fill whose add_fill returned is in the file for good, unless the file *)
(* was spoilt.                                                             *)
TaxAckedIsKept ==
  taxspoilt \/ \A id \in taxacked : \E i \in DOMAIN taxkept : taxkept[i].id = id
=============================================================================
