------------------------------- MODULE MCBooks -------------------------------
(* The records the system keeps beside its orders, and the paper books whose *)
(* figures it later trusts.  They share no state, so that every behaviour is *)
(* one of one of them.                                                       *)
EXTENDS TLC, TaxLedger, AuditChain, NonceSource, MarketStore, FillEngine, Graveyard,
        FundingShadow, BasisShadow, ScalpShadow, MrScalp, PairsTrade,
        IgnitionLedger, ScalpSignal

VARIABLE part    \* whose behaviour this is

(* Coins, and the strategies' data, are compared for equality only.          *)
Alike == Permutations(Coins) \cup Permutations(Contents)

recordvars == <<taxvars, audvars, nvars, storevars, walk, gravevars, ignvars>>
papervars == <<shadowvars, basisvars, scalpvars, mrvars, pairvars, signalvars>>

BooksInit ==
  /\ part \in {"tax", "audit", "nonce", "store", "fill", "grave", "ignition",
               "funding", "basis", "scalp", "mr", "pairs", "signal"}
  /\ TaxInit /\ AuditInit /\ NonceInit /\ StoreInit /\ FillInit /\ GraveInit /\ IgnInit
  /\ ShadowInit /\ BasisInit /\ ScalpInit /\ MrInit /\ PairInit /\ SignalInit
  /\ part # "audit" => ~audup
  /\ part # "funding" => minAge = (CHOOSE a \in MinAges : TRUE) /\ ~gated

RecordsNext ==
  \/ part = "tax" /\ TaxNext /\ UNCHANGED <<audvars, nvars, storevars, walk, gravevars, ignvars>>
  \/ part = "audit" /\ AuditNext /\ UNCHANGED <<taxvars, nvars, storevars, walk, gravevars, ignvars>>
  \/ part = "nonce" /\ NonceNext /\ UNCHANGED <<taxvars, audvars, storevars, walk, gravevars, ignvars>>
  \/ part = "store" /\ StoreNext /\ UNCHANGED <<taxvars, audvars, nvars, walk, gravevars, ignvars>>
  \/ part = "fill" /\ FillNext /\ UNCHANGED <<taxvars, audvars, nvars, storevars, gravevars, ignvars>>
  \/ part = "grave" /\ GraveNext /\ UNCHANGED <<taxvars, audvars, nvars, storevars, walk, ignvars>>
  \/ part = "ignition" /\ IgnNext
     /\ UNCHANGED <<taxvars, audvars, nvars, storevars, walk, gravevars>>

PaperNext ==
  \/ part = "funding" /\ ShadowNext /\ UNCHANGED <<basisvars, scalpvars, mrvars, pairvars, signalvars>>
  \/ part = "basis" /\ BasisNext /\ UNCHANGED <<shadowvars, scalpvars, mrvars, pairvars, signalvars>>
  \/ part = "scalp" /\ ScalpNext /\ UNCHANGED <<shadowvars, basisvars, mrvars, pairvars, signalvars>>
  \/ part = "mr" /\ MrNext /\ UNCHANGED <<shadowvars, basisvars, scalpvars, pairvars, signalvars>>
  \/ part = "pairs" /\ PairNext /\ UNCHANGED <<shadowvars, basisvars, scalpvars, mrvars, signalvars>>
  \/ part = "signal" /\ SignalNext
     /\ UNCHANGED <<shadowvars, basisvars, scalpvars, mrvars, pairvars>>

BooksNext ==
  /\ UNCHANGED part
  /\ \/ RecordsNext /\ UNCHANGED papervars
     \/ PaperNext /\ UNCHANGED recordvars

BooksSpec == BooksInit /\ [][BooksNext]_<<part, recordvars, papervars>>

------------------------------------------------------------------------------
(* What each property asks of each part; the others are as they began.       *)

(* What outlives a crash: a sale the tax ledger acknowledged is in its file  *)
(* (risk/tax.py:196); an audit file that verifies is the history the log     *)
(* acknowledged or the beginning of it, so that a line edited, inserted,     *)
(* exchanged or taken from the middle is told and a missing tail is not      *)
(* (audit.py:48); and no nonce is sent twice while the clock runs forward    *)
(* (bitso/signer.py:37).                                                     *)
RecordsSurvive ==
  /\ part = "tax" => TaxAckedIsKept
  /\ part = "audit" => AuditTells
  /\ part = "nonce" => NoncesRise

(* What is computed piecewise agrees with its meaning: FIFO matching with    *)
(* the amounts bought and sold (tax.py:110), paged syncs with the venue      *)
(* (store.py:84), the walked book with the cheapest way to fill             *)
(* (fills.py:39), the graveyard with every burial so far (graveyard.py:60),  *)
(* the ledger of picks with one bet at a time (ignition_detector.py:52), its *)
(* outcomes with the candles (_coinbase.py:47), and the streamed indicators  *)
(* with those of the whole history (mr_scalp.py:93).                         *)
RecordsAgree ==
  /\ part = "tax" => TaxBooksAgree
  /\ part = "store" => StoreIsVenue
  /\ part = "fill" => WalkIsBest
  /\ part = "grave" => CorpsesAreCaught
  /\ part = "ignition" => BetsAreSeparate /\ PathIsWhole
  /\ part = "signal" => StreamIsBatch

(* A paper book that is fed one reading at a time is the backtest of the     *)
(* same readings: the carry rebuilt from its ledger by every hourly call     *)
(* (shadow.py:68, carry_backtest.py:49), the scalper for as long as one      *)
(* process runs (scalp_shadow.py:29, run_scalp_shadow.py:63).                *)
BooksAreBacktests ==
  /\ part = "funding" => BookIsContinuous /\ EpisodesAgree
  /\ part = "scalp" => BookIsBacktest

(* What a book reports adds up.  For the two that keep a ledger, over        *)
(* restarts and whatever an append left of its line (journal.py:34):         *)
(* convergence (shadow_basis.py:111) and rows (run_scalp_shadow.py:54).  And *)
(* the counters of the maker backtest (mr_scalp_backtest.py:115) and the     *)
(* pairs' return (pairs_backtest.py:42).                                     *)
ReturnsAddUp ==
  /\ part = "basis" => ConvergenceTelescopes
  /\ part = "scalp" => RowsCompound
  /\ part = "mr" => ScalpAccounts
  /\ part = "pairs" => PairsTelescope

(* No fold trains, at or after its test, on a sample whose label reads what  *)
(* a test label reads within the embargo, though before the test nothing is  *)
(* purged (cv.py:31); and no momentum position depends on the close that     *)
(* pays it, or on a later one (tsmom_backtest.py:64).                        *)
NothingLooksAhead == part = "pairs" => FoldsAreClean /\ PositionsLookBack
=============================================================================
