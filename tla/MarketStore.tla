----------------------------- MODULE MarketStore -----------------------------
(***************************************************************************)
(* The market store (marketlab/store.py): candles are synced page by page  *)
(* from a venue whose last candle is still moving, into a table with one   *)
(* row per time.                                                           *)
(***************************************************************************)
EXTENDS Integers, FiniteSets, Sequences, SequencesExt

CONSTANTS
  PageSize,        \* rows the venue returns at most
  MaxCandle,       \* bound: candles of the venue
  MaxVersion,      \* bound: updates of a candle while it is open
  MaxStoreFaults   \* bound: calls that raise

(* A venue that answers with a page answers with a row.                    *)
ASSUME PageAssumption == PageSize \in Nat \ {0}

VARIABLES
  venue,     \* the venue: time -> version of the candle, final once another follows
  store,     \* the table: time -> version stored
  sync,      \* sync_candles(): its window, cur and seen, or not running
  synced,    \* history: the window of the last sync that returned
  sfaults    \* faults so far

storevars == <<venue, store, sync, synced, sfaults>>

Latest == CHOOSE t \in DOMAIN venue : \A u \in DOMAIN venue : u <= t
Idle == [on |-> FALSE, from |-> 0, cur |-> 0, now |-> 0, seen |-> {}]
NoSync == [from |-> 1, to |-> 0]

(* The venue moves: its open candle changes, or closes and the next opens. *)
VenueTrades ==
  /\ venue[Latest] < MaxVersion
  /\ venue' = [venue EXCEPT ![Latest] = @ + 1]
  /\ UNCHANGED <<store, sync, synced, sfaults>>

VenueOpens ==
  /\ Latest < MaxCandle
  /\ venue' = [t \in DOMAIN venue \cup {Latest + 1} |-> IF t \in DOMAIN venue THEN venue[t] ELSE 1]
  /\ UNCHANGED <<store, sync, synced, sfaults>>

(* candleSnapshot: the oldest PageSize candles between cur and now.        *)
Page == {t \in DOMAIN venue : t >= sync.cur /\ t <= sync.now /\ t < sync.cur + PageSize}

SyncStart(days) ==
  /\ ~sync.on
  /\ LET first == IF Latest > days THEN Latest - days ELSE 1
     IN sync' = [on |-> TRUE, from |-> first, cur |-> first, now |-> Latest, seen |-> {}]
  /\ UNCHANGED <<venue, store, synced, sfaults>>

(* One page: INSERT OR REPLACE, then on from the newest row.               *)
UpsertIgnore(rows) == [t \in DOMAIN store \cup rows |-> IF t \in DOMAIN store THEN store[t] ELSE venue[t]]
Upsert(rows) == [t \in DOMAIN store \cup rows |-> IF t \in rows THEN venue[t] ELSE store[t]]
SyncPage ==
  /\ sync.on /\ sync.cur <= sync.now
  /\ LET new == Page \ sync.seen
     IN /\ new # {}
        /\ store' = Upsert(new)
        /\ sync' = [sync EXCEPT !.seen = @ \cup new, !.cur = (CHOOSE t \in new : \A u \in new : u <= t) + 1]
  /\ UNCHANGED <<venue, synced, sfaults>>

(* No new row, or the end of the window.                                   *)
SyncEnd ==
  /\ sync.on
  /\ sync.cur <= sync.now => Page \ sync.seen = {}
  /\ sync' = Idle
  /\ synced' = [from |-> sync.from, to |-> sync.now]
  /\ UNCHANGED <<venue, store, sfaults>>

(* The call raises; the pages stored so far stay.                          *)
SyncRaises ==
  /\ sync.on /\ sfaults < MaxStoreFaults
  /\ sync' = Idle /\ sfaults' = sfaults + 1
  /\ UNCHANGED <<venue, store, synced>>

StoreInit ==
  /\ venue = [t \in {1} |-> 1] /\ store = <<>> /\ sync = Idle
  /\ synced = NoSync /\ sfaults = 0

StoreNext ==
  \/ VenueTrades \/ VenueOpens
  \/ \E d \in 1..MaxCandle : SyncStart(d)
  \/ SyncPage \/ SyncEnd \/ SyncRaises

-----------------------------------------------------------------------------
(* A sync that returned has every candle of its window, also when earlier  *)
(* ones were cut short; and every one of them that was closed by then has  *)
(* its final value, whatever an older sync stored while it was open.       *)
StoreIsVenue ==
  \A t \in synced.from..synced.to :
    t \in DOMAIN store /\ (t < synced.to => store[t] = venue[t])
=============================================================================
