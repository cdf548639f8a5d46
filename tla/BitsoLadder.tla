----------------------------- MODULE BitsoLadder -----------------------------
(***************************************************************************)
(* The go/no-go ladder (exchanges/bitso/validation.py) run against the     *)
(* emulator of the exchange (mock.py), through the client, the executor    *)
(* and a transport that may lose, delay, refuse or garble any call.        *)
(* Amounts are centavos; one unit of the base asset costs Price of them.   *)
(***************************************************************************)
EXTENDS Integers, FiniteSetsExt, Sequences

CONSTANTS
  Price, FeeDiv,     \* the price, and the fee as a fraction 1/FeeDiv
  MinValue,          \* minimum_value of the book
  MaxMxn,            \* values of --max-mxn
  Amounts,           \* what the account's owner trades by hand
  MaxOrders,         \* bound: orders the owner places
  MaxLadders,        \* bound: runs of the ladder
  MaxNetFaults       \* bound: calls that do not come back as they should

ASSUME LadderAssumption ==
  /\ Price \in Nat \ {0} /\ FeeDiv \in Nat \ {0} /\ MinValue \in Int
  /\ Amounts \subseteq Nat /\ MaxMxn \subseteq Nat

VARIABLES
  emu,     \* the emulator: balances, orders, trades, counters, key scope
  lad,     \* the ladder: rung, arm, max_mxn, results, order handle, reads
  own,     \* orders placed by the owner so far
  runs,    \* ladders started so far
  blind,   \* history: the probe of this ladder was not answered as a
           \* withdrawal: no such path, or not authenticated
  hurt,    \* history: an order rung of this ladder met a fault
  netf     \* faults so far

ladvars == <<emu, lad, own, runs, blind, hurt, netf>>

-----------------------------------------------------------------------------
(* MockBitsoAPI: a request gives a reply and the next state                *)

OkReply(payload)  == [ok |-> TRUE, status |-> 200, code |-> "", payload |-> payload]
Err(status, code) == [ok |-> FALSE, status |-> status, code |-> code, payload |-> {}]

Order(kind, status, origin) ==
  [oid |-> emu.oid, kind |-> kind, status |-> status, origin |-> origin]
Trade(side, gross, quote, fee) ==
  [oid |-> emu.oid, side |-> side, major |-> gross, minor |-> quote, fee |-> fee]

NextOid == [emu EXCEPT !.oid = @ + 1]

(* A market order fills at once; the fee of a buy is taken from the base   *)
(* asset, that of a sell from the quote.                                   *)
FeeOfBuy(gross) == gross \div FeeDiv

PlaceMarket(side, gross, origin) ==
  LET quote == gross * Price
      fee   == IF side = "buy" THEN FeeOfBuy(gross) ELSE quote \div FeeDiv
  IN IF quote < MinValue
     THEN [reply |-> Err(400, "0309"), emu |-> NextOid]
     ELSE IF IF side = "buy" THEN emu.quote < quote ELSE emu.base < gross
     THEN [reply |-> Err(400, "0379"), emu |-> NextOid]
     ELSE [reply |-> OkReply({emu.oid}),
           emu |-> [NextOid EXCEPT
             !.quote  = IF side = "buy" THEN @ - quote ELSE @ + quote - fee,
             !.base   = IF side = "buy" THEN @ + gross - fee ELSE @ - gross,
             !.trades = @ \cup {Trade(side, gross, quote, fee)},
             !.orders = @ \cup {Order("market", "completed", origin)}]]

PlaceLimit(origin) ==
  [reply |-> OkReply({emu.oid}),
   emu   |-> [NextOid EXCEPT !.orders = @ \cup {Order("limit", "open", origin)}]]

OpenOids == {o.oid : o \in {x \in emu.orders : x.status = "open"}}

CancelAll ==
  [reply |-> OkReply(OpenOids),
   emu   |-> [emu EXCEPT !.orders = {IF o.status = "open" THEN [o EXCEPT !.status = "cancelled"]
                                     ELSE o : o \in @}]]

(* The endpoints that only read, by name.                                  *)
Read(what, oid) ==
  [emu   |-> emu,
   reply |-> CASE what \in {"books", "balance", "fees"} -> OkReply({})
               [] what = "open"     -> OkReply(OpenOids)
               [] what = "trades"   -> OkReply({t \in emu.trades : t.oid = oid})
               [] what = "withdraw" -> IF emu.withdrawals THEN Err(400, "0300")
                                       ELSE Err(401, "0202")]

-----------------------------------------------------------------------------
(* The transport: what a caller sees of an answer.  Status 0 stands for a  *)
(* timeout, before or after the request took effect; 420 is refused by the *)
(* exchange; an answer that is no JSON keeps its status and has no payload;*)
(* 404 is a path the exchange does not serve; and a request that fails to  *)
(* authenticate (signature, nonce, address) is turned away before it is    *)
(* looked at.                                                              *)

Unheard  == {"absent", "denied"}
Outcomes == {"ok", "lost", "late", "limited", "garbled"} \cup Unheard
Seen(outcome, reply) ==
  CASE outcome = "ok" -> reply
    [] outcome \in {"lost", "late"} -> Err(0, "")
    [] outcome = "limited" -> Err(420, "0301")
    [] outcome = "absent" -> Err(404, "0404")
    [] outcome = "denied" -> Err(401, "0201")
    [] outcome = "garbled" -> Err(reply.status, "")

(* A call of the ladder: result, as the transport brings it back.          *)
Call(outcome, result) ==
  /\ outcome # "ok" => netf < MaxNetFaults
  /\ netf' = IF outcome = "ok" THEN netf ELSE netf + 1
  /\ emu' = IF outcome \in {"lost", "limited"} \cup Unheard THEN emu ELSE result.emu
  /\ UNCHANGED <<own, runs>>

Goes(rung) == lad' = [lad EXCEPT !.rung = rung]
Add(name, status, rung) ==
  lad' = [lad EXCEPT !.out = Append(@, <<name, status>>), !.rung = rung]
Fail(name) == Add(name, "FAIL", "done")

-----------------------------------------------------------------------------
(* run_ladder(): rungs 1 to 4 read                                         *)

Rung1(o) ==
  /\ lad.rung = "books"
  /\ Call(o, Read("books", 0))
  /\ IF Seen(o, Read("books", 0).reply).ok
     THEN Add("1-available_books", "PASS", "balance") ELSE Fail("1-available_books")
  /\ o # "denied"    \* a public endpoint
  /\ UNCHANGED <<hurt, blind>>

Rung2(o) ==
  /\ lad.rung = "balance"
  /\ Call(o, Read("balance", 0))
  /\ IF Seen(o, Read("balance", 0).reply).ok
     THEN Add("2-balance", "PASS", "probe") ELSE Fail("2-balance")
  /\ UNCHANGED <<hurt, blind>>

(* Only a refusal for want of authority is a PASS; an answer that shows    *)
(* the probe got further, and one that shows nothing, end the ladder; but  *)
(* a probe that was not heard is a WARN, and the ladder goes on.           *)
AuthFailed == {"0201", "0206", "0207", "0213", "0215"}
ProbeTrusting(reply) ==
  IF reply.ok \/ reply.status \in {200, 201} THEN "FAIL"
  ELSE IF reply.code = "0202" THEN "PASS"
  ELSE "WARN"
Probe(reply) ==
  IF reply.ok \/ reply.status \in {200, 201} THEN "FAIL"
  ELSE IF reply.code = "0202" THEN "PASS"
  ELSE IF reply.status = 404 \/ reply.code \in AuthFailed THEN "WARN"
  ELSE "FAIL"

Rung3(o) ==
  /\ lad.rung = "probe"
  /\ Call(o, Read("withdraw", 0))
  /\ LET verdict == Probe(Seen(o, Read("withdraw", 0).reply))
     IN IF verdict = "FAIL" THEN Fail("3-no_withdraw")
        ELSE Add("3-no_withdraw", verdict, "fees")
  /\ blind' = (o \in Unheard) /\ UNCHANGED hurt

Rung4(o) ==
  /\ lad.rung = "fees"
  /\ Call(o, Read("fees", 0))
  /\ LET fees == <<"4-fees", IF Seen(o, Read("fees", 0).reply).ok THEN "PASS" ELSE "WARN">>
     IN lad' = IF lad.arm
               THEN [lad EXCEPT !.out = Append(@, fees), !.rung = "rest"]
               ELSE [lad EXCEPT !.out = @ \o <<fees, <<"5-kill_path", "SKIP">>,
                                                <<"6-tiny_order", "SKIP">> >>, !.rung = "done"]
  /\ UNCHANGED <<hurt, blind>>

-----------------------------------------------------------------------------
(* Rung 5: a resting order is placed, seen, cancelled and seen to be gone  *)

Hurts(o) == hurt' = (hurt \/ o # "ok") /\ UNCHANGED blind

(* place_order(): anything but success raises, and the ladder ends.        *)
Rest(o) ==
  /\ lad.rung = "rest"
  /\ Call(o, PlaceLimit("val-rest"))
  /\ IF Seen(o, PlaceLimit("val-rest").reply).ok
     THEN lad' = [lad EXCEPT !.rung = "see", !.oid = emu.oid] ELSE Fail("5/6-order")
  /\ Hurts(o)

(* The answer of a failed read has no payload, and shows no open order.    *)
SeeOpen(o) ==
  /\ lad.rung = "see"
  /\ Call(o, Read("open", 0))
  /\ lad' = [lad EXCEPT !.rung = "cancel",
               !.opened = lad.oid \in Seen(o, Read("open", 0).reply).payload]
  /\ Hurts(o)

(* Nobody looks at the answer of cancel_all().                             *)
Cancel(o) ==
  /\ lad.rung = "cancel"
  /\ Call(o, CancelAll)
  /\ Goes("gone") /\ Hurts(o)

StillOpen(payload) == lad.oid \in payload
SeeGone(o) ==
  /\ lad.rung = "gone"
  /\ Call(o, Read("open", 0))
  /\ IF lad.opened /\ ~StillOpen(Seen(o, Read("open", 0).reply).payload)
     THEN Add("5-kill_path", "PASS", "buy") ELSE Fail("5-kill_path")
  /\ Hurts(o)

-----------------------------------------------------------------------------
(* Rung 6: one small market buy, then its reconciliation                   *)

Spend == IF lad.max < 2000 THEN lad.max ELSE 2000

Buy(o) ==
  /\ lad.rung = "buy"
  /\ LET r == PlaceMarket("buy", Spend \div Price, "val-buy")
     IN /\ Call(o, r)
        /\ IF Seen(o, r.reply).ok
           THEN lad' = [lad EXCEPT !.rung = "reconcile", !.oid = emu.oid]
           ELSE Fail("5/6-order")
  /\ Hurts(o)

(* At most 1.5% of the notional may go to fees.                            *)
CheapEnough(t) == t.fee * Price * 1000 <= 15 * t.major * Price

(* reconcile(): no trade yet and a failed read are both Unfilled.          *)
Reconcile(o) ==
  /\ lad.rung = "reconcile"
  /\ LET r    == Read("trades", lad.oid)
         seen == Seen(o, r.reply)
     IN /\ Call(o, r)
        /\ IF ~seen.ok \/ seen.payload = {} THEN Fail("6-tiny_order")
           ELSE IF \A t \in seen.payload : CheapEnough(t)
                THEN Add("6-tiny_order", "PASS", "done") ELSE Fail("6-tiny_order")
  /\ Hurts(o)

-----------------------------------------------------------------------------
(* validate_live.py starts a ladder; the owner of the account trades too.  *)

NoLadder == [rung |-> "done", arm |-> FALSE, max |-> 0, out |-> <<>>, oid |-> 0, opened |-> FALSE]

Start(arm, max) ==
  /\ lad.rung = "done" /\ runs < MaxLadders
  /\ lad' = [NoLadder EXCEPT !.rung = "books", !.arm = arm, !.max = max]
  /\ runs' = runs + 1 /\ hurt' = FALSE /\ blind' = FALSE
  /\ UNCHANGED <<emu, own, netf>>

OwnMarket(side, amount) ==
  /\ own < MaxOrders
  /\ emu' = PlaceMarket(side, amount, "own").emu
  /\ own' = own + 1
  /\ UNCHANGED <<lad, runs, blind, hurt, netf>>

OwnLimit ==
  /\ own < MaxOrders
  /\ emu' = PlaceLimit("own").emu
  /\ own' = own + 1
  /\ UNCHANGED <<lad, runs, blind, hurt, netf>>

LadInit ==
  /\ emu \in {[quote |-> 2000, base |-> 0, oid |-> 1, orders |-> {}, trades |-> {},
               withdrawals |-> w] : w \in BOOLEAN}
  /\ lad = NoLadder /\ own = 0 /\ runs = 0 /\ hurt = FALSE /\ blind = FALSE
  /\ netf = 0

LadNext ==
  \/ \E o \in Outcomes :
       \/ Rung1(o) \/ Rung2(o) \/ Rung3(o) \/ Rung4(o)
       \/ Rest(o) \/ SeeOpen(o) \/ Cancel(o) \/ SeeGone(o) \/ Buy(o) \/ Reconcile(o)
  \/ \E arm \in BOOLEAN, max \in MaxMxn : Start(arm, max)
  \/ \E side \in {"buy", "sell"}, a \in Amounts : OwnMarket(side, a)
  \/ OwnLimit

-----------------------------------------------------------------------------
Buys  == {t \in emu.trades : t.side = "buy"}
Sells == {t \in emu.trades : t.side = "sell"}

(* The emulator's balances are what its trade log tells, to the last       *)
(* centavo and with every fee in the asset received; nothing is sold that  *)
(* is not there; a trade belongs to one completed order, and an order that *)
(* rested or was cancelled has none.                                       *)
EmulatorBalances ==
  /\ emu.quote = 2000 - MapThenSumSet(LAMBDA t : t.minor, Buys)
                      + MapThenSumSet(LAMBDA t : t.minor - t.fee, Sells)
  /\ emu.base = MapThenSumSet(LAMBDA t : t.major - t.major \div FeeDiv, Buys)
                - MapThenSumSet(LAMBDA t : t.major, Sells)
  /\ emu.quote >= 0 /\ emu.base >= 0
  /\ \A t \in emu.trades : \E o \in emu.orders : o.oid = t.oid /\ o.status = "completed"
  /\ \A o, p \in emu.orders : o.oid = p.oid => o = p

Placed == {o \in emu.orders : o.origin \in {"val-rest", "val-buy"}}
Rungs  == {lad.out[i] : i \in DOMAIN lad.out}

(* Whatever the transport does to the answers: a key that can withdraw     *)
(* gets past the probe, and to an order, only if the probe was not heard   *)
(* (no such path, or not authenticated), and then with a WARN on that      *)
(* rung; a ladder that is not armed never gets to one; a red rung is the   *)
(* last; a green rung 6 is one fill of this run; and a ladder leaves its   *)
(* resting order behind only if a call of an order rung went wrong.        *)
LadderIsSafe ==
  /\ /\ emu.withdrawals
     /\ lad.rung \notin {"books", "balance", "probe", "done"} \/ (runs = 1 /\ Placed # {})
     => blind /\ <<"3-no_withdraw", "WARN">> \in Rungs
  /\ (~lad.arm /\ runs = 1) => Placed = {}
  /\ \A i \in DOMAIN lad.out : lad.out[i][2] = "FAIL" => i = Len(lad.out) /\ lad.rung = "done"
  /\ <<"6-tiny_order", "PASS">> \in Rungs =>
       \E t \in emu.trades : t.oid = lad.oid /\ t.side = "buy" /\ t.minor <= lad.max
  /\ (lad.rung \in {"buy", "reconcile", "done"} /\ lad.arm /\ ~hurt /\ runs = 1) =>
       {o \in Placed : o.status = "open"} = {}

(* "kill-path on a RESTING limit order (proves cancel works)"              *)
KillPathProven ==
  <<"5-kill_path", "PASS">> \in Rungs /\ runs = 1 => {o \in Placed : o.status = "open"} = {}
=============================================================================
