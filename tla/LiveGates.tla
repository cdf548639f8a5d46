------------------------------ MODULE LiveGates ------------------------------
(* The checks before the process may act: the start-up preflight, the arm    *)
(* check, and the freshness of what another host relays.                     *)
(*                                                                           *)
(* The relay: a host that reaches the blocked venues fetches their funding   *)
(* and pipes one snapshot into a file of the server, truncating it first; a  *)
(* logger on the server reads the file, asks the venues it reaches itself,   *)
(* and journals the widest spread.  The two hosts' clocks differ by skew.    *)
EXTENDS Integers, FiniteSetsExt

CONSTANTS Relayed, Direct,     \* venues
          Rates,               \* funding rates
          MaxAge,              \* the snapshot's budget
          Skews,               \* how far the relay's clock may be ahead
          MaxNow               \* bound: the server's clock

(* The relay's clock is not so far behind that its snapshots are all refused. *)
ASSUME RelayAssumption ==
  /\ IsFiniteSet(Relayed) /\ IsFiniteSet(Direct)
  /\ Rates \subseteq Int /\ MaxAge \in Nat
  /\ Skews \subseteq Int /\ \A s \in Skews : MaxAge + s >= 0

VARIABLES now, skew,
          sent,     \* the snapshot on its way, or NoSnap
          file,     \* the snapshot the file holds; NoSnap when absent or torn
          event     \* the logger's last event

relayvars == <<now, skew, sent, file, event>>

(* A rate is kept with the time it was fetched; -1 is None.                  *)
None == [rate |-> -1, at |-> -1]
NoSnap == [ts |-> 0, venues |-> [v \in {} |-> None]]
Abs(n) == IF n < 0 THEN -n ELSE n

(* ---- preflight ------------------------------------------------------------ *)
(* Facts about the environment; an unknown age or skew is 99.                *)
RunPreflight(p) ==
  /\ p.mode \in {"paper", "live"}
  /\ p.config /\ p.journal /\ p.credentials
  /\ p.allowed > 0
  /\ p.cap > 0 /\ (p.mode = "live" => p.spendCap)
  /\ ~p.killSwitch
  /\ p.clockSane
  /\ p.age <= 5
  /\ p.mode = "live" => p.skew <= 2 /\ p.reachable

(* ---- the arm check -------------------------------------------------------- *)
CheckAuth(p) == p.api /\ p.known /\ p.agent
CheckCollateral(p) == IF p.api /\ p.known THEN p.collateral ELSE 0
CheckRelay(p) == p.age <= 900
CheckMicro(p) == CheckCollateral(p) > 0 /\ CheckCollateral(p) >= 1000      \* 1% is $10
CheckAll(p) ==
  /\ p.api /\ p.known
  /\ CheckAuth(p)
  /\ CheckCollateral(p) > 0
  /\ CheckRelay(p)
  /\ ~p.latched
  /\ CheckMicro(p)

(* ---- the relay ------------------------------------------------------------ *)
RelayInit ==
  /\ now = 1 /\ skew \in Skews
  /\ sent = NoSnap /\ file = NoSnap
  /\ event = [ts |-> 0, funding |-> NoSnap.venues, widest |-> 0, missing |-> {}]

RelayTick ==
  /\ now < MaxNow
  /\ now' = now + 1
  /\ UNCHANGED <<skew, sent, file, event>>

(* The time is read first, then the venues; one that fails has no rate.      *)
Snapshot ==
  /\ sent = NoSnap
  /\ \E vs \in SUBSET Relayed, r \in Rates :
       sent' = [ts |-> now + skew,
                venues |-> [v \in Relayed |-> IF v \in vs THEN [rate |-> r, at |-> now] ELSE None]]
  /\ file' = NoSnap                      \* the shell truncates the file at once
  /\ UNCHANGED <<now, skew, event>>

Deliver ==
  /\ sent # NoSnap
  /\ file' = sent /\ sent' = NoSnap
  /\ UNCHANGED <<now, skew, event>>

Cut ==                                   \* the connection breaks: half a line
  /\ sent # NoSnap
  /\ sent' = NoSnap
  /\ UNCHANGED <<now, skew, file, event>>

RelayOfAnyAge(snap, t) == snap.venues

RelayFunding(snap, t) ==
  IF t - snap.ts <= MaxAge THEN snap.venues ELSE [v \in DOMAIN snap.venues |-> None]

Reachable(funding) == {v \in DOMAIN funding : funding[v] # None}

Widest(funding) ==
  LET gaps == {Abs(funding[v].rate - funding[w].rate) : v, w \in Reachable(funding)}
  IN  IF gaps = {} THEN 0 ELSE Max(gaps)

Log ==
  /\ \E up \in SUBSET Direct, r \in Rates :
       LET relay == RelayFunding(file, now)
           funding == [v \in Direct \cup DOMAIN relay |->
                         IF v \in DOMAIN relay THEN relay[v]
                         ELSE IF v \in up THEN [rate |-> r, at |-> now] ELSE None]
       IN  event' = [ts |-> now,
                     funding |-> [v \in Reachable(funding) |-> funding[v]],
                     widest |-> Widest(funding),
                     missing |-> DOMAIN funding \ Reachable(funding)]
  /\ UNCHANGED <<now, skew, sent, file>>

RelayNext == RelayTick \/ Snapshot \/ Deliver \/ Cut \/ Log

(* A journaled spread is between rates that were on the venues within the    *)
(* relay's budget and the difference of the clocks (relay_feed.py 15-33,     *)
(* venue_spread.py 40-53): whatever was delayed, cut or read half written,   *)
(* nothing older enters, no pair of them is wider, and every venue asked is  *)
(* in it or missing, never both: also a relayed one whose rate is too old or *)
(* failed to be fetched.  Only if no snapshot could be read are the relayed  *)
(* venues neither.                                                           *)
SpreadIsLive ==
  /\ \A v \in DOMAIN event.funding : event.funding[v].at >= event.ts - MaxAge - skew
  /\ \A v, w \in DOMAIN event.funding :
       event.funding[v].rate - event.funding[w].rate <= event.widest
  /\ event.widest > 0 => \E v, w \in DOMAIN event.funding :
       event.funding[v].rate - event.funding[w].rate = event.widest
  /\ event.missing \cap DOMAIN event.funding = {}
  /\ event.ts > 0 => event.missing \cup DOMAIN event.funding \in {Direct, Direct \cup Relayed}
=============================================================================
