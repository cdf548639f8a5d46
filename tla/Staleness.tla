----------------------------- MODULE Staleness -----------------------------
(* StalenessGate: whether the loop may act on the data it has.  Data are     *)
(* stamped with the wall clock, which drifts, is stepped and is set back;    *)
(* the gate holds it against the monotonic clock, but only between one check *)
(* and the next, and the caller may stamp data at any moment in between.     *)
EXTENDS Integers

CONSTANTS MaxDataAge, MaxClockDrift,  \* the gate's budgets
          Fast, Slow,                 \* how far the wall clock may gain or lose in a tick
          MaxTime                     \* bound: ticks of the monotonic clock

ASSUME StalenessAssumption ==
  /\ MaxDataAge \in Nat /\ MaxClockDrift \in Nat
  /\ Fast \subseteq Int /\ Slow \subseteq Int

VARIABLES mono, ahead,  \* the monotonic clock, and how far the wall clock is ahead of it
          gate,         \* the gate's three readings
          fresh,        \* the last check's verdict
          arrival       \* what really happened since the data arrived

freshvars == <<mono, ahead, gate, fresh, arrival>>

NoReading == [wall |-> -100, mono |-> -100]
NoData == -100

wall == mono + ahead
Gap(n) == IF n < 0 THEN -n ELSE n

(* _clock_verdict: against the previous check, whatever that one said.       *)
ClockIsSane(prev, w, m) ==
  \/ prev = NoReading
  \/ w >= prev.wall /\ Gap(w - prev.wall - (m - prev.mono)) <= MaxClockDrift

DataAge(data, w) == w - data

IsFresh(g, w, m) ==
  /\ ClockIsSane(g.prev, w, m)
  /\ g.data # NoData
  /\ DataAge(g.data, w) \in 0..MaxDataAge

FreshTick ==
  /\ mono < MaxTime
  /\ mono' = mono + 1
  /\ \E s \in Fast \cup {-n : n \in Slow} : ahead' = ahead + s
  /\ fresh' = FALSE
  /\ UNCHANGED <<gate, arrival>>

(* observe_data: the stamp is believed.                                      *)
ObserveData ==
  /\ gate' = [gate EXCEPT !.data = wall]
  /\ arrival' = [at |-> mono, checks |-> 0, doubted |-> FALSE,
                 unseen |-> IF gate.prev = NoReading THEN 0
                            ELSE Gap(ahead - (gate.prev.wall - gate.prev.mono))]
  /\ fresh' = FALSE
  /\ UNCHANGED <<mono, ahead>>

(* check: the reading becomes the previous one on every path, a halt too.    *)
Check ==
  /\ gate.prev # [wall |-> wall, mono |-> mono]
  /\ fresh' = IsFresh(gate, wall, mono)
  /\ gate' = [gate EXCEPT !.prev = [wall |-> wall, mono |-> mono]]
  /\ arrival' = [arrival EXCEPT !.checks = @ + 1,
                   !.doubted = @ \/ ~ClockIsSane(gate.prev, wall, mono) \/ gate.prev = NoReading]
  /\ UNCHANGED <<mono, ahead>>

FreshInit ==
  /\ mono = 0 /\ ahead = 0 /\ fresh = FALSE
  /\ gate = [data |-> NoData, prev |-> NoReading]
  /\ arrival = [at |-> 0, checks |-> 0, doubted |-> FALSE, unseen |-> 0]

FreshNext == FreshTick \/ ObserveData \/ Check

FreshSpec == FreshInit /\ [][FreshNext]_freshvars

(* The data that a check lets the loop act on really are no older than the   *)
(* budget and one drift budget for every check since they arrived -- unless  *)
(* the clock was found insane since then, or for want of a reading could not *)
(* be, after which one doubted check the stamp of before the step is trusted  *)
(* again (staleness.py 55-87).                                               *)
FreshIsYoung ==
  fresh /\ ~arrival.doubted =>
    mono - arrival.at <= MaxDataAge + arrival.unseen + MaxClockDrift * arrival.checks
=============================================================================
