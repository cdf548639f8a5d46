----------------------------- MODULE GatesProofs -----------------------------
(* The gates that say yes before money moves, for all budgets, venues,       *)
(* accounts and streams.                                                     *)
EXTENDS MCGates, Sums, NaturalsInduction

------------------------------------------------------------------------------
(* The staleness gate: how old data may be that it calls fresh, for every    *)
(* course of the wall clock.                                                 *)

Readings == [wall : Int, mono : Int]

FreshTypes ==
  /\ mono \in Nat /\ ahead \in Int /\ fresh \in BOOLEAN
  /\ gate \in [data : Int, prev : Readings]
  /\ arrival \in [at : Int, checks : Nat, doubted : BOOLEAN, unseen : Nat]

(* Since the data arrived the wall clock has run away from the monotonic one *)
(* by no more than the checks let pass.                                      *)
DriftIsBounded ==
  gate.data # NoData /\ gate.prev # NoReading /\ ~arrival.doubted =>
    Gap(gate.prev.wall - gate.prev.mono - (gate.data - arrival.at))
      <= arrival.unseen + MaxClockDrift * arrival.checks

(* A fresh verdict is about the present reading.                             *)
VerdictIsNow ==
  fresh => /\ gate.prev = [wall |-> wall, mono |-> mono]
           /\ gate.data # NoData /\ wall - gate.data <= MaxDataAge

FreshInv == FreshTypes /\ DriftIsBounded /\ VerdictIsNow

LEMMA GapType == ASSUME NEW n \in Int PROVE Gap(n) \in Nat
  BY DEF Gap

LEMMA InitFresh == FreshInit => FreshInv
<1>. SUFFICES ASSUME FreshInit PROVE FreshInv
  OBVIOUS
<1>1. gate.data = NoData /\ fresh = FALSE
  BY DEF FreshInit
<1>2. NoReading \in Readings /\ NoData \in Int
  BY DEF NoReading, NoData, Readings
<1>3. FreshTypes
  <2>1. gate \in [data : Int, prev : Readings]
    BY <1>2 DEF FreshInit
  <2>2. arrival \in [at : Int, checks : Nat, doubted : BOOLEAN, unseen : Nat]
    BY DEF FreshInit
  <2>. QED  BY <2>1, <2>2 DEF FreshInit, FreshTypes
<1>. QED  BY <1>1, <1>3 DEF FreshInv, DriftIsBounded, VerdictIsNow

LEMMA TickFresh == ASSUME FreshInv, FreshTick PROVE FreshInv'
<1>1. mono' \in Nat /\ ahead' \in Int /\ fresh' = FALSE /\ gate' = gate /\ arrival' = arrival
  BY StalenessAssumption DEF FreshTick, FreshInv, FreshTypes
<1>. QED  BY <1>1 DEF FreshInv, FreshTypes, DriftIsBounded, VerdictIsNow

LEMMA DataFresh == ASSUME FreshInv, ObserveData PROVE FreshInv'
<1>. DEFINE unseen == IF gate.prev = NoReading THEN 0
                      ELSE Gap(ahead - (gate.prev.wall - gate.prev.mono))
<1>1. /\ mono' = mono /\ ahead' = ahead /\ fresh' = FALSE
      /\ gate' = [gate EXCEPT !.data = wall]
      /\ arrival' = [at |-> mono, checks |-> 0, doubted |-> FALSE, unseen |-> unseen]
  BY DEF ObserveData
<1>2. wall \in Int /\ mono \in Int /\ ahead \in Int /\ gate.prev \in Readings
  BY DEF FreshInv, FreshTypes, wall
<1>3. gate' \in [data : Int, prev : Readings] /\ gate'.data = wall /\ gate'.prev = gate.prev
  BY <1>1, <1>2 DEF FreshInv, FreshTypes
<1>4. unseen \in Nat
  BY <1>2, GapType DEF Readings
<1>5. FreshTypes'
  BY <1>1, <1>2, <1>3, <1>4 DEF FreshInv, FreshTypes
<1>6. ASSUME gate.prev # NoReading
      PROVE  Gap(gate.prev.wall - gate.prev.mono - (wall - mono)) <= unseen
  <2>. DEFINE w == gate.prev.wall
              m == gate.prev.mono
  <2>1. w \in Int /\ m \in Int
    BY <1>2 DEF Readings
  <2>2. wall - mono = ahead
    BY <1>2 DEF wall
  <2>3. unseen = Gap(ahead - (w - m))
    BY <1>6
  <2>. HIDE DEF w, m, unseen
  <2>4. Gap(w - m - (wall - mono)) <= unseen
    BY <1>2, <2>1, <2>2, <2>3 DEF Gap
  <2>. QED  BY <2>4 DEF w, m
<1>7. DriftIsBounded'
  <2>1. MaxClockDrift * 0 = 0
    BY StalenessAssumption
  <2>2. arrival'.unseen = unseen /\ arrival'.checks = 0 /\ arrival'.at = mono
    BY <1>1
  <2>. HIDE DEF unseen
  <2>. QED  BY <1>3, <1>4, <1>6, <2>1, <2>2 DEF DriftIsBounded, NoReading
<1>. QED  BY <1>1, <1>5, <1>7 DEF FreshInv, VerdictIsNow

LEMMA CheckFresh == ASSUME FreshInv, Check PROVE FreshInv'
<1>. DEFINE reading == [wall |-> wall, mono |-> mono]
            sane == ClockIsSane(gate.prev, wall, mono)
<1>1. /\ mono' = mono /\ ahead' = ahead /\ wall' = wall
      /\ fresh' = IsFresh(gate, wall, mono)
      /\ gate' = [gate EXCEPT !.prev = reading]
      /\ arrival' = [arrival EXCEPT !.checks = @ + 1,
                       !.doubted = @ \/ ~sane \/ gate.prev = NoReading]
  BY DEF Check, wall
<1>2. wall \in Int /\ mono \in Nat /\ gate.prev \in Readings /\ gate.data \in Int
  BY DEF FreshInv, FreshTypes, wall
<1>3. gate'.prev = reading /\ gate'.data = gate.data /\ gate' \in [data : Int, prev : Readings]
  BY <1>1, <1>2 DEF FreshInv, FreshTypes, Readings
<1>4. /\ arrival'.at = arrival.at /\ arrival'.unseen = arrival.unseen
      /\ arrival'.checks = arrival.checks + 1
      /\ arrival'.doubted = (arrival.doubted \/ ~sane \/ gate.prev = NoReading)
      /\ arrival' \in [at : Int, checks : Nat, doubted : BOOLEAN, unseen : Nat]
  <2>. DEFINE doubt == arrival.doubted \/ ~sane \/ gate.prev = NoReading
  <2>1. arrival \in [at : Int, checks : Nat, doubted : BOOLEAN, unseen : Nat]
    BY DEF FreshInv, FreshTypes
  <2>2. doubt \in BOOLEAN
    OBVIOUS
  <2>3. arrival' = [arrival EXCEPT !.checks = arrival.checks + 1, !.doubted = doubt]
    BY <1>1
  <2>. HIDE DEF doubt, sane
  <2>4. arrival'.at = arrival.at /\ arrival'.unseen = arrival.unseen
    BY <2>1, <2>3
  <2>5. arrival'.checks = arrival.checks + 1
    BY <2>1, <2>3
  <2>6. arrival'.doubted = doubt
    BY <2>1, <2>3, Zenon
  <2>7. arrival' \in [at : Int, checks : Nat, doubted : BOOLEAN, unseen : Nat]
    <3>1. arrival' = [at |-> arrival.at, checks |-> arrival.checks + 1,
                      doubted |-> doubt, unseen |-> arrival.unseen]
      BY <2>1, <2>3
    <3>2. arrival.at \in Int /\ arrival.checks + 1 \in Nat /\ arrival.unseen \in Nat
      BY <2>1
    <3>. QED  BY <2>2, <3>1, <3>2
  <2>. QED  BY <2>4, <2>5, <2>6, <2>7 DEF doubt
<1>5. fresh' \in BOOLEAN
  BY <1>1 DEF IsFresh, ClockIsSane
<1>6. FreshTypes'
  BY <1>1, <1>2, <1>3, <1>4, <1>5 DEF FreshInv, FreshTypes
<1>7. VerdictIsNow'
  <2>1. ASSUME fresh' PROVE gate.data # NoData /\ wall - gate.data <= MaxDataAge
    <3>1. IsFresh(gate, wall, mono)
      BY <1>1, <2>1, Zenon
    <3>2. gate.data # NoData /\ wall - gate.data \in 0..MaxDataAge
      BY <3>1 DEF IsFresh, DataAge
    <3>. QED  BY <1>2, <3>2, StalenessAssumption
  <2>2. gate'.prev = [wall |-> wall', mono |-> mono']
    BY <1>1, <1>3
  <2>. HIDE DEF reading, sane
  <2>. QED  BY <1>1, <1>3, <2>1, <2>2 DEF VerdictIsNow, NoData
<1>8. DriftIsBounded'
  <2>. SUFFICES ASSUME gate.data # NoData, ~arrival.doubted, sane, gate.prev # NoReading
                PROVE  Gap(wall - mono - (gate.data - arrival.at))
                         <= arrival.unseen + MaxClockDrift * (arrival.checks + 1)
    BY <1>3, <1>4 DEF DriftIsBounded, NoData
  <2>. DEFINE w == gate.prev.wall
              m == gate.prev.mono
              d == gate.data - arrival.at
              spent == MaxClockDrift * arrival.checks
  <2>1. w \in Int /\ m \in Int /\ d \in Int /\ arrival.unseen \in Nat /\ arrival.checks \in Nat
    BY <1>2 DEF FreshInv, FreshTypes, Readings
  <2>2. Gap(w - m - d) <= arrival.unseen + spent
    BY DEF FreshInv, DriftIsBounded
  <2>3. Gap(wall - w - (mono - m)) <= MaxClockDrift
    BY DEF ClockIsSane
  <2>4. MaxClockDrift * (arrival.checks + 1) = spent + MaxClockDrift /\ spent \in Nat
    BY <2>1, StalenessAssumption
  <2>. HIDE DEF w, m, d, spent
  <2>5. Gap(wall - mono - d) <= Gap(w - m - d) + Gap(wall - w - (mono - m))
    BY <1>2, <2>1 DEF Gap
  <2>6. /\ Gap(w - m - d) \in Nat /\ Gap(wall - w - (mono - m)) \in Nat
        /\ Gap(wall - mono - d) \in Nat
    BY <1>2, <2>1, GapType
  <2>7. Gap(wall - mono - d) <= arrival.unseen + MaxClockDrift * (arrival.checks + 1)
    BY <2>1, <2>2, <2>3, <2>4, <2>5, <2>6, StalenessAssumption
  <2>. QED  BY <2>7 DEF d
<1>. QED  BY <1>6, <1>7, <1>8 DEF FreshInv

LEMMA NextFresh == FreshInv /\ [FreshNext]_freshvars => FreshInv'
<1>. SUFFICES ASSUME FreshInv, [FreshNext]_freshvars PROVE FreshInv'
  OBVIOUS
<1>1. CASE UNCHANGED freshvars
  BY <1>1 DEF freshvars, FreshInv, FreshTypes, DriftIsBounded, VerdictIsNow, wall
<1>. QED  BY <1>1, TickFresh, DataFresh, CheckFresh DEF FreshNext

(* The bound is what the two facts give together: the reading of the check   *)
(* is the age by the wall clock, and that clock has not run away.            *)
LEMMA YoungFresh == FreshInv => FreshIsYoung
<1>. SUFFICES ASSUME FreshInv, fresh, ~arrival.doubted
              PROVE  mono - arrival.at
                       <= MaxDataAge + arrival.unseen + MaxClockDrift * arrival.checks
  BY DEF FreshIsYoung
<1>. DEFINE d == gate.data - arrival.at
            spent == MaxClockDrift * arrival.checks
<1>1. /\ wall \in Int /\ mono \in Nat /\ gate.data \in Int /\ arrival.at \in Int
      /\ arrival.unseen \in Nat /\ spent \in Nat /\ MaxDataAge \in Nat
  BY StalenessAssumption DEF FreshInv, FreshTypes, wall
<1>2. gate.prev = [wall |-> wall, mono |-> mono] /\ gate.data # NoData
      /\ wall - gate.data <= MaxDataAge
  BY DEF FreshInv, VerdictIsNow
<1>3. gate.prev # NoReading /\ gate.prev.wall = wall /\ gate.prev.mono = mono
  <2>1. gate.prev.mono = mono /\ gate.prev.wall = wall
    BY <1>2
  <2>. QED  BY <1>1, <2>1 DEF NoReading
<1>4. Gap(wall - mono - (gate.data - arrival.at)) <= arrival.unseen + spent
  BY <1>2, <1>3 DEF FreshInv, DriftIsBounded
<1>. HIDE DEF spent
<1>5. mono - arrival.at <= MaxDataAge + (arrival.unseen + spent)
  BY <1>1, <1>2, <1>4 DEF Gap
<1>. QED  BY <1>1, <1>5 DEF spent

(* Data that the gate calls fresh are no older than the budget, what the     *)
(* clock may have run away when they were stamped, and one drift budget for  *)
(* every check since (staleness.py 55-87).                                   *)
THEOREM FreshDataIsYoung == FreshSpec => []FreshIsYoung
  BY InitFresh, NextFresh, YoungFresh, PTL DEF FreshSpec

------------------------------------------------------------------------------
(* The relay: nothing too old in a journaled spread, and no pair wider.      *)

(* The widest gap is one between two of the venues that answered, and no two *)
(* of them are further apart.                                                *)
LEMMA WidestGap ==
  ASSUME NEW funding, IsFiniteSet(DOMAIN funding),
         \A v \in Reachable(funding) : funding[v].rate \in Int
  PROVE  /\ Widest(funding) \in Int
         /\ \A v, w \in Reachable(funding) :
              funding[v].rate - funding[w].rate <= Widest(funding)
         /\ Widest(funding) > 0 =>
              \E v, w \in Reachable(funding) :
                funding[v].rate - funding[w].rate = Widest(funding)
<1>. DEFINE R == Reachable(funding)
            up == [v \in R |-> funding[v].rate]
            down == [v \in R |-> -funding[v].rate]
            gaps == {Abs(funding[v].rate - funding[w].rate) : v, w \in R}
<1>1. IsFiniteSet(R)
  BY FS_Subset DEF Reachable
<1>2. CASE R = {}
  BY <1>2 DEF Widest
<1>3. CASE R # {}
  <2>1. \A v \in R : up[v] \in Int /\ down[v] \in Int
    OBVIOUS
  <2>2. PICK t \in R : \A w \in R : up[w] <= up[t]
    <3>. HIDE DEF R, up, down
    <3>. QED  BY <1>1, <1>3, <2>1, Highest
  <2>3. PICK b \in R : \A w \in R : down[w] <= down[b]
    <3>. HIDE DEF R, up, down
    <3>. QED  BY <1>1, <1>3, <2>1, Highest
  <2>4. \A w \in R : funding[w].rate <= funding[t].rate /\ funding[b].rate <= funding[w].rate
    BY <2>1, <2>2, <2>3
  <2>. HIDE DEF R
  <2>5. Abs(funding[t].rate - funding[b].rate) \in gaps
    OBVIOUS
  <2>6. \A g \in gaps : g \in Int /\ g <= Abs(funding[t].rate - funding[b].rate)
    BY <2>1, <2>4 DEF Abs, R
  <2>7. \E x \in gaps : \A y \in gaps : x >= y
    BY <2>5, <2>6
  <2>8. Max(gaps) \in gaps /\ \A y \in gaps : Max(gaps) >= y
    <3>. HIDE DEF gaps
    <3>. QED  BY <2>7 DEF Max
  <2>9. Widest(funding) = Max(gaps)
    <3>1. Widest(funding) = IF gaps = {} THEN 0 ELSE Max(gaps)
      BY DEF Widest, R
    <3>. HIDE DEF gaps
    <3>. QED  BY <2>5, <3>1
  <2>. DEFINE m == Max(gaps)
  <2>10. m \in Int /\ \A v, w \in R : funding[v].rate - funding[w].rate <= m
    <3>1. \A v, w \in R : Abs(funding[v].rate - funding[w].rate) <= m
      BY <2>6, <2>8
    <3>2. m \in Int
      BY <2>6, <2>8
    <3>. HIDE DEF m
    <3>. QED  BY <3>1, <3>2 DEF Abs, R
  <2>11. \E v, w \in R : funding[v].rate - funding[w].rate = m
    <3>1. \A x \in gaps : \E v, w \in R : x = Abs(funding[v].rate - funding[w].rate)
      OBVIOUS
    <3>. HIDE DEF gaps
    <3>2. PICK v \in R, w \in R : m = Abs(funding[v].rate - funding[w].rate)
      BY <2>8, <3>1
    <3>. HIDE DEF m
    <3>3. funding[v].rate \in Int /\ funding[w].rate \in Int
      BY DEF R
    <3>4. funding[v].rate - funding[w].rate = m \/ funding[w].rate - funding[v].rate = m
      BY <3>2, <3>3 DEF Abs
    <3>. QED  BY <3>4
  <2>12. Widest(funding) = m
    BY <2>9
  <2>. HIDE DEF gaps, m
  <2>. QED  BY <2>10, <2>11, <2>12 DEF R
<1>. QED  BY <1>2, <1>3

(* What is under way or in the file was fetched no earlier than it says, on  *)
(* the relay's own clock.                                                    *)
SnapOK(snap) ==
  /\ snap.ts \in Int /\ DOMAIN snap.venues \in {{}, Relayed}
  /\ \A v \in DOMAIN snap.venues : snap.venues[v] # None =>
       /\ snap.venues[v].rate \in Int /\ snap.venues[v].at \in Int
       /\ snap.venues[v].at >= snap.ts - skew

RelayInv ==
  /\ now \in Int /\ skew \in Skews
  /\ SnapOK(sent) /\ SnapOK(file)
  /\ SpreadIsLive

LEMMA NoSnapOK == SnapOK(NoSnap)
<1>1. NoSnap.ts = 0 /\ NoSnap.venues = [v \in {} |-> None]
  BY DEF NoSnap
<1>2. DOMAIN NoSnap.venues = {}
  BY <1>1
<1>. QED  BY <1>1, <1>2 DEF SnapOK

LEMMA InitRelay == RelayInit => RelayInv
<1>. SUFFICES ASSUME RelayInit PROVE RelayInv
  OBVIOUS
<1>1. now \in Int /\ skew \in Skews /\ sent = NoSnap /\ file = NoSnap
  BY DEF RelayInit
<1>2. /\ event.funding = NoSnap.venues /\ event.widest = 0 /\ event.missing = {} /\ event.ts = 0
  BY DEF RelayInit
<1>3. DOMAIN event.funding = {}
  BY <1>2 DEF NoSnap
<1>4. SpreadIsLive
  BY <1>2, <1>3 DEF SpreadIsLive
<1>. QED  BY <1>1, <1>4, NoSnapOK DEF RelayInv

LEMMA SnapshotRelay == ASSUME RelayInv, Snapshot PROVE RelayInv'
<1>1. now' = now /\ skew' = skew /\ event' = event /\ file' = NoSnap
  BY DEF Snapshot
<1>2. PICK vs \in SUBSET Relayed, r \in Rates :
        sent' = [ts |-> now + skew,
                 venues |-> [v \in Relayed |-> IF v \in vs THEN [rate |-> r, at |-> now] ELSE None]]
  BY DEF Snapshot
<1>3. now \in Int /\ skew \in Int /\ r \in Int
  BY RelayAssumption DEF RelayInv
<1>4. SnapOK(sent)'
  <2>1. sent'.ts = now + skew /\ DOMAIN sent'.venues = Relayed
    BY <1>2
  <2>2. \A v \in Relayed : sent'.venues[v] # None =>
                            sent'.venues[v].rate = r /\ sent'.venues[v].at = now
    BY <1>2
  <2>. QED  BY <1>1, <1>3, <2>1, <2>2 DEF SnapOK
<1>5. SnapOK(file)'
  <2>1. DOMAIN file'.venues = {} /\ file'.ts = 0
    BY <1>1 DEF NoSnap
  <2>. QED  BY <2>1 DEF SnapOK
<1>6. SpreadIsLive'
  BY <1>1 DEF RelayInv, SpreadIsLive
<1>. QED  BY <1>1, <1>4, <1>5, <1>6 DEF RelayInv

LEMMA MoveRelay ==
  ASSUME RelayInv, UNCHANGED <<skew, event>>, now' \in Int,
         sent' \in {sent, file, NoSnap}, file' \in {sent, file, NoSnap}
  PROVE  RelayInv'
<1>1. SnapOK(sent) /\ SnapOK(file) /\ SnapOK(NoSnap)
  BY NoSnapOK DEF RelayInv
<1>2. SnapOK(sent)' /\ SnapOK(file)'
  BY <1>1 DEF SnapOK
<1>3. SpreadIsLive'
  BY DEF RelayInv, SpreadIsLive
<1>. QED  BY <1>2, <1>3 DEF RelayInv

(* Every rate logged is of the file, and then the file is young by the two   *)
(* clocks, or was asked for now.                                             *)
LEMMA LogRelay == ASSUME RelayInv, Log PROVE RelayInv'
<1>1. now' = now /\ skew' = skew /\ sent' = sent /\ file' = file
  BY DEF Log
<1>. DEFINE relay == RelayFunding(file, now)
            Asked(up, r) == [v \in Direct \cup DOMAIN relay |->
                               IF v \in DOMAIN relay THEN relay[v]
                               ELSE IF v \in up THEN [rate |-> r, at |-> now] ELSE None]
<1>2. PICK up \in SUBSET Direct, r \in Rates :
        event' = [ts |-> now,
                  funding |-> [v \in Reachable(Asked(up, r)) |-> Asked(up, r)[v]],
                  widest |-> Widest(Asked(up, r)),
                  missing |-> DOMAIN Asked(up, r) \ Reachable(Asked(up, r))]
  BY DEF Log
<1>. DEFINE fs == Asked(up, r)
            R == Reachable(fs)
<1>3. /\ now \in Int /\ skew \in Int /\ r \in Int /\ MaxAge \in Nat /\ MaxAge + skew >= 0
      /\ SnapOK(file)
  BY RelayAssumption DEF RelayInv
<1>4. DOMAIN relay = DOMAIN file.venues /\ DOMAIN relay \in {{}, Relayed} /\ IsFiniteSet(DOMAIN relay)
  BY <1>3, RelayAssumption, FS_EmptySet DEF RelayFunding, SnapOK
<1>5. /\ DOMAIN fs = Direct \cup DOMAIN relay /\ IsFiniteSet(DOMAIN fs)
      /\ DOMAIN fs \in {Direct, Direct \cup Relayed}
  <2>1. IsFiniteSet(Direct \cup DOMAIN relay)
    <3>. HIDE DEF relay
    <3>. QED  BY <1>4, RelayAssumption, FS_Union
  <2>2. DOMAIN fs = Direct \cup DOMAIN relay
    OBVIOUS
  <2>3. Direct \cup DOMAIN relay \in {Direct, Direct \cup Relayed}
    <3>. HIDE DEF relay
    <3>. QED  BY <1>4
  <2>. QED  BY <2>1, <2>2, <2>3
<1>6. \A v \in R : fs[v].rate \in Int /\ fs[v].at >= now - MaxAge - skew
  <2>. SUFFICES ASSUME NEW v \in DOMAIN fs, fs[v] # None
                PROVE  fs[v].rate \in Int /\ fs[v].at >= now - MaxAge - skew
    BY DEF Reachable
  <2>1. CASE v \in DOMAIN relay
    <3>1. fs[v] = relay[v]
      BY <1>5, <2>1
    <3>2. now - file.ts <= MaxAge /\ relay[v] = file.venues[v]
      BY <1>4, <2>1, <3>1 DEF RelayFunding
    <3>3. /\ file.venues[v].rate \in Int /\ file.venues[v].at \in Int /\ file.ts \in Int
          /\ file.venues[v].at >= file.ts - skew
      BY <1>3, <1>4, <2>1, <3>1, <3>2 DEF SnapOK
    <3>. HIDE DEF fs, relay
    <3>4. file.venues[v].at >= now - MaxAge - skew
      BY <1>3, <3>2, <3>3
    <3>. QED  BY <3>1, <3>2, <3>3, <3>4
  <2>2. CASE v \notin DOMAIN relay
    <3>1. fs[v] = IF v \in up THEN [rate |-> r, at |-> now] ELSE None
      BY <1>5, <2>2
    <3>2. fs[v] = [rate |-> r, at |-> now]
      BY <3>1
    <3>. HIDE DEF fs, relay
    <3>. QED  BY <1>3, <3>2
  <2>. QED  BY <2>1, <2>2
<1>7. /\ event'.ts = now /\ DOMAIN event'.funding = R /\ \A v \in R : event'.funding[v] = fs[v]
      /\ event'.widest = Widest(fs) /\ event'.missing = DOMAIN fs \ R
  <2>. HIDE DEF Asked
  <2>. QED  BY <1>2
<1>. HIDE DEF fs
<1>8. /\ Widest(fs) \in Int
      /\ \A v, w \in R : fs[v].rate - fs[w].rate <= Widest(fs)
      /\ Widest(fs) > 0 => \E v, w \in R : fs[v].rate - fs[w].rate = Widest(fs)
  BY <1>5, <1>6, WidestGap
<1>. HIDE DEF R
<1>9. SpreadIsLive'
  <2>1. \A v \in DOMAIN event'.funding : event'.funding[v].at >= event'.ts - MaxAge - skew'
    BY <1>1, <1>6, <1>7
  <2>2. \A v, w \in DOMAIN event'.funding :
          event'.funding[v].rate - event'.funding[w].rate <= event'.widest
    BY <1>7, <1>8
  <2>3. event'.widest > 0 => \E v, w \in DOMAIN event'.funding :
          event'.funding[v].rate - event'.funding[w].rate = event'.widest
    BY <1>7, <1>8
  <2>4. event'.missing \cap DOMAIN event'.funding = {}
    BY <1>7
  <2>5. event'.missing \cup DOMAIN event'.funding \in {Direct, Direct \cup Relayed}
    <3>1. R \subseteq DOMAIN fs
      BY DEF R, Reachable
    <3>. QED  BY <1>5, <1>7, <3>1
  <2>. QED  BY <2>1, <2>2, <2>3, <2>4, <2>5 DEF SpreadIsLive
<1>10. SnapOK(sent)' /\ SnapOK(file)'
  BY <1>1 DEF RelayInv, SnapOK
<1>. QED  BY <1>1, <1>9, <1>10 DEF RelayInv

LEMMA NextRelay == RelayInv /\ [RelayNext]_relayvars => RelayInv'
<1>. SUFFICES ASSUME RelayInv, [RelayNext]_relayvars PROVE RelayInv'
  OBVIOUS
<1>1. now \in Int
  BY DEF RelayInv
<1>2. CASE RelayTick
  BY <1>1, <1>2, MoveRelay DEF RelayTick
<1>3. CASE Deliver
  BY <1>1, <1>3, MoveRelay DEF Deliver
<1>4. CASE Cut
  BY <1>1, <1>4, MoveRelay DEF Cut
<1>5. CASE UNCHANGED relayvars
  BY <1>1, <1>5, MoveRelay DEF relayvars
<1>. QED  BY <1>2, <1>3, <1>4, <1>5, SnapshotRelay, LogRelay DEF RelayNext

(* Of the gates' behaviours: each part's state moves by its own steps alone. *)
YoungInv == FreshInv /\ RelayInv

(* No verdict of the staleness gate and no journaled spread rests on data    *)
(* older than the budget, the drift or the clocks' difference allow, however *)
(* the clocks run and whatever the relay delays or cuts (staleness.py 55-87, *)
(* relay_feed.py 15-33).                                                     *)
THEOREM NothingOldIsUsed == GatesSpec => []DataIsYoung
<1>1. GatesInit => YoungInv
  BY InitFresh, InitRelay DEF GatesInit, YoungInv
<1>2. YoungInv /\ [GatesNext]_<<part, gatevars>> => YoungInv'
  <2>. SUFFICES ASSUME YoungInv, [GatesNext]_<<part, gatevars>> PROVE YoungInv'
    OBVIOUS
  <2>1. [FreshNext]_freshvars /\ [RelayNext]_relayvars
    BY DEF GatesNext, gatevars
  <2>. QED  BY <2>1, NextFresh, NextRelay DEF YoungInv
<1>3. YoungInv => DataIsYoung
  BY YoungFresh DEF YoungInv, RelayInv, DataIsYoung
<1>. QED  BY <1>1, <1>2, <1>3, PTL DEF GatesSpec

------------------------------------------------------------------------------
(* The Hyperliquid desk: the position is covered by its stops.               *)

Stops == [buy : BOOLEAN, size : Nat]
StopsIn(gs, buy) == FoldSeq(LAMBDA g, a : IF g.buy = buy THEN a + g.size ELSE a, 0, gs)
Weights(gs, buy) == [i \in DOMAIN gs |-> IF gs[i].buy = buy THEN gs[i].size ELSE 0]

(* The fold, with its choice of the next guard.                              *)
StopBody(it, s, gs, buy) ==
  IF s = {} THEN 0
  ELSE IF gs[Taken(s)].buy = buy THEN it[s \ {Taken(s)}] + gs[Taken(s)].size
       ELSE it[s \ {Taken(s)}]
StopIter(it, gs, buy) == it = [s \in SUBSET DOMAIN gs |-> StopBody(it, s, gs, buy)]
StopFold(gs, buy) == CHOOSE it : StopIter(it, gs, buy)

LEMMA StopsInIsFold == ASSUME NEW gs, NEW buy PROVE StopsIn(gs, buy) = StopFold(gs, buy)[DOMAIN gs]
  BY DEF StopsIn, FoldSeq, FoldFunction, FoldFunctionOnSet, MapThenFoldSet,
         StopFold, StopIter, StopBody, Taken

LEMMA StopsAreSums ==
  ASSUME NEW gs \in Seq(Stops), NEW buy
  PROVE  /\ StopsIn(gs, buy) = SumFunctionOnSet(Weights(gs, buy), DOMAIN gs)
         /\ IsFiniteSet(DOMAIN gs)
         /\ \A i \in DOMAIN gs : Weights(gs, buy)[i] \in Nat
<1>. DEFINE D == DOMAIN gs
            w == Weights(gs, buy)
            sums == [s \in SUBSET D |-> SumFunctionOnSet(w, s)]
            it == StopFold(gs, buy)
<1>1. IsFiniteSet(D)
  <2>1. D = 1..Len(gs) /\ Len(gs) \in Nat
    OBVIOUS
  <2>. QED  BY <2>1, FS_Interval
<1>2. \A i \in D : gs[i].size \in Nat /\ w[i] = IF gs[i].buy = buy THEN gs[i].size ELSE 0
  <2>1. \A i \in D : gs[i] \in Stops
    OBVIOUS
  <2>2. \A i \in D : w[i] = IF gs[i].buy = buy THEN gs[i].size ELSE 0
    BY DEF Weights
  <2>. HIDE DEF D, w
  <2>. QED  BY <2>1, <2>2 DEF Stops
<1>3. \A s \in SUBSET D : IsFiniteSet(s)
  BY <1>1, FS_Subset
<1>. HIDE DEF w, D
<1>4. ASSUME NEW s \in SUBSET D PROVE sums[s] \in Int /\ sums[s] = StopBody(sums, s, gs, buy)
  <2>1. sums[s] \in Int
    BY <1>2, <1>3, SumInt
  <2>2. CASE s = {}
    BY <2>1, <2>2, SumEmpty DEF StopBody
  <2>3. CASE s # {}
    <3>. DEFINE x == Taken(s)
    <3>1. x \in s /\ s \ {x} \in SUBSET D
      BY <2>3, TakenIn
    <3>2. SumFunctionOnSet(w, s) = w[x] + SumFunctionOnSet(w, s \ {x})
      BY <1>2, <1>3, <3>1, SumRemove
    <3>3. SumFunctionOnSet(w, s \ {x}) \in Int
      BY <1>2, <1>3, <3>1, SumInt
    <3>4. gs[x].size \in Nat /\ w[x] = IF gs[x].buy = buy THEN gs[x].size ELSE 0
      BY <1>2, <3>1
    <3>5. sums[s \ {x}] = SumFunctionOnSet(w, s \ {x}) /\ sums[s] = SumFunctionOnSet(w, s)
      BY <3>1
    <3>. HIDE DEF sums, x
    <3>6. sums[s] = IF gs[x].buy = buy THEN sums[s \ {x}] + gs[x].size ELSE sums[s \ {x}]
      BY <3>2, <3>3, <3>4, <3>5
    <3>. QED  BY <2>1, <2>3, <3>6 DEF StopBody, x
  <2>. QED  BY <2>2, <2>3
<1>5. StopIter(sums, gs, buy)
  <2>1. sums = [s \in SUBSET D |-> sums[s]]
    OBVIOUS
  <2>. HIDE DEF sums
  <2>. QED  BY <1>4, <2>1 DEF StopIter, D
<1>6. StopIter(it, gs, buy)
  BY <1>5 DEF StopFold
<1>. HIDE DEF it, sums
<1>7. \A s \in SUBSET D : it[s] = StopBody(it, s, gs, buy)
  BY <1>6 DEF StopIter, D
<1>. DEFINE Bad == {s \in SUBSET D : it[s] # SumFunctionOnSet(w, s)}
<1>8. ASSUME Bad # {} PROVE FALSE
  <2>1. PICK T \in Bad : \A U \in SUBSET T : U # T => U \notin Bad
    <3>1. Bad \subseteq SUBSET D
      OBVIOUS
    <3>. HIDE DEF Bad
    <3>. QED  BY <1>1, <1>8, <3>1, MinimalSubset
  <2>2. T \in SUBSET D /\ it[T] = StopBody(it, T, gs, buy)
    BY <1>7, <2>1
  <2>3. T # {}
    BY <2>1, <2>2, SumEmpty DEF StopBody
  <2>. DEFINE x == Taken(T)
  <2>4. x \in T /\ T \ {x} \in SUBSET D
    BY <2>2, <2>3, TakenIn
  <2>5. it[T \ {x}] = SumFunctionOnSet(w, T \ {x})
    BY <2>1, <2>4
  <2>6. SumFunctionOnSet(w, T) = w[x] + SumFunctionOnSet(w, T \ {x})
    BY <1>2, <1>3, <2>2, <2>4, SumRemove
  <2>7. SumFunctionOnSet(w, T \ {x}) \in Int
    BY <1>2, <1>3, <2>4, SumInt
  <2>8. gs[x].size \in Nat /\ w[x] = IF gs[x].buy = buy THEN gs[x].size ELSE 0
    BY <1>2, <2>2, <2>4
  <2>9. it[T] = IF gs[x].buy = buy THEN it[T \ {x}] + gs[x].size ELSE it[T \ {x}]
    BY <2>2, <2>3 DEF StopBody
  <2>. HIDE DEF x
  <2>10. it[T] = SumFunctionOnSet(w, T)
    BY <2>5, <2>6, <2>7, <2>8, <2>9
  <2>. QED  BY <2>1, <2>10
<1>9. it[D] = SumFunctionOnSet(w, D)
  BY <1>8
<1>. QED  BY <1>1, <1>2, <1>9, StopsInIsFold DEF it, w, D

LEMMA StopsNat == ASSUME NEW gs \in Seq(Stops), NEW buy PROVE StopsIn(gs, buy) \in Nat
  BY StopsAreSums, SumNat

LEMMA StopsEmpty == ASSUME NEW buy PROVE StopsIn(<<>>, buy) = 0
<1>1. <<>> \in Seq(Stops) /\ DOMAIN <<>> = {}
  OBVIOUS
<1>. QED  BY <1>1, StopsAreSums, SumEmpty

LEMMA StopsAppend ==
  ASSUME NEW gs \in Seq(Stops), NEW g \in Stops, NEW buy
  PROVE  StopsIn(Append(gs, g), buy)
           = StopsIn(gs, buy) + (IF g.buy = buy THEN g.size ELSE 0)
<1>. DEFINE hs == Append(gs, g)
            n == Len(gs)
            v == Weights(hs, buy)
            w == Weights(gs, buy)
<1>1. hs \in Seq(Stops) /\ DOMAIN hs = DOMAIN gs \cup {n + 1} /\ n + 1 \notin DOMAIN gs
  OBVIOUS
<1>2. \A i \in DOMAIN gs : hs[i] = gs[i]
  OBVIOUS
<1>3. hs[n + 1] = g
  OBVIOUS
<1>. HIDE DEF hs, n
<1>4. \A i \in DOMAIN gs : v[i] = w[i] /\ w[i] \in Int
  <2>1. \A i \in DOMAIN gs : w[i] \in Int
    <3>1. \A i \in DOMAIN gs : w[i] \in Nat
      BY StopsAreSums
    <3>. QED  BY <3>1
  <2>2. \A i \in DOMAIN gs : v[i] = w[i]
    BY <1>1, <1>2 DEF Weights
  <2>. QED  BY <2>1, <2>2
<1>5. v[n + 1] = IF g.buy = buy THEN g.size ELSE 0
  BY <1>1, <1>3 DEF Weights
<1>6. v[n + 1] \in Int
  BY <1>5 DEF Stops
<1>7. IsFiniteSet(DOMAIN gs)
  BY StopsAreSums
<1>. HIDE DEF v, w
<1>8. SumFunctionOnSet(v, DOMAIN hs) = SumFunctionOnSet(v, DOMAIN gs) + v[n + 1]
  BY <1>1, <1>4, <1>6, <1>7, SumAdd
<1>9. SumFunctionOnSet(w, DOMAIN gs) = SumFunctionOnSet(v, DOMAIN gs)
  BY <1>4, <1>7, SumSame
<1>. QED  BY <1>1, <1>5, <1>8, <1>9, StopsAreSums DEF v, w, hs

LEMMA StopsRemove ==
  ASSUME NEW gs \in Seq(Stops), NEW i \in DOMAIN gs, NEW buy
  PROVE  /\ RemoveAt(gs, i) \in Seq(Stops)
         /\ StopsIn(gs, buy)
              = StopsIn(RemoveAt(gs, i), buy) + (IF gs[i].buy = buy THEN gs[i].size ELSE 0)
<1>. DEFINE hs == RemoveAt(gs, i)
            n == Len(gs)
            v == Weights(hs, buy)
            w == Weights(gs, buy)
            h == [j \in 1..(n - 1) |-> IF j < i THEN j ELSE j + 1]
<1>1. n \in Nat \ {0} /\ DOMAIN gs = 1..n /\ i \in 1..n
  OBVIOUS
<1>2. hs \in Seq(Stops) /\ Len(hs) = n - 1 /\ \A j \in 1..(n - 1) : hs[j] = gs[h[j]]
  <2>. DEFINE a == SubSeq(gs, 1, i - 1)
              b == SubSeq(gs, i + 1, n)
  <2>1. a \in Seq(Stops) /\ Len(a) = i - 1 /\ \A j \in 1..(i - 1) : a[j] = gs[j]
    BY <1>1
  <2>2. b \in Seq(Stops) /\ Len(b) = n - i /\ \A j \in 1..(n - i) : b[j] = gs[j + i]
    BY <1>1
  <2>3. hs = a \o b
    BY DEF RemoveAt
  <2>. HIDE DEF a, b, hs, n
  <2>4. hs \in Seq(Stops) /\ Len(hs) = n - 1
    <3>1. a \in Seq(Stops) /\ b \in Seq(Stops)
      BY <2>1, <2>2
    <3>2. a \o b \in Seq(Stops)
      BY <3>1
    <3>3. Len(a \o b) = Len(a) + Len(b)
      BY <3>1
    <3>. QED  BY <1>1, <2>1, <2>2, <2>3, <3>2, <3>3
  <2>5. ASSUME NEW j \in 1..(n - 1) PROVE hs[j] = gs[IF j < i THEN j ELSE j + 1]
    <3>1. CASE j < i
      <4>1. hs[j] = a[j]
        BY <1>1, <2>1, <2>2, <2>3, <3>1
      <4>. QED  BY <1>1, <2>1, <3>1, <4>1
    <3>2. CASE ~(j < i)
      <4>1. hs[j] = b[j - (i - 1)]
        BY <1>1, <2>1, <2>2, <2>3, <3>2
      <4>2. j - (i - 1) \in 1..(n - i)
        BY <1>1, <3>2
      <4>3. b[j - (i - 1)] = gs[(j - (i - 1)) + i]
        BY <2>2, <4>2
      <4>4. (j - (i - 1)) + i = j + 1
        BY <1>1
      <4>. QED  BY <3>2, <4>1, <4>3, <4>4
    <3>. QED  BY <3>1, <3>2
  <2>. QED  BY <2>4, <2>5
<1>3. \A j \in 1..(n - 1) : h[j] \in (1..n) \ {i}
  BY <1>1
<1>4. hs \in Seq(Stops) /\ DOMAIN hs = 1..(n - 1)
  <2>. HIDE DEF hs, h, n
  <2>. QED  BY <1>1, <1>2
<1>5. \A j \in 1..(n - 1) : v[j] = w[h[j]] /\ v[j] \in Int
  <2>1. \A j \in 1..(n - 1) : hs[j] = gs[h[j]]
    BY <1>2
  <2>2. \A j \in 1..(n - 1) : v[j] \in Int
    <3>. HIDE DEF hs
    <3>. QED  BY <1>4, StopsAreSums
  <2>. HIDE DEF hs, h, n
  <2>. QED  BY <1>1, <1>3, <1>4, <2>1, <2>2 DEF Weights
<1>6. /\ \A j, k \in 1..(n - 1) : h[j] = h[k] => j = k
      /\ \A y \in (1..n) \ {i} : \E j \in 1..(n - 1) : h[j] = y
  <2>1. \A j, k \in 1..(n - 1) : h[j] = h[k] => j = k
    BY <1>1
  <2>2. ASSUME NEW y \in (1..n) \ {i} PROVE \E j \in 1..(n - 1) : h[j] = y
    <3>1. CASE y < i
      <4>1. y \in 1..(n - 1) /\ h[y] = y
        BY <1>1, <3>1
      <4>. QED  BY <4>1
    <3>2. CASE ~(y < i)
      <4>1. y - 1 \in 1..(n - 1) /\ h[y - 1] = y
        BY <1>1, <3>2
      <4>. QED  BY <4>1
    <3>. QED  BY <3>1, <3>2
  <2>. QED  BY <2>1, <2>2
<1>7. \A y \in 1..n : w[y] \in Int
  <2>. HIDE DEF n
  <2>. QED  BY <1>1, StopsAreSums
<1>8. IsFiniteSet(1..n) /\ IsFiniteSet((1..n) \ {i}) /\ IsFiniteSet(1..(n - 1))
  <2>. HIDE DEF n
  <2>1. n \in Int /\ n - 1 \in Int /\ 1 \in Int
    BY <1>1
  <2>2. IsFiniteSet(1..n) /\ IsFiniteSet(1..(n - 1))
    BY <2>1, FS_Interval
  <2>. QED  BY <2>2, FS_RemoveElement
<1>. HIDE DEF hs, v, w, h, n
<1>9. SumFunctionOnSet(v, 1..(n - 1)) = SumFunctionOnSet(w, (1..n) \ {i})
  <2>1. \A j \in 1..(n - 1) : h[j] \in (1..n) \ {i} /\ w[h[j]] = v[j]
    BY <1>3, <1>5
  <2>2. \A y \in (1..n) \ {i} : w[y] \in Int
    BY <1>7
  <2>3. \A j \in 1..(n - 1) : v[j] \in Int
    BY <1>5
  <2>. DEFINE S == 1..(n - 1)
              R == (1..n) \ {i}
  <2>4. /\ IsFiniteSet(S) /\ IsFiniteSet(R)
        /\ \A j \in S : v[j] \in Int
        /\ \A y \in R : w[y] \in Int
        /\ \A j \in S : h[j] \in R /\ w[h[j]] = v[j]
        /\ \A j, k \in S : h[j] = h[k] => j = k
        /\ \A y \in R : \E j \in S : h[j] = y
    BY <1>6, <1>8, <2>1, <2>2, <2>3
  <2>5. SumFunctionOnSet(v, S) = SumFunctionOnSet(w, R)
    <3>. HIDE DEF S, R
    <3>. QED  BY <2>4, SumMap, SMTT(60)
  <2>. QED  BY <2>5
<1>10. SumFunctionOnSet(w, 1..n) = w[i] + SumFunctionOnSet(w, (1..n) \ {i})
  BY <1>1, <1>7, <1>8, SumRemove
<1>11. /\ StopsIn(gs, buy) = SumFunctionOnSet(w, 1..n)
       /\ StopsIn(hs, buy) = SumFunctionOnSet(v, 1..(n - 1))
  BY <1>1, <1>4, StopsAreSums DEF v, w
<1>12. w[i] = IF gs[i].buy = buy THEN gs[i].size ELSE 0
  BY <1>1 DEF w, Weights
<1>13. StopsIn(hs, buy) \in Nat /\ w[i] \in Int
  BY <1>1, <1>4, <1>7, StopsNat
<1>. QED  BY <1>4, <1>9, <1>10, <1>11, <1>12, <1>13 DEF hs

Procs == [script : {"scalp", "close", "order"}, at : {"post", "reconcile", "stop"},
          buy : BOOLEAN, usd : Nat, cap : Caps, ro : BOOLEAN,
          tries : Nat, filled : Nat, known : Nat, sure : BOOLEAN]

(* What the running process has opened so far and answers for.               *)
Pending(d, s) == IF d # NoDesk /\ ~d.ro /\ d.buy = s THEN d.filled ELSE 0

Covered(d, s) == Held(position, s) <= StopsIn(guards, ~s) + bare[s] + Pending(d, s)

ProcessOK(d) ==
  /\ d.at = "stop" => ~d.ro /\ d.known <= d.filled
  /\ d.script = "scalp" => ~d.ro

DeskInv ==
  /\ desk = NoDesk \/ (desk \in Procs /\ ProcessOK(desk))
  /\ position \in Int /\ guards \in Seq(Stops) /\ bare \in [BOOLEAN -> Nat]
  /\ flips = 0
  /\ \A s \in BOOLEAN : Covered(desk, s)

LEMMA ProcsAreRunning == ASSUME NEW d \in Procs PROVE d # NoDesk
  BY DEF Procs, NoDesk

LEMMA HeldType == ASSUME NEW p \in Int, NEW s \in BOOLEAN PROVE Held(p, s) \in Nat
  BY DEF Held, Signed, Size

LEMMA HeldSides ==
  ASSUME NEW p \in Int
  PROVE  /\ Held(p, TRUE) = IF p > 0 THEN p ELSE 0
         /\ Held(p, FALSE) = IF p < 0 THEN -p ELSE 0
  BY DEF Held, Signed, Size

(* A trade of n on one side opens at most n there; if there were n to reduce *)
(* it opens nothing and takes n off the other side.                          *)
LEMMA HeldMoves ==
  ASSUME NEW p \in Int, NEW n \in Nat, NEW buy \in BOOLEAN, NEW s \in BOOLEAN
  PROVE  /\ p + Signed(buy, n) \in Int
         /\ Held(p + Signed(buy, n), s) <= Held(p, s) + (IF s = buy THEN n ELSE 0)
         /\ n <= CanReduce(buy, p) =>
              /\ Held(p + Signed(buy, n), s) <= Held(p, s)
              /\ s # buy => Held(p + Signed(buy, n), s) = Held(p, s) - n
<1>1. CASE buy = TRUE /\ s = TRUE
  <2>. DEFINE q == p + (n)
              ql == Held(q, TRUE)
              qs == Held(q, FALSE)
              pl == Held(p, TRUE)
              ps == Held(p, FALSE)
  <2>1. Signed(buy, n) = n /\ CanReduce(buy, p) = ps
    BY <1>1 DEF Signed, CanReduce
  <2>2. Held(q, s) = ql /\ Held(p, s) = pl
    BY <1>1
  <2>3. q \in Int
    OBVIOUS
  <2>4. /\ ql = (IF q > 0 THEN q ELSE 0) /\ qs = (IF q < 0 THEN -q ELSE 0)
        /\ pl = (IF p > 0 THEN p ELSE 0) /\ ps = (IF p < 0 THEN -p ELSE 0)
    BY <2>3, HeldSides
  <2>5. p + Signed(buy, n) = q
    BY <2>1
  <2>6. q = p + (n)
    OBVIOUS
  <2>. HIDE DEF q, ql, qs, pl, ps
  <2>7. ql <= pl + n /\ (n <= ps => ql <= pl)
    BY <2>3, <2>4, <2>6
  <2>8. (s = buy) <=> TRUE
    BY <1>1
  <2>9. pl \in Int
    BY <2>4
  <2>. DEFINE extra == IF s = buy THEN n ELSE 0
  <2>10. ql <= pl + extra
    BY <2>4, <2>7, <2>8, <2>9
  <2>. HIDE DEF extra
  <2>11. Held(q, s) <= Held(p, s) + extra
    BY <2>2, <2>10
  <2>12. n <= CanReduce(buy, p) => Held(q, s) <= Held(p, s)
    BY <2>1, <2>2, <2>7
  <2>13. n <= CanReduce(buy, p) => (s # buy => Held(q, s) = Held(p, s) - n)
    BY <2>1, <2>2, <2>7, <2>8
  <2>. QED  BY <2>3, <2>5, <2>11, <2>12, <2>13 DEF extra
<1>2. CASE buy = TRUE /\ s = FALSE
  <2>. DEFINE q == p + (n)
              ql == Held(q, TRUE)
              qs == Held(q, FALSE)
              pl == Held(p, TRUE)
              ps == Held(p, FALSE)
  <2>1. Signed(buy, n) = n /\ CanReduce(buy, p) = ps
    BY <1>2 DEF Signed, CanReduce
  <2>2. Held(q, s) = qs /\ Held(p, s) = ps
    BY <1>2
  <2>3. q \in Int
    OBVIOUS
  <2>4. /\ ql = (IF q > 0 THEN q ELSE 0) /\ qs = (IF q < 0 THEN -q ELSE 0)
        /\ pl = (IF p > 0 THEN p ELSE 0) /\ ps = (IF p < 0 THEN -p ELSE 0)
    BY <2>3, HeldSides
  <2>5. p + Signed(buy, n) = q
    BY <2>1
  <2>6. q = p + (n)
    OBVIOUS
  <2>. HIDE DEF q, ql, qs, pl, ps
  <2>7. qs <= ps /\ (n <= ps => qs <= ps /\ qs = ps - n)
    BY <2>3, <2>4, <2>6
  <2>8. (s = buy) <=> FALSE
    BY <1>2
  <2>9. ps \in Int
    BY <2>4
  <2>. DEFINE extra == IF s = buy THEN n ELSE 0
  <2>10. qs <= ps + extra
    BY <2>4, <2>7, <2>8, <2>9
  <2>. HIDE DEF extra
  <2>11. Held(q, s) <= Held(p, s) + extra
    BY <2>2, <2>10
  <2>12. n <= CanReduce(buy, p) => Held(q, s) <= Held(p, s)
    BY <2>1, <2>2, <2>7
  <2>13. n <= CanReduce(buy, p) => (s # buy => Held(q, s) = Held(p, s) - n)
    BY <2>1, <2>2, <2>7, <2>8
  <2>. QED  BY <2>3, <2>5, <2>11, <2>12, <2>13 DEF extra
<1>3. CASE buy = FALSE /\ s = TRUE
  <2>. DEFINE q == p + (-n)
              ql == Held(q, TRUE)
              qs == Held(q, FALSE)
              pl == Held(p, TRUE)
              ps == Held(p, FALSE)
  <2>1. Signed(buy, n) = -n /\ CanReduce(buy, p) = pl
    BY <1>3 DEF Signed, CanReduce
  <2>2. Held(q, s) = ql /\ Held(p, s) = pl
    BY <1>3
  <2>3. q \in Int
    OBVIOUS
  <2>4. /\ ql = (IF q > 0 THEN q ELSE 0) /\ qs = (IF q < 0 THEN -q ELSE 0)
        /\ pl = (IF p > 0 THEN p ELSE 0) /\ ps = (IF p < 0 THEN -p ELSE 0)
    BY <2>3, HeldSides
  <2>5. p + Signed(buy, n) = q
    BY <2>1
  <2>6. q = p + (-n)
    OBVIOUS
  <2>. HIDE DEF q, ql, qs, pl, ps
  <2>7. ql <= pl /\ (n <= pl => ql <= pl /\ ql = pl - n)
    BY <2>3, <2>4, <2>6
  <2>8. (s = buy) <=> FALSE
    BY <1>3
  <2>9. pl \in Int
    BY <2>4
  <2>. DEFINE extra == IF s = buy THEN n ELSE 0
  <2>10. ql <= pl + extra
    BY <2>4, <2>7, <2>8, <2>9
  <2>. HIDE DEF extra
  <2>11. Held(q, s) <= Held(p, s) + extra
    BY <2>2, <2>10
  <2>12. n <= CanReduce(buy, p) => Held(q, s) <= Held(p, s)
    BY <2>1, <2>2, <2>7
  <2>13. n <= CanReduce(buy, p) => (s # buy => Held(q, s) = Held(p, s) - n)
    BY <2>1, <2>2, <2>7, <2>8
  <2>. QED  BY <2>3, <2>5, <2>11, <2>12, <2>13 DEF extra
<1>4. CASE buy = FALSE /\ s = FALSE
  <2>. DEFINE q == p + (-n)
              ql == Held(q, TRUE)
              qs == Held(q, FALSE)
              pl == Held(p, TRUE)
              ps == Held(p, FALSE)
  <2>1. Signed(buy, n) = -n /\ CanReduce(buy, p) = pl
    BY <1>4 DEF Signed, CanReduce
  <2>2. Held(q, s) = qs /\ Held(p, s) = ps
    BY <1>4
  <2>3. q \in Int
    OBVIOUS
  <2>4. /\ ql = (IF q > 0 THEN q ELSE 0) /\ qs = (IF q < 0 THEN -q ELSE 0)
        /\ pl = (IF p > 0 THEN p ELSE 0) /\ ps = (IF p < 0 THEN -p ELSE 0)
    BY <2>3, HeldSides
  <2>5. p + Signed(buy, n) = q
    BY <2>1
  <2>6. q = p + (-n)
    OBVIOUS
  <2>. HIDE DEF q, ql, qs, pl, ps
  <2>7. qs <= ps + n /\ (n <= pl => qs <= ps)
    BY <2>3, <2>4, <2>6
  <2>8. (s = buy) <=> TRUE
    BY <1>4
  <2>9. ps \in Int
    BY <2>4
  <2>. DEFINE extra == IF s = buy THEN n ELSE 0
  <2>10. qs <= ps + extra
    BY <2>4, <2>7, <2>8, <2>9
  <2>. HIDE DEF extra
  <2>11. Held(q, s) <= Held(p, s) + extra
    BY <2>2, <2>10
  <2>12. n <= CanReduce(buy, p) => Held(q, s) <= Held(p, s)
    BY <2>1, <2>2, <2>7
  <2>13. n <= CanReduce(buy, p) => (s # buy => Held(q, s) = Held(p, s) - n)
    BY <2>1, <2>2, <2>7, <2>8
  <2>. QED  BY <2>3, <2>5, <2>11, <2>12, <2>13 DEF extra
<1>. QED  BY <1>1, <1>2, <1>3, <1>4

LEMMA ExcusedAt ==
  ASSUME NEW b, NEW buy, NEW n, NEW p, NEW s \in BOOLEAN
  PROVE  Excused(b, buy, n, p)[s] = Least(b[s] + (IF s = buy THEN n ELSE 0), Held(p, s))
  BY DEF Excused

LEMMA ExcusedType ==
  ASSUME NEW b \in [BOOLEAN -> Nat], NEW buy \in BOOLEAN, NEW n \in Nat, NEW p \in Int
  PROVE  Excused(b, buy, n, p) \in [BOOLEAN -> Nat]
<1>1. \A s \in BOOLEAN : Least(b[s] + (IF s = buy THEN n ELSE 0), Held(p, s)) \in Nat
  BY HeldType DEF Least
<1>. QED  BY <1>1 DEF Excused

(* The arithmetic of every step: what is excused is capped by what is held.  *)
LEMMA StillCovered ==
  ASSUME NEW h \in Nat, NEW t \in Nat, NEW b \in Nat, NEW u \in Nat, NEW v \in Nat,
         h <= t + b + u + v
  PROVE  h <= t + Least(b + u, h) + v
  BY DEF Least

(* The state the lemmas below read a step off.                               *)
LEMMA DeskNumbers ==
  ASSUME DeskInv, NEW s \in BOOLEAN
  PROVE  /\ (~s) \in BOOLEAN /\ Held(position, s) \in Nat /\ bare[s] \in Nat
         /\ StopsIn(guards, ~s) \in Nat /\ Pending(desk, s) \in Nat
         /\ Held(position, s) <= StopsIn(guards, ~s) + bare[s] + Pending(desk, s)
<1>1. Pending(desk, s) \in Nat
  BY DEF Pending, DeskInv, Procs
<1>2. Covered(desk, s) /\ position \in Int /\ guards \in Seq(Stops) /\ bare \in [BOOLEAN -> Nat]
  BY DEF DeskInv
<1>3. (~s) \in BOOLEAN /\ bare[s] \in Nat
  <2>1. (~s) \in BOOLEAN
    OBVIOUS
  <2>2. bare[s] \in Nat
    BY <1>2, Zenon
  <2>. QED  BY <2>1, <2>2
<1>4. Held(position, s) \in Nat /\ StopsIn(guards, ~s) \in Nat
  BY <1>2, StopsNat, HeldType
<1>5. Held(position, s) <= StopsIn(guards, ~s) + bare[s] + Pending(desk, s)
  BY <1>2 DEF Covered
<1>. QED  BY <1>1, <1>3, <1>4, <1>5

LEMMA LaunchDesk ==
  ASSUME DeskInv, NEW d \in Procs, ProcessOK(d), d.filled = 0, Launch(d)
  PROVE  DeskInv'
<1>1. /\ desk = NoDesk /\ desk' = d /\ position' = position /\ guards' = guards
      /\ bare' = bare /\ flips' = flips
  BY DEF Launch
<1>2. ASSUME NEW s \in BOOLEAN PROVE Covered(desk, s)'
  <2>1. Pending(d, s) = 0 /\ Pending(desk, s) = 0
    BY <1>1 DEF Pending
  <2>. QED  BY <1>1, <2>1, DeskNumbers DEF Covered
<1>. QED  BY <1>1, <1>2 DEF DeskInv

LEMMA ExitDesk ==
  ASSUME DeskInv, desk # NoDesk, Exit(desk.filled)
  PROVE  DeskInv'
<1>. DEFINE n == IF desk.ro THEN 0 ELSE desk.filled
<1>1. /\ desk' = NoDesk /\ position' = position /\ guards' = guards /\ flips' = flips
      /\ bare' = Excused(bare, desk.buy, n, position)
  BY DEF Exit
<1>2. /\ desk \in Procs /\ desk.buy \in BOOLEAN /\ n \in Nat /\ position \in Int
      /\ bare \in [BOOLEAN -> Nat] /\ flips = 0
  BY DEF DeskInv, Procs
<1>3. ASSUME NEW s \in BOOLEAN PROVE Covered(desk, s)'
  <2>1. Pending(desk, s) = IF s = desk.buy THEN n ELSE 0
    BY <1>2 DEF Pending
  <2>2. Pending(NoDesk, s) = 0
    BY DEF Pending
  <2>3. bare'[s] = Least(bare[s] + (IF s = desk.buy THEN n ELSE 0), Held(position, s))
    <3>. HIDE DEF n
    <3>1. Excused(bare, desk.buy, n, position)[s]
            = Least(bare[s] + (IF s = desk.buy THEN n ELSE 0), Held(position, s))
      BY ExcusedAt
    <3>. QED  BY <1>1, <3>1, Zenon
  <2>4. Held(position, s) <= StopsIn(guards, ~s) + bare[s] + Pending(desk, s) + 0
    BY DeskNumbers
  <2>5. Held(position, s) <= StopsIn(guards, ~s)
                               + Least(bare[s] + Pending(desk, s), Held(position, s)) + 0
    BY <2>4, DeskNumbers, StillCovered
  <2>. HIDE DEF n
  <2>6. Held(position, s) <= StopsIn(guards, ~s) + bare'[s] + 0
    BY <2>1, <2>3, <2>5
  <2>. QED  BY <1>1, <2>2, <2>6 DEF Covered
<1>4. bare' \in [BOOLEAN -> Nat]
  BY <1>1, <1>2, ExcusedType
<1>. QED  BY <1>1, <1>2, <1>3, <1>4 DEF DeskInv

(* What a process may execute: nothing beyond what it may reduce, if that is *)
(* all it is for, and nothing twice.                                         *)
LEMMA ExecutionsAre ==
  ASSUME NEW d \in Procs, position \in Int, NEW n \in Executions(d)
  PROVE  /\ n \in Nat
         /\ d.ro => n <= CanReduce(d.buy, position)
<1>1. d.filled \in Nat /\ d.usd \in Nat /\ d.ro \in BOOLEAN /\ d.buy \in BOOLEAN
  BY DEF Procs
<1>2. CanReduce(d.buy, position) \in Nat
  <2>1. (~d.buy) \in BOOLEAN
    BY <1>1
  <2>. QED  BY <2>1, HeldType DEF CanReduce
<1>. DEFINE most == SentSize(d.usd, d.ro, d.buy, position)
<1>3. most \in Nat /\ (d.ro => most <= CanReduce(d.buy, position))
  BY <1>1, <1>2 DEF SentSize, Least
<1>. HIDE DEF most
<1>4. n = 0 \/ n \in 1..most
  BY DEF Executions, most
<1>. QED  BY <1>2, <1>3, <1>4

LEMMA PostDesk == ASSUME DeskInv, Post PROVE DeskInv'
<1>1. /\ desk \in Procs /\ ProcessOK(desk) /\ desk.at = "post" /\ desk # NoDesk
      /\ guards' = guards /\ fires' = fires
      /\ position \in Int /\ guards \in Seq(Stops) /\ bare \in [BOOLEAN -> Nat] /\ flips = 0
  BY DEF DeskInv, Post
<1>2. PICK n \in Executions(desk), answer \in {"accepted", "refused", "unknown"} :
        LET held == position + Signed(desk.buy, n)
        IN  /\ answer = "accepted" => n > 0
            /\ answer = "refused" => n = 0
            /\ position' = held
            /\ flips' = IF desk.ro /\ Opens(position, held) THEN flips + 1 ELSE flips
            /\ IF answer = "refused"
               THEN /\ desk' = NoDesk
                    /\ bare' = Excused(bare, desk.buy, IF desk.ro THEN 0 ELSE desk.filled, held)
               ELSE /\ desk' = [desk EXCEPT !.at = "reconcile", !.tries = @ + 1,
                                            !.filled = @ + n, !.sure = answer = "accepted"]
                    /\ bare' = Excused(bare, desk.buy, 0, held)
  BY DEF Post
<1>. DEFINE held == position + Signed(desk.buy, n)
            buy == desk.buy
            spare == IF desk.ro THEN 0 ELSE desk.filled
<1>3. n \in Nat /\ (desk.ro => n <= CanReduce(buy, position))
  BY <1>1, ExecutionsAre
<1>4. buy \in BOOLEAN /\ desk.filled \in Nat /\ desk.ro \in BOOLEAN /\ spare \in Nat
  BY <1>1 DEF Procs
<1>5. position' = held /\ held \in Int
  BY <1>1, <1>2, <1>3, <1>4, HeldMoves
<1>6. flips' = 0
  <2>1. desk.ro => \A s \in BOOLEAN : Held(held, s) <= Held(position, s)
    BY <1>1, <1>3, <1>4, HeldMoves
  <2>2. \A s \in BOOLEAN : Held(held, s) \in Nat /\ Held(position, s) \in Nat
    BY <1>1, <1>5, HeldType
  <2>3. flips' = IF desk.ro /\ Opens(position, held) THEN flips + 1 ELSE flips
    BY <1>2
  <2>. HIDE DEF held
  <2>4. desk.ro => ~Opens(position, held)
    BY <2>1, <2>2 DEF Opens
  <2>. QED  BY <1>1, <2>3, <2>4
<1>7. ASSUME NEW s \in BOOLEAN
      PROVE  /\ Held(held, s) \in Nat
             /\ Held(held, s) <= StopsIn(guards, ~s) + bare[s]
                                   + (Pending(desk, s) + (IF desk.ro \/ s # buy THEN 0 ELSE n))
  <2>. DEFINE more == IF desk.ro \/ s # buy THEN 0 ELSE n
              h == Held(position, s)
  <2>1. Held(held, s) \in Nat /\ h \in Nat /\ more \in Nat
    BY <1>1, <1>3, <1>5, HeldType
  <2>2. Held(held, s) <= h + more
    <3>1. CASE desk.ro
      <4>1. Held(held, s) <= h
        BY <1>1, <1>3, <1>4, <3>1, HeldMoves
      <4>2. more = 0
        BY <3>1
      <4>. QED  BY <2>1, <4>1, <4>2
    <3>2. CASE ~desk.ro
      <4>1. Held(held, s) <= h + (IF s = buy THEN n ELSE 0)
        BY <1>1, <1>3, <1>4, HeldMoves
      <4>2. more = IF s = buy THEN n ELSE 0
        BY <3>2
      <4>. HIDE DEF h, more
      <4>. QED  BY <4>1, <4>2
    <3>. QED  BY <3>1, <3>2
  <2>. HIDE DEF held, more, h, buy
  <2>3. h <= StopsIn(guards, ~s) + bare[s] + Pending(desk, s)
    BY DeskNumbers DEF h
  <2>4. Held(held, s) <= StopsIn(guards, ~s) + bare[s] + (Pending(desk, s) + more)
    BY <2>1, <2>2, <2>3, DeskNumbers
  <2>. QED  BY <2>1, <2>4 DEF more
<1>8. CASE answer = "refused"
  <2>1. desk' = NoDesk /\ bare' = Excused(bare, buy, spare, held) /\ n = 0
    BY <1>2, <1>8
  <2>2. ASSUME NEW s \in BOOLEAN PROVE Covered(desk, s)'
    <3>. DEFINE u == IF s = buy THEN spare ELSE 0
    <3>1. bare'[s] = Least(bare[s] + u, Held(held, s))
      <4>1. Excused(bare, buy, spare, held)[s] = Least(bare[s] + u, Held(held, s))
        BY ExcusedAt
      <4>. HIDE DEF held, u, spare, buy
      <4>. QED  BY <2>1, <4>1, Zenon
    <3>2. Pending(desk, s) = u
      BY <1>1, <1>4 DEF Pending
    <3>3. Pending(NoDesk, s) = 0
      BY DEF Pending
    <3>4. u \in Nat /\ (IF desk.ro \/ s # buy THEN 0 ELSE n) = 0
      BY <1>4, <2>1
    <3>. HIDE DEF u, held
    <3>5. Held(held, s) <= StopsIn(guards, ~s) + bare[s] + u + 0
      BY <1>7, <3>2, <3>4, DeskNumbers
    <3>6. Held(held, s) <= StopsIn(guards, ~s) + Least(bare[s] + u, Held(held, s)) + 0
      BY <1>7, <3>4, <3>5, DeskNumbers, StillCovered
    <3>7. Held(held, s) <= StopsIn(guards, ~s) + bare'[s] + 0
      BY <3>1, <3>6
    <3>. QED  BY <1>1, <1>5, <2>1, <3>3, <3>7 DEF Covered
  <2>3. bare' \in [BOOLEAN -> Nat]
    BY <1>1, <1>4, <1>5, <2>1, ExcusedType
  <2>. QED  BY <1>1, <1>5, <1>6, <2>1, <2>2, <2>3 DEF DeskInv
<1>9. CASE answer # "refused"
  <2>. DEFINE told == answer = "accepted"
              d == [desk EXCEPT !.at = "reconcile", !.tries = @ + 1, !.filled = @ + n,
                                !.sure = told]
  <2>1. desk' = d /\ bare' = Excused(bare, buy, 0, held)
    BY <1>2, <1>9
  <2>2. /\ d \in Procs /\ d.ro = desk.ro /\ d.buy = buy /\ d.filled = desk.filled + n
        /\ d.at = "reconcile" /\ d.script = desk.script
    <3>1. /\ desk.script \in {"scalp", "close", "order"} /\ desk.usd \in Nat /\ desk.cap \in Caps
          /\ desk.tries \in Nat /\ desk.known \in Nat
      BY <1>1 DEF Procs
    <3>2. told \in BOOLEAN
      OBVIOUS
    <3>. HIDE DEF told
    <3>3. desk.tries + 1 \in Nat /\ desk.filled + n \in Nat
      BY <1>3, <1>4, <3>1
    <3>4. d \in Procs
      BY <1>1, <3>2, <3>3 DEF Procs
    <3>. QED  BY <1>1, <3>4 DEF Procs
  <2>3. ProcessOK(d)
    BY <1>1, <2>2 DEF ProcessOK
  <2>4. ASSUME NEW s \in BOOLEAN PROVE Covered(desk, s)'
    <3>. DEFINE u == Pending(desk, s) + (IF desk.ro \/ s # buy THEN 0 ELSE n)
    <3>1. Pending(d, s) = u
      <4>1. d # NoDesk
        BY <2>2, ProcsAreRunning
      <4>2. Pending(d, s) = IF ~desk.ro /\ buy = s THEN desk.filled + n ELSE 0
        BY <2>2, <4>1 DEF Pending
      <4>3. Pending(desk, s) = IF ~desk.ro /\ buy = s THEN desk.filled ELSE 0
        BY <1>1 DEF Pending
      <4>. HIDE DEF d, buy
      <4>. QED  BY <1>3, <1>4, <4>2, <4>3
    <3>2. bare'[s] = Least(bare[s] + (IF s = buy THEN 0 ELSE 0), Held(held, s))
      <4>1. Excused(bare, buy, 0, held)[s]
              = Least(bare[s] + (IF s = buy THEN 0 ELSE 0), Held(held, s))
        BY ExcusedAt
      <4>. HIDE DEF held, buy, d
      <4>. QED  BY <2>1, <4>1, Zenon
    <3>3. (IF s = buy THEN 0 ELSE 0) = 0
      OBVIOUS
    <3>4. u \in Nat
      BY <1>3, DeskNumbers
    <3>5. Held(held, s) <= StopsIn(guards, ~s) + bare[s] + u
      BY <1>7
    <3>. HIDE DEF u, held, d, buy
    <3>6. Held(held, s) <= StopsIn(guards, ~s) + bare[s] + 0 + u
      BY <3>4, <3>5, DeskNumbers
    <3>7. Held(held, s) <= StopsIn(guards, ~s) + Least(bare[s] + 0, Held(held, s)) + u
      BY <1>7, <3>4, <3>6, DeskNumbers, StillCovered
    <3>8. Held(held, s) <= StopsIn(guards, ~s) + bare'[s] + u
      BY <3>2, <3>3, <3>7
    <3>. QED  BY <1>1, <1>5, <2>1, <3>1, <3>8 DEF Covered
  <2>5. bare' \in [BOOLEAN -> Nat]
    BY <1>1, <1>4, <1>5, <2>1, ExcusedType
  <2>. HIDE DEF d
  <2>. QED  BY <1>1, <1>5, <1>6, <2>1, <2>2, <2>3, <2>4, <2>5 DEF DeskInv
<1>. QED  BY <1>8, <1>9

LEMMA LearnDesk == ASSUME DeskInv, Learn PROVE DeskInv'
<1>1. /\ desk \in Procs /\ ProcessOK(desk) /\ desk.at = "reconcile" /\ desk # NoDesk
  BY DEF DeskInv, Learn
<1>2. PICK n \in Listed \ {0} :
        IF desk.script = "scalp"
        THEN /\ desk' = [desk EXCEPT !.at = "stop", !.known = n]
             /\ UNCHANGED <<position, guards, bare, flips, fires>>
        ELSE Exit(desk.filled)
  BY DEF Learn
<1>3. CASE desk.script # "scalp"
  BY <1>1, <1>2, <1>3, ExitDesk
<1>4. CASE desk.script = "scalp"
  <2>. DEFINE d == [desk EXCEPT !.at = "stop", !.known = n]
  <2>1. desk' = d /\ UNCHANGED <<position, guards, bare, flips>>
    BY <1>2, <1>4
  <2>2. n \in Nat /\ n <= desk.filled
    BY <1>1 DEF Listed, Procs
  <2>3. d \in Procs /\ d.ro = desk.ro /\ d.buy = desk.buy /\ d.filled = desk.filled
        /\ d.known = n /\ d.script = desk.script
    BY <1>1, <2>2 DEF Procs
  <2>. HIDE DEF d
  <2>4. ProcessOK(d)
    BY <1>1, <1>4, <2>2, <2>3 DEF ProcessOK
  <2>5. ASSUME NEW s \in BOOLEAN PROVE Covered(desk, s)'
    <3>1. Pending(d, s) = Pending(desk, s)
      BY <1>1, <2>3, ProcsAreRunning DEF Pending
    <3>. QED  BY <2>1, <3>1, DeskNumbers DEF Covered
  <2>. QED  BY <2>1, <2>3, <2>4, <2>5 DEF DeskInv
<1>. QED  BY <1>3, <1>4

LEMMA LearnNothingDesk == ASSUME DeskInv, LearnNothing PROVE DeskInv'
<1>1. /\ desk \in Procs /\ ProcessOK(desk) /\ desk # NoDesk
  BY DEF DeskInv, LearnNothing
<1>2. CASE Exit(desk.filled)
  BY <1>1, <1>2, ExitDesk
<1>3. CASE ~Exit(desk.filled)
  <2>. DEFINE d == [desk EXCEPT !.at = "post"]
  <2>1. desk' = d /\ UNCHANGED <<position, guards, bare, flips>>
    BY <1>3 DEF LearnNothing
  <2>2. d \in Procs /\ d.ro = desk.ro /\ d.buy = desk.buy /\ d.filled = desk.filled
        /\ d.at = "post" /\ d.script = desk.script
    BY <1>1 DEF Procs
  <2>. HIDE DEF d
  <2>3. ProcessOK(d)
    BY <1>1, <2>2 DEF ProcessOK
  <2>4. ASSUME NEW s \in BOOLEAN PROVE Covered(desk, s)'
    <3>1. Pending(d, s) = Pending(desk, s)
      BY <1>1, <2>2, ProcsAreRunning DEF Pending
    <3>. QED  BY <2>1, <3>1, DeskNumbers DEF Covered
  <2>. QED  BY <2>1, <2>2, <2>3, <2>4 DEF DeskInv
<1>. QED  BY <1>2, <1>3

(* The stop covers what was learned of the fill; the rest is excused.        *)
LEMMA PlaceStopDesk == ASSUME DeskInv, PlaceStop PROVE DeskInv'
<1>. DEFINE g == StopFor(desk.buy, desk.known)
            n == desk.filled - desk.known
            buy == desk.buy
<1>1. /\ desk \in Procs /\ ProcessOK(desk) /\ desk # NoDesk /\ desk.at = "stop"
      /\ desk' = NoDesk /\ guards' = Append(guards, g) /\ position' = position /\ flips' = flips
      /\ bare' = Excused(bare, buy, n, position)
      /\ position \in Int /\ guards \in Seq(Stops) /\ bare \in [BOOLEAN -> Nat] /\ flips = 0
  BY DEF DeskInv, PlaceStop
<1>2. ~desk.ro /\ n \in Nat /\ desk.known \in Nat /\ desk.filled \in Nat /\ buy \in BOOLEAN
  BY <1>1 DEF ProcessOK, Procs
<1>3. g \in Stops /\ g.buy = ~buy /\ g.size = desk.known
  BY <1>2 DEF StopFor, Stops
<1>4. desk.known + n = desk.filled
  BY <1>2
<1>5. ASSUME NEW s \in BOOLEAN PROVE Covered(desk, s)'
  <2>. DEFINE u == IF s = buy THEN n ELSE 0
              k == IF s = buy THEN desk.known ELSE 0
              t == StopsIn(guards, ~s)
              h == Held(position, s)
  <2>1. bare'[s] = Least(bare[s] + u, h)
    <3>1. Excused(bare, buy, n, position)[s] = Least(bare[s] + u, h)
      BY ExcusedAt
    <3>. HIDE DEF u, h, n, buy
    <3>. QED  BY <1>1, <3>1, Zenon
  <2>2. StopsIn(Append(guards, g), ~s) = t + k
    <3>1. StopsIn(Append(guards, g), ~s) = t + (IF g.buy = ~s THEN g.size ELSE 0)
      <4>. HIDE DEF g, t
      <4>. QED  BY <1>1, <1>3, StopsAppend DEF t
    <3>2. (g.buy = ~s) <=> s = buy
      <4>. HIDE DEF g, buy
      <4>. QED  BY <1>2, <1>3
    <3>. HIDE DEF g
    <3>. QED  BY <1>3, <3>1, <3>2
  <2>3. Pending(desk, s) = u + k
    <3>1. Pending(desk, s) = IF buy = s THEN desk.filled ELSE 0
      BY <1>1, <1>2 DEF Pending
    <3>. HIDE DEF n, buy
    <3>. QED  BY <1>2, <1>4, <3>1
  <2>4. Pending(NoDesk, s) = 0
    BY DEF Pending
  <2>5. u \in Nat /\ k \in Nat /\ t \in Nat /\ h \in Nat /\ bare[s] \in Nat
    BY <1>2, DeskNumbers
  <2>6. h <= t + bare[s] + Pending(desk, s)
    BY DeskNumbers
  <2>. HIDE DEF u, k, t, h, g
  <2>7. h <= (t + k) + bare[s] + u + 0
    BY <2>3, <2>5, <2>6
  <2>8. h <= (t + k) + Least(bare[s] + u, h) + 0
    <3>1. t + k \in Nat
      BY <2>5
    <3>. QED  BY <2>5, <2>7, <3>1, StillCovered
  <2>9. h <= StopsIn(guards', ~s) + bare'[s] + Pending(NoDesk, s)
    BY <1>1, <2>1, <2>2, <2>4, <2>8
  <2>. QED  BY <1>1, <2>9 DEF Covered, h
<1>6. bare' \in [BOOLEAN -> Nat]
  <2>. HIDE DEF n
  <2>. QED  BY <1>1, <1>2, ExcusedType
<1>7. guards' \in Seq(Stops)
  <2>. HIDE DEF g
  <2>. QED  BY <1>1, <1>3
<1>. QED  BY <1>1, <1>5, <1>6, <1>7 DEF DeskInv

(* A stop that fires takes its size off the side it covers, or all of it.    *)
LEMMA FireDesk == ASSUME DeskInv, Fire PROVE DeskInv'
<1>1. PICK i \in DOMAIN guards :
        LET g == guards[i]
            held == position + Signed(g.buy, Least(g.size, CanReduce(g.buy, position)))
        IN  /\ guards' = RemoveAt(guards, i)
            /\ position' = held
            /\ bare' = Excused(bare, TRUE, 0, held)
            /\ flips' = IF Opens(position, held) THEN flips + 1 ELSE flips
  BY DEF Fire
<1>. DEFINE g == guards[i]
            c == CanReduce(g.buy, position)
            n == Least(g.size, c)
            held == position + Signed(g.buy, n)
            rest == RemoveAt(guards, i)
<1>2. /\ position \in Int /\ guards \in Seq(Stops) /\ bare \in [BOOLEAN -> Nat] /\ flips = 0
      /\ desk' = desk
  BY DEF DeskInv, Fire
<1>3. g \in Stops /\ g.buy \in BOOLEAN /\ g.size \in Nat
  <2>1. g \in Stops
    BY <1>2
  <2>. QED  BY <2>1 DEF Stops
<1>4. c = Held(position, ~g.buy) /\ c \in Nat
  <2>1. (~g.buy) \in BOOLEAN
    BY <1>3
  <2>. QED  BY <1>2, <2>1, HeldType DEF CanReduce
<1>5. n \in Nat /\ n <= c /\ (n = g.size \/ n = c)
  <2>. HIDE DEF c, g
  <2>. QED  BY <1>3, <1>4 DEF Least
<1>6. /\ guards' = rest /\ position' = held /\ bare' = Excused(bare, TRUE, 0, held)
      /\ flips' = IF Opens(position, held) THEN flips + 1 ELSE flips
  BY <1>1
<1>7. held \in Int /\ \A s \in BOOLEAN : Held(held, s) <= Held(position, s)
  <2>. HIDE DEF n
  <2>. QED  BY <1>2, <1>3, <1>5, HeldMoves
<1>12. ASSUME NEW s \in BOOLEAN, s # g.buy PROVE Held(held, s) = Held(position, s) - n
  <2>. HIDE DEF n
  <2>. QED  BY <1>2, <1>3, <1>5, <1>12, HeldMoves
<1>8. rest \in Seq(Stops)
  BY <1>2, StopsRemove
<1>. HIDE DEF held, n, c
<1>9. flips' = 0
  <2>1. \A s \in BOOLEAN : Held(held, s) \in Nat /\ Held(position, s) \in Nat
    BY <1>2, <1>7, HeldType
  <2>2. \A s \in BOOLEAN : ~(Held(held, s) > Held(position, s))
    BY <1>7, <2>1
  <2>3. ~Opens(position, held)
    BY <2>2 DEF Opens
  <2>. QED  BY <1>2, <1>6, <2>3
<1>10. ASSUME NEW s \in BOOLEAN PROVE Covered(desk, s)'
  <2>. DEFINE t == StopsIn(guards, ~s)
              r == StopsIn(rest, ~s)
              h == Held(position, s)
              q == Held(held, s)
              u == Pending(desk, s)
              size == g.size
  <2>1. t = r + (IF g.buy = ~s THEN size ELSE 0)
    BY <1>2, StopsRemove
  <2>2. r \in Nat /\ t \in Nat /\ h \in Nat /\ q \in Nat /\ u \in Nat /\ bare[s] \in Nat
    BY <1>2, <1>7, <1>8, StopsNat, HeldType, DeskNumbers
  <2>3. h <= t + bare[s] + u
    BY DeskNumbers
  <2>4. q <= h /\ (s # g.buy => q = h - n)
    <3>1. q <= h
      BY <1>7, Zenon
    <3>. QED  BY <1>12, <3>1
  <2>5. (g.buy = ~s) <=> s # g.buy
    <3>. HIDE DEF g
    <3>. QED  BY <1>3
  <2>6. s # g.buy => c = h
    <3>1. s # g.buy => s = ~g.buy
      <4>. HIDE DEF g
      <4>. QED  BY <1>3
    <3>. QED  BY <1>4, <3>1
  <2>7. size \in Nat
    BY <1>3
  <2>. HIDE DEF t, r, h, q, u, size
  <2>8. q <= r + bare[s] + 0 + u
    <3>1. CASE s = g.buy
      <4>1. t = r
        BY <2>1, <2>2, <2>5, <3>1
      <4>. QED  BY <2>2, <2>3, <2>4, <4>1
    <3>2. CASE s # g.buy
      <4>1. t = r + size
        BY <2>1, <2>5, <3>2
      <4>2. q = h - n /\ (n = size \/ n = h)
        BY <1>5, <2>4, <2>6, <3>2 DEF size
      <4>. QED  BY <2>2, <2>3, <2>7, <4>1, <4>2
    <3>. QED  BY <3>1, <3>2
  <2>9. q <= r + Least(bare[s] + 0, q) + u
    BY <2>2, <2>8, StillCovered
  <2>10. bare'[s] = Least(bare[s] + 0, q)
    <3>1. Excused(bare, TRUE, 0, held)[s]
            = Least(bare[s] + (IF s = TRUE THEN 0 ELSE 0), q)
      <4>1. Excused(bare, TRUE, 0, held)[s]
              = Least(bare[s] + (IF s = TRUE THEN 0 ELSE 0), Held(held, s))
        BY Zenon DEF Excused
      <4>. QED  BY <4>1 DEF q
    <3>2. (IF s = TRUE THEN 0 ELSE 0) = 0
      OBVIOUS
    <3>3. bare'[s] = Least(bare[s] + (IF s = TRUE THEN 0 ELSE 0), q)
      BY <1>6, <3>1, Zenon
    <3>. QED  BY <3>2, <3>3
  <2>11. q <= r + bare'[s] + u
    BY <2>9, <2>10
  <2>. QED  BY <1>2, <1>6, <2>11 DEF Covered, q, r, u
<1>11. bare' \in [BOOLEAN -> Nat]
  BY <1>2, <1>6, <1>7, ExcusedType
<1>. QED  BY <1>2, <1>6, <1>7, <1>8, <1>9, <1>10, <1>11 DEF DeskInv

LEMMA ProcessType ==
  ASSUME NEW script \in {"scalp", "close", "order"}, NEW buy \in BOOLEAN, NEW usd \in Nat,
         NEW cap \in Caps, NEW ro \in BOOLEAN, script = "scalp" => ~ro
  PROVE  LET d == Process(script, buy, usd, cap, ro)
         IN  d \in Procs /\ ProcessOK(d) /\ d.filled = 0
  BY DEF Process, Procs, ProcessOK

LEMMA NextDesk == DeskInv /\ [DeskNext]_deskvars => DeskInv'
<1>. SUFFICES ASSUME DeskInv, [DeskNext]_deskvars PROVE DeskInv'
  OBVIOUS
<1>1. CASE Scalp
  <2>1. PICK buy \in BOOLEAN, usd \in Usds, cap \in Caps :
          Launch(Process("scalp", buy, usd, cap, FALSE))
    BY <1>1 DEF Scalp
  <2>. DEFINE d == Process("scalp", buy, usd, cap, FALSE)
  <2>2. d \in Procs /\ ProcessOK(d) /\ d.filled = 0
    BY DeskAssumption, ProcessType
  <2>. HIDE DEF d
  <2>3. Launch(d)
    BY <2>1 DEF d
  <2>. QED  BY <2>2, <2>3, LaunchDesk
<1>2. CASE Flatten
  <2>1. PICK script \in {"close", "order"}, cap \in Caps :
          Launch(Process(script, position < 0, Size(position), cap, TRUE))
    BY <1>2 DEF Flatten
  <2>. DEFINE short == position < 0
              d == Process(script, short, Size(position), cap, TRUE)
  <2>2. Size(position) \in Nat /\ short \in BOOLEAN
    BY DEF DeskInv, Size
  <2>3. d \in Procs /\ ProcessOK(d) /\ d.filled = 0
    <3>1. script \in {"scalp", "close", "order"} /\ (script = "scalp" => ~TRUE)
      OBVIOUS
    <3>. HIDE DEF short
    <3>. QED  BY <2>2, <3>1, ProcessType
  <2>4. Launch(d)
    BY <2>1
  <2>. HIDE DEF d
  <2>. QED  BY <2>3, <2>4, LaunchDesk
<1>3. CASE LiveOrder
  <2>1. PICK buy \in BOOLEAN, usd \in Usds, cap \in Caps :
          Launch(Process("order", buy, usd, cap, FALSE))
    BY <1>3 DEF LiveOrder
  <2>. DEFINE d == Process("order", buy, usd, cap, FALSE)
  <2>2. d \in Procs /\ ProcessOK(d) /\ d.filled = 0
    BY DeskAssumption, ProcessType
  <2>. HIDE DEF d
  <2>3. Launch(d)
    BY <2>1 DEF d
  <2>. QED  BY <2>2, <2>3, LaunchDesk
<1>4. ASSUME Exit(desk.filled), desk # NoDesk PROVE DeskInv'
  BY <1>4, ExitDesk
<1>5. CASE Refused
  BY <1>4, <1>5 DEF Refused
<1>6. CASE StopRefused
  BY <1>4, <1>6 DEF StopRefused
<1>7. CASE Die
  BY <1>4, <1>7 DEF Die
<1>8. CASE UNCHANGED deskvars
  <2>1. /\ desk' = desk /\ position' = position /\ guards' = guards /\ bare' = bare
        /\ flips' = flips
    BY <1>8 DEF deskvars
  <2>2. ASSUME NEW s \in BOOLEAN PROVE Covered(desk, s)'
    BY <2>1, DeskNumbers DEF Covered
  <2>. QED  BY <2>1, <2>2 DEF DeskInv
<1>. QED  BY <1>1, <1>2, <1>3, <1>5, <1>6, <1>7, <1>8, PostDesk, LearnDesk, LearnNothingDesk,
             PlaceStopDesk, FireDesk DEF DeskNext

LEMMA InitDesk == DeskInit => DeskInv
<1>. SUFFICES ASSUME DeskInit PROVE DeskInv
  OBVIOUS
<1>1. /\ desk = NoDesk /\ position = 0 /\ guards = <<>> /\ flips = 0
      /\ bare = [s \in BOOLEAN |-> 0]
  BY DEF DeskInit
<1>2. ASSUME NEW s \in BOOLEAN PROVE Covered(desk, s)
  <2>1. Held(0, s) = 0
    BY DEF Held, Signed, Size
  <2>2. StopsIn(<<>>, ~s) = 0
    BY StopsEmpty
  <2>3. bare[s] = 0
    BY <1>1
  <2>4. Pending(NoDesk, s) = 0
    BY DEF Pending
  <2>. QED  BY <1>1, <2>1, <2>2, <2>3, <2>4 DEF Covered
<1>3. bare \in [BOOLEAN -> Nat] /\ <<>> \in Seq(Stops)
  BY <1>1
<1>. QED  BY <1>1, <1>2, <1>3 DEF DeskInv

LEMMA SafeDesk == DeskInv => PositionIsGuarded /\ ReducesOnly
<1>. SUFFICES ASSUME DeskInv PROVE PositionIsGuarded /\ ReducesOnly
  OBVIOUS
<1>1. \A buy : StopsOn(buy) = StopsIn(guards, buy)
  BY DEF StopsOn, StopsIn
<1>2. ASSUME desk = NoDesk, NEW buy \in BOOLEAN
      PROVE  Held(position, buy) <= StopsOn(~buy) + bare[buy]
  <2>1. Pending(desk, buy) = 0
    BY <1>2 DEF Pending
  <2>. DEFINE t == StopsIn(guards, ~buy)
              h == Held(position, buy)
  <2>2. h <= t + bare[buy] + 0 /\ t \in Nat /\ bare[buy] \in Nat
    BY <2>1, DeskNumbers
  <2>3. t = StopsOn(~buy)
    BY <1>1
  <2>. HIDE DEF t, h
  <2>4. h <= t + bare[buy]
    BY <2>2
  <2>. QED  BY <2>3, <2>4 DEF h
<1>. QED  BY <1>2 DEF PositionIsGuarded, ReducesOnly, DeskInv

(* Whatever the order of entries, closes and stops that fire, and wherever a *)
(* process dies or an answer is lost: between processes the stops cover the  *)
(* position but for what has a known reason to lack one, and nothing meant   *)
(* to reduce opens the other side (hl_scalp.py 82-156, live_executor.py 61). *)
THEOREM DeskIsGuarded ==
  DeskInit /\ [][DeskNext]_deskvars => [](PositionIsGuarded /\ ReducesOnly)
  BY InitDesk, NextDesk, SafeDesk, PTL

------------------------------------------------------------------------------
(* The emulator of the exchange: its balances are what its trades tell.      *)

(* What a trade is worth in each of the four sums of the trade log.          *)
Worth(t, k) == [minor |-> t.minor, net |-> t.minor - t.fee,
                left |-> t.major - t.major \div FeeDiv, major |-> t.major][k]
Worths == {"minor", "net", "left", "major"}
Sum4(S, k) == MapThenSumSet(LAMBDA t : Worth(t, k), S)

LEMMA TheFourSums ==
  ASSUME NEW S
  PROVE  /\ MapThenSumSet(LAMBDA t : t.minor, S) = Sum4(S, "minor")
         /\ MapThenSumSet(LAMBDA t : t.minor - t.fee, S) = Sum4(S, "net")
         /\ MapThenSumSet(LAMBDA t : t.major - t.major \div FeeDiv, S) = Sum4(S, "left")
         /\ MapThenSumSet(LAMBDA t : t.major, S) = Sum4(S, "major")
<1>1. MapThenSumSet(LAMBDA t : t.minor, S) = Sum4(S, "minor")
  BY DEF MapThenSumSet, MapThenFoldSet, Sum4, Worth
<1>2. MapThenSumSet(LAMBDA t : t.minor - t.fee, S) = Sum4(S, "net")
  BY DEF MapThenSumSet, MapThenFoldSet, Sum4, Worth
<1>3. MapThenSumSet(LAMBDA t : t.major - t.major \div FeeDiv, S) = Sum4(S, "left")
  BY DEF MapThenSumSet, MapThenFoldSet, Sum4, Worth
<1>4. MapThenSumSet(LAMBDA t : t.major, S) = Sum4(S, "major")
  BY DEF MapThenSumSet, MapThenFoldSet, Sum4, Worth
<1>. QED  BY <1>1, <1>2, <1>3, <1>4

LEMMA Sum4Is ==
  ASSUME NEW S, IsFiniteSet(S), NEW k
  PROVE  Sum4(S, k) = SumFunctionOnSet([t \in S |-> Worth(t, k)], S)
<1>. DEFINE w == [t \in S |-> Worth(t, k)]
            P(it) == it = [s \in SUBSET S |->
                             IF s = {} THEN 0 ELSE Worth(Taken(s), k) + it[s \ {Taken(s)}]]
            c == CHOOSE it : P(it)
<1>1. Sum4(S, k) = c[S]
  BY DEF Sum4, MapThenSumSet, MapThenFoldSet, Taken
<1>2. ASSUME NEW it PROVE P(it) <=> IsIter(it, S, w)
  <2>1. ASSUME NEW s \in SUBSET S
        PROVE  (IF s = {} THEN 0 ELSE Worth(Taken(s), k) + it[s \ {Taken(s)}]) = Body(it, s, w)
    BY TakenIn DEF Body
  <2>. QED  BY <2>1 DEF IsIter
<1>3. P(IterOf(S, w))
  <2>. HIDE DEF w, P
  <2>. QED  BY <1>2, IterExists
<1>4. P(c)
  <2>. HIDE DEF P
  <2>. QED  BY <1>3
<1>5. IsIter(c, S, w)
  <2>. HIDE DEF P, c, w
  <2>. QED  BY <1>2, <1>4
<1>6. c[S] = IterOf(S, w)[S]
  <2>. HIDE DEF c, w
  <2>. QED  BY <1>5, IterExists, IterUnique
<1>. QED  BY <1>1, <1>6, SumIsIter

LEMMA Sum4Empty == ASSUME NEW k PROVE Sum4({}, k) = 0
  BY Sum4Is, SumEmpty, FS_EmptySet

LEMMA Sum4Add ==
  ASSUME NEW S, IsFiniteSet(S), NEW k, \A t \in S : Worth(t, k) \in Int,
         NEW x, x \notin S, Worth(x, k) \in Int
  PROVE  Sum4(S \cup {x}, k) = Sum4(S, k) + Worth(x, k)
<1>. DEFINE T == S \cup {x}
            w == [t \in S |-> Worth(t, k)]
            v == [t \in T |-> Worth(t, k)]
<1>1. IsFiniteSet(T)
  BY FS_AddElement
<1>2. \A t \in S : w[t] \in Int /\ v[t] = w[t] /\ v[t] \in Int
  OBVIOUS
<1>3. v[x] = Worth(x, k)
  OBVIOUS
<1>. HIDE DEF w, v
<1>4. SumFunctionOnSet(v, T) = SumFunctionOnSet(v, S) + v[x]
  BY <1>2, <1>3, SumAdd
<1>5. SumFunctionOnSet(w, S) = SumFunctionOnSet(v, S)
  BY <1>2, SumSame
<1>6. Sum4(S, k) = SumFunctionOnSet(w, S)
  BY Sum4Is DEF w
<1>7. Sum4(T, k) = SumFunctionOnSet(v, T)
  <2>. HIDE DEF T
  <2>. QED  BY <1>1, Sum4Is DEF v
<1>. QED  BY <1>3, <1>4, <1>5, <1>6, <1>7

LEMMA Sum4Int ==
  ASSUME NEW S, IsFiniteSet(S), NEW k, \A t \in S : Worth(t, k) \in Int
  PROVE  Sum4(S, k) \in Int
<1>. DEFINE w == [t \in S |-> Worth(t, k)]
<1>1. \A t \in S : w[t] \in Int
  OBVIOUS
<1>. HIDE DEF w
<1>2. SumFunctionOnSet(w, S) \in Int
  BY <1>1, SumInt
<1>. QED  BY <1>2, Sum4Is DEF w

OrderRecords == [oid : Nat, kind : {"market", "limit"},
                 status : {"open", "completed", "cancelled"},
                 origin : {"val-rest", "val-buy", "own"}]
TradeRecords == [oid : Nat, side : {"buy", "sell"}, major : Nat, minor : Nat, fee : Nat]
Emulators == [quote : Nat, base : Nat, oid : Nat, orders : SUBSET OrderRecords,
              trades : SUBSET TradeRecords, withdrawals : BOOLEAN]

BuysOf(e) == {t \in e.trades : t.side = "buy"}
SellsOf(e) == {t \in e.trades : t.side = "sell"}

(* The next order id is above every one in the books, which is what keeps    *)
(* them apart.                                                               *)
BookOK(e) ==
  /\ e \in Emulators /\ IsFiniteSet(e.trades)
  /\ e.quote = 2000 - Sum4(BuysOf(e), "minor") + Sum4(SellsOf(e), "net")
  /\ e.base = Sum4(BuysOf(e), "left") - Sum4(SellsOf(e), "major")
  /\ \A t \in e.trades :
       t.oid < e.oid /\ \E o \in e.orders : o.oid = t.oid /\ o.status = "completed"
  /\ \A o \in e.orders : o.oid < e.oid
  /\ \A o, p \in e.orders : o.oid = p.oid => o = p

LEMMA WorthInt == ASSUME NEW t \in TradeRecords, NEW k \in Worths PROVE Worth(t, k) \in Int
<1>1. t.major \in Nat /\ t.minor \in Nat /\ t.fee \in Nat
  BY DEF TradeRecords
<1>2. t.major \div FeeDiv \in Int
  BY <1>1, LadderAssumption
<1>. QED  BY <1>1, <1>2 DEF Worth, Worths

(* Balances and trade log move together.                                     *)
LEMMA TradeAdds ==
  ASSUME NEW S, IsFiniteSet(S), S \subseteq TradeRecords, NEW x \in TradeRecords, x \notin S,
         NEW k \in Worths
  PROVE  Sum4(S \cup {x}, k) = Sum4(S, k) + Worth(x, k) /\ Sum4(S, k) \in Int
  BY WorthInt, Sum4Add, Sum4Int

QuoteOf(gross) == gross * Price
FeeOf(side, gross) ==
  IF side = "buy" THEN FeeOfBuy(gross) ELSE QuoteOf(gross) \div FeeDiv
Filled(side, gross, origin) ==
  [NextOid EXCEPT
     !.quote  = IF side = "buy" THEN @ - QuoteOf(gross)
                ELSE @ + QuoteOf(gross) - FeeOf(side, gross),
     !.base   = IF side = "buy" THEN @ + gross - FeeOf(side, gross) ELSE @ - gross,
     !.trades = @ \cup {Trade(side, gross, QuoteOf(gross), FeeOf(side, gross))},
     !.orders = @ \cup {Order("market", "completed", origin)}]

LEMMA MarketReply ==
  ASSUME NEW side \in {"buy", "sell"}, NEW gross, NEW origin, NEW r,
         r = PlaceMarket(side, gross, origin)
  PROVE  \/ r.emu = NextOid /\ ~r.reply.ok
         \/ /\ r.reply = OkReply({emu.oid}) /\ r.emu = Filled(side, gross, origin)
            /\ side = "buy" => ~(emu.quote < QuoteOf(gross))
            /\ side = "sell" => ~(emu.base < gross)
  BY DEF PlaceMarket, Err, QuoteOf, FeeOf, Filled

Origins == {"val-rest", "val-buy", "own"}

LEMMA NextOidFields ==
  ASSUME emu \in Emulators
  PROVE  /\ NextOid \in Emulators /\ NextOid.quote = emu.quote /\ NextOid.base = emu.base
         /\ NextOid.oid = emu.oid + 1 /\ NextOid.orders = emu.orders
         /\ NextOid.trades = emu.trades /\ NextOid.withdrawals = emu.withdrawals
  BY DEF NextOid, Emulators

LEMMA NextOidBook == ASSUME BookOK(emu) PROVE BookOK(NextOid)
<1>1. /\ NextOid \in Emulators /\ NextOid.quote = emu.quote /\ NextOid.base = emu.base
      /\ NextOid.oid = emu.oid + 1 /\ NextOid.orders = emu.orders
      /\ NextOid.trades = emu.trades
  BY NextOidFields DEF BookOK
<1>2. BuysOf(NextOid) = BuysOf(emu) /\ SellsOf(NextOid) = SellsOf(emu)
  BY <1>1 DEF BuysOf, SellsOf
<1>3. emu.oid \in Nat /\ emu.orders \subseteq OrderRecords /\ emu.trades \subseteq TradeRecords
  BY DEF BookOK, Emulators
<1>4. \A t \in emu.trades : t.oid < emu.oid + 1
  BY <1>3 DEF BookOK, TradeRecords
<1>5. \A o \in emu.orders : o.oid < emu.oid + 1
  BY <1>3 DEF BookOK, OrderRecords
<1>. QED  BY <1>1, <1>2, <1>4, <1>5 DEF BookOK

LEMMA LimitBook ==
  ASSUME BookOK(emu), NEW origin \in Origins
  PROVE  BookOK(PlaceLimit(origin).emu)
<1>. DEFINE x == Order("limit", "open", origin)
            e == PlaceLimit(origin).emu
<1>1. emu.oid \in Nat /\ emu.orders \subseteq OrderRecords /\ emu.trades \subseteq TradeRecords
  BY DEF BookOK, Emulators
<1>2. x \in OrderRecords /\ x.oid = emu.oid /\ x.status = "open"
  BY <1>1 DEF Order, OrderRecords, Origins
<1>3. e = [NextOid EXCEPT !.orders = @ \cup {x}]
  BY DEF PlaceLimit
<1>. HIDE DEF x
<1>4. /\ e \in Emulators /\ e.quote = emu.quote /\ e.base = emu.base /\ e.oid = emu.oid + 1
      /\ e.orders = emu.orders \cup {x} /\ e.trades = emu.trades
  <2>. HIDE DEF e
  <2>1. emu \in Emulators
    BY DEF BookOK
  <2>. QED  BY <1>1, <1>2, <1>3, <2>1, NextOidFields DEF Emulators
<1>. HIDE DEF e
<1>5. BuysOf(e) = BuysOf(emu) /\ SellsOf(e) = SellsOf(emu)
  BY <1>4 DEF BuysOf, SellsOf
<1>6. \A t \in emu.trades : t.oid < emu.oid + 1
  BY <1>1 DEF BookOK, TradeRecords
<1>7. \A o \in emu.orders : o.oid < emu.oid /\ o.oid \in Nat
  BY <1>1 DEF BookOK, OrderRecords
<1>8. \A o \in emu.orders \cup {x} : o.oid < emu.oid + 1
  BY <1>1, <1>2, <1>7
<1>9. \A o, p \in emu.orders \cup {x} : o.oid = p.oid => o = p
  <2>1. \A o, p \in emu.orders : o.oid = p.oid => o = p
    BY DEF BookOK
  <2>2. \A o \in emu.orders : o.oid # x.oid
    BY <1>1, <1>2, <1>7
  <2>. QED  BY <2>1, <2>2
<1>10. \A t \in emu.trades : \E o \in emu.orders \cup {x} : o.oid = t.oid /\ o.status = "completed"
  BY DEF BookOK
<1>11. BookOK(e)
  BY <1>4, <1>5, <1>6, <1>8, <1>9, <1>10 DEF BookOK
<1>. QED  BY <1>11 DEF e

LEMMA CancelBook == ASSUME BookOK(emu) PROVE BookOK(CancelAll.emu)
<1>. DEFINE Off(o) == IF o.status = "open" THEN [o EXCEPT !.status = "cancelled"] ELSE o
            e == CancelAll.emu
<1>1. emu.oid \in Nat /\ emu.orders \subseteq OrderRecords /\ emu.trades \subseteq TradeRecords
  BY DEF BookOK, Emulators
<1>2. \A o \in OrderRecords : /\ Off(o) \in OrderRecords /\ Off(o).oid = o.oid
                              /\ o.status = "completed" => Off(o) = o
  BY DEF OrderRecords
<1>3. e = [emu EXCEPT !.orders = {Off(o) : o \in emu.orders}]
  BY DEF CancelAll
<1>. HIDE DEF Off
<1>. DEFINE os == {Off(o) : o \in emu.orders}
<1>4. os \subseteq OrderRecords
  BY <1>1, <1>2
<1>5. /\ e \in Emulators /\ e.quote = emu.quote /\ e.base = emu.base /\ e.oid = emu.oid
      /\ e.orders = os /\ e.trades = emu.trades
  <2>. HIDE DEF e, os
  <2>1. e = [emu EXCEPT !.orders = os]
    BY <1>3 DEF os
  <2>. QED  BY <1>4, <2>1 DEF BookOK, Emulators
<1>. HIDE DEF e
<1>6. BuysOf(e) = BuysOf(emu) /\ SellsOf(e) = SellsOf(emu)
  BY <1>5 DEF BuysOf, SellsOf
<1>7. \A o \in os : o.oid < emu.oid
  BY <1>1, <1>2 DEF BookOK
<1>8. \A o, p \in os : o.oid = p.oid => o = p
  <2>. SUFFICES ASSUME NEW o \in emu.orders, NEW p \in emu.orders, Off(o).oid = Off(p).oid
                PROVE  Off(o) = Off(p)
    OBVIOUS
  <2>1. o.oid = p.oid
    BY <1>1, <1>2
  <2>. QED  BY <2>1 DEF BookOK
<1>9. ASSUME NEW t \in emu.trades PROVE \E o \in os : o.oid = t.oid /\ o.status = "completed"
  <2>1. PICK o \in emu.orders : o.oid = t.oid /\ o.status = "completed"
    BY DEF BookOK
  <2>2. Off(o) = o
    BY <1>1, <1>2, <2>1
  <2>3. o \in os
    BY <2>2
  <2>. QED  BY <2>1, <2>3
<1>10. \A t \in emu.trades : t.oid < emu.oid
  BY DEF BookOK
<1>. HIDE DEF os
<1>11. BookOK(e)
  BY <1>5, <1>6, <1>7, <1>8, <1>9, <1>10 DEF BookOK
<1>. QED  BY <1>11 DEF e

LEMMA MarketBook ==
  ASSUME BookOK(emu), NEW side \in {"buy", "sell"}, NEW gross \in Nat, NEW origin \in Origins
  PROVE  BookOK(PlaceMarket(side, gross, origin).emu)
<1>. DEFINE r == PlaceMarket(side, gross, origin)
            e == r.emu
            quote == QuoteOf(gross)
            fee == FeeOf(side, gross)
            x == Trade(side, gross, quote, fee)
            o1 == Order("market", "completed", origin)
<1>1. CASE e = NextOid
  BY <1>1, NextOidBook
<1>2. CASE e # NextOid
  <2>. DEFINE quote1 == IF side = "buy" THEN emu.quote - quote ELSE emu.quote + quote - fee
              base1 == IF side = "buy" THEN emu.base + gross - fee ELSE emu.base - gross
  <2>1. /\ IF side = "buy" THEN ~(emu.quote < quote) ELSE ~(emu.base < gross)
        /\ e = [NextOid EXCEPT !.quote = quote1, !.base = base1,
                               !.trades = @ \cup {x}, !.orders = @ \cup {o1}]
    <3>1. /\ e = Filled(side, gross, origin)
          /\ side = "buy" => ~(emu.quote < quote)
          /\ side = "sell" => ~(emu.base < gross)
      <4>. DEFINE p == PlaceMarket(side, gross, origin)
      <4>1. p.emu # NextOid
        BY <1>2
      <4>. HIDE DEF p
      <4>2. /\ p.emu = Filled(side, gross, origin)
            /\ side = "buy" => ~(emu.quote < quote)
            /\ side = "sell" => ~(emu.base < gross)
        BY <4>1, MarketReply DEF p
      <4>. QED  BY <4>2 DEF p
    <3>2. NextOid.quote = emu.quote /\ NextOid.base = emu.base
      BY NextOidFields DEF BookOK
    <3>. HIDE DEF e, x, o1, quote, fee
    <3>3. e = [NextOid EXCEPT !.quote = quote1, !.base = base1,
                              !.trades = @ \cup {x}, !.orders = @ \cup {o1}]
      BY <3>1, <3>2 DEF Filled, quote, fee, x, o1
    <3>. QED  BY <3>1, <3>3
  <2>2. /\ emu.oid \in Nat /\ emu.quote \in Nat /\ emu.base \in Nat
        /\ emu.orders \subseteq OrderRecords /\ emu.trades \subseteq TradeRecords
        /\ IsFiniteSet(emu.trades)
    BY DEF BookOK, Emulators
  <2>3. quote \in Nat
    BY LadderAssumption DEF QuoteOf
  <2>4. fee \in Nat /\ (side = "buy" => fee = gross \div FeeDiv /\ fee <= gross)
        /\ (side = "sell" => fee <= quote)
    <3>1. \A n \in Nat : n \div FeeDiv \in Nat /\ n \div FeeDiv <= n
      BY LadderAssumption, Z3
    <3>. HIDE DEF quote
    <3>. QED  BY <2>3, <3>1 DEF FeeOf, FeeOfBuy, quote
  <2>5. x \in TradeRecords /\ x.oid = emu.oid /\ x.side = side /\ x.major = gross
        /\ x.minor = quote /\ x.fee = fee
    <3>. HIDE DEF quote, fee
    <3>. QED  BY <2>2, <2>3, <2>4 DEF Trade, TradeRecords
  <2>6. o1 \in OrderRecords /\ o1.oid = emu.oid /\ o1.status = "completed"
    BY <2>2 DEF Order, OrderRecords, Origins
  <2>7. quote1 \in Nat /\ base1 \in Nat
    <3>. HIDE DEF quote, fee
    <3>. QED  BY <2>1, <2>2, <2>3, <2>4
  <2>. HIDE DEF e, x, o1, quote, fee, quote1, base1
  <2>8. /\ e \in Emulators /\ e.quote = quote1 /\ e.base = base1 /\ e.oid = emu.oid + 1
        /\ e.orders = emu.orders \cup {o1} /\ e.trades = emu.trades \cup {x}
    <3>1. emu \in Emulators
      BY DEF BookOK
    <3>. QED  BY <2>1, <2>2, <2>5, <2>6, <2>7, <3>1, NextOidFields DEF Emulators
  <2>9. x \notin emu.trades
    BY <2>2, <2>5 DEF BookOK
  <2>10. IsFiniteSet(e.trades) /\ IsFiniteSet(BuysOf(emu)) /\ IsFiniteSet(SellsOf(emu))
    BY <2>2, <2>8, FS_AddElement, FS_Subset DEF BuysOf, SellsOf
  <2>11. /\ BuysOf(emu) \subseteq TradeRecords /\ x \notin BuysOf(emu)
         /\ SellsOf(emu) \subseteq TradeRecords /\ x \notin SellsOf(emu)
    BY <2>2, <2>9 DEF BuysOf, SellsOf
  <2>. DEFINE b == BuysOf(emu)
              s == SellsOf(emu)
  <2>12. emu.quote = 2000 - Sum4(b, "minor") + Sum4(s, "net")
         /\ emu.base = Sum4(b, "left") - Sum4(s, "major")
    BY DEF BookOK
  <2>13. /\ Worth(x, "minor") = quote /\ Worth(x, "net") = quote - fee
         /\ Worth(x, "left") = gross - gross \div FeeDiv /\ Worth(x, "major") = gross
    BY <2>5 DEF Worth
  <2>14. /\ e.quote = 2000 - Sum4(BuysOf(e), "minor") + Sum4(SellsOf(e), "net")
         /\ e.base = Sum4(BuysOf(e), "left") - Sum4(SellsOf(e), "major")
    <3>1. /\ Sum4(b, "minor") \in Int /\ Sum4(b, "left") \in Int
          /\ Sum4(b \cup {x}, "minor") = Sum4(b, "minor") + Worth(x, "minor")
          /\ Sum4(b \cup {x}, "left") = Sum4(b, "left") + Worth(x, "left")
      BY <2>5, <2>10, <2>11, TradeAdds DEF Worths
    <3>2. /\ Sum4(s, "net") \in Int /\ Sum4(s, "major") \in Int
          /\ Sum4(s \cup {x}, "net") = Sum4(s, "net") + Worth(x, "net")
          /\ Sum4(s \cup {x}, "major") = Sum4(s, "major") + Worth(x, "major")
      BY <2>5, <2>10, <2>11, TradeAdds DEF Worths
    <3>3. CASE side = "buy"
      <4>1. BuysOf(e) = b \cup {x} /\ SellsOf(e) = s
        BY <2>5, <2>8, <3>3 DEF BuysOf, SellsOf
      <4>2. quote1 = emu.quote - quote /\ base1 = emu.base + gross - fee
            /\ fee = gross \div FeeDiv
        BY <2>4, <3>3 DEF quote1, base1
      <4>. DEFINE bm == Sum4(b, "minor")
                  bl == Sum4(b, "left")
                  sn == Sum4(s, "net")
                  sm == Sum4(s, "major")
      <4>3. /\ Sum4(b \cup {x}, "minor") = bm + quote
            /\ Sum4(b \cup {x}, "left") = bl + (gross - fee)
        BY <2>13, <3>1, <4>2
      <4>4. emu.quote = 2000 - bm + sn /\ emu.base = bl - sm
        BY <2>12
      <4>5. bm \in Int /\ bl \in Int /\ sn \in Int /\ sm \in Int
        BY <3>1, <3>2
      <4>. HIDE DEF bm, bl, sn, sm
      <4>6. quote1 = 2000 - (bm + quote) + sn /\ base1 = (bl + (gross - fee)) - sm
        BY <2>3, <2>4, <4>2, <4>4, <4>5
      <4>. QED  BY <2>8, <4>1, <4>3, <4>6 DEF sn, sm
    <3>4. CASE side = "sell"
      <4>1. BuysOf(e) = b /\ SellsOf(e) = s \cup {x}
        BY <2>5, <2>8, <3>4 DEF BuysOf, SellsOf
      <4>2. quote1 = emu.quote + quote - fee /\ base1 = emu.base - gross
        BY <3>4 DEF quote1, base1
      <4>. DEFINE bm == Sum4(b, "minor")
                  bl == Sum4(b, "left")
                  sn == Sum4(s, "net")
                  sm == Sum4(s, "major")
      <4>3. /\ Sum4(s \cup {x}, "net") = sn + (quote - fee)
            /\ Sum4(s \cup {x}, "major") = sm + gross
        BY <2>13, <3>2
      <4>4. emu.quote = 2000 - bm + sn /\ emu.base = bl - sm
        BY <2>12
      <4>5. bm \in Int /\ bl \in Int /\ sn \in Int /\ sm \in Int
        BY <3>1, <3>2
      <4>. HIDE DEF bm, bl, sn, sm
      <4>6. quote1 = 2000 - bm + (sn + (quote - fee)) /\ base1 = bl - (sm + gross)
        BY <2>3, <2>4, <4>2, <4>4, <4>5
      <4>. QED  BY <2>8, <4>1, <4>3, <4>6 DEF bm, bl
    <3>. QED  BY <3>3, <3>4
  <2>15. ASSUME NEW t \in emu.trades \cup {x}
         PROVE  t.oid < emu.oid + 1
                /\ \E o \in emu.orders \cup {o1} : o.oid = t.oid /\ o.status = "completed"
    <3>1. CASE t \in emu.trades
      <4>1. t.oid < emu.oid /\ \E o \in emu.orders : o.oid = t.oid /\ o.status = "completed"
        BY <3>1 DEF BookOK
      <4>2. t.oid \in Nat
        BY <2>2, <3>1 DEF TradeRecords
      <4>. QED  BY <2>2, <4>1, <4>2
    <3>2. CASE t = x
      BY <2>2, <2>5, <2>6, <3>2
    <3>. QED  BY <3>1, <3>2
  <2>16. \A o \in emu.orders : o.oid < emu.oid /\ o.oid \in Nat
    BY <2>2 DEF BookOK, OrderRecords
  <2>17. \A o \in emu.orders \cup {o1} : o.oid < emu.oid + 1
    BY <2>2, <2>6, <2>16
  <2>18. \A o, p \in emu.orders \cup {o1} : o.oid = p.oid => o = p
    <3>1. \A o, p \in emu.orders : o.oid = p.oid => o = p
      BY DEF BookOK
    <3>2. \A o \in emu.orders : o.oid # o1.oid
      BY <2>2, <2>6, <2>16
    <3>. QED  BY <3>1, <3>2
  <2>19. BookOK(e)
    BY <2>8, <2>10, <2>14, <2>15, <2>17, <2>18 DEF BookOK
  <2>. QED  BY <2>19 DEF e
<1>. QED  BY <1>1, <1>2

(* The orders of a ladder, and those of them still resting.                  *)
PlacedIn(e) == {o \in e.orders : o.origin \in {"val-rest", "val-buy"}}
RestingIn(e) == {o \in PlacedIn(e) : o.status = "open"}

(* What each request does to them.                                           *)
Keeps(e) ==
  /\ e.withdrawals = emu.withdrawals /\ e.oid >= emu.oid /\ emu.trades \subseteq e.trades
  /\ \A t \in e.trades : t \in emu.trades \/ t.oid = emu.oid

LEMMA LimitDoes ==
  ASSUME BookOK(emu), NEW origin \in Origins
  PROVE  /\ Keeps(PlaceLimit(origin).emu) /\ PlaceLimit(origin).reply.ok
         /\ PlaceLimit(origin).emu.trades = emu.trades
         /\ origin = "own" => PlacedIn(PlaceLimit(origin).emu) = PlacedIn(emu)
<1>. DEFINE x == Order("limit", "open", origin)
            e == [NextOid EXCEPT !.orders = @ \cup {x}]
<1>1. PlaceLimit(origin).emu = e /\ PlaceLimit(origin).reply.ok
  BY DEF PlaceLimit, OkReply
<1>2. x.origin = origin
  BY DEF Order
<1>3. emu \in Emulators /\ emu.oid \in Nat
  BY DEF BookOK, Emulators
<1>. HIDE DEF x
<1>4. /\ e.withdrawals = emu.withdrawals /\ e.oid = emu.oid + 1 /\ e.trades = emu.trades
      /\ e.orders = emu.orders \cup {x}
  BY <1>3, NextOidFields DEF Emulators
<1>. HIDE DEF e
<1>5. Keeps(e) /\ (origin = "own" => PlacedIn(e) = PlacedIn(emu))
  BY <1>2, <1>3, <1>4 DEF Keeps, PlacedIn
<1>. QED  BY <1>1, <1>4, <1>5

LEMMA CancelDoes ==
  ASSUME BookOK(emu)
  PROVE  /\ Keeps(CancelAll.emu) /\ RestingIn(CancelAll.emu) = {}
         /\ CancelAll.emu.trades = emu.trades
         /\ PlacedIn(emu) = {} => PlacedIn(CancelAll.emu) = {}
<1>. DEFINE Off(o) == IF o.status = "open" THEN [o EXCEPT !.status = "cancelled"] ELSE o
            os == {Off(o) : o \in emu.orders}
            e == [emu EXCEPT !.orders = os]
<1>1. CancelAll.emu = e
  BY DEF CancelAll
<1>2. emu \in Emulators /\ emu.oid \in Nat /\ emu.orders \subseteq OrderRecords
  BY DEF BookOK, Emulators
<1>3. \A o \in OrderRecords : Off(o).status # "open" /\ Off(o).origin = o.origin
  BY DEF OrderRecords
<1>. HIDE DEF Off
<1>4. \A p \in os : p.status # "open" /\ \E o \in emu.orders : p.origin = o.origin
  BY <1>2, <1>3
<1>. HIDE DEF os
<1>5. /\ e.withdrawals = emu.withdrawals /\ e.oid = emu.oid /\ e.trades = emu.trades
      /\ e.orders = os
  BY <1>2 DEF Emulators
<1>. HIDE DEF e
<1>6. Keeps(e)
  BY <1>2, <1>5 DEF Keeps
<1>7. RestingIn(e) = {} /\ (PlacedIn(emu) = {} => PlacedIn(e) = {})
  BY <1>4, <1>5 DEF RestingIn, PlacedIn
<1>. QED  BY <1>1, <1>5, <1>6, <1>7

LEMMA MarketDoes ==
  ASSUME BookOK(emu), NEW side \in {"buy", "sell"}, NEW gross \in Nat, NEW origin \in Origins,
         NEW r, r = PlaceMarket(side, gross, origin)
  PROVE  /\ Keeps(r.emu) /\ r.emu.oid > emu.oid
         /\ RestingIn(r.emu) = RestingIn(emu)
         /\ origin = "own" => PlacedIn(r.emu) = PlacedIn(emu)
         /\ r.reply.ok =>
              \A t \in r.emu.trades : t \in emu.trades
                                      \/ (t.side = side /\ t.minor = QuoteOf(gross))
<1>1. emu \in Emulators /\ emu.oid \in Nat
  BY DEF BookOK, Emulators
<1>2. CASE r.emu = NextOid /\ ~r.reply.ok
  BY <1>1, <1>2, NextOidFields DEF Keeps, PlacedIn, RestingIn
<1>3. CASE r.emu = Filled(side, gross, origin)
  <2>. DEFINE x == Trade(side, gross, QuoteOf(gross), FeeOf(side, gross))
              o1 == Order("market", "completed", origin)
              e == Filled(side, gross, origin)
  <2>1. /\ x.oid = emu.oid /\ x.side = side /\ x.minor = QuoteOf(gross)
        /\ o1.status = "completed" /\ o1.origin = origin
    BY DEF Trade, Order
  <2>2. /\ e.withdrawals = emu.withdrawals /\ e.oid = emu.oid + 1
        /\ e.trades = emu.trades \cup {x} /\ e.orders = emu.orders \cup {o1}
    <3>. HIDE DEF x, o1
    <3>. QED  BY <1>1, NextOidFields DEF Filled, x, o1, Emulators
  <2>. HIDE DEF x, o1, e
  <2>3. Keeps(e) /\ e.oid > emu.oid
    BY <1>1, <2>1, <2>2 DEF Keeps
  <2>4. RestingIn(e) = RestingIn(emu) /\ (origin = "own" => PlacedIn(e) = PlacedIn(emu))
    BY <2>1, <2>2 DEF RestingIn, PlacedIn
  <2>. QED  BY <1>3, <2>1, <2>2, <2>3, <2>4 DEF e
<1>. QED  BY <1>2, <1>3, MarketReply

Reading == {"books", "balance", "probe"}
Early == Reading \cup {"fees"}
Late == {"rest", "see", "cancel", "gone", "buy", "reconcile"}
RungNames == {"1-available_books", "2-balance", "3-no_withdraw", "4-fees", "5-kill_path",
           "5/6-order", "6-tiny_order"}
Verdicts == {"PASS", "WARN", "FAIL", "SKIP"}
Results == RungNames \X Verdicts
Ladders == [rung : Early \cup Late \cup {"done"}, arm : BOOLEAN, max : Nat,
            out : Seq(Results), oid : Nat, opened : BOOLEAN]

(* The outcomes so far of a ladder that goes on, and of one that is over.    *)
Green == <<"6-tiny_order", "PASS">>
Clean(out) == \A i \in DOMAIN out : out[i][2] # "FAIL" /\ out[i] # Green
RedIsLast(out) == \A i \in DOMAIN out : out[i][2] = "FAIL" => i = Len(out)

(* The one fill of rung 6.                                                   *)
FillOf(l, t) == t.oid = l.oid /\ t.side = "buy" /\ t.minor <= l.max

(* What a key or a ladder may have come to by each rung.                     *)
Warn == <<"3-no_withdraw", "WARN">>
HasWarn(out) == \E i \in DOMAIN out : out[i] = Warn
KeyOK(e, l, n, b) ==
  e.withdrawals =>
    \/ (n = 1 => PlacedIn(e) = {}) /\ l.rung \in Reading \cup {"done"}
    \/ b /\ HasWarn(l.out)
ArmOK(e, l, n) ==
  /\ ~l.arm => l.rung \in Early \cup {"done"}
  /\ n = 0 => PlacedIn(e) = {} /\ l = NoLadder
  /\ n = 1 /\ (~l.arm \/ l.rung \in Early \cup {"rest"}) => PlacedIn(e) = {}
OutOK(e, l) ==
  /\ RedIsLast(l.out)
  /\ l.rung # "done" => Clean(l.out)
  /\ (\E i \in DOMAIN l.out : l.out[i] = Green) => \E t \in e.trades : FillOf(l, t)
BuyOK(e, l) ==
  l.rung = "reconcile" =>
    l.oid < e.oid /\ \A t \in e.trades : t.oid = l.oid => FillOf(l, t)
RestOK(e, l, n, h) ==
  n = 1 /\ l.arm /\ ~h /\ l.rung \in {"gone", "buy", "reconcile", "done"} => RestingIn(e) = {}

LadInv ==
  /\ BookOK(emu) /\ lad \in Ladders /\ runs \in Nat /\ hurt \in BOOLEAN
  /\ blind \in BOOLEAN /\ KeyOK(emu, lad, runs, blind) /\ ArmOK(emu, lad, runs) /\ OutOK(emu, lad)
  /\ BuyOK(emu, lad) /\ RestOK(emu, lad, runs, hurt)

LEMMA AppendOut ==
  ASSUME NEW out \in Seq(Results), Clean(out), NEW x \in Results
  PROVE  /\ Append(out, x) \in Seq(Results) /\ RedIsLast(Append(out, x))
         /\ x[2] # "FAIL" /\ x # Green => Clean(Append(out, x))
         /\ (\E i \in DOMAIN Append(out, x) : Append(out, x)[i] = Green) => x = Green
         /\ HasWarn(out) \/ x = Warn => HasWarn(Append(out, x))
<1>1. HasWarn(out) \/ x = Warn => HasWarn(Append(out, x))
  <2>1. /\ DOMAIN Append(out, x) = 1..(Len(out) + 1) /\ DOMAIN out = 1..Len(out)
        /\ Len(out) + 1 \in DOMAIN Append(out, x) /\ Append(out, x)[Len(out) + 1] = x
        /\ \A i \in DOMAIN out : i \in DOMAIN Append(out, x) /\ Append(out, x)[i] = out[i]
    OBVIOUS
  <2>. QED  BY <2>1 DEF HasWarn
<1>2. /\ Append(out, x) \in Seq(Results) /\ RedIsLast(Append(out, x))
      /\ x[2] # "FAIL" /\ x # Green => Clean(Append(out, x))
      /\ (\E i \in DOMAIN Append(out, x) : Append(out, x)[i] = Green) => x = Green
  BY DEF Clean, RedIsLast, Green, Results
<1>. QED  BY <1>1, <1>2

(* A call: the emulator either stays or takes the step; a good answer means  *)
(* that it took it.                                                          *)
LEMMA CallDoes ==
  ASSUME NEW o \in Outcomes, NEW r, Call(o, r)
  PROVE  /\ emu' = emu \/ emu' = r.emu
         /\ o = "ok" => emu' = r.emu /\ Seen(o, r.reply) = r.reply
         /\ o # "ok" => ~Seen(o, r.reply).ok /\ Seen(o, r.reply).payload = {}
         /\ runs' = runs
  BY DEF Call, Outcomes, Unheard, Seen, Err

LEMMA ReadDoes ==
  ASSUME NEW what, NEW oid, NEW o \in Outcomes, Call(o, Read(what, oid))
  PROVE  emu' = emu /\ runs' = runs
  BY CallDoes DEF Read

(* Rungs 1 to 4: nothing is ordered, and the ladder goes up or is over.      *)
LEMMA ReadRung ==
  ASSUME LadInv, NEW l \in Ladders, lad.rung \in Early,
         lad' = l, emu' = emu, runs' = runs, hurt' = hurt, blind' \in BOOLEAN,
         l.arm = lad.arm, RedIsLast(l.out),
         \A i \in DOMAIN l.out : l.out[i] # Green,
         \/ l.rung = "done"
         \/ /\ Clean(l.out) /\ l.rung \in Early \cup {"rest"}
            /\ emu.withdrawals => l.rung \in Reading \/ (blind' /\ HasWarn(l.out))
            /\ l.rung = "rest" => l.arm
  PROVE  LadInv'
<1>1. lad \in Ladders /\ BookOK(emu) /\ runs \in Nat /\ hurt \in BOOLEAN
  BY DEF LadInv
<1>2. BookOK(emu')
  BY <1>1
<1>3. KeyOK(emu', l, runs, blind')
  <2>1. runs = 1 => PlacedIn(emu) = {}
    BY DEF LadInv, ArmOK
  <2>. QED  BY <2>1 DEF KeyOK
<1>4. ArmOK(emu', l, runs)
  BY DEF LadInv, ArmOK, Reading, Early, NoLadder
<1>5. OutOK(emu', l)
  BY DEF OutOK
<1>6. BuyOK(emu', l)
  BY DEF BuyOK, Early, Reading
<1>7. RestOK(emu', l, runs, hurt)
  BY DEF LadInv, ArmOK, RestOK, RestingIn
<1>. QED  BY <1>1, <1>2, <1>3, <1>4, <1>5, <1>6, <1>7 DEF LadInv

LEMMA AddRead ==
  ASSUME LadInv, NEW name \in RungNames, NEW status \in Verdicts, NEW rung,
         name # "6-tiny_order", lad.rung \in Early,
         Add(name, status, rung), emu' = emu, runs' = runs, hurt' = hurt, blind' \in BOOLEAN,
         \/ rung = "done"
         \/ /\ status # "FAIL" /\ rung \in Early
            /\ emu.withdrawals => rung \in Reading \/ (blind' /\ <<name, status>> = Warn)
  PROVE  LadInv'
<1>. DEFINE x == <<name, status>>
            out == Append(lad.out, x)
            l == [lad EXCEPT !.out = out, !.rung = rung]
<1>1. lad \in Ladders /\ Clean(lad.out)
  BY DEF LadInv, OutOK, Early, Reading
<1>2. x \in Results /\ x # Green /\ x[2] = status
  BY DEF Green, Results
<1>3. lad.out \in Seq(Results)
  BY <1>1 DEF Ladders
<1>4. lad' = l
  BY DEF Add
<1>w. rung = "done" \/ (emu.withdrawals => rung \in Reading \/ (blind' /\ x = Warn))
  OBVIOUS
<1>. HIDE DEF x
<1>5. /\ out \in Seq(Results) /\ RedIsLast(out)
      /\ status # "FAIL" => Clean(out)
      /\ \A i \in DOMAIN out : out[i] # Green
      /\ x = Warn => HasWarn(out)
  BY <1>1, <1>2, <1>3, AppendOut
<1>. HIDE DEF out
<1>6. l \in Ladders /\ l.arm = lad.arm /\ l.out = out /\ l.rung = rung
  BY <1>1, <1>5 DEF Ladders
<1>. HIDE DEF l
<1>7. rung \in Early => rung # "rest"
  BY DEF Early, Reading
<1>. QED  BY <1>w, <1>4, <1>5, <1>6, <1>7, ReadRung

LEMMA Rung1Ladder == ASSUME LadInv, NEW o \in Outcomes, Rung1(o) PROVE LadInv'
<1>1. /\ lad.rung \in Early /\ emu' = emu /\ runs' = runs /\ hurt' = hurt
      /\ blind' \in BOOLEAN
  BY ReadDoes DEF Rung1, Early, Reading, LadInv
<1>2. Add("1-available_books", "PASS", "balance") \/ Add("1-available_books", "FAIL", "done")
  BY DEF Rung1, Fail
<1>3. /\ "balance" \in Reading /\ "balance" \in Early
      /\ "1-available_books" \in RungNames /\ {"PASS", "FAIL"} \subseteq Verdicts
  BY DEF Reading, Early, RungNames, Verdicts
<1>4. CASE Add("1-available_books", "PASS", "balance")
  BY <1>1, <1>3, <1>4, AddRead
<1>5. CASE Add("1-available_books", "FAIL", "done")
  BY <1>1, <1>3, <1>5, AddRead
<1>. QED  BY <1>2, <1>4, <1>5

LEMMA Rung2Ladder == ASSUME LadInv, NEW o \in Outcomes, Rung2(o) PROVE LadInv'
<1>1. /\ lad.rung \in Early /\ emu' = emu /\ runs' = runs /\ hurt' = hurt
      /\ blind' \in BOOLEAN
  BY ReadDoes DEF Rung2, Early, Reading, LadInv
<1>2. Add("2-balance", "PASS", "probe") \/ Add("2-balance", "FAIL", "done")
  BY DEF Rung2, Fail
<1>3. /\ "probe" \in Reading /\ "probe" \in Early
      /\ "2-balance" \in RungNames /\ {"PASS", "FAIL"} \subseteq Verdicts
  BY DEF Reading, Early, RungNames, Verdicts
<1>4. CASE Add("2-balance", "PASS", "probe")
  BY <1>1, <1>3, <1>4, AddRead
<1>5. CASE Add("2-balance", "FAIL", "done")
  BY <1>1, <1>3, <1>5, AddRead
<1>. QED  BY <1>2, <1>4, <1>5

(* Every answer to the probe of a key that can withdraw ends the ladder,     *)
(* unless the probe was not heard.                                           *)
LEMMA ProbeTells ==
  ASSUME NEW o \in Outcomes, emu.withdrawals
  PROVE  Probe(Seen(o, Read("withdraw", 0).reply)) = IF o \in Unheard THEN "WARN" ELSE "FAIL"
<1>1. Read("withdraw", 0).reply = Err(400, "0300")
  BY DEF Read
<1>2. o \in {"ok", "lost", "late", "limited", "garbled"} \cup Unheard
  BY DEF Outcomes
<1>. QED  BY <1>1, <1>2 DEF Unheard, Seen, Err, Probe, AuthFailed

LEMMA Rung3Ladder == ASSUME LadInv, NEW o \in Outcomes, Rung3(o) PROVE LadInv'
<1>1. /\ lad.rung \in Early /\ emu' = emu /\ runs' = runs /\ hurt' = hurt
      /\ blind' = (o \in Unheard)
  BY ReadDoes DEF Rung3, Early, Reading
<1>. DEFINE v == Probe(Seen(o, Read("withdraw", 0).reply))
<1>2. v \in {"PASS", "WARN", "FAIL"}
  BY DEF Probe
<1>3. emu.withdrawals => v = "FAIL" \/ (v = "WARN" /\ blind')
  BY <1>1, ProbeTells
<1>4. Add("3-no_withdraw", "FAIL", "done")
      \/ (v # "FAIL" /\ Add("3-no_withdraw", v, "fees"))
  BY DEF Rung3, Fail
<1>. HIDE DEF v
<1>5. "fees" \in Early
  BY DEF Early
<1>6. /\ v \in Verdicts /\ "FAIL" \in Verdicts /\ "3-no_withdraw" \in RungNames
      /\ blind' \in BOOLEAN
      /\ v = "WARN" => <<"3-no_withdraw", v>> = Warn
  BY <1>1, <1>2 DEF Verdicts, RungNames, Warn
<1>7. CASE Add("3-no_withdraw", "FAIL", "done")
  BY <1>1, <1>6, <1>7, AddRead
<1>8. CASE v # "FAIL" /\ Add("3-no_withdraw", v, "fees")
  BY <1>1, <1>3, <1>5, <1>6, <1>8, AddRead
<1>. QED  BY <1>4, <1>7, <1>8

LEMMA Rung4Ladder == ASSUME LadInv, NEW o \in Outcomes, Rung4(o) PROVE LadInv'
<1>1. /\ lad.rung = "fees" /\ lad.rung \in Early
      /\ emu' = emu /\ runs' = runs /\ hurt' = hurt /\ blind' = blind /\ blind \in BOOLEAN
  BY ReadDoes DEF Rung4, Early, Reading, LadInv
<1>2. lad \in Ladders /\ Clean(lad.out) /\ lad.out \in Seq(Results)
  BY <1>1 DEF LadInv, OutOK, Ladders
<1>3. emu.withdrawals => blind /\ HasWarn(lad.out)
  BY <1>1 DEF LadInv, KeyOK, Reading
<1>. DEFINE s == IF Seen(o, Read("fees", 0).reply).ok THEN "PASS" ELSE "WARN"
            x == <<"4-fees", s>>
            rest == <<x, <<"5-kill_path", "SKIP">>, <<"6-tiny_order", "SKIP">> >>
            out == IF lad.arm THEN Append(lad.out, x) ELSE lad.out \o rest
            rung == IF lad.arm THEN "rest" ELSE "done"
            l == [lad EXCEPT !.out = out, !.rung = rung]
<1>4. lad' = l
  BY DEF Rung4
<1>5. s \in {"PASS", "WARN"}
  OBVIOUS
<1>. HIDE DEF s
<1>6. x \in Results /\ x[2] # "FAIL" /\ x # Green
  BY <1>5 DEF Green, Results, RungNames, Verdicts
<1>7. rest \in Seq(Results) /\ Clean(rest)
  <2>1. /\ Len(rest) = 3 /\ rest[1] = x /\ rest[2] = <<"5-kill_path", "SKIP">>
        /\ rest[3] = <<"6-tiny_order", "SKIP">> /\ DOMAIN rest = 1..3
    OBVIOUS
  <2>2. rest \in Seq(Results)
    BY <1>6 DEF Results, RungNames, Verdicts
  <2>. HIDE DEF rest
  <2>. QED  BY <1>6, <2>1, <2>2 DEF Clean, Green
<1>. HIDE DEF x, rest
<1>8. out \in Seq(Results) /\ Clean(out) /\ (HasWarn(lad.out) => HasWarn(out))
  <2>1. CASE lad.arm
    BY <1>2, <1>6, <2>1, AppendOut
  <2>2. CASE ~lad.arm
    <3>1. out \in Seq(Results) /\ Clean(out)
      BY <1>2, <1>7, <2>2 DEF Clean
    <3>2. HasWarn(lad.out) => HasWarn(out)
      BY <1>2, <1>7, <2>2 DEF HasWarn
    <3>. QED  BY <3>1, <3>2
  <2>. QED  BY <2>1, <2>2
<1>. HIDE DEF out
<1>9. l \in Ladders /\ l.arm = lad.arm /\ l.out = out /\ l.rung = rung
  BY <1>2, <1>8 DEF Ladders, Late
<1>10. RedIsLast(out) /\ \A i \in DOMAIN out : out[i] # Green
  BY <1>8 DEF Clean, RedIsLast
<1>. HIDE DEF l
<1>. QED  BY <1>1, <1>3, <1>4, <1>8, <1>9, <1>10, ReadRung

(* Rungs 5 and 6: the ladder is armed, and has warned of a key that can      *)
(* withdraw.                                                                 *)
LEMMA LateRung ==
  ASSUME LadInv, lad.rung \in Late, NEW l \in Ladders, lad' = l, l.arm = lad.arm,
         l.rung \notin Early \cup {"rest"}, runs' = runs, hurt' \in BOOLEAN,
         BookOK(emu'), emu'.withdrawals = emu.withdrawals,
         blind' = blind, HasWarn(lad.out) => HasWarn(l.out),
         OutOK(emu', l), BuyOK(emu', l), RestOK(emu', l, runs, hurt')
  PROVE  LadInv'
<1>1. (emu.withdrawals => blind /\ HasWarn(lad.out)) /\ lad.arm /\ runs # 0
  BY DEF LadInv, KeyOK, ArmOK, Late, Reading, Early, NoLadder
<1>2. KeyOK(emu', l, runs, blind') /\ ArmOK(emu', l, runs)
  BY <1>1 DEF KeyOK, ArmOK
<1>. QED  BY <1>2 DEF LadInv

LEMMA LateFacts ==
  ASSUME LadInv, lad.rung \in Late
  PROVE  /\ lad \in Ladders /\ Clean(lad.out) /\ RedIsLast(lad.out) /\ BookOK(emu)
         /\ \A i \in DOMAIN lad.out : lad.out[i] # Green
  BY DEF LadInv, OutOK, Clean, Late

(* A call leaves books that add up, whether it took effect or not.           *)
LEMMA CallBook ==
  ASSUME BookOK(emu), NEW o \in Outcomes, NEW r, Call(o, r), BookOK(r.emu), Keeps(r.emu)
  PROVE  BookOK(emu') /\ Keeps(emu') /\ runs' = runs
<1>1. Keeps(emu)
  BY DEF Keeps, BookOK, Emulators
<1>2. emu' = emu \/ emu' = r.emu
  BY CallDoes
<1>3. runs' = runs
  BY CallDoes
<1>4. CASE emu' = emu
  <2>1. BookOK(emu')
    BY <1>4
  <2>2. Keeps(emu')
    BY <1>1, <1>4
  <2>. QED  BY <1>3, <2>1, <2>2
<1>5. CASE emu' = r.emu
  <2>1. BookOK(emu')
    BY <1>5
  <2>2. Keeps(emu')
    BY <1>5
  <2>. QED  BY <1>3, <2>1, <2>2
<1>. QED  BY <1>2, <1>4, <1>5

(* The ladder goes on, with or without another outcome.                      *)
LEMMA LateGo ==
  ASSUME LadInv, lad.rung \in Late, NEW l \in Ladders, lad' = l,
         l.arm = lad.arm, l.out = lad.out, l.rung \in Late \ {"rest", "reconcile"},
         BookOK(emu'), Keeps(emu'), runs' = runs, hurt' \in BOOLEAN, blind' = blind,
         RestOK(emu', l, runs, hurt')
  PROVE  LadInv'
<1>1. OutOK(emu', l) /\ BuyOK(emu', l)
  BY LateFacts DEF OutOK, BuyOK
<1>2. l.rung \notin Early \cup {"rest"} /\ emu'.withdrawals = emu.withdrawals
  BY DEF Keeps, Late, Early, Reading
<1>. QED  BY <1>1, <1>2, LateRung

LEMMA LateAdd ==
  ASSUME LadInv, lad.rung \in Late, NEW name \in RungNames, NEW status \in Verdicts,
         NEW rung \in {"buy", "done"}, Add(name, status, rung),
         BookOK(emu'), Keeps(emu'), runs' = runs, hurt' \in BOOLEAN, blind' = blind,
         rung = "buy" => status # "FAIL" /\ name # "6-tiny_order",
         <<name, status>> = Green => \E t \in emu'.trades : FillOf(lad, t),
         runs = 1 /\ ~hurt' => RestingIn(emu') = {}
  PROVE  LadInv'
<1>. DEFINE x == <<name, status>>
            out == Append(lad.out, x)
            l == [lad EXCEPT !.out = out, !.rung = rung]
<1>1. lad \in Ladders /\ Clean(lad.out) /\ lad.out \in Seq(Results)
  BY LateFacts DEF Ladders
<1>2. x \in Results /\ x[2] = status /\ (name # "6-tiny_order" => x # Green)
  BY DEF Results, Green
<1>3. lad' = l
  BY DEF Add
<1>4. x = Green => \E t \in emu'.trades : FillOf(lad, t)
  OBVIOUS
<1>. HIDE DEF x
<1>5. /\ out \in Seq(Results) /\ RedIsLast(out)
      /\ status # "FAIL" /\ x # Green => Clean(out)
      /\ (\E i \in DOMAIN out : out[i] = Green) => x = Green
      /\ HasWarn(lad.out) => HasWarn(out)
  BY <1>1, <1>2, AppendOut
<1>. HIDE DEF out
<1>6. /\ l \in Ladders /\ l.arm = lad.arm /\ l.rung = rung /\ l.out = out
      /\ l.oid = lad.oid /\ l.max = lad.max
  BY <1>1, <1>5 DEF Ladders, Late
<1>. HIDE DEF l
<1>7. OutOK(emu', l)
  BY <1>2, <1>4, <1>5, <1>6 DEF OutOK, FillOf
<1>8. BuyOK(emu', l) /\ RestOK(emu', l, runs, hurt')
  BY <1>6 DEF BuyOK, RestOK
<1>9. l.rung \notin Early \cup {"rest"} /\ emu'.withdrawals = emu.withdrawals
  BY <1>6 DEF Keeps, Early, Reading
<1>. QED  BY <1>3, <1>5, <1>6, <1>7, <1>8, <1>9, LateRung

LEMMA RestLadder == ASSUME LadInv, NEW o \in Outcomes, Rest(o) PROVE LadInv'
<1>1. lad.rung = "rest" /\ lad.rung \in Late
  BY DEF Rest, Late
<1>2. lad \in Ladders /\ BookOK(emu) /\ emu.oid \in Nat
  BY <1>1, LateFacts DEF BookOK, Emulators
<1>. DEFINE r == PlaceLimit("val-rest")
<1>3. BookOK(r.emu) /\ Keeps(r.emu) /\ r.reply.ok
  BY <1>2, LimitBook, LimitDoes DEF Origins
<1>4. Call(o, r)
  BY DEF Rest
<1>5. \/ Seen(o, r.reply).ok /\ lad' = [lad EXCEPT !.rung = "see", !.oid = emu.oid]
      \/ ~Seen(o, r.reply).ok /\ Fail("5/6-order")
  BY DEF Rest
<1>6. hurt' = (hurt \/ o # "ok") /\ blind' = blind
  BY DEF Rest, Hurts
<1>. HIDE DEF r
<1>7. BookOK(emu') /\ Keeps(emu') /\ runs' = runs
  BY <1>2, <1>3, <1>4, CallBook
<1>8. hurt' \in BOOLEAN /\ blind' = blind
  BY <1>6
<1>9. CASE lad' = [lad EXCEPT !.rung = "see", !.oid = emu.oid]
  <2>. DEFINE l == [lad EXCEPT !.rung = "see", !.oid = emu.oid]
  <2>1. l \in Ladders /\ l.arm = lad.arm /\ l.rung = "see" /\ l.out = lad.out
    BY <1>2 DEF Ladders, Late
  <2>2. lad' = l
    BY <1>9
  <2>. HIDE DEF l
  <2>3. RestOK(emu', l, runs, hurt') /\ l.rung \in Late \ {"rest", "reconcile"}
    BY <2>1 DEF RestOK, Late
  <2>. QED  BY <1>1, <1>7, <1>8, <2>1, <2>2, <2>3, LateGo
<1>10. CASE ~Seen(o, r.reply).ok /\ Fail("5/6-order")
  <2>1. hurt' = TRUE
    BY <1>3, <1>4, <1>6, <1>10, CallDoes
  <2>2. Add("5/6-order", "FAIL", "done")
    BY <1>10 DEF Fail
  <2>3. "5/6-order" \in RungNames /\ "FAIL" \in Verdicts /\ <<"5/6-order", "FAIL">> # Green
    BY DEF RungNames, Verdicts, Green
  <2>. QED  BY <1>1, <1>7, <1>8, <2>1, <2>2, <2>3, LateAdd
<1>. QED  BY <1>5, <1>9, <1>10

(* A read that is not an order: nothing in the emulator changes.             *)
LEMMA LateRead ==
  ASSUME LadInv, lad.rung \in Late, NEW o \in Outcomes, NEW what, NEW oid,
         Call(o, Read(what, oid)), Hurts(o)
  PROVE  /\ emu' = emu /\ runs' = runs /\ hurt' \in BOOLEAN /\ (~hurt' => ~hurt) /\ blind' = blind
         /\ BookOK(emu') /\ Keeps(emu')
<1>1. emu' = emu /\ runs' = runs
  BY ReadDoes
<1>2. BookOK(emu) /\ Keeps(emu)
  BY DEF LadInv, BookOK, Keeps, Emulators
<1>3. BookOK(emu')
  BY <1>1, <1>2
<1>4. Keeps(emu')
  BY <1>1, <1>2
<1>. QED  BY <1>1, <1>3, <1>4 DEF Hurts

LEMMA SeeOpenLadder == ASSUME LadInv, NEW o \in Outcomes, SeeOpen(o) PROVE LadInv'
<1>1. lad.rung = "see" /\ lad.rung \in Late
  BY DEF SeeOpen, Late
<1>2. lad \in Ladders
  BY <1>1, LateFacts
<1>3. Call(o, Read("open", 0)) /\ Hurts(o)
  BY DEF SeeOpen
<1>. DEFINE b == lad.oid \in Seen(o, Read("open", 0).reply).payload
            l == [lad EXCEPT !.rung = "cancel", !.opened = b]
<1>4. lad' = l
  BY DEF SeeOpen
<1>5. b \in BOOLEAN
  OBVIOUS
<1>. HIDE DEF b
<1>6. l \in Ladders /\ l.arm = lad.arm /\ l.rung = "cancel" /\ l.out = lad.out
  BY <1>2, <1>5 DEF Ladders, Late
<1>. HIDE DEF l
<1>7. RestOK(emu', l, runs, hurt') /\ l.rung \in Late \ {"rest", "reconcile"}
  BY <1>6 DEF RestOK, Late
<1>8. BookOK(emu') /\ Keeps(emu') /\ runs' = runs /\ hurt' \in BOOLEAN /\ blind' = blind
  BY <1>1, <1>3, LateRead
<1>. QED  BY <1>1, <1>4, <1>6, <1>7, <1>8, LateGo

LEMMA CancelLadder == ASSUME LadInv, NEW o \in Outcomes, Cancel(o) PROVE LadInv'
<1>1. lad.rung = "cancel" /\ lad.rung \in Late
  BY DEF Cancel, Late
<1>2. lad \in Ladders /\ BookOK(emu)
  BY <1>1, LateFacts
<1>3. Call(o, CancelAll) /\ Goes("gone") /\ Hurts(o)
  BY DEF Cancel
<1>4. BookOK(CancelAll.emu) /\ Keeps(CancelAll.emu) /\ RestingIn(CancelAll.emu) = {}
  BY <1>2, CancelBook, CancelDoes
<1>5. BookOK(emu') /\ Keeps(emu') /\ runs' = runs
  BY <1>2, <1>3, <1>4, CallBook
<1>6. hurt' \in BOOLEAN /\ (~hurt' => o = "ok") /\ blind' = blind
  BY <1>3 DEF Hurts
<1>7. ~hurt' => RestingIn(emu') = {}
  <2>1. o = "ok" => emu' = CancelAll.emu
    BY <1>3, CallDoes
  <2>2. emu' = CancelAll.emu => RestingIn(emu') = {}
    BY <1>4
  <2>. QED  BY <1>6, <2>1, <2>2
<1>. DEFINE l == [lad EXCEPT !.rung = "gone"]
<1>8. lad' = l
  BY <1>3 DEF Goes
<1>9. l \in Ladders /\ l.arm = lad.arm /\ l.rung = "gone" /\ l.out = lad.out
  BY <1>2 DEF Ladders, Late
<1>. HIDE DEF l
<1>10. RestOK(emu', l, runs, hurt') /\ l.rung \in Late \ {"rest", "reconcile"}
  BY <1>7, <1>9 DEF RestOK, Late
<1>. QED  BY <1>1, <1>5, <1>6, <1>8, <1>9, <1>10, LateGo

LEMMA SeeGoneLadder == ASSUME LadInv, NEW o \in Outcomes, SeeGone(o) PROVE LadInv'
<1>1. lad.rung = "gone" /\ lad.rung \in Late
  BY DEF SeeGone, Late
<1>2. Call(o, Read("open", 0)) /\ Hurts(o)
  BY DEF SeeGone
<1>3. /\ emu' = emu /\ runs' = runs /\ hurt' \in BOOLEAN /\ (~hurt' => ~hurt) /\ blind' = blind
      /\ BookOK(emu') /\ Keeps(emu')
  BY <1>1, <1>2, LateRead
<1>4. lad.arm
  BY <1>1 DEF LadInv, ArmOK, Early, Reading
<1>5. runs = 1 /\ ~hurt' => RestingIn(emu) = {}
  BY <1>1, <1>3, <1>4 DEF LadInv, RestOK
<1>6. runs = 1 /\ ~hurt' => RestingIn(emu') = {}
  BY <1>3, <1>5
<1>7. /\ "5-kill_path" \in RungNames /\ {"PASS", "FAIL"} \subseteq Verdicts
      /\ <<"5-kill_path", "PASS">> # Green /\ <<"5-kill_path", "FAIL">> # Green
  BY DEF RungNames, Verdicts, Green
<1>8. Add("5-kill_path", "PASS", "buy") \/ Add("5-kill_path", "FAIL", "done")
  BY DEF SeeGone, Fail
<1>9. CASE Add("5-kill_path", "PASS", "buy")
  BY <1>1, <1>3, <1>6, <1>7, <1>9, LateAdd
<1>10. CASE Add("5-kill_path", "FAIL", "done")
  BY <1>1, <1>3, <1>6, <1>7, <1>10, LateAdd
<1>. QED  BY <1>8, <1>9, <1>10

(* The buy never spends more than --max-mxn.                                 *)
LEMMA SpendIsCapped ==
  ASSUME lad.max \in Nat
  PROVE  Spend \div Price \in Nat /\ QuoteOf(Spend \div Price) <= lad.max
<1>1. Spend \in Nat /\ Spend <= lad.max
  BY DEF Spend
<1>2. \A n \in Nat : n \div Price \in Nat /\ (n \div Price) * Price <= n
  BY LadderAssumption, Z3
<1>. DEFINE n == Spend
            q == n \div Price
            p == q * Price
<1>3. q \in Nat /\ p <= n
  BY <1>1, <1>2
<1>4. p \in Int /\ n \in Int
  BY <1>1, <1>3, LadderAssumption
<1>. HIDE DEF p, n
<1>5. p <= lad.max
  BY <1>1, <1>3, <1>4 DEF n
<1>. QED  BY <1>3, <1>5 DEF p, n, QuoteOf

LEMMA BuyLadder == ASSUME LadInv, NEW o \in Outcomes, Buy(o) PROVE LadInv'
<1>1. lad.rung = "buy" /\ lad.rung \in Late
  BY DEF Buy, Late
<1>2. lad \in Ladders /\ BookOK(emu) /\ emu.oid \in Nat /\ lad.max \in Nat /\ Clean(lad.out)
  BY <1>1, LateFacts DEF BookOK, Emulators, Ladders
<1>. DEFINE gross == Spend \div Price
            r == PlaceMarket("buy", gross, "val-buy")
<1>3. gross \in Nat /\ QuoteOf(gross) <= lad.max
  BY <1>2, SpendIsCapped
<1>4. Call(o, r) /\ Hurts(o)
  BY DEF Buy
<1>5. \/ Seen(o, r.reply).ok /\ lad' = [lad EXCEPT !.rung = "reconcile", !.oid = emu.oid]
      \/ ~Seen(o, r.reply).ok /\ Fail("5/6-order")
  BY DEF Buy
<1>. HIDE DEF gross
<1>6. BookOK(r.emu)
  BY <1>2, <1>3, MarketBook DEF Origins
<1>7. /\ Keeps(r.emu) /\ r.emu.oid > emu.oid /\ RestingIn(r.emu) = RestingIn(emu)
      /\ r.reply.ok => \A t \in r.emu.trades :
                         t \in emu.trades \/ (t.side = "buy" /\ t.minor = QuoteOf(gross))
  BY <1>2, <1>3, MarketDoes DEF Origins
<1>. HIDE DEF r
<1>8. BookOK(emu') /\ Keeps(emu') /\ runs' = runs
  BY <1>2, <1>4, <1>6, <1>7, CallBook
<1>9. hurt' \in BOOLEAN /\ (~hurt' => ~hurt) /\ blind' = blind
  BY <1>4 DEF Hurts
<1>10. lad.arm
  BY <1>1 DEF LadInv, ArmOK, Early, Reading
<1>11. runs = 1 /\ ~hurt' => RestingIn(emu') = {}
  <2>1. runs = 1 /\ ~hurt' => RestingIn(emu) = {}
    BY <1>1, <1>9, <1>10 DEF LadInv, RestOK
  <2>2. emu' = emu \/ emu' = r.emu
    BY <1>4, CallDoes
  <2>. QED  BY <1>7, <2>1, <2>2
<1>12. CASE Seen(o, r.reply).ok /\ lad' = [lad EXCEPT !.rung = "reconcile", !.oid = emu.oid]
  <2>. DEFINE l == [lad EXCEPT !.rung = "reconcile", !.oid = emu.oid]
  <2>1. /\ l \in Ladders /\ l.arm = lad.arm /\ l.rung = "reconcile" /\ l.out = lad.out
        /\ l.oid = emu.oid /\ l.max = lad.max
    BY <1>2 DEF Ladders, Late
  <2>2. lad' = l
    BY <1>12
  <2>. HIDE DEF l
  <2>3. emu' = r.emu /\ r.reply.ok
    BY <1>4, <1>12, CallDoes
  <2>4. \A t \in emu.trades : t.oid # emu.oid
    <3>1. \A t \in emu.trades : t.oid \in Nat /\ t.oid < emu.oid
      BY <1>2 DEF BookOK, Emulators, TradeRecords
    <3>. QED  BY <1>2, <3>1
  <2>5. l.oid < r.emu.oid /\ \A t \in r.emu.trades : t.oid = l.oid => FillOf(l, t)
    BY <1>2, <1>3, <1>7, <2>1, <2>3, <2>4 DEF FillOf
  <2>6. BuyOK(emu', l)
    BY <2>3, <2>5 DEF BuyOK
  <2>7. OutOK(emu', l)
    BY <1>1, <2>1, LateFacts DEF OutOK
  <2>8. RestOK(emu', l, runs, hurt')
    BY <1>11 DEF RestOK
  <2>9. l.rung \notin Early \cup {"rest"} /\ emu'.withdrawals = emu.withdrawals
    BY <1>8, <2>1 DEF Early, Reading, Keeps
  <2>. QED  BY <1>1, <1>8, <1>9, <2>1, <2>2, <2>6, <2>7, <2>8, <2>9, LateRung
<1>13. CASE Fail("5/6-order")
  <2>1. Add("5/6-order", "FAIL", "done")
    BY <1>13 DEF Fail
  <2>2. "5/6-order" \in RungNames /\ "FAIL" \in Verdicts /\ <<"5/6-order", "FAIL">> # Green
    BY DEF RungNames, Verdicts, Green
  <2>. QED  BY <1>1, <1>8, <1>9, <1>11, <2>1, <2>2, LateAdd
<1>. QED  BY <1>5, <1>12, <1>13

(* A green rung 6 is a trade of this run's order: the read came back whole.  *)
LEMMA ReconcileLadder == ASSUME LadInv, NEW o \in Outcomes, Reconcile(o) PROVE LadInv'
<1>1. lad.rung = "reconcile" /\ lad.rung \in Late
  BY DEF Reconcile, Late
<1>. DEFINE r == Read("trades", lad.oid)
            told == Seen(o, r.reply)
<1>2. Call(o, r) /\ Hurts(o)
  BY DEF Reconcile
<1>3. /\ emu' = emu /\ runs' = runs /\ hurt' \in BOOLEAN /\ (~hurt' => ~hurt) /\ blind' = blind
      /\ BookOK(emu') /\ Keeps(emu')
  BY <1>1, <1>2, LateRead
<1>4. lad.arm
  BY <1>1 DEF LadInv, ArmOK, Early, Reading
<1>5. runs = 1 /\ ~hurt' => RestingIn(emu') = {}
  <2>1. runs = 1 /\ ~hurt' => RestingIn(emu) = {}
    BY <1>1, <1>3, <1>4 DEF LadInv, RestOK
  <2>. QED  BY <1>3, <2>1
<1>6. r.reply.payload = {t \in emu.trades : t.oid = lad.oid}
  BY DEF Read, OkReply
<1>7. o = "ok" => told = r.reply
  BY <1>2, CallDoes
<1>8. o # "ok" => ~told.ok
  BY <1>2, CallDoes
<1>9. \/ Add("6-tiny_order", "FAIL", "done")
      \/ told.ok /\ told.payload # {} /\ Add("6-tiny_order", "PASS", "done")
  BY DEF Reconcile, Fail
<1>. HIDE DEF r, told
<1>10. /\ "6-tiny_order" \in RungNames /\ {"PASS", "FAIL"} \subseteq Verdicts
       /\ <<"6-tiny_order", "FAIL">> # Green
  BY DEF RungNames, Verdicts, Green
<1>11. CASE Add("6-tiny_order", "FAIL", "done")
  BY <1>1, <1>3, <1>5, <1>10, <1>11, LateAdd
<1>12. CASE told.ok /\ told.payload # {} /\ Add("6-tiny_order", "PASS", "done")
  <2>1. {t \in emu.trades : t.oid = lad.oid} # {}
    BY <1>6, <1>7, <1>8, <1>12
  <2>2. PICK t \in emu.trades : t.oid = lad.oid
    BY <2>1
  <2>3. FillOf(lad, t)
    BY <1>1, <2>2 DEF LadInv, BuyOK
  <2>4. \E u \in emu'.trades : FillOf(lad, u)
    BY <1>3, <2>3
  <2>. QED  BY <1>1, <1>3, <1>5, <1>10, <1>12, <2>4, LateAdd
<1>. QED  BY <1>9, <1>11, <1>12

LEMMA StartLadder ==
  ASSUME LadInv, NEW arm \in BOOLEAN, NEW max \in MaxMxn, Start(arm, max)
  PROVE  LadInv'
<1>. DEFINE l == [NoLadder EXCEPT !.rung = "books", !.arm = arm, !.max = max]
<1>1. /\ lad' = l /\ runs' = runs + 1 /\ hurt' = FALSE /\ emu' = emu /\ blind' = FALSE
  BY DEF Start
<1>2. /\ l \in Ladders /\ l.rung = "books" /\ l.out = <<>>
  <2>1. NoLadder \in Ladders /\ NoLadder.out = <<>>
    BY DEF NoLadder, Ladders
  <2>2. max \in Nat /\ "books" \in Early
    BY LadderAssumption DEF Early, Reading
  <2>. QED  BY <2>1, <2>2 DEF Ladders
<1>. HIDE DEF l
<1>3. BookOK(emu) /\ runs \in Nat
  BY DEF LadInv
<1>4. BookOK(emu')
  BY <1>1, <1>3
<1>6. runs = 0 => PlacedIn(emu) = {}
  BY DEF LadInv, ArmOK
<1>7. KeyOK(emu', l, runs + 1, FALSE)
  <2>1. runs + 1 = 1 => PlacedIn(emu') = {}
    BY <1>1, <1>3, <1>6
  <2>. QED  BY <1>2, <2>1 DEF KeyOK, Reading
<1>8. ArmOK(emu', l, runs + 1)
  <2>1. runs + 1 # 0 /\ (runs + 1 = 1 => runs = 0)
    BY <1>3
  <2>2. runs + 1 = 1 => PlacedIn(emu') = {}
    BY <1>1, <1>6, <2>1
  <2>. QED  BY <1>2, <2>1, <2>2 DEF ArmOK, Early, Reading
<1>9. OutOK(emu', l) /\ BuyOK(emu', l) /\ RestOK(emu', l, runs + 1, FALSE)
  BY <1>2 DEF OutOK, BuyOK, RestOK, Clean, RedIsLast
<1>10. lad' \in Ladders /\ runs' \in Nat /\ hurt' \in BOOLEAN /\ blind' \in BOOLEAN
  <2>1. lad' \in Ladders /\ runs' \in Nat
    BY <1>1, <1>2, <1>3
  <2>2. hurt' \in BOOLEAN /\ blind' \in BOOLEAN
    BY <1>1
  <2>. QED  BY <2>1, <2>2
<1>11. KeyOK(emu', lad', runs', blind') /\ ArmOK(emu', lad', runs')
  BY <1>1, <1>7, <1>8
<1>12. OutOK(emu', lad') /\ BuyOK(emu', lad') /\ RestOK(emu', lad', runs', hurt')
  BY <1>1, <1>9
<1>. QED  BY <1>4, <1>10, <1>11, <1>12 DEF LadInv

(* The owner's orders are none of the ladder's, and no trade of theirs has   *)
(* the id of an order placed before.                                         *)
LEMMA OwnLadder ==
  ASSUME LadInv, NEW e, BookOK(e), Keeps(e), PlacedIn(e) = PlacedIn(emu),
         emu' = e, lad' = lad, runs' = runs, hurt' = hurt, blind' = blind
  PROVE  LadInv'
<1>1. emu.oid \in Nat /\ e.oid \in Nat /\ lad.oid \in Nat
  BY DEF LadInv, BookOK, Emulators, Ladders
<1>2. RestingIn(e) = RestingIn(emu)
  BY DEF RestingIn
<1>3. KeyOK(e, lad, runs, blind)
  BY DEF LadInv, KeyOK, Keeps
<1>4. ArmOK(e, lad, runs)
  BY DEF LadInv, ArmOK
<1>5. OutOK(e, lad)
  BY DEF LadInv, OutOK, Keeps
<1>6. BuyOK(e, lad)
  <2>. SUFFICES ASSUME lad.rung = "reconcile"
                PROVE  lad.oid < e.oid /\ \A t \in e.trades : t.oid = lad.oid => FillOf(lad, t)
    BY DEF BuyOK
  <2>1. lad.oid < emu.oid /\ \A t \in emu.trades : t.oid = lad.oid => FillOf(lad, t)
    BY DEF LadInv, BuyOK
  <2>2. e.oid >= emu.oid /\ \A t \in e.trades : t \in emu.trades \/ t.oid = emu.oid
    BY DEF Keeps
  <2>. QED  BY <1>1, <2>1, <2>2
<1>7. RestOK(e, lad, runs, hurt)
  BY <1>2 DEF LadInv, RestOK
<1>8. lad \in Ladders /\ runs \in Nat /\ hurt \in BOOLEAN /\ blind \in BOOLEAN
  BY DEF LadInv
<1>. QED  BY <1>3, <1>4, <1>5, <1>6, <1>7, <1>8 DEF LadInv

LEMMA OwnMarketLadder ==
  ASSUME LadInv, NEW side \in {"buy", "sell"}, NEW a \in Amounts, OwnMarket(side, a)
  PROVE  LadInv'
<1>. DEFINE r == PlaceMarket(side, a, "own")
            e == r.emu
<1>1. BookOK(emu) /\ a \in Nat
  BY LadderAssumption DEF LadInv
<1>2. BookOK(e)
  BY <1>1, MarketBook DEF Origins
<1>3. emu' = e /\ lad' = lad /\ runs' = runs /\ hurt' = hurt /\ blind' = blind
  BY DEF OwnMarket
<1>. HIDE DEF r
<1>4. Keeps(e) /\ PlacedIn(e) = PlacedIn(emu)
  BY <1>1, MarketDoes DEF r, Origins
<1>. HIDE DEF e
<1>. QED  BY <1>2, <1>3, <1>4, OwnLadder

LEMMA OwnLimitLadder == ASSUME LadInv, OwnLimit PROVE LadInv'
<1>. DEFINE e == PlaceLimit("own").emu
<1>1. BookOK(emu)
  BY DEF LadInv
<1>2. BookOK(e) /\ Keeps(e) /\ PlacedIn(e) = PlacedIn(emu)
  BY <1>1, LimitBook, LimitDoes DEF Origins
<1>3. emu' = e /\ lad' = lad /\ runs' = runs /\ hurt' = hurt /\ blind' = blind
  BY DEF OwnLimit
<1>. HIDE DEF e
<1>. QED  BY <1>2, <1>3, OwnLadder

LEMMA NextLadder == LadInv /\ [LadNext]_ladvars => LadInv'
<1>. SUFFICES ASSUME LadInv, [LadNext]_ladvars PROVE LadInv'
  OBVIOUS
<1>1. CASE UNCHANGED ladvars
  <2>1. emu' = emu /\ lad' = lad /\ runs' = runs /\ hurt' = hurt /\ blind' = blind
    BY <1>1 DEF ladvars
  <2>2. BookOK(emu) /\ Keeps(emu)
    BY DEF LadInv, BookOK, Keeps, Emulators
  <2>. QED  BY <2>1, <2>2, OwnLadder
<1>2. CASE LadNext
  BY <1>2, Rung1Ladder, Rung2Ladder, Rung3Ladder, Rung4Ladder, RestLadder, SeeOpenLadder,
     CancelLadder, SeeGoneLadder, BuyLadder, ReconcileLadder, StartLadder, OwnMarketLadder,
     OwnLimitLadder DEF LadNext
<1>. QED  BY <1>1, <1>2

LEMMA InitLadder == LadInit => LadInv
<1>. SUFFICES ASSUME LadInit PROVE LadInv
  OBVIOUS
<1>1. PICK w \in BOOLEAN :
        emu = [quote |-> 2000, base |-> 0, oid |-> 1, orders |-> {}, trades |-> {},
               withdrawals |-> w]
  BY DEF LadInit
<1>2. /\ emu \in Emulators /\ emu.quote = 2000 /\ emu.base = 0 /\ emu.oid = 1
      /\ emu.orders = {} /\ emu.trades = {}
  BY <1>1 DEF Emulators
<1>3. BuysOf(emu) = {} /\ SellsOf(emu) = {}
  BY <1>2 DEF BuysOf, SellsOf
<1>4. /\ Sum4(BuysOf(emu), "minor") = 0 /\ Sum4(SellsOf(emu), "net") = 0
      /\ Sum4(BuysOf(emu), "left") = 0 /\ Sum4(SellsOf(emu), "major") = 0
  BY <1>3, Sum4Empty
<1>5. BookOK(emu)
  BY <1>2, <1>4, FS_EmptySet DEF BookOK
<1>6. lad = NoLadder /\ runs = 0 /\ hurt = FALSE /\ blind = FALSE
  BY DEF LadInit
<1>7. /\ lad \in Ladders /\ lad.rung = "done" /\ lad.out = <<>>
  BY <1>6 DEF NoLadder, Ladders
<1>8. PlacedIn(emu) = {}
  BY <1>2 DEF PlacedIn
<1>9. KeyOK(emu, lad, runs, blind) /\ ArmOK(emu, lad, runs)
  BY <1>6, <1>7, <1>8 DEF KeyOK, Reading, ArmOK, NoLadder
<1>10. OutOK(emu, lad) /\ BuyOK(emu, lad)
  BY <1>7 DEF OutOK, BuyOK, RedIsLast
<1>11. RestOK(emu, lad, runs, hurt)
  BY <1>6 DEF RestOK
<1>. QED  BY <1>5, <1>6, <1>7, <1>9, <1>10, <1>11 DEF LadInv

LEMMA SafeLadder == LadInv => LadderIsSafe /\ EmulatorBalances
<1>. SUFFICES ASSUME LadInv PROVE LadderIsSafe /\ EmulatorBalances
  OBVIOUS
<1>1. Placed = PlacedIn(emu)
  BY DEF Placed, PlacedIn
<1>2. {o \in Placed : o.status = "open"} = RestingIn(emu)
  BY <1>1 DEF RestingIn
<1>3. /\ emu.withdrawals
      /\ lad.rung \notin {"books", "balance", "probe", "done"} \/ (runs = 1 /\ Placed # {})
      => blind /\ Warn \in Rungs
  BY <1>1 DEF LadInv, KeyOK, Reading, HasWarn, Rungs
<1>4. ~lad.arm /\ runs = 1 => Placed = {}
  BY <1>1 DEF LadInv, ArmOK
<1>5. \A i \in DOMAIN lad.out : lad.out[i][2] = "FAIL" => i = Len(lad.out) /\ lad.rung = "done"
  BY DEF LadInv, OutOK, RedIsLast, Clean
<1>6. Green \in Rungs => \E t \in emu.trades : FillOf(lad, t)
  BY DEF LadInv, OutOK, Rungs
<1>7. lad.rung \in {"buy", "reconcile", "done"} /\ lad.arm /\ ~hurt /\ runs = 1
      => RestingIn(emu) = {}
  BY DEF LadInv, RestOK
<1>8. LadderIsSafe
  BY <1>2, <1>3, <1>4, <1>5, <1>6, <1>7 DEF LadderIsSafe, Green, Warn, FillOf
<1>9. BookOK(emu) /\ emu \in Emulators
  BY DEF LadInv, BookOK
<1>10. Buys = BuysOf(emu) /\ Sells = SellsOf(emu)
  BY DEF Buys, Sells, BuysOf, SellsOf
<1>11. /\ emu.quote = 2000 - Sum4(Buys, "minor") + Sum4(Sells, "net")
       /\ emu.base = Sum4(Buys, "left") - Sum4(Sells, "major")
       /\ emu.quote >= 0 /\ emu.base >= 0
  BY <1>9, <1>10 DEF BookOK, Emulators
<1>12. /\ \A t \in emu.trades : \E o \in emu.orders : o.oid = t.oid /\ o.status = "completed"
       /\ \A o, p \in emu.orders : o.oid = p.oid => o = p
  BY <1>9 DEF BookOK
<1>13. EmulatorBalances
  BY <1>11, <1>12 DEF EmulatorBalances, MapThenSumSet, MapThenFoldSet, Sum4, Worth
<1>. QED  BY <1>8, <1>13

(* Whatever the transport does to the answers: no order of a first ladder    *)
(* that is not armed; none with a key that can withdraw, unless its probe    *)
(* was not heard and is a WARN; no resting order left by a first run that    *)
(* met no fault in an order rung; no green fill that is not this run's; an   *)
(* emulator whose balances are its trade log; and a desk whose stops cover   *)
(* its position (validation.py 38-159, mock.py 43-213, hl_scalp.py 82-156).  *)
THEOREM VenuesAreSafe == GatesSpec => []VenueIsSafe
<1>. DEFINE Inv == LadInv /\ DeskInv
<1>1. GatesInit => Inv
  BY InitLadder, InitDesk DEF GatesInit
<1>2. Inv /\ [GatesNext]_<<part, gatevars>> => Inv'
  <2>. SUFFICES ASSUME Inv, [GatesNext]_<<part, gatevars>> PROVE Inv'
    OBVIOUS
  <2>1. [LadNext]_ladvars /\ [DeskNext]_deskvars
    BY DEF GatesNext, gatevars
  <2>. QED  BY <2>1, NextLadder, NextDesk
<1>3. Inv => VenueIsSafe
  BY SafeLadder, SafeDesk DEF VenueIsSafe
<1>. QED  BY <1>1, <1>2, <1>3, PTL DEF GatesSpec

------------------------------------------------------------------------------
(* Capital: nothing staged that was not earned, no two verdicts apart.       *)

CapBooks == [rs : Seq(Int), dsr : Int, lucky : BOOLEAN]
Lines == [n : Nat, dsr : Int]
Decisions == [s : Strategies, status : Statuses, line : Lines]

(* The line of a ledger that a strategy had earned when it was written.      *)
Then(b, line) == [rs |-> SubSeq(b.rs, 1, line.n), dsr |-> line.dsr, lucky |-> TRUE]
Earned(b, line) ==
  /\ line # NoLine /\ line.n \in 0..Len(b.rs)
  /\ GateDeploys(Then(b, line)) /\ Approved(Then(b, line))

CapInv ==
  /\ books \in [Strategies -> CapBooks]
  /\ prev \in [Strategies -> Statuses]
  /\ staged \in [Strategies -> Lines]
  /\ todo \in Seq(Decisions)
  /\ \A i \in DOMAIN todo :
       todo[i].status = "DEPLOY" => Earned(books[todo[i].s], todo[i].line)
  /\ \A s \in Strategies : /\ staged[s] # NoLine => Earned(books[s], staged[s])
                           /\ prev[s] = "DEPLOY" => staged[s] # NoLine

(* The verdicts look at the record and the ratio alone, but for the luck of  *)
(* the bootstrap, which can only help.                                       *)
LEMMA VerdictsOfRecord ==
  ASSUME NEW b, NEW c, c.rs = b.rs, c.dsr = b.dsr, c.lucky = TRUE
  PROVE  /\ GateDeploys(b) => GateDeploys(c)
         /\ Approved(b) => Approved(c)
<1>1. GateDeploys(b) => GateDeploys(c)
  BY DEF GateDeploys, Enough
<1>2. Ruin(b) => Ruin(c)
  BY DEF Ruin
<1>. QED  BY <1>1, <1>2 DEF Approved, Edge

LEMMA EarnedNow ==
  ASSUME NEW b \in CapBooks, GateDeploys(b), Approved(b)
  PROVE  Earned(b, [n |-> Len(b.rs), dsr |-> GateDsr(b)])
<1>. DEFINE line == [n |-> Len(b.rs), dsr |-> GateDsr(b)]
<1>1. b.rs \in Seq(Int) /\ Len(b.rs) \in Nat
  BY DEF CapBooks
<1>2. Enough(b)
  BY DEF GateDeploys
<1>3. SubSeq(b.rs, 1, Len(b.rs)) = b.rs
  BY <1>1
<1>4. line.n = Len(b.rs) /\ line.dsr = b.dsr
  BY <1>2 DEF GateDsr
<1>5. Len(b.rs) # 0
  BY <1>1, <1>2 DEF Enough
<1>. HIDE DEF line
<1>6. Then(b, line).rs = b.rs /\ Then(b, line).dsr = b.dsr /\ Then(b, line).lucky = TRUE
  BY <1>3, <1>4 DEF Then
<1>7. GateDeploys(Then(b, line)) /\ Approved(Then(b, line))
  BY <1>6, VerdictsOfRecord
<1>8. line # NoLine /\ line.n \in 0..Len(b.rs)
  BY <1>1, <1>4, <1>5 DEF NoLine
<1>9. Earned(b, line)
  BY <1>7, <1>8 DEF Earned
<1>. QED  BY <1>9 DEF line

(* What was earned stays so: records only grow.                              *)
LEMMA EarnedStays ==
  ASSUME NEW b \in CapBooks, NEW c, NEW r \in Int, c.rs = Append(b.rs, r),
         NEW line \in Lines, Earned(b, line)
  PROVE  Earned(c, line)
<1>. DEFINE rs == b.rs
            n == line.n
<1>1. rs \in Seq(Int) /\ n \in 0..Len(rs) /\ Len(Append(rs, r)) = Len(rs) + 1
  BY DEF CapBooks, Earned
<1>2. SubSeq(Append(rs, r), 1, n) = SubSeq(rs, 1, n)
  <2>. HIDE DEF rs, n
  <2>. QED  BY <1>1
<1>3. Then(c, line) = Then(b, line)
  BY <1>2 DEF Then
<1>4. line.n \in 0..Len(c.rs)
  BY <1>1
<1>. QED  BY <1>3, <1>4 DEF Earned

------------------------------------------------------------------------------
(* The broker's fold over a ranking, strategy after strategy.                *)
Nothing == [total |-> 0, deploys |-> {}]
Filled2 == [total : Int, deploys : SUBSET Strategies]
Admit(bs, s, d) ==
  IF GateDeploys(bs[s]) /\ Approved(bs[s]) /\ d.total + Tier <= PortfolioCap
  THEN [total |-> d.total + Tier, deploys |-> d.deploys \cup {s}] ELSE d
DecideBody(it, s, bs, order) ==
  IF s = {} THEN Nothing ELSE Admit(bs, order[HighestIn(s)], it[s \ {HighestIn(s)}])
DecideIter(it, bs, order) == it = [s \in SUBSET DOMAIN order |-> DecideBody(it, s, bs, order)]
DecideFold(bs, order) == CHOOSE it : DecideIter(it, bs, order)

LEMMA DecideIsFold ==
  ASSUME NEW bs, NEW order
  PROVE  Decide(bs, order) = DecideFold(bs, order)[DOMAIN order]
  BY DEF Decide, FoldLeft, MapThenFoldSet, Max, HighestIn, DecideFold, DecideIter, DecideBody,
         Admit, Nothing

(* F: what the broker holds after each of the n strategies.                  *)
IsRun(F, bs, order, n) ==
  /\ F[0] = Nothing /\ F[n] = Decide(bs, order)
  /\ \A k \in 1..n : F[k] = Admit(bs, order[k], F[k - 1])
  /\ \A k \in 0..n : F[k] \in Filled2

LEMMA DecideSteps ==
  ASSUME NEW bs, NEW n \in Nat, NEW order \in [1..n -> Strategies]
  PROVE  \E F : IsRun(F, bs, order, n)
<1>. DEFINE D == 1..n
            g == [x \in D \X Filled2 |-> Admit(bs, order[x[1]], x[2])]
            it == DecideFold(bs, order)
            F == [k \in 0..n |-> it[1..k]]
<1>1. \A s \in Strategies, d \in Filled2 : Admit(bs, s, d) \in Filled2
  BY CapAssumption DEF Admit, Filled2
<1>2. g \in [D \X Filled2 -> Filled2] /\ Nothing \in Filled2
  BY <1>1 DEF Nothing, Filled2
<1>3. PICK f : IsLeftFold(f, n, Nothing, g) /\ \A s \in SUBSET D : f[s] \in Filled2
  <2>. HIDE DEF g
  <2>. QED  BY <1>2, LeftFold
<1>4. \A s \in SUBSET D : s # {} => HighestIn(s) \in D /\ s \ {HighestIn(s)} \in SUBSET D
  BY HighestIsIn
<1>5. ASSUME NEW s \in SUBSET D PROVE f[s] = DecideBody(f, s, bs, order)
  <2>1. f[s] = IF s = {} THEN Nothing ELSE g[<<HighestIn(s), f[s \ {HighestIn(s)}]>>]
    <3>. HIDE DEF g
    <3>. QED  BY <1>3 DEF IsLeftFold
  <2>2. CASE s = {}
    BY <2>1, <2>2 DEF DecideBody
  <2>3. CASE s # {}
    <3>. DEFINE x == <<HighestIn(s), f[s \ {HighestIn(s)}]>>
    <3>1. x \in D \X Filled2 /\ x[1] = HighestIn(s) /\ x[2] = f[s \ {HighestIn(s)}]
      BY <1>3, <1>4, <2>3
    <3>. HIDE DEF x
    <3>2. g[x] = Admit(bs, order[x[1]], x[2])
      BY <3>1
    <3>. HIDE DEF g
    <3>. QED  BY <2>1, <2>3, <3>1, <3>2 DEF DecideBody, x
  <2>. QED  BY <2>2, <2>3
<1>6. DecideIter(f, bs, order)
  <2>1. f = [s \in SUBSET D |-> f[s]] /\ DOMAIN order = D
    <3>. HIDE DEF g
    <3>. QED  BY <1>3 DEF IsLeftFold
  <2>. HIDE DEF D
  <2>. QED  BY <1>5, <2>1 DEF DecideIter
<1>7. DecideIter(it, bs, order)
  BY <1>6 DEF DecideFold
<1>. HIDE DEF it
<1>8. \A s \in SUBSET D : it[s] = DecideBody(it, s, bs, order)
  <2>1. DOMAIN order = D
    OBVIOUS
  <2>. QED  BY <1>7, <2>1 DEF DecideIter
<1>9. F[0] = Nothing
  <2>1. 1..0 = {} /\ {} \in SUBSET D
    OBVIOUS
  <2>2. it[{}] = Nothing
    BY <1>8, <2>1 DEF DecideBody
  <2>3. F[0] = it[1..0]
    OBVIOUS
  <2>. QED  BY <2>1, <2>2, <2>3
<1>10. F[n] = Decide(bs, order)
  <2>1. DOMAIN order = 1..n
    OBVIOUS
  <2>. QED  BY <2>1, DecideIsFold DEF it
<1>11. ASSUME NEW k \in 1..n PROVE F[k] = Admit(bs, order[k], F[k - 1])
  <2>1. 1..k \in SUBSET D /\ k \in Nat \ {0} /\ k - 1 \in 0..n
    OBVIOUS
  <2>2. 1..k # {} /\ HighestIn(1..k) = k /\ (1..k) \ {HighestIn(1..k)} = 1..(k - 1)
    BY <2>1, HighestOfPrefix
  <2>3. it[1..k] = DecideBody(it, 1..k, bs, order)
    BY <1>8, <2>1
  <2>4. it[1..k] = Admit(bs, order[k], it[1..(k - 1)])
    BY <2>2, <2>3 DEF DecideBody
  <2>. QED  BY <2>1, <2>4
<1>12. \A k \in 0..n : F[k] \in Filled2
  <2>. DEFINE Bad == {k \in 0..n : F[k] \notin Filled2}
  <2>. SUFFICES ASSUME Bad # {} PROVE FALSE
    OBVIOUS
  <2>. HIDE DEF F
  <2>1. PICK k \in Bad : k \in 0..n /\ (k # 0 => k - 1 \in 0..n /\ k - 1 \notin Bad)
    <3>1. Bad \subseteq 0..n
      OBVIOUS
    <3>. HIDE DEF Bad
    <3>. QED  BY <3>1, FirstBad
  <2>2. k # 0
    BY <1>2, <1>9, <2>1
  <2>3. k \in 1..n /\ F[k - 1] \in Filled2
    BY <2>1, <2>2
  <2>. QED  BY <1>1, <1>11, <2>1, <2>3
<1>. HIDE DEF F
<1>13. IsRun(F, bs, order, n)
  BY <1>9, <1>10, <1>11, <1>12 DEF IsRun
<1>. QED  BY <1>13

(* The sum of a record, as a sum over its places.                            *)
TotalBody(it, s, rs) == IF s = {} THEN 0 ELSE it[s \ {HighestIn(s)}] + rs[HighestIn(s)]
TotalIter(it, rs) == it = [s \in SUBSET DOMAIN rs |-> TotalBody(it, s, rs)]
TotalFold(rs) == CHOOSE it : TotalIter(it, rs)

LEMMA TotalIsFold == ASSUME NEW rs PROVE Total(rs) = TotalFold(rs)[DOMAIN rs]
  BY DEF Total, FoldLeft, MapThenFoldSet, Max, HighestIn, TotalFold, TotalIter, TotalBody

LEMMA TotalIsSum ==
  ASSUME NEW rs \in Seq(Int)
  PROVE  Total(rs) = SumFunctionOnSet(rs, DOMAIN rs) /\ Total(rs) \in Int
<1>. DEFINE D == DOMAIN rs
            sums == [s \in SUBSET D |-> SumFunctionOnSet(rs, s)]
            it == TotalFold(rs)
<1>1. Len(rs) \in Nat /\ D = 1..Len(rs) /\ \A i \in D : rs[i] \in Int
  OBVIOUS
<1>2. IsFiniteSet(D)
  BY <1>1, FS_Interval
<1>3. \A s \in SUBSET D : s # {} => HighestIn(s) \in s
  BY <1>1, HighestIsIn
<1>4. \A s \in SUBSET D : IsFiniteSet(s)
  BY <1>2, FS_Subset
<1>. HIDE DEF D
<1>5. ASSUME NEW s \in SUBSET D PROVE sums[s] = TotalBody(sums, s, rs)
  <2>1. CASE s = {}
    BY <2>1, SumEmpty DEF TotalBody
  <2>2. CASE s # {}
    <3>. DEFINE x == HighestIn(s)
                u == s \ {x}
    <3>1. x \in s /\ u \in SUBSET D
      BY <1>3, <2>2
    <3>2. SumFunctionOnSet(rs, s) = rs[x] + SumFunctionOnSet(rs, u)
      <4>1. IsFiniteSet(s) /\ \A i \in s : rs[i] \in Int
        BY <1>1, <1>4
      <4>. HIDE DEF x
      <4>. QED  BY <3>1, <4>1, SumRemove
    <3>3. SumFunctionOnSet(rs, u) \in Int /\ rs[x] \in Int
      BY <1>1, <1>4, <3>1, SumInt
    <3>4. sums[s] = SumFunctionOnSet(rs, s) /\ sums[u] = SumFunctionOnSet(rs, u)
      BY <3>1
    <3>. HIDE DEF sums, x
    <3>5. sums[s] = sums[s \ {x}] + rs[x]
      BY <3>2, <3>3, <3>4
    <3>. QED  BY <2>2, <3>5 DEF TotalBody, x
  <2>. QED  BY <2>1, <2>2
<1>6. TotalIter(sums, rs)
  <2>1. sums = [s \in SUBSET D |-> sums[s]]
    OBVIOUS
  <2>. HIDE DEF sums
  <2>. QED  BY <1>5, <2>1 DEF TotalIter, D
<1>7. TotalIter(it, rs)
  BY <1>6 DEF TotalFold
<1>. HIDE DEF it, sums
<1>8. \A s \in SUBSET D : it[s] = TotalBody(it, s, rs)
  BY <1>7 DEF TotalIter, D
<1>. DEFINE Bad == {s \in SUBSET D : it[s] # SumFunctionOnSet(rs, s)}
<1>9. ASSUME Bad # {} PROVE FALSE
  <2>1. PICK T \in Bad : \A U \in SUBSET T : U # T => U \notin Bad
    <3>1. Bad \subseteq SUBSET D
      OBVIOUS
    <3>. HIDE DEF Bad
    <3>. QED  BY <1>2, <1>9, <3>1, MinimalSubset
  <2>2. T \in SUBSET D /\ it[T] = TotalBody(it, T, rs) /\ it[T] # SumFunctionOnSet(rs, T)
    BY <1>8, <2>1
  <2>3. T # {}
    BY <2>2, SumEmpty DEF TotalBody
  <2>. DEFINE x == HighestIn(T)
              u == T \ {x}
  <2>4. x \in T /\ u \in SUBSET D
    BY <1>3, <2>2, <2>3
  <2>5. it[u] = SumFunctionOnSet(rs, u)
    BY <2>1, <2>4
  <2>6. SumFunctionOnSet(rs, T) = rs[x] + SumFunctionOnSet(rs, u)
    <3>1. IsFiniteSet(T) /\ \A y \in T : rs[y] \in Int
      BY <1>1, <1>4, <2>2
    <3>. HIDE DEF x
    <3>. QED  BY <2>4, <3>1, SumRemove
  <2>7. SumFunctionOnSet(rs, u) \in Int /\ rs[x] \in Int
    BY <1>1, <1>4, <2>2, <2>4, SumInt
  <2>8. it[T] = it[u] + rs[x]
    BY <2>2, <2>3 DEF TotalBody
  <2>. QED  BY <2>2, <2>5, <2>6, <2>7, <2>8
<1>10. Total(rs) = SumFunctionOnSet(rs, D)
  BY <1>9, TotalIsFold DEF it, D
<1>11. SumFunctionOnSet(rs, D) \in Int
  BY <1>1, <1>2, SumInt
<1>. QED  BY <1>10, <1>11 DEF D

(* A record cut in two.                                                      *)
LEMMA TotalOfHalves ==
  ASSUME NEW rs \in Seq(Int), NEW h \in 0..Len(rs)
  PROVE  /\ Total(SubSeq(rs, 1, h)) \in Int /\ Total(SubSeq(rs, h + 1, Len(rs))) \in Int
         /\ Total(rs) = Total(SubSeq(rs, 1, h)) + Total(SubSeq(rs, h + 1, Len(rs)))
<1>. DEFINE n == Len(rs)
            a == SubSeq(rs, 1, h)
            b == SubSeq(rs, h + 1, n)
            L == 1..h
            R == (h + 1)..n
            m == [i \in 1..(n - h) |-> i + h]
<1>1. n \in Nat /\ h \in Nat /\ h <= n /\ DOMAIN rs = 1..n /\ \A i \in 1..n : rs[i] \in Int
  OBVIOUS
<1>2. /\ a \in Seq(Int) /\ DOMAIN a = L /\ \A i \in L : a[i] = rs[i]
  BY <1>1
<1>3. /\ b \in Seq(Int) /\ DOMAIN b = 1..(n - h) /\ \A i \in 1..(n - h) : b[i] = rs[i + h]
  BY <1>1
<1>4. IsFiniteSet(L) /\ IsFiniteSet(R) /\ IsFiniteSet(1..(n - h)) /\ L \cap R = {}
      /\ L \cup R = 1..n
  <2>1. IsFiniteSet(L)
    BY <1>1, FS_Interval
  <2>2. IsFiniteSet(R)
    BY <1>1, FS_Interval
  <2>3. IsFiniteSet(1..(n - h))
    BY <1>1, FS_Interval
  <2>4. L \cap R = {} /\ L \cup R = 1..n
    BY <1>1
  <2>. QED  BY <2>1, <2>2, <2>3, <2>4
<1>5. Total(a) = SumFunctionOnSet(rs, L) /\ Total(a) \in Int
  <2>1. Total(a) = SumFunctionOnSet(a, L) /\ Total(a) \in Int
    BY <1>2, TotalIsSum
  <2>2. \A i \in L : a[i] \in Int /\ rs[i] = a[i]
    BY <1>1, <1>2
  <2>. HIDE DEF a, L
  <2>. QED  BY <1>4, <2>1, <2>2, SumSame
<1>6. Total(b) = SumFunctionOnSet(rs, R) /\ Total(b) \in Int
  <2>1. Total(b) = SumFunctionOnSet(b, 1..(n - h)) /\ Total(b) \in Int
    BY <1>3, TotalIsSum
  <2>. DEFINE D == 1..(n - h)
  <2>2. /\ \A i \in D : b[i] \in Int
        /\ \A j \in R : rs[j] \in Int
        /\ \A i \in D : m[i] \in R /\ rs[m[i]] = b[i]
        /\ \A i, j \in D : m[i] = m[j] => i = j
    BY <1>1, <1>3
  <2>3. \A j \in R : \E i \in D : m[i] = j
    <3>. SUFFICES ASSUME NEW j \in R PROVE \E i \in D : m[i] = j
      OBVIOUS
    <3>1. j - h \in D /\ m[j - h] = j
      BY <1>1
    <3>. QED  BY <3>1
  <2>5. IsFiniteSet(D)
    BY <1>4
  <2>6. /\ IsFiniteSet(D) /\ IsFiniteSet(R)
        /\ \A i \in D : b[i] \in Int
        /\ \A j \in R : rs[j] \in Int
        /\ \A i \in D : m[i] \in R /\ rs[m[i]] = b[i]
        /\ \A i, j \in D : m[i] = m[j] => i = j
        /\ \A j \in R : \E i \in D : m[i] = j
    <3>. HIDE DEF m, b, R, D, n
    <3>. QED  BY <1>4, <2>2, <2>3, <2>5
  <2>4. SumFunctionOnSet(b, D) = SumFunctionOnSet(rs, R)
    <3>. HIDE DEF m, a, b, R, D, n, L
    <3>. QED  BY <2>6, SumMap, SMTT(60)
  <2>. QED  BY <2>1, <2>4 DEF D
<1>7. Total(rs) = SumFunctionOnSet(rs, L \cup R)
  BY <1>1, <1>4, TotalIsSum
<1>8. \A i \in L \cup R : rs[i] \in Int
  BY <1>1, <1>4
<1>. HIDE DEF a, b, L, R
<1>9. SumFunctionOnSet(rs, L \cup R) = SumFunctionOnSet(rs, L) + SumFunctionOnSet(rs, R)
  BY <1>4, <1>8, SumUnion
<1>. QED  BY <1>5, <1>6, <1>7, <1>9 DEF a, b

(* A ranking meets every strategy once.                                      *)
LEMMA RankingMeetsAll ==
  ASSUME NEW bs, NEW order \in Rankings(bs)
  PROVE  \E n \in Nat : /\ order \in [1..n -> Strategies] /\ Ranked(bs, order)
                        /\ \A i, j \in 1..n : order[i] = order[j] => i = j
                        /\ \A s \in Strategies : \E i \in 1..n : order[i] = s
<1>. DEFINE n == Cardinality(Strategies)
            D == 1..n
<1>1. IsFiniteSet(Strategies) /\ n \in Nat
  BY CapAssumption, FS_CardinalityType
<1>2. /\ order \in [D -> Strategies] /\ Ranked(bs, order)
      /\ \A i, j \in D : order[i] = order[j] => i = j
  BY DEF Rankings, SetToSeqs
<1>. HIDE DEF n
<1>3. IsFiniteSet(D) /\ Cardinality(D) = n
  <2>1. IsFiniteSet(D) /\ Cardinality(D) = IF 1 > n THEN 0 ELSE n - 1 + 1
    BY <1>1, FS_Interval
  <2>. QED  BY <1>1, <2>1
<1>4. Cardinality(D) = Cardinality(Strategies)
  BY <1>3 DEF n
<1>. HIDE DEF D
<1>5. order \in Injection(D, Strategies)
  BY <1>2 DEF Injection, IsInjective
<1>6. order \in Surjection(D, Strategies)
  BY <1>1, <1>4, <1>5, FS_Injection
<1>7. \A s \in Strategies : \E i \in D : order[i] = s
  BY <1>6 DEF Surjection
<1>. QED  BY <1>1, <1>2, <1>7 DEF D

(* What the broker's fold keeps: the room it has used, only what passed, and *)
(* that who was passed over found no room, with nobody after it let in.      *)
Passes(bs, s) == GateDeploys(bs[s]) /\ Approved(bs[s])
BrokerOK(bs, order, k, d) ==
  /\ d \in Filled2 /\ IsFiniteSet(d.deploys)
  /\ d.total = Tier * Cardinality(d.deploys) /\ d.total <= PortfolioCap
  /\ d.deploys \subseteq {order[i] : i \in 1..k}
  /\ \A s \in d.deploys : Passes(bs, s)
  /\ \A i \in 1..k : Passes(bs, order[i]) /\ order[i] \notin d.deploys =>
       /\ d.total + Tier > PortfolioCap
       /\ \A j \in 1..k : order[j] \in d.deploys => j < i

LEMMA BrokerStep ==
  ASSUME NEW bs, NEW n \in Nat, NEW order \in [1..n -> Strategies], NEW k \in 1..n, NEW d,
         \A i, j \in 1..n : order[i] = order[j] => i = j,
         BrokerOK(bs, order, k - 1, d)
  PROVE  BrokerOK(bs, order, k, Admit(bs, order[k], d))
<1>. DEFINE s == order[k]
            e == Admit(bs, s, d)
<1>1. /\ d.total \in Int /\ d.deploys \in SUBSET Strategies /\ IsFiniteSet(d.deploys)
      /\ s \in Strategies /\ Cardinality(d.deploys) \in Nat
  BY FS_CardinalityType DEF BrokerOK, Filled2
<1>2. s \notin d.deploys
  BY DEF BrokerOK
<1>3. 1..k = 1..(k - 1) \cup {k}
  OBVIOUS
<1>4. CASE Passes(bs, s) /\ d.total + Tier <= PortfolioCap
  <2>1. e = [total |-> d.total + Tier, deploys |-> d.deploys \cup {s}]
    BY <1>4 DEF Admit, Passes
  <2>. HIDE DEF e, s
  <2>2. e \in Filled2 /\ e.total = d.total + Tier /\ e.deploys = d.deploys \cup {s}
    BY <1>1, <2>1, CapAssumption DEF Filled2
  <2>3. IsFiniteSet(e.deploys) /\ Cardinality(e.deploys) = Cardinality(d.deploys) + 1
    <3>. DEFINE X == d.deploys
    <3>1. IsFiniteSet(X) /\ s \notin X
      BY <1>1, <1>2
    <3>. HIDE DEF X
    <3>2. IsFiniteSet(X \cup {s})
      BY <3>1, FS_AddElement
    <3>3. Cardinality(X \cup {s}) = Cardinality(X) + 1
      BY <3>1, FS_AddElement
    <3>. QED  BY <2>2, <3>2, <3>3 DEF X
  <2>4. e.total = Tier * Cardinality(e.deploys) /\ e.total <= PortfolioCap
    <3>. DEFINE c == Cardinality(d.deploys)
    <3>1. c \in Nat /\ Tier \in Nat /\ d.total = Tier * c
      BY <1>1, CapAssumption DEF BrokerOK
    <3>. HIDE DEF c
    <3>2. Tier * c + Tier = Tier * (c + 1)
      BY <3>1, Z3
    <3>. QED  BY <1>4, <2>2, <2>3, <3>1, <3>2 DEF c
  <2>5. e.deploys \subseteq {order[i] : i \in 1..k} /\ \A t \in e.deploys : Passes(bs, t)
    BY <1>3, <1>4, <2>2 DEF BrokerOK, s
  <2>6. \A i \in 1..k : Passes(bs, order[i]) => order[i] \in e.deploys
    <3>1. \A i \in 1..(k - 1) : Passes(bs, order[i]) => order[i] \in d.deploys
      BY <1>4, CapAssumption, <1>1 DEF BrokerOK
    <3>. QED  BY <1>3, <2>2, <3>1 DEF s
  <2>7. BrokerOK(bs, order, k, e)
    BY <2>2, <2>3, <2>4, <2>5, <2>6 DEF BrokerOK
  <2>. QED  BY <2>7 DEF e, s
<1>5. CASE ~(Passes(bs, s) /\ d.total + Tier <= PortfolioCap)
  <2>1. e = d
    BY <1>5 DEF Admit, Passes
  <2>. HIDE DEF e, s
  <2>2. d.deploys \subseteq {order[i] : i \in 1..k}
    BY <1>3 DEF BrokerOK
  <2>3. ASSUME NEW i \in 1..k, Passes(bs, order[i]), order[i] \notin d.deploys
        PROVE  /\ d.total + Tier > PortfolioCap
               /\ \A j \in 1..k : order[j] \in d.deploys => j < i
    <3>1. CASE i \in 1..(k - 1)
      <4>1. /\ d.total + Tier > PortfolioCap
            /\ \A j \in 1..(k - 1) : order[j] \in d.deploys => j < i
        BY <2>3, <3>1 DEF BrokerOK
      <4>. QED  BY <1>2, <1>3, <4>1 DEF s
    <3>2. CASE i = k
      <4>1. d.total + Tier > PortfolioCap
        BY <1>1, <1>5, <2>3, <3>2, CapAssumption DEF s
      <4>2. \A j \in 1..k : order[j] \in d.deploys => j < i
        BY <1>2, <3>2 DEF s
      <4>. QED  BY <4>1, <4>2
    <3>. QED  BY <1>3, <3>1, <3>2
  <2>4. BrokerOK(bs, order, k, d)
    BY <2>2, <2>3 DEF BrokerOK
  <2>. QED  BY <2>1, <2>4 DEF e, s
<1>. QED  BY <1>4, <1>5

LEMMA BrokerKeeps ==
  ASSUME NEW bs, NEW n \in Nat, NEW order \in [1..n -> Strategies],
         \A i, j \in 1..n : order[i] = order[j] => i = j
  PROVE  BrokerOK(bs, order, n, Decide(bs, order))
<1>. PICK F : IsRun(F, bs, order, n)
  BY DecideSteps
<1>1. /\ F[0] = Nothing /\ F[n] = Decide(bs, order)
      /\ \A k \in 1..n : F[k] = Admit(bs, order[k], F[k - 1])
  BY DEF IsRun
<1>. DEFINE Bad == {k \in 0..n : ~BrokerOK(bs, order, k, F[k])}
<1>2. ASSUME Bad # {} PROVE FALSE
  <2>1. PICK k \in Bad : k \in 0..n /\ (k # 0 => k - 1 \in 0..n /\ k - 1 \notin Bad)
    <3>1. Bad \subseteq 0..n
      OBVIOUS
    <3>. HIDE DEF Bad
    <3>. QED  BY <1>2, <3>1, FirstBad
  <2>2. CASE k = 0
    <3>1. 1..0 = {}
      OBVIOUS
    <3>2. Tier * 0 = 0
      BY CapAssumption
    <3>3. /\ Nothing \in Filled2 /\ Nothing.deploys = {} /\ Nothing.total = 0
      BY DEF Nothing, Filled2
    <3>4. BrokerOK(bs, order, 0, Nothing)
      BY <3>1, <3>2, <3>3, FS_EmptySet, CapAssumption DEF BrokerOK
    <3>. QED  BY <1>1, <2>1, <2>2, <3>4
  <2>3. CASE k # 0
    <3>1. k \in 1..n /\ BrokerOK(bs, order, k - 1, F[k - 1])
      BY <2>1, <2>3
    <3>2. BrokerOK(bs, order, k, F[k])
      BY <1>1, <3>1, BrokerStep
    <3>. QED  BY <2>1, <3>2
  <2>. QED  BY <2>2, <2>3
<1>3. n \notin Bad /\ n \in 0..n
  BY <1>2
<1>. QED  BY <1>1, <1>3

(* Whatever the records, the three verdicts go together.                     *)
LEMMA Agree == ASSUME books \in [Strategies -> CapBooks] PROVE VerdictsAgree
<1>. SUFFICES ASSUME NEW order \in Rankings(books)
              PROVE  LET d == Decide(books, order)
                         shown == {s \in Strategies : DigestStatus(books[s]) = "DEPLOY"}
                     IN  /\ d.total = Tier * Cardinality(d.deploys) /\ d.total <= PortfolioCap
                         /\ d.deploys \subseteq shown
                         /\ \A s \in shown \ d.deploys :
                              /\ d.total + Tier > PortfolioCap
                              /\ \A t \in d.deploys : books[t].dsr >= books[s].dsr
                         /\ \A s \in shown, safe \in BOOLEAN :
                              RiskVerdict(books[s], safe) \in {"PATH_TOO_DANGEROUS", "DEPLOY_SMALL"}
  BY DEF VerdictsAgree
<1>. DEFINE d == Decide(books, order)
            shown == {s \in Strategies : DigestStatus(books[s]) = "DEPLOY"}
<1>1. PICK n \in Nat : /\ order \in [1..n -> Strategies] /\ Ranked(books, order)
                       /\ \A i, j \in 1..n : order[i] = order[j] => i = j
                       /\ \A s \in Strategies : \E i \in 1..n : order[i] = s
  BY RankingMeetsAll
<1>2. BrokerOK(books, order, n, d)
  BY <1>1, BrokerKeeps
<1>3. \A s \in Strategies : s \in shown <=> Passes(books, s)
  BY DEF DigestStatus, Passes
<1>4. \A s \in Strategies : Passes(books, s) => GateDsr(books[s]) = books[s].dsr
  BY DEF Passes, GateDeploys, GateDsr
<1>. HIDE DEF d, shown
<1>5. d.deploys \subseteq Strategies
  BY <1>2 DEF BrokerOK, Filled2
<1>6. d.deploys \subseteq shown
  BY <1>2, <1>3, <1>5 DEF BrokerOK
<1>7. ASSUME NEW s \in shown \ d.deploys
      PROVE  /\ d.total + Tier > PortfolioCap
             /\ \A t \in d.deploys : books[t].dsr >= books[s].dsr
  <2>1. s \in Strategies /\ Passes(books, s)
    BY <1>3 DEF shown
  <2>2. PICK i \in 1..n : order[i] = s
    BY <1>1, <2>1
  <2>3. /\ d.total + Tier > PortfolioCap
        /\ \A j \in 1..n : order[j] \in d.deploys => j < i
    BY <1>2, <2>1, <2>2 DEF BrokerOK
  <2>4. ASSUME NEW t \in d.deploys PROVE books[t].dsr >= books[s].dsr
    <3>1. t \in Strategies /\ Passes(books, t)
      BY <1>2, <1>5 DEF BrokerOK
    <3>2. PICK j \in 1..n : order[j] = t
      BY <1>1, <3>1
    <3>3. j < i
      BY <2>3, <3>2
    <3>4. GateDsr(books[order[j]]) >= GateDsr(books[order[i]])
      BY <1>1, <3>3 DEF Ranked
    <3>. QED  BY <1>4, <2>1, <2>2, <3>1, <3>2, <3>4
  <2>. QED  BY <2>3, <2>4
<1>8. ASSUME NEW s \in shown, NEW safe \in BOOLEAN
      PROVE  RiskVerdict(books[s], safe) \in {"PATH_TOO_DANGEROUS", "DEPLOY_SMALL"}
  <2>. DEFINE b == books[s]
              rs == b.rs
  <2>1. s \in Strategies /\ Passes(books, s)
    BY <1>3 DEF shown
  <2>2. b \in CapBooks /\ GateDeploys(b) /\ Approved(b)
    BY <2>1 DEF Passes
  <2>. HIDE DEF b
  <2>3. rs \in Seq(Int) /\ Len(rs) \in Nat
    BY <2>2 DEF CapBooks
  <2>4. Len(rs) - 1 > 0 /\ b.dsr >= MinDsr
    BY <2>2 DEF GateDeploys
  <2>5. /\ Total(SubSeq(rs, 1, Len(rs) \div 2)) > 0
        /\ Total(SubSeq(rs, Len(rs) \div 2 + 1, Len(rs))) > 0
    BY <2>2 DEF Approved, Consistency
  <2>6. Len(rs) \div 2 \in 0..Len(rs)
    <3>1. \A k \in Nat : k \div 2 \in 0..k
      BY Z3
    <3>. QED  BY <2>3, <3>1
  <2>7. Total(rs) > 0
    <3>. DEFINE h == Len(rs) \div 2
                x == Total(SubSeq(rs, 1, h))
                y == Total(SubSeq(rs, h + 1, Len(rs)))
    <3>1. x \in Int /\ y \in Int /\ Total(rs) = x + y
      <4>. HIDE DEF h
      <4>1. h \in 0..Len(rs)
        BY <2>6 DEF h
      <4>. QED  BY <2>3, <4>1, TotalOfHalves
    <3>2. x > 0 /\ y > 0
      BY <2>5
    <3>. HIDE DEF x, y
    <3>. QED  BY <3>1, <3>2
  <2>8. b.dsr \in Int /\ Total(rs) \in Int
    BY <2>2, <2>3, TotalIsSum DEF CapBooks
  <2>9. ~(Len(rs) < 2) /\ ~(Total(rs) <= 0)
    BY <2>3, <2>4, <2>7, <2>8
  <2>10. ~(b.dsr < MinDsr)
    BY <2>4, <2>8, CapAssumption
  <2>11. RiskVerdict(b, safe) \in {"PATH_TOO_DANGEROUS", "DEPLOY_SMALL"}
    <3>1. CASE safe
      BY <2>9, <2>10, <3>1 DEF RiskVerdict
    <3>2. CASE ~safe
      BY <2>9, <2>10, <3>2 DEF RiskVerdict
    <3>. QED  BY <3>1, <3>2
  <2>. QED  BY <2>11 DEF b
<1>9. d.total = Tier * Cardinality(d.deploys) /\ d.total <= PortfolioCap
  BY <1>2 DEF BrokerOK
<1>. QED  BY <1>6, <1>7, <1>8, <1>9 DEF d, shown

------------------------------------------------------------------------------
(* What the orchestrator stages, step after step.                            *)

LEMMA InitCapital == CapInit => CapInv
<1>. SUFFICES ASSUME CapInit PROVE CapInv
  OBVIOUS
<1>1. /\ books \in [Strategies -> Young] /\ prev = [s \in Strategies |-> "none"]
      /\ todo = <<>> /\ staged = [s \in Strategies |-> NoLine]
  BY DEF CapInit
<1>2. ASSUME NEW b \in Young PROVE b \in CapBooks
  <2>1. b.rs \in [1..2 -> Returns] /\ b.dsr \in Dsrs /\ b.lucky = TRUE
        /\ b = [rs |-> b.rs, dsr |-> b.dsr, lucky |-> b.lucky]
    BY DEF Young
  <2>2. Returns \subseteq Int
    BY CapAssumption DEF Returns
  <2>3. b.rs \in Seq(Int)
    BY <2>1, <2>2
  <2>. QED  BY <2>1, <2>3, CapAssumption DEF CapBooks
<1>3. books \in [Strategies -> CapBooks]
  BY <1>1, <1>2
<1>4. prev \in [Strategies -> Statuses] /\ \A s \in Strategies : prev[s] # "DEPLOY"
  BY <1>1 DEF Statuses
<1>5. staged \in [Strategies -> Lines] /\ \A s \in Strategies : staged[s] = NoLine
  BY <1>1 DEF Lines, NoLine
<1>6. todo \in Seq(Decisions) /\ DOMAIN todo = {}
  BY <1>1
<1>. QED  BY <1>3, <1>4, <1>5, <1>6 DEF CapInv

(* An action that leaves the records alone keeps what they had earned; what  *)
(* is left to do it takes from what there was.                               *)
LEMMA SameRecords ==
  ASSUME CapInv, UNCHANGED books, prev' \in [Strategies -> Statuses],
         staged' \in [Strategies -> Lines], todo' \in Seq(Decisions),
         \A i \in DOMAIN todo' : \E j \in DOMAIN todo : todo'[i] = todo[j],
         \A s \in Strategies : /\ staged'[s] # staged[s] => Earned(books[s], staged'[s])
                               /\ prev'[s] = "DEPLOY" => staged'[s] # NoLine
  PROVE  CapInv'
<1>1. books' \in [Strategies -> CapBooks]
  BY DEF CapInv
<1>2. ASSUME NEW i \in DOMAIN todo', todo'[i].status = "DEPLOY"
      PROVE  Earned(books'[todo'[i].s], todo'[i].line)
  <2>1. PICK j \in DOMAIN todo : todo'[i] = todo[j]
    OBVIOUS
  <2>. QED  BY <1>2, <2>1 DEF CapInv
<1>3. ASSUME NEW s \in Strategies
      PROVE  /\ staged'[s] # NoLine => Earned(books'[s], staged'[s])
             /\ prev'[s] = "DEPLOY" => staged'[s] # NoLine
  <2>1. CASE staged'[s] = staged[s]
    BY <2>1 DEF CapInv
  <2>2. CASE staged'[s] # staged[s]
    BY <2>2
  <2>. QED  BY <2>1, <2>2
<1>. QED  BY <1>1, <1>2, <1>3 DEF CapInv

LEMMA CloseCapital == CapInv /\ Close => CapInv'
<1>. SUFFICES ASSUME CapInv, Close PROVE CapInv'
  OBVIOUS
<1>1. PICK t \in Strategies, r \in Returns, q \in Dsrs, l \in BOOLEAN :
        /\ books' = [books EXCEPT ![t] = [rs |-> Append(books[t].rs, r), dsr |-> q, lucky |-> l]]
        /\ UNCHANGED <<awake, prev, todo, staged, stops>>
  BY DEF Close
<1>. DEFINE grown == [rs |-> Append(books[t].rs, r), dsr |-> q, lucky |-> l]
<1>2. books \in [Strategies -> CapBooks] /\ books[t] \in CapBooks /\ r \in Int /\ q \in Int
  BY CapAssumption DEF CapInv, Returns
<1>3. grown \in CapBooks /\ grown.rs = Append(books[t].rs, r)
  BY <1>2 DEF CapBooks
<1>. HIDE DEF grown
<1>4. books' = [books EXCEPT ![t] = grown]
  BY <1>1 DEF grown
<1>5. books' \in [Strategies -> CapBooks]
  BY <1>2, <1>3, <1>4
<1>6. ASSUME NEW s \in Strategies, NEW line \in Lines, Earned(books[s], line)
      PROVE  Earned(books'[s], line)
  <2>1. CASE s = t
    <3>1. books'[s] = grown
      BY <1>2, <1>4, <2>1
    <3>2. Earned(grown, line)
      BY <1>2, <1>3, <1>6, <2>1, EarnedStays
    <3>. QED  BY <3>1, <3>2
  <2>2. CASE s # t
    BY <1>2, <1>4, <1>6, <2>2
  <2>. QED  BY <2>1, <2>2
<1>7. ASSUME NEW i \in DOMAIN todo, todo[i].status = "DEPLOY"
      PROVE  Earned(books'[todo[i].s], todo[i].line)
  <2>1. todo[i] \in Decisions
    BY DEF CapInv
  <2>2. todo[i].s \in Strategies /\ todo[i].line \in Lines
    BY <2>1 DEF Decisions
  <2>. QED  BY <1>6, <1>7, <2>2 DEF CapInv
<1>8. ASSUME NEW s \in Strategies, staged[s] # NoLine PROVE Earned(books'[s], staged[s])
  <2>1. staged[s] \in Lines /\ Earned(books[s], staged[s])
    BY <1>8 DEF CapInv
  <2>. QED  BY <1>6, <2>1
<1>9. prev' = prev /\ todo' = todo /\ staged' = staged
  BY <1>1
<1>. QED  BY <1>5, <1>7, <1>8, <1>9 DEF CapInv

LEMMA ArmCapital == CapInv /\ Arm => CapInv'
<1>. SUFFICES ASSUME CapInv, Arm PROVE CapInv'
  OBVIOUS
<1>1. books' = books /\ prev' = prev /\ todo' = todo /\ staged' = staged
  BY DEF Arm
<1>. QED  BY <1>1 DEF CapInv

(* Whom the broker deploys passed the gate and the committee.                *)
LEMMA DeployedPass ==
  ASSUME books \in [Strategies -> CapBooks], NEW order \in Rankings(books), NEW s \in Strategies,
         Status(books, Decide(books, order), s) = "DEPLOY"
  PROVE  Passes(books, s)
<1>1. PICK n \in Nat : /\ order \in [1..n -> Strategies]
                       /\ \A i, j \in 1..n : order[i] = order[j] => i = j
  BY RankingMeetsAll
<1>. DEFINE d == Decide(books, order)
<1>2. BrokerOK(books, order, n, d)
  BY <1>1, BrokerKeeps
<1>3. s \in d.deploys
  BY DEF Status
<1>. QED  BY <1>2, <1>3 DEF BrokerOK

LEMMA LoadCapital == CapInv /\ Load => CapInv'
<1>. SUFFICES ASSUME CapInv, Load PROVE CapInv'
  OBVIOUS
<1>1. PICK order \in Rankings(books) :
        todo' = [i \in DOMAIN order |->
                   [s |-> order[i], status |-> Status(books, Decide(books, order), order[i]),
                    line |-> [n |-> Len(books[order[i]].rs), dsr |-> GateDsr(books[order[i]])]]]
  BY DEF Load
<1>2. books' = books /\ prev' = prev /\ staged' = staged
  BY DEF Load
<1>3. books \in [Strategies -> CapBooks]
  BY DEF CapInv
<1>4. PICK n \in Nat : order \in [1..n -> Strategies]
  BY RankingMeetsAll
<1>. DEFINE status(s) == Status(books, Decide(books, order), s)
            line(s) == [n |-> Len(books[s].rs), dsr |-> GateDsr(books[s])]
<1>5. DOMAIN todo' = 1..n
      /\ \A i \in 1..n : todo'[i] = [s |-> order[i], status |-> status(order[i]),
                                     line |-> line(order[i])]
  BY <1>1, <1>4
<1>6. \A s \in Strategies : status(s) \in Statuses
  BY DEF Status, Statuses
<1>7. ASSUME NEW s \in Strategies PROVE line(s) \in Lines
  <2>1. books[s].rs \in Seq(Int) /\ books[s].dsr \in Int
    BY <1>3 DEF CapBooks
  <2>2. Len(books[s].rs) \in Nat /\ GateDsr(books[s]) \in Int
    BY <2>1 DEF GateDsr
  <2>. QED  BY <2>2 DEF Lines
<1>8. ASSUME NEW s \in Strategies, status(s) = "DEPLOY" PROVE Earned(books[s], line(s))
  <2>1. Passes(books, s)
    BY <1>3, <1>8, DeployedPass
  <2>2. books[s] \in CapBooks
    BY <1>3
  <2>3. Earned(books[s], [n |-> Len(books[s].rs), dsr |-> GateDsr(books[s])])
    BY <2>1, <2>2, EarnedNow DEF Passes
  <2>. QED  BY <2>3
<1>. HIDE DEF status, line
<1>9. ASSUME NEW i \in 1..n
      PROVE  /\ todo'[i] \in Decisions
             /\ todo'[i].status = "DEPLOY" => Earned(books[todo'[i].s], todo'[i].line)
  <2>1. order[i] \in Strategies
    BY <1>4
  <2>2. /\ todo'[i] = [s |-> order[i], status |-> status(order[i]), line |-> line(order[i])]
        /\ status(order[i]) \in Statuses /\ line(order[i]) \in Lines
    BY <1>5, <1>6, <1>7, <2>1
  <2>. QED  BY <1>8, <2>1, <2>2 DEF Decisions
<1>10. todo' = [i \in 1..n |-> todo'[i]]
  BY <1>1, <1>4
<1>11. todo' \in Seq(Decisions)
  BY <1>9, <1>10
<1>12. ASSUME NEW s \in Strategies
       PROVE  /\ staged[s] # NoLine => Earned(books[s], staged[s])
              /\ prev[s] = "DEPLOY" => staged[s] # NoLine
  BY DEF CapInv
<1>13. prev \in [Strategies -> Statuses] /\ staged \in [Strategies -> Lines]
  BY DEF CapInv
<1>14. \A i \in DOMAIN todo' :
         todo'[i].status = "DEPLOY" => Earned(books[todo'[i].s], todo'[i].line)
  BY <1>5, <1>9
<1>. QED  BY <1>2, <1>3, <1>11, <1>12, <1>13, <1>14 DEF CapInv

LEMMA WatchCapital == CapInv /\ Watch => CapInv'
<1>. SUFFICES ASSUME CapInv, Watch PROVE CapInv'
  OBVIOUS
<1>. DEFINE d == Head(todo)
<1>1. todo \in Seq(Decisions) /\ todo # <<>>
  BY DEF CapInv, Watch
<1>2. d \in Decisions /\ 1 \in DOMAIN todo /\ d = todo[1]
  BY <1>1
<1>3. d.s \in Strategies /\ d.status \in Statuses /\ d.line \in Lines
  BY <1>2 DEF Decisions
<1>4. d.status = "DEPLOY" => Earned(books[d.s], d.line)
  BY <1>2 DEF CapInv
<1>5. todo' \in Seq(Decisions) /\ \A i \in DOMAIN todo' : \E j \in DOMAIN todo : todo'[i] = todo[j]
  <2>1. todo' = Tail(todo)
    BY DEF Watch
  <2>2. Tail(todo) \in Seq(Decisions) /\ DOMAIN Tail(todo) = 1..(Len(todo) - 1)
        /\ DOMAIN todo = 1..Len(todo) /\ Len(todo) \in Nat
        /\ \A i \in 1..(Len(todo) - 1) : Tail(todo)[i] = todo[i + 1]
    BY <1>1
  <2>3. \A i \in 1..(Len(todo) - 1) : i + 1 \in 1..Len(todo)
    BY <2>2
  <2>. QED  BY <2>1, <2>2, <2>3
<1>6. /\ books' = books /\ prev' = [prev EXCEPT ![d.s] = d.status]
      /\ staged' = IF d.status # prev[d.s] /\ d.status = "DEPLOY"
                   THEN [staged EXCEPT ![d.s] = d.line] ELSE staged
  BY DEF Watch, Remember, Noted
<1>. HIDE DEF d
<1>7. prev \in [Strategies -> Statuses] /\ staged \in [Strategies -> Lines]
  BY DEF CapInv
<1>8. prev' \in [Strategies -> Statuses] /\ staged' \in [Strategies -> Lines]
  BY <1>3, <1>6, <1>7
<1>9. ASSUME NEW s \in Strategies
      PROVE  /\ staged'[s] # staged[s] => Earned(books[s], staged'[s])
             /\ prev'[s] = "DEPLOY" => staged'[s] # NoLine
  <2>0. staged[s] # NoLine => Earned(books[s], staged[s])
    BY DEF CapInv
  <2>1. CASE s = d.s /\ d.status = "DEPLOY" /\ prev[s] # "DEPLOY"
    <3>1. staged'[s] = d.line
      BY <1>6, <1>7, <2>1
    <3>2. Earned(books[s], d.line)
      BY <1>4, <2>1
    <3>. QED  BY <3>1, <3>2 DEF Earned
  <2>2. CASE ~(s = d.s /\ d.status = "DEPLOY" /\ prev[s] # "DEPLOY")
    <3>1. staged'[s] = staged[s]
      BY <1>3, <1>6, <1>7, <2>2
    <3>2. prev'[s] = "DEPLOY" => prev[s] = "DEPLOY"
      BY <1>3, <1>6, <1>7, <2>2
    <3>. QED  BY <3>1, <3>2 DEF CapInv
  <2>. QED  BY <2>1, <2>2
<1>. QED  BY <1>5, <1>6, <1>8, <1>9, SameRecords

LEMMA WatchRaisesCapital == CapInv /\ WatchRaises => CapInv'
<1>. SUFFICES ASSUME CapInv, WatchRaises PROVE CapInv'
  OBVIOUS
<1>. DEFINE d == Head(todo)
<1>1. todo \in Seq(Decisions) /\ todo # <<>>
  BY DEF CapInv, WatchRaises
<1>2. d \in Decisions /\ 1 \in DOMAIN todo /\ d = todo[1]
  BY <1>1
<1>3. d.s \in Strategies /\ d.line \in Lines
  BY <1>2 DEF Decisions
<1>4. d.status = "DEPLOY" => Earned(books[d.s], d.line)
  BY <1>2 DEF CapInv
<1>5. /\ books' = books /\ todo' = <<>> /\ d.status = "DEPLOY"
      /\ prev' = [prev EXCEPT ![d.s] = prev[d.s]]
      /\ staged' \in {staged, [staged EXCEPT ![d.s] = d.line]}
  BY DEF WatchRaises, Remember, Noted
<1>. HIDE DEF d
<1>6. prev \in [Strategies -> Statuses] /\ staged \in [Strategies -> Lines]
  BY DEF CapInv
<1>7. prev' = prev /\ staged' \in [Strategies -> Lines]
  BY <1>3, <1>5, <1>6
<1>8. ASSUME NEW s \in Strategies
      PROVE  /\ staged'[s] # staged[s] => Earned(books[s], staged'[s])
             /\ prev'[s] = "DEPLOY" => staged'[s] # NoLine
  <2>1. CASE staged'[s] = staged[s]
    BY <1>7, <2>1 DEF CapInv
  <2>2. CASE staged'[s] # staged[s]
    <3>1. s = d.s /\ staged'[s] = d.line
      BY <1>3, <1>5, <1>6, <2>2
    <3>. QED  BY <1>4, <1>5, <3>1 DEF Earned
  <2>. QED  BY <2>1, <2>2
<1>9. todo' \in Seq(Decisions) /\ DOMAIN todo' = {}
  BY <1>5
<1>. QED  BY <1>5, <1>6, <1>7, <1>8, <1>9, SameRecords

LEMMA StopCapital == CapInv /\ Stop => CapInv'
<1>. SUFFICES ASSUME CapInv, Stop PROVE CapInv'
  OBVIOUS
<1>1. /\ books' = books /\ staged' = staged /\ todo' = <<>>
      /\ prev' = [s \in Strategies |-> "none"]
  BY DEF Stop
<1>2. prev' \in [Strategies -> Statuses] /\ \A s \in Strategies : prev'[s] # "DEPLOY"
  BY <1>1 DEF Statuses
<1>3. todo' \in Seq(Decisions) /\ DOMAIN todo' = {}
  BY <1>1
<1>. QED  BY <1>1, <1>2, <1>3 DEF CapInv

LEMMA NextCapital == CapInv /\ [CapNext]_capvars => CapInv'
<1>. SUFFICES ASSUME CapInv, [CapNext]_capvars PROVE CapInv'
  OBVIOUS
<1>1. CASE UNCHANGED capvars
  BY <1>1 DEF CapInv, capvars
<1>2. CASE CapNext
  BY <1>2, CloseCapital, ArmCapital, LoadCapital, WatchCapital, WatchRaisesCapital, StopCapital
     DEF CapNext
<1>. QED  BY <1>1, <1>2

LEMMA SafeCapital == CapInv => StagedIsEarned /\ VerdictsAgree
<1>. SUFFICES ASSUME CapInv PROVE StagedIsEarned /\ VerdictsAgree
  OBVIOUS
<1>1. VerdictsAgree
  BY Agree DEF CapInv
<1>2. StagedIsEarned
  BY DEF CapInv, StagedIsEarned, Earned, Then
<1>. QED  BY <1>1, <1>2

(* Whatever the records, their number and their returns, whenever the        *)
(* orchestrator stops or its appends fail: a crossing it has seen is on its  *)
(* ledger, nothing is staged that had not passed the gate and the committee, *)
(* the broker passes over only for better ones that fill the portfolio, and  *)
(* the digest and the risk report do not contradict it (run_orchestrator.py  *)
(* 74-85, broker.py 52-68, analyst.py 88-103).                               *)
THEOREM CapitalGoesToTheEarned == GatesSpec => []CapitalIsEarned
<1>1. GatesInit => CapInv
  BY InitCapital DEF GatesInit
<1>2. CapInv /\ [GatesNext]_<<part, gatevars>> => CapInv'
  <2>. SUFFICES ASSUME CapInv, [GatesNext]_<<part, gatevars>> PROVE CapInv'
    OBVIOUS
  <2>1. [CapNext]_capvars
    BY DEF GatesNext, gatevars
  <2>. QED  BY <2>1, NextCapital
<1>3. CapInv => CapitalIsEarned
  BY SafeCapital DEF CapitalIsEarned
<1>. QED  BY <1>1, <1>2, <1>3, PTL DEF GatesSpec

------------------------------------------------------------------------------
(* The allocator: budgets of positions, clusters and the whole.              *)

Candidates == [cluster : Clusters, score : Int, own : Int]
ScoreIn(cs) == [j \in DOMAIN cs |-> cs[j].score]
TotalScore(cs) == SumFunctionOnSet(ScoreIn(cs), Positive(cs))
ShareIn(cs) == [j \in DOMAIN cs |-> Proportional(cs, j).num]
ClusterShare(cs, is) == SumFunctionOnSet(ShareIn(cs), is)
Members(cs, c) == {i \in Positive(cs) : cs[i].cluster = c}

LEMMA SumAtLeast ==
  ASSUME NEW w, NEW S, IsFiniteSet(S), \A x \in S : w[x] \in Nat, NEW x \in S
  PROVE  SumFunctionOnSet(w, S) \in Nat /\ SumFunctionOnSet(w, S) >= w[x]
<1>. DEFINE R == S \ {x}
<1>1. IsFiniteSet(R) /\ \A y \in R : w[y] \in Nat
  BY FS_RemoveElement
<1>. HIDE DEF R
<1>2. SumFunctionOnSet(w, R) \in Nat /\ w[x] \in Nat
  BY <1>1, SumNat
<1>3. SumFunctionOnSet(w, S) = w[x] + SumFunctionOnSet(w, R)
  <2>1. \A y \in S : w[y] \in Int
    OBVIOUS
  <2>. QED  BY <2>1, SumRemove DEF R
<1>. QED  BY <1>2, <1>3

LEMMA CandidateTypes ==
  ASSUME NEW cs \in Seq(Candidates)
  PROVE  /\ IsFiniteSet(Positive(cs))
         /\ \A i \in Positive(cs) : /\ i \in DOMAIN cs /\ cs[i].cluster \in Clusters
                                    /\ ScoreIn(cs)[i] = cs[i].score
                                    /\ cs[i].score \in Nat \ {0}
                                    /\ CapOf(cs[i]) \in Nat \ {0}
<1>1. IsFiniteSet(DOMAIN cs)
  <2>1. DOMAIN cs = 1..Len(cs) /\ Len(cs) \in Nat
    OBVIOUS
  <2>. QED  BY <2>1, FS_Interval
<1>2. Positive(cs) \subseteq DOMAIN cs
  BY DEF Positive
<1>3. IsFiniteSet(Positive(cs))
  BY <1>1, <1>2, FS_Subset
<1>4. ASSUME NEW i \in Positive(cs)
      PROVE  /\ i \in DOMAIN cs /\ cs[i].cluster \in Clusters
             /\ ScoreIn(cs)[i] = cs[i].score
             /\ cs[i].score \in Nat \ {0} /\ CapOf(cs[i]) \in Nat \ {0}
  <2>1. i \in DOMAIN cs /\ cs[i] \in Candidates /\ cs[i].score > 0
    BY DEF Positive
  <2>2. cs[i].cluster \in Clusters /\ cs[i].score \in Int /\ cs[i].own \in Int
    BY <2>1 DEF Candidates
  <2>3. CapOf(cs[i]) \in Nat \ {0}
    BY <2>2, VerdictAssumption DEF CapOf
  <2>. QED  BY <2>1, <2>2, <2>3 DEF ScoreIn
<1>. QED  BY <1>3, <1>4

(* A share before the clusters are looked at: under its cap, and no more     *)
(* than the score's part of the whole.                                       *)
LEMMA Shares ==
  ASSUME NEW cs \in Seq(Candidates), NEW i \in Positive(cs)
  PROVE  /\ TotalScore(cs) \in Nat \ {0} /\ ShareIn(cs)[i] \in Nat \ {0}
         /\ ShareIn(cs)[i] = Smaller(CapOf(cs[i]) * TotalScore(cs), 100 * cs[i].score)
         /\ ShareIn(cs)[i] <= CapOf(cs[i]) * TotalScore(cs)
         /\ ShareIn(cs)[i] <= 100 * cs[i].score
         /\ Proportional(cs, i) = [num |-> ShareIn(cs)[i], den |-> TotalScore(cs)]
<1>1. /\ i \in DOMAIN cs /\ ScoreIn(cs)[i] = cs[i].score
      /\ cs[i].score \in Nat \ {0} /\ CapOf(cs[i]) \in Nat \ {0}
  BY CandidateTypes
<1>2. TotalScore(cs) \in Nat \ {0}
  <2>1. IsFiniteSet(Positive(cs)) /\ \A j \in Positive(cs) : ScoreIn(cs)[j] \in Nat
    BY CandidateTypes
  <2>2. TotalScore(cs) \in Nat /\ TotalScore(cs) >= ScoreIn(cs)[i]
    BY <2>1, SumAtLeast DEF TotalScore
  <2>. QED  BY <1>1, <2>2
<1>3. Proportional(cs, i) = [num |-> Smaller(CapOf(cs[i]) * TotalScore(cs), 100 * cs[i].score),
                             den |-> TotalScore(cs)]
  BY DEF Proportional, TotalScore, ScoreIn
<1>4. ShareIn(cs)[i] = Smaller(CapOf(cs[i]) * TotalScore(cs), 100 * cs[i].score)
  BY <1>1, <1>3 DEF ShareIn
<1>. DEFINE x == CapOf(cs[i]) * TotalScore(cs)
            y == 100 * cs[i].score
<1>5. x \in Nat \ {0}
  <2>1. \A a, b \in Nat \ {0} : a * b \in Nat \ {0}
    BY Z3
  <2>. QED  BY <1>1, <1>2, <2>1
<1>6. y \in Nat \ {0}
  BY <1>1
<1>. HIDE DEF x, y
<1>7. Smaller(x, y) \in Nat \ {0} /\ Smaller(x, y) <= x /\ Smaller(x, y) <= y
  BY <1>5, <1>6 DEF Smaller
<1>. QED  BY <1>2, <1>3, <1>4, <1>7 DEF x, y

(* What the members of some clusters share, against their scores.            *)
LEMMA ClusterShares ==
  ASSUME NEW cs \in Seq(Candidates), NEW is \in SUBSET Positive(cs)
  PROVE  /\ IsFiniteSet(is) /\ \A i \in is : ShareIn(cs)[i] \in Int
         /\ ClusterShare(cs, is) \in Nat
         /\ ClusterShare(cs, is) <= 100 * TotalScore(cs)
         /\ is # {} => ClusterShare(cs, is) > 0
<1>. DEFINE w == ShareIn(cs)
            v == [i \in DOMAIN cs |-> 100 * cs[i].score]
            P == Positive(cs)
<1>1. IsFiniteSet(P) /\ IsFiniteSet(is) /\ IsFiniteSet(P \ is)
  <2>1. IsFiniteSet(P)
    BY CandidateTypes
  <2>2. IsFiniteSet(is)
    BY <2>1, FS_Subset
  <2>3. IsFiniteSet(P \ is)
    BY <2>1, FS_Subset
  <2>. QED  BY <2>1, <2>2, <2>3
<1>2. ASSUME NEW i \in P
      PROVE  w[i] \in Nat \ {0} /\ v[i] = 100 * ScoreIn(cs)[i] /\ v[i] \in Nat /\ w[i] <= v[i]
  <2>1. i \in DOMAIN cs /\ ScoreIn(cs)[i] = cs[i].score /\ cs[i].score \in Nat
    BY CandidateTypes
  <2>. HIDE DEF w
  <2>2. w[i] \in Nat \ {0} /\ w[i] <= 100 * cs[i].score
    BY Shares DEF w
  <2>. QED  BY <2>1, <2>2
<1>3. \A i \in P : ScoreIn(cs)[i] \in Int
  BY CandidateTypes
<1>. HIDE DEF w, v, P
<1>4. SumFunctionOnSet(v, P) = 100 * TotalScore(cs)
  BY <1>1, <1>2, <1>3, SumScale DEF TotalScore, P
<1>5. SumFunctionOnSet(w, is) \in Nat /\ SumFunctionOnSet(v, is) \in Nat
      /\ SumFunctionOnSet(v, P \ is) \in Nat
  <2>1. is \subseteq P
    BY DEF P
  <2>2. SumFunctionOnSet(w, is) \in Nat
    BY <1>1, <1>2, <2>1, SumNat
  <2>3. SumFunctionOnSet(v, is) \in Nat
    BY <1>1, <1>2, <2>1, SumNat
  <2>4. SumFunctionOnSet(v, P \ is) \in Nat
    BY <1>1, <1>2, <2>1, SumNat
  <2>. QED  BY <2>2, <2>3, <2>4
<1>6. SumFunctionOnSet(w, is) <= SumFunctionOnSet(v, is)
  <2>1. \A i \in is : w[i] \in Int /\ v[i] \in Int /\ w[i] <= v[i]
    BY <1>2 DEF P
  <2>. QED  BY <1>1, <2>1, SumMono
<1>7. SumFunctionOnSet(v, P) = SumFunctionOnSet(v, is) + SumFunctionOnSet(v, P \ is)
  <2>1. P = is \cup (P \ is) /\ is \cap (P \ is) = {}
    BY DEF P
  <2>2. \A i \in is \cup (P \ is) : v[i] \in Int
    BY <1>2, <2>1
  <2>. QED  BY <1>1, <2>1, <2>2, SumUnion
<1>8. ASSUME is # {} PROVE SumFunctionOnSet(w, is) > 0
  <2>1. PICK i \in is : TRUE
    BY <1>8
  <2>2. w[i] \in Nat \ {0} /\ \A j \in is : w[j] \in Nat
    BY <1>2, <2>1 DEF P
  <2>3. SumFunctionOnSet(w, is) >= w[i]
    BY <1>1, <2>1, <2>2, SumAtLeast
  <2>. QED  BY <1>5, <2>2, <2>3
<1>9. \A i \in is : w[i] \in Int
  BY <1>2 DEF P
<1>10. ClusterShare(cs, is) = SumFunctionOnSet(w, is)
  BY DEF ClusterShare, w
<1>11. TotalScore(cs) \in Int
  BY <1>1, <1>3, SumInt DEF TotalScore, P
<1>. QED  BY <1>1, <1>4, <1>5, <1>6, <1>7, <1>8, <1>9, <1>10, <1>11 DEF w

(* The weights of a cluster's members have one denominator; the cluster is   *)
(* either within its budget or scaled down to it.                            *)
Scaled(cs, is) == ClusterShare(cs, is) > MaxCluster * TotalScore(cs)
WeightIn(cs, is, i) ==
  IF Scaled(cs, is) THEN [num |-> ShareIn(cs)[i] * MaxCluster, den |-> ClusterShare(cs, is)]
  ELSE [num |-> ShareIn(cs)[i], den |-> TotalScore(cs)]

LEMMA AllocatedInCluster ==
  ASSUME NEW cs \in Seq(Candidates), NEW i \in Positive(cs), NEW is, is = Mates(cs, i)
  PROVE  Allocate(cs, i) = WeightIn(cs, is, i)
<1>1. Proportional(cs, i) = [num |-> ShareIn(cs)[i], den |-> TotalScore(cs)]
  BY Shares
<1>2. ClusterShare(cs, is)
        = SumFunctionOnSet([j \in DOMAIN cs |-> Proportional(cs, j).num], Mates(cs, i))
  BY DEF ClusterShare, ShareIn
<1>. DEFINE C == ClusterShare(cs, is)
            W == Proportional(cs, i)
<1>3. Allocate(cs, i) = IF C > MaxCluster * W.den
                        THEN [num |-> W.num * MaxCluster, den |-> C] ELSE W
  BY <1>2 DEF Allocate
<1>4. W.num = ShareIn(cs)[i] /\ W.den = TotalScore(cs)
  BY <1>1
<1>. QED  BY <1>1, <1>3, <1>4 DEF WeightIn, Scaled

LEMMA MatesAreMembers ==
  ASSUME NEW cs, NEW c, NEW i \in Members(cs, c)
  PROVE  Mates(cs, i) = Members(cs, c) /\ i \in Positive(cs)
  BY DEF Mates, Members

(* What a cluster with members gets.                                         *)
BudgetOf(cs, c) ==
  IF Members(cs, c) = {} THEN [num |-> 0, den |-> 1]
  ELSE IF Scaled(cs, Members(cs, c))
  THEN [num |-> MaxCluster * ClusterShare(cs, Members(cs, c)),
        den |-> ClusterShare(cs, Members(cs, c))]
  ELSE [num |-> ClusterShare(cs, Members(cs, c)), den |-> TotalScore(cs)]

LEMMA BudgetIs ==
  ASSUME NEW cs \in Seq(Candidates), NEW c, NEW ws,
         \A i \in Positive(cs) : ws[i] = Allocate(cs, i)
  PROVE  [num |-> SumFunctionOnSet([i \in Positive(cs) |-> ws[i].num], Members(cs, c)),
          den |-> IF Members(cs, c) = {} THEN 1 ELSE ws[CHOOSE i \in Members(cs, c) : TRUE].den]
           = BudgetOf(cs, c)
<1>. DEFINE M == Members(cs, c)
            C == ClusterShare(cs, M)
            v == [i \in Positive(cs) |-> ws[i].num]
            w == ShareIn(cs)
            h == CHOOSE i \in M : TRUE
<1>1. M \subseteq Positive(cs)
  BY DEF Members
<1>2. IsFiniteSet(M) /\ \A i \in M : w[i] \in Int
  BY <1>1, ClusterShares
<1>3. CASE M = {}
  BY <1>3, SumEmpty DEF BudgetOf
<1>4. CASE M # {}
  <2>1. h \in M
    BY <1>4
  <2>2. ASSUME NEW i \in M
        PROVE  v[i] = WeightIn(cs, M, i).num /\ ws[i].den = WeightIn(cs, M, i).den
    <3>1. i \in Positive(cs) /\ ws[i] = WeightIn(cs, M, i)
      BY <1>1, AllocatedInCluster, MatesAreMembers
    <3>. QED  BY <3>1
  <2>. HIDE DEF v, h
  <2>3. CASE Scaled(cs, M)
    <3>1. \A i \in M : v[i] = w[i] * MaxCluster /\ ws[i].den = C
      BY <2>2, <2>3 DEF WeightIn
    <3>2. ASSUME NEW i \in M PROVE v[i] = MaxCluster * w[i]
      <4>1. v[i] = w[i] * MaxCluster /\ w[i] \in Int
        BY <1>2, <3>1
      <4>. HIDE DEF w
      <4>. QED  BY <4>1, VerdictAssumption
    <3>3. SumFunctionOnSet(v, M) = MaxCluster * C
      <4>1. MaxCluster \in Int
        BY VerdictAssumption
      <4>2. SumFunctionOnSet(v, M) = MaxCluster * SumFunctionOnSet(w, M)
        <5>. HIDE DEF w, M
        <5>. QED  BY <1>2, <3>2, <4>1, SumScale
      <4>. QED  BY <4>2 DEF ClusterShare
    <3>4. ws[h].den = C
      BY <2>1, <3>1
    <3>5. BudgetOf(cs, c) = [num |-> MaxCluster * C, den |-> C]
      BY <1>4, <2>3 DEF BudgetOf
    <3>. QED  BY <1>4, <3>3, <3>4, <3>5 DEF v, h
  <2>4. CASE ~Scaled(cs, M)
    <3>1. \A i \in M : v[i] = w[i] /\ ws[i].den = TotalScore(cs)
      BY <2>2, <2>4 DEF WeightIn
    <3>2. SumFunctionOnSet(v, M) = C
      <4>1. SumFunctionOnSet(w, M) = SumFunctionOnSet(v, M)
        <5>. HIDE DEF w, M
        <5>. QED  BY <1>2, <3>1, SumSame
      <4>. QED  BY <4>1 DEF ClusterShare
    <3>4. ws[h].den = TotalScore(cs)
      BY <2>1, <3>1
    <3>5. BudgetOf(cs, c) = [num |-> C, den |-> TotalScore(cs)]
      BY <1>4, <2>4 DEF BudgetOf
    <3>. QED  BY <1>4, <3>2, <3>4, <3>5 DEF v, h
  <2>. QED  BY <2>3, <2>4
<1>. QED  BY <1>3, <1>4

(* Two clusters that share T between them, each scaled or not.               *)
LEMMA TwoScaled ==
  ASSUME NEW C \in Nat \ {0}, NEW D \in Nat \ {0}, NEW T \in Nat \ {0}, NEW m \in Nat \ {0},
         C + D <= 100 * T
  PROVE  /\ C * T + D * T <= 100 * (T * T)
         /\ C > m * T => (m * C) * T + D * C <= 100 * (C * T)
         /\ C > m * T /\ D > m * T => (m * C) * D + (m * D) * C <= 100 * (C * D)
<1>0. \A x, y, z \in Nat : x <= y => x * z <= y * z
  BY Z3
<1>1. C * T + D * T <= 100 * (T * T)
  <2>1. (C + D) * T <= (100 * T) * T
    BY <1>0
  <2>2. (C + D) * T = C * T + D * T /\ (100 * T) * T = 100 * (T * T)
    BY Z3
  <2>. QED  BY <2>1, <2>2
<1>. DEFINE P == m * T
<1>2. P \in Nat
  BY Z3
<1>3. ASSUME C > P PROVE (m * C) * T + D * C <= 100 * (C * T)
  <2>1. P + D <= 100 * T
    <3>. HIDE DEF P
    <3>. QED  BY <1>2, <1>3
  <2>2. (P + D) * C <= (100 * T) * C
    <3>. HIDE DEF P
    <3>. QED  BY <1>0, <1>2, <2>1
  <2>3. (P + D) * C = (m * C) * T + D * C /\ (100 * T) * C = 100 * (C * T)
    BY Z3
  <2>. QED  BY <2>2, <2>3
<1>4. ASSUME C > P, D > P PROVE (m * C) * D + (m * D) * C <= 100 * (C * D)
  <2>1. P + P <= 100 * T
    <3>. HIDE DEF P
    <3>. QED  BY <1>2, <1>4
  <2>2. m + m <= 100
    <3>1. ASSUME m + m > 100 PROVE FALSE
      <4>1. (m + m) * T = P + P
        BY Z3
      <4>2. 101 * T <= (m + m) * T
        BY <1>0, <3>1
      <4>. HIDE DEF P
      <4>. QED  BY <1>2, <2>1, <4>1, <4>2
    <3>. QED  BY <3>1
  <2>3. (m + m) * (C * D) <= 100 * (C * D)
    <3>1. C * D \in Nat
      BY Z3
    <3>. QED  BY <1>0, <2>2, <3>1
  <2>4. (m + m) * (C * D) = (m * C) * D + (m * D) * C
    BY Z3
  <2>. QED  BY <2>3, <2>4
<1>. QED  BY <1>1, <1>3, <1>4

(* One weight: positive, under its cap, no more than its part of the scores. *)
LEMMA WeightHolds ==
  ASSUME NEW cs \in Seq(Candidates), NEW i \in Positive(cs), NEW w, w = Allocate(cs, i)
  PROVE  /\ w.num > 0 /\ w.num <= CapOf(cs[i]) * w.den
         /\ w.num * TotalScore(cs) <= 100 * cs[i].score * w.den
<1>. DEFINE is == Mates(cs, i)
            C == ClusterShare(cs, is)
            T == TotalScore(cs)
            s == ShareIn(cs)[i]
            cap == CapOf(cs[i])
            y == cs[i].score
            m == MaxCluster
<1>1. T \in Nat \ {0} /\ s \in Nat \ {0} /\ s <= cap * T /\ s <= 100 * y
  BY Shares
<1>2. cap \in Nat \ {0} /\ y \in Nat \ {0} /\ m \in Nat \ {0}
  BY CandidateTypes, VerdictAssumption
<1>3. C \in Nat
  <2>1. is \in SUBSET Positive(cs)
    BY DEF Mates
  <2>. QED  BY <2>1, ClusterShares
<1>4. w = IF C > m * T THEN [num |-> s * m, den |-> C] ELSE [num |-> s, den |-> T]
  BY AllocatedInCluster DEF WeightIn, Scaled
<1>. HIDE DEF C, T, s, cap, y, m
<1>5. \A a, b, z \in Nat : a <= b => a * z <= b * z /\ z * a <= z * b
  BY Z3
<1>. DEFINE P == m * T
            A == cap * T
<1>6. P \in Nat \ {0} /\ A \in Nat \ {0} /\ s * m \in Nat \ {0} /\ s * T \in Nat
  BY <1>1, <1>2, Z3
<1>7. CASE C > P
  <2>1. w.num = s * m /\ w.den = C
    BY <1>4, <1>7
  <2>2. s * m <= cap * C
    <3>1. s * m <= A * m
      <4>. HIDE DEF A
      <4>. QED  BY <1>1, <1>2, <1>5, <1>6 DEF A
    <3>2. A * m = cap * P
      BY <1>1, <1>2, Z3
    <3>3. cap * P <= cap * C
      <4>1. P <= C
        BY <1>3, <1>6, <1>7
      <4>. HIDE DEF P
      <4>. QED  BY <1>2, <1>3, <1>5, <1>6, <4>1
    <3>4. A * m \in Nat /\ cap * C \in Nat
      BY <1>1, <1>2, <1>3, Z3
    <3>. HIDE DEF A, P
    <3>. QED  BY <1>6, <3>1, <3>2, <3>3, <3>4
  <2>3. (s * m) * T <= (100 * y) * C
    <3>1. (s * m) * T = s * P
      BY <1>1, <1>2, Z3
    <3>2. s * P <= (100 * y) * P
      <4>. HIDE DEF P
      <4>. QED  BY <1>1, <1>2, <1>5, <1>6
    <3>3. (100 * y) * P <= (100 * y) * C
      <4>1. P <= C /\ 100 * y \in Nat
        BY <1>2, <1>3, <1>6, <1>7
      <4>. HIDE DEF P
      <4>. QED  BY <1>3, <1>5, <1>6, <4>1
    <3>4. s * P \in Nat /\ (100 * y) * P \in Nat /\ (100 * y) * C \in Nat
      <4>. HIDE DEF P
      <4>. QED  BY <1>1, <1>2, <1>3, <1>6, Z3
    <3>. HIDE DEF P
    <3>. QED  BY <3>1, <3>2, <3>3, <3>4
  <2>4. (100 * y) * C = 100 * y * C
    OBVIOUS
  <2>. QED  BY <1>6, <2>1, <2>2, <2>3, <2>4 DEF T, cap, y
<1>8. CASE ~(C > P)
  <2>1. w.num = s /\ w.den = T
    BY <1>4, <1>8
  <2>2. s * T <= (100 * y) * T
    <3>1. 100 * y \in Nat
      BY <1>2
    <3>. QED  BY <1>1, <1>5, <3>1
  <2>. QED  BY <1>1, <2>1, <2>2 DEF T, cap, y
<1>. QED  BY <1>7, <1>8

(* Of two under the same cap in the same cluster the better has no less.     *)
LEMMA BetterHasNoLess ==
  ASSUME NEW cs \in Seq(Candidates), NEW i \in Positive(cs), NEW j \in Positive(cs),
         cs[i].cluster = cs[j].cluster, cs[i].own = cs[j].own, cs[i].score <= cs[j].score
  PROVE  Allocate(cs, i).num <= Allocate(cs, j).num
<1>. DEFINE is == Mates(cs, i)
            si == ShareIn(cs)[i]
            sj == ShareIn(cs)[j]
            m == MaxCluster
<1>1. is = Mates(cs, j)
  BY DEF Mates
<1>2. Allocate(cs, i) = WeightIn(cs, is, i) /\ Allocate(cs, j) = WeightIn(cs, is, j)
  BY <1>1, AllocatedInCluster
<1>3. CapOf(cs[i]) = CapOf(cs[j])
  BY DEF CapOf
<1>4. si \in Nat /\ sj \in Nat /\ m \in Nat
  BY Shares, VerdictAssumption
<1>5. si <= sj
  <2>. DEFINE x == CapOf(cs[i]) * TotalScore(cs)
              a == cs[i].score
              b == cs[j].score
  <2>1. TotalScore(cs) \in Nat /\ CapOf(cs[i]) \in Nat /\ a \in Nat /\ b \in Nat /\ a <= b
    BY CandidateTypes, Shares
  <2>2. x \in Nat
    BY <2>1, Z3
  <2>3. si = Smaller(x, 100 * a) /\ sj = Smaller(x, 100 * b)
    BY <1>3, Shares
  <2>. HIDE DEF x, a, b, si, sj
  <2>. QED  BY <2>1, <2>2, <2>3 DEF Smaller
<1>. HIDE DEF si, sj, m
<1>6. si * m <= sj * m
  BY <1>4, <1>5, Z3
<1>7. CASE Scaled(cs, is)
  <2>1. Allocate(cs, i).num = si * m /\ Allocate(cs, j).num = sj * m
    BY <1>2, <1>7 DEF WeightIn, si, sj, m
  <2>. QED  BY <1>6, <2>1
<1>8. CASE ~Scaled(cs, is)
  <2>1. Allocate(cs, i).num = si /\ Allocate(cs, j).num = sj
    BY <1>2, <1>8 DEF WeightIn, si, sj
  <2>. QED  BY <1>5, <2>1
<1>. QED  BY <1>7, <1>8

(* One cluster within its budget, two within the capital.                    *)
LEMMA BudgetHolds ==
  ASSUME NEW cs \in Seq(Candidates), NEW c
  PROVE  BudgetOf(cs, c).num <= MaxCluster * BudgetOf(cs, c).den
<1>. DEFINE M == Members(cs, c)
            C == ClusterShare(cs, M)
            T == TotalScore(cs)
            m == MaxCluster
<1>1. M \in SUBSET Positive(cs)
  BY DEF Members
<1>2. C \in Nat /\ m \in Nat
  BY <1>1, ClusterShares, VerdictAssumption
<1>3. CASE M = {}
  BY <1>2, <1>3 DEF BudgetOf
<1>4. CASE M # {}
  <2>1. PICK i \in Positive(cs) : TRUE
    BY <1>1, <1>4
  <2>2. T \in Nat
    BY <2>1, Shares
  <2>3. m * T \in Nat
    BY <1>2, <2>2, Z3
  <2>4. BudgetOf(cs, c) = IF C > m * T THEN [num |-> m * C, den |-> C] ELSE [num |-> C, den |-> T]
    BY <1>4 DEF BudgetOf, Scaled
  <2>5. m * C \in Nat
    BY <1>2, Z3
  <2>. HIDE DEF C, T, m
  <2>6. CASE C > m * T
    BY <2>4, <2>5, <2>6 DEF m
  <2>7. CASE ~(C > m * T)
    BY <1>2, <2>3, <2>4, <2>7 DEF m
  <2>. QED  BY <2>6, <2>7
<1>. QED  BY <1>3, <1>4

LEMMA TwoBudgetsHold ==
  ASSUME NEW cs \in Seq(Candidates), NEW c, NEW d, c # d
  PROVE  BudgetOf(cs, c).num * BudgetOf(cs, d).den + BudgetOf(cs, d).num * BudgetOf(cs, c).den
           <= 100 * BudgetOf(cs, c).den * BudgetOf(cs, d).den
<1>. DEFINE M == Members(cs, c)
            N == Members(cs, d)
            C == ClusterShare(cs, M)
            D == ClusterShare(cs, N)
            T == TotalScore(cs)
            m == MaxCluster
            B(X) == IF X > m * T THEN [num |-> m * X, den |-> X] ELSE [num |-> X, den |-> T]
<1>1. M \in SUBSET Positive(cs) /\ N \in SUBSET Positive(cs) /\ M \cap N = {}
      /\ M \cup N \in SUBSET Positive(cs)
  BY DEF Members
<1>2. C \in Nat /\ C <= 100 * T /\ (M # {} => C > 0)
  BY <1>1, ClusterShares
<1>3. D \in Nat /\ D <= 100 * T /\ (N # {} => D > 0)
  BY <1>1, ClusterShares
<1>4. C + D <= 100 * T
  <2>1. ClusterShare(cs, M \cup N) <= 100 * T
    BY <1>1, ClusterShares
  <2>2. IsFiniteSet(M) /\ IsFiniteSet(N) /\ \A i \in M \cup N : ShareIn(cs)[i] \in Int
    BY <1>1, ClusterShares
  <2>3. ClusterShare(cs, M \cup N) = C + D
    <3>. HIDE DEF M, N
    <3>. QED  BY <1>1, <2>2, SumUnion DEF ClusterShare
  <2>. QED  BY <2>1, <2>3
<1>5. m \in Nat \ {0}
  BY VerdictAssumption
<1>6. ASSUME M # {} PROVE BudgetOf(cs, c) = B(C) /\ T \in Nat \ {0} /\ C \in Nat \ {0}
  <2>1. T \in Nat \ {0}
    BY <1>1, <1>6, Shares
  <2>. QED  BY <1>2, <1>6, <2>1 DEF BudgetOf, Scaled
<1>7. ASSUME N # {} PROVE BudgetOf(cs, d) = B(D) /\ T \in Nat \ {0} /\ D \in Nat \ {0}
  <2>1. T \in Nat \ {0}
    BY <1>1, <1>7, Shares
  <2>. QED  BY <1>3, <1>7, <2>1 DEF BudgetOf, Scaled
<1>8. M = {} => BudgetOf(cs, c) = [num |-> 0, den |-> 1]
  BY DEF BudgetOf
<1>9. N = {} => BudgetOf(cs, d) = [num |-> 0, den |-> 1]
  BY DEF BudgetOf
<1>. DEFINE OK(x, y) == x.num * y.den + y.num * x.den <= 100 * x.den * y.den
<1>. HIDE DEF M, N, C, D, T, m
(* Alone a cluster is within the capital.                                    *)
<1>10. ASSUME NEW X \in Nat \ {0}, T \in Nat \ {0}, X <= 100 * T
       PROVE  OK(B(X), [num |-> 0, den |-> 1]) /\ OK([num |-> 0, den |-> 1], B(X))
  <2>1. B(X).num <= 100 * B(X).den /\ B(X).num \in Nat /\ B(X).den \in Nat
    <3>1. CASE X > m * T
      <4>1. m <= 100
        <5>1. ASSUME m > 100 PROVE FALSE
          <6>1. m * T >= 101 * T
            BY <1>5, <1>10, <5>1, Z3
          <6>2. m * T \in Nat
            BY <1>5, <1>10, Z3
          <6>. DEFINE P == m * T
          <6>. HIDE DEF P
          <6>3. P \in Nat /\ P >= 101 * T /\ X > P
            BY <3>1, <6>1, <6>2 DEF P
          <6>. QED  BY <1>10, <6>3
        <5>. QED  BY <1>5, <5>1
      <4>2. m * X <= 100 * X /\ m * X \in Nat
        BY <1>5, <1>10, <4>1, Z3
      <4>. QED  BY <3>1, <4>2
    <3>2. CASE ~(X > m * T)
      BY <1>10, <3>2
    <3>. QED  BY <3>1, <3>2
  <2>. DEFINE n == B(X).num
              e == B(X).den
  <2>. HIDE DEF n, e
  <2>2. n \in Nat /\ e \in Nat /\ n <= 100 * e
    BY <2>1 DEF n, e
  <2>3. n * 1 + 0 * e <= 100 * e * 1 /\ 0 * e + n * 1 <= 100 * 1 * e
    BY <2>2, Z3
  <2>. QED  BY <2>3 DEF n, e
<1>11. ASSUME C \in Nat \ {0}, D \in Nat \ {0}, T \in Nat \ {0} PROVE OK(B(C), B(D))
  <2>. DEFINE P == m * T
  <2>0. 100 * C * T = 100 * (C * T) /\ 100 * T * T = 100 * (T * T) /\ 100 * C * D = 100 * (C * D)
        /\ 100 * T * D = 100 * (D * T) /\ D * C = C * D /\ P \in Nat
    BY <1>5, <1>11, Z3
  <2>1. /\ C * T + D * T <= 100 * (T * T)
        /\ C > m * T => (m * C) * T + D * C <= 100 * (C * T)
        /\ C > m * T /\ D > m * T => (m * C) * D + (m * D) * C <= 100 * (C * D)
    BY <1>4, <1>5, <1>11, TwoScaled
  <2>2. D > m * T => (m * D) * T + C * D <= 100 * (D * T)
    <3>1. D + C <= 100 * T
      BY <1>4, <1>11
    <3>. QED  BY <1>5, <1>11, <3>1, TwoScaled
  <2>3. CASE C > P /\ D > P
    <3>1. B(C) = [num |-> m * C, den |-> C] /\ B(D) = [num |-> m * D, den |-> D]
      BY <2>3
    <3>. HIDE DEF B
    <3>2. B(C).num * B(D).den + B(D).num * B(C).den = (m * C) * D + (m * D) * C
          /\ 100 * B(C).den * B(D).den = 100 * (C * D)
      BY <2>0, <3>1
    <3>. QED  BY <2>1, <2>3, <3>2
  <2>4. CASE C > P /\ ~(D > P)
    <3>1. B(C) = [num |-> m * C, den |-> C] /\ B(D) = [num |-> D, den |-> T]
      BY <2>4
    <3>. HIDE DEF B
    <3>2. B(C).num * B(D).den + B(D).num * B(C).den = (m * C) * T + D * C
          /\ 100 * B(C).den * B(D).den = 100 * (C * T)
      BY <2>0, <3>1
    <3>. QED  BY <2>1, <2>4, <3>2
  <2>5. CASE ~(C > P) /\ D > P
    <3>1. B(C) = [num |-> C, den |-> T] /\ B(D) = [num |-> m * D, den |-> D]
      BY <2>5
    <3>. HIDE DEF B
    <3>2. B(C).num * B(D).den + B(D).num * B(C).den = C * D + (m * D) * T
          /\ 100 * B(C).den * B(D).den = 100 * (D * T)
      BY <2>0, <3>1
    <3>3. C * D \in Int /\ (m * D) * T \in Int
      BY <1>5, <1>11, Z3
    <3>. QED  BY <2>2, <2>5, <3>2, <3>3
  <2>6. CASE ~(C > P) /\ ~(D > P)
    <3>1. B(C) = [num |-> C, den |-> T] /\ B(D) = [num |-> D, den |-> T]
      BY <2>6
    <3>. HIDE DEF B
    <3>2. B(C).num * B(D).den + B(D).num * B(C).den = C * T + D * T
          /\ 100 * B(C).den * B(D).den = 100 * (T * T)
      BY <2>0, <3>1
    <3>. QED  BY <2>1, <3>2
  <2>. QED  BY <2>3, <2>4, <2>5, <2>6
<1>. HIDE DEF B
<1>12. OK(BudgetOf(cs, c), BudgetOf(cs, d))
  <2>1. CASE M = {} /\ N = {}
    BY <1>8, <1>9, <2>1
  <2>2. CASE M = {} /\ N # {}
    BY <1>3, <1>7, <1>8, <1>10, <2>2
  <2>3. CASE M # {} /\ N = {}
    BY <1>2, <1>6, <1>9, <1>10, <2>3
  <2>4. CASE M # {} /\ N # {}
    BY <1>6, <1>7, <1>11, <2>4
  <2>. QED  BY <2>1, <2>2, <2>3, <2>4
<1>. QED  BY <1>12

------------------------------------------------------------------------------
(* The drift monitor: what a detector keeps of a stream, observation after   *)
(* observation, is what the whole stream says.                               *)

Observations == [ret : Int, slip : Int, dd : Int]
Detectors == [n : Nat, sum : Int, m : Int, extreme : Int, alarm : BOOLEAN]
Fields == {"ret", "slip"}
Signs == {1, -1}

ShownIn(s, f, k) == {i \in 1..k : s[i][f] # -1}
SumIn(s, f, k) == SumFunctionOnSet([i \in 1..k |-> s[i][f]], ShownIn(s, f, k))
MeanIn(s, f, k) == (Whole \div Cardinality(ShownIn(s, f, k))) * SumIn(s, f, k)
StepIn(s, f, sign, i) == sign * (Whole * s[i][f] - MeanIn(s, f, i)) + Whole * Delta
DriftIn(s, f, sign, k) ==
  SumFunctionOnSet([i \in 1..k |-> StepIn(s, f, sign, i)], ShownIn(s, f, k))
AlarmIn(s, f, sign, k) ==
  \E j \in 1..k : \E i \in 0..j : DriftIn(s, f, sign, i) - DriftIn(s, f, sign, j) > Whole * Lam
CauseIn(s, k) ==
  IF s[k].dd > Band THEN "stress band"
  ELSE IF AlarmIn(s, "ret", 1, k) THEN "edge drift"
  ELSE IF AlarmIn(s, "slip", -1, k) THEN "execution" ELSE "no"

(* The past of a stream does not change.                                     *)
SamePast(s, z, k) == k \in Nat /\ \A i \in 1..k : z[i] = s[i]

LEMMA PastStays ==
  ASSUME NEW s, NEW z, NEW f, NEW sign, NEW k, SamePast(s, z, k)
  PROVE  /\ ShownIn(z, f, k) = ShownIn(s, f, k) /\ SumIn(z, f, k) = SumIn(s, f, k)
         /\ DriftIn(z, f, sign, k) = DriftIn(s, f, sign, k)
<1>1. k \in Nat /\ \A i \in 1..k : z[i] = s[i]
  BY DEF SamePast
<1>2. ASSUME NEW j \in 0..k
      PROVE  ShownIn(z, f, j) = ShownIn(s, f, j) /\ SumIn(z, f, j) = SumIn(s, f, j)
  <2>1. \A i \in 1..j : z[i] = s[i]
    BY <1>1
  <2>2. ShownIn(z, f, j) = ShownIn(s, f, j)
    BY <2>1 DEF ShownIn
  <2>3. [i \in 1..j |-> z[i][f]] = [i \in 1..j |-> s[i][f]]
    BY <2>1
  <2>. QED  BY <2>2, <2>3 DEF SumIn
<1>3. ASSUME NEW i \in 1..k PROVE StepIn(z, f, sign, i) = StepIn(s, f, sign, i)
  <2>1. i \in 0..k /\ z[i] = s[i]
    BY <1>1
  <2>2. MeanIn(z, f, i) = MeanIn(s, f, i)
    BY <1>2, <2>1 DEF MeanIn
  <2>. QED  BY <2>1, <2>2 DEF StepIn
<1>4. [i \in 1..k |-> StepIn(z, f, sign, i)] = [i \in 1..k |-> StepIn(s, f, sign, i)]
  BY <1>3
<1>6. ShownIn(z, f, k) = ShownIn(s, f, k) /\ SumIn(z, f, k) = SumIn(s, f, k)
  <2>1. k \in 0..k
    BY <1>1
  <2>. QED  BY <1>2, <2>1
<1>5. DriftIn(z, f, sign, k) = DriftIn(s, f, sign, k)
  BY <1>4, <1>6 DEF DriftIn
<1>. QED  BY <1>5, <1>6

LEMMA ShownTypes ==
  ASSUME NEW s \in Seq(Observations), NEW f \in Fields, NEW sign \in Signs, NEW k \in 0..Len(s)
  PROVE  /\ IsFiniteSet(ShownIn(s, f, k)) /\ Cardinality(ShownIn(s, f, k)) \in Nat
         /\ \A i \in 1..k : s[i][f] \in Int
         /\ SumIn(s, f, k) \in Int
         /\ \A i \in ShownIn(s, f, k) : /\ i \in 1..k /\ Cardinality(ShownIn(s, f, i)) \in Nat \ {0}
                                        /\ StepIn(s, f, sign, i) \in Int
         /\ DriftIn(s, f, sign, k) \in Int
<1>1. ASSUME NEW i \in 1..Len(s) PROVE s[i][f] \in Int
  <2>1. s[i] \in Observations
    OBVIOUS
  <2>. QED  BY <2>1 DEF Observations, Fields
<1>2. ASSUME NEW j \in 0..Len(s)
      PROVE  /\ IsFiniteSet(ShownIn(s, f, j)) /\ Cardinality(ShownIn(s, f, j)) \in Nat
             /\ ShownIn(s, f, j) \subseteq 1..j /\ SumIn(s, f, j) \in Int
  <2>1. ShownIn(s, f, j) \subseteq 1..j
    BY DEF ShownIn
  <2>2. IsFiniteSet(ShownIn(s, f, j))
    <3>1. IsFiniteSet(1..j)
      BY FS_Interval
    <3>. QED  BY <2>1, <3>1, FS_Subset
  <2>3. Cardinality(ShownIn(s, f, j)) \in Nat
    BY <2>2, FS_CardinalityType
  <2>. DEFINE w == [i \in 1..j |-> s[i][f]]
  <2>4. \A i \in ShownIn(s, f, j) : w[i] \in Int
    BY <1>1, <2>1
  <2>. HIDE DEF w
  <2>5. SumFunctionOnSet(w, ShownIn(s, f, j)) \in Int
    BY <2>2, <2>4, SumInt
  <2>. QED  BY <2>1, <2>2, <2>3, <2>5 DEF SumIn, w
<1>3. ASSUME NEW i \in ShownIn(s, f, k)
      PROVE  /\ i \in 1..k /\ Cardinality(ShownIn(s, f, i)) \in Nat \ {0}
             /\ StepIn(s, f, sign, i) \in Int
  <2>1. i \in 1..k /\ i \in 1..Len(s) /\ i \in 0..Len(s) /\ i \in ShownIn(s, f, i)
    BY DEF ShownIn
  <2>. DEFINE c == Cardinality(ShownIn(s, f, i))
  <2>2. IsFiniteSet(ShownIn(s, f, i)) /\ c \in Nat
    BY <1>2, <2>1
  <2>3. c # 0
    BY <2>1, <2>2, FS_EmptySet
  <2>. HIDE DEF c
  <2>4. Whole \div c \in Int
    BY <2>2, <2>3, VerdictAssumption, Z3
  <2>5. MeanIn(s, f, i) \in Int
    <3>1. SumIn(s, f, i) \in Int
      BY <1>2, <2>1
    <3>. QED  BY <2>4, <3>1, Z3 DEF MeanIn, c
  <2>6. sign \in Int /\ Whole \in Int /\ Delta \in Int /\ s[i][f] \in Int
    BY <1>1, <2>1, VerdictAssumption DEF Signs
  <2>7. StepIn(s, f, sign, i) \in Int
    BY <2>5, <2>6, Z3 DEF StepIn
  <2>. QED  BY <2>1, <2>2, <2>3, <2>7 DEF c
<1>4. DriftIn(s, f, sign, k) \in Int
  <2>. DEFINE w == [i \in 1..k |-> StepIn(s, f, sign, i)]
              S == ShownIn(s, f, k)
  <2>1. IsFiniteSet(S)
    BY <1>2
  <2>2. \A i \in S : w[i] \in Int
    BY <1>3
  <2>. HIDE DEF w, S
  <2>3. SumFunctionOnSet(w, S) \in Int
    BY <2>1, <2>2, SumInt
  <2>. QED  BY <2>3 DEF DriftIn, w, S
<1>5. \A i \in 1..k : s[i][f] \in Int
  BY <1>1
<1>. QED  BY <1>2, <1>3, <1>4, <1>5

(* One observation more.                                                     *)
Grown(s, o, z) == s \in Seq(Observations) /\ o \in Observations /\ z = Append(s, o)

OneUnseen(s, z, f, sign) ==
  LET k == Len(s)
  IN  /\ DriftIn(z, f, sign, k + 1) = DriftIn(s, f, sign, k)
      /\ ShownIn(z, f, k + 1) = ShownIn(s, f, k)
      /\ SumIn(z, f, k + 1) = SumIn(s, f, k)
OneSeen(s, o, z, f, sign) ==
  LET k == Len(s)
  IN  /\ Cardinality(ShownIn(z, f, k + 1)) = Cardinality(ShownIn(s, f, k)) + 1
      /\ SumIn(z, f, k + 1) = SumIn(s, f, k) + o[f]
      /\ DriftIn(z, f, sign, k + 1) = DriftIn(s, f, sign, k) + StepIn(z, f, sign, k + 1)

LEMMA GrownIs ==
  ASSUME NEW s, NEW o, NEW z, Grown(s, o, z)
  PROVE  /\ s \in Seq(Observations) /\ z \in Seq(Observations) /\ Len(s) \in Nat
         /\ Len(z) = Len(s) + 1 /\ z[Len(s) + 1] = o /\ SamePast(s, z, Len(s))
         /\ 0..(Len(s) + 1) = 0..Len(s) \cup {Len(s) + 1}
         /\ 1..(Len(s) + 1) = 1..Len(s) \cup {Len(s) + 1}
  BY DEF Grown, SamePast

LEMMA OneMore ==
  ASSUME NEW s, NEW o, NEW z, Grown(s, o, z),
         NEW f \in Fields, NEW sign \in Signs
  PROVE  /\ o[f] = -1 => OneUnseen(s, z, f, sign)
         /\ o[f] # -1 => OneSeen(s, o, z, f, sign)
<1>. DEFINE k == Len(s)
<1>0. s \in Seq(Observations) /\ o \in Observations /\ z = Append(s, o)
  BY DEF Grown
<1>1. /\ z \in Seq(Observations) /\ Len(z) = k + 1 /\ k \in Nat /\ z[k + 1] = o
      /\ \A i \in 1..k : z[i] = s[i]
  BY <1>0
<1>. HIDE DEF k
<1>. DEFINE S == ShownIn(s, f, k)
            v == [i \in 1..k |-> z[i][f]]
            w == [i \in 1..(k + 1) |-> z[i][f]]
            x == [i \in 1..k |-> StepIn(z, f, sign, i)]
            y == [i \in 1..(k + 1) |-> StepIn(z, f, sign, i)]
<1>2. S = ShownIn(z, f, k) /\ SumIn(s, f, k) = SumFunctionOnSet(v, S)
      /\ DriftIn(s, f, sign, k) = SumFunctionOnSet(x, S)
  <2>1. SamePast(s, z, k)
    BY <1>1 DEF SamePast
  <2>2. /\ ShownIn(z, f, k) = ShownIn(s, f, k) /\ SumIn(z, f, k) = SumIn(s, f, k)
        /\ DriftIn(z, f, sign, k) = DriftIn(s, f, sign, k)
    BY <2>1, PastStays
  <2>3. SumIn(z, f, k) = SumFunctionOnSet(v, ShownIn(z, f, k))
        /\ DriftIn(z, f, sign, k) = SumFunctionOnSet(x, ShownIn(z, f, k))
    BY DEF SumIn, DriftIn
  <2>. QED  BY <2>2, <2>3
<1>3. ShownIn(z, f, k + 1) = IF o[f] = -1 THEN S ELSE S \cup {k + 1}
  <2>1. 1..(k + 1) = 1..k \cup {k + 1}
    BY <1>1
  <2>2. S = {i \in 1..k : z[i][f] # -1}
    BY <1>2 DEF ShownIn
  <2>. HIDE DEF S
  <2>. QED  BY <1>1, <2>1, <2>2 DEF ShownIn
<1>4. k \in 0..Len(z) /\ k + 1 \in 0..Len(z)
  BY <1>1
<1>5. IsFiniteSet(S) /\ S \subseteq 1..k /\ k + 1 \notin S
      /\ \A i \in S : v[i] \in Int /\ w[i] = v[i] /\ x[i] \in Int /\ y[i] = x[i]
  <2>1. IsFiniteSet(S) /\ \A i \in 1..k : z[i][f] \in Int
    BY <1>1, <1>2, <1>4, ShownTypes
  <2>2. \A i \in S : i \in 1..k /\ StepIn(z, f, sign, i) \in Int
    BY <1>1, <1>2, <1>4, ShownTypes
  <2>3. \A i \in 1..k : i \in 1..(k + 1)
    BY <1>1
  <2>. HIDE DEF S
  <2>. QED  BY <1>1, <2>1, <2>2, <2>3
<1>6. SumFunctionOnSet(v, S) = SumFunctionOnSet(w, S)
  <2>. HIDE DEF v, w, S
  <2>. QED  BY <1>5, SumSame
<1>7. SumFunctionOnSet(x, S) = SumFunctionOnSet(y, S)
  <2>. HIDE DEF x, y, S
  <2>. QED  BY <1>5, SumSame
<1>8. SumIn(z, f, k + 1) = SumFunctionOnSet(w, ShownIn(z, f, k + 1))
      /\ DriftIn(z, f, sign, k + 1) = SumFunctionOnSet(y, ShownIn(z, f, k + 1))
  BY DEF SumIn, DriftIn
<1>9. CASE o[f] = -1
  BY <1>1, <1>2, <1>3, <1>6, <1>7, <1>8, <1>9 DEF OneUnseen, k
<1>10. CASE o[f] # -1
  <2>1. k + 1 \in ShownIn(z, f, k + 1) /\ ShownIn(z, f, k + 1) = S \cup {k + 1}
    BY <1>3, <1>10
  <2>2. w[k + 1] \in Int /\ w[k + 1] = o[f]
    <3>1. \A i \in 1..(k + 1) : z[i][f] \in Int
      BY <1>1, <1>4, ShownTypes
    <3>2. k + 1 \in 1..(k + 1)
      BY <1>1
    <3>. QED  BY <1>1, <3>1, <3>2
  <2>3. y[k + 1] \in Int /\ y[k + 1] = StepIn(z, f, sign, k + 1)
    <3>1. k + 1 \in 1..(k + 1) /\ StepIn(z, f, sign, k + 1) \in Int
      BY <1>1, <1>4, <2>1, ShownTypes
    <3>. QED  BY <3>1
  <2>. HIDE DEF w, y, S, v, x
  <2>4. \A i \in S : w[i] \in Int /\ y[i] \in Int
    BY <1>5
  <2>. DEFINE m == k + 1
  <2>5. m \notin S /\ w[m] \in Int /\ y[m] \in Int /\ IsFiniteSet(S)
    BY <1>5, <2>2, <2>3
  <2>6. /\ SumFunctionOnSet(w, S \cup {k + 1}) = SumFunctionOnSet(w, S) + w[k + 1]
        /\ SumFunctionOnSet(y, S \cup {k + 1}) = SumFunctionOnSet(y, S) + y[k + 1]
    <3>. HIDE DEF m
    <3>1. SumFunctionOnSet(w, S \cup {m}) = SumFunctionOnSet(w, S) + w[m]
      BY <2>4, <2>5, SumAdd
    <3>2. SumFunctionOnSet(y, S \cup {m}) = SumFunctionOnSet(y, S) + y[m]
      BY <2>4, <2>5, SumAdd
    <3>. QED  BY <3>1, <3>2 DEF m
  <2>7. Cardinality(S \cup {k + 1}) = Cardinality(S) + 1
    BY <1>5, FS_AddElement
  <2>8. Cardinality(ShownIn(z, f, k + 1)) = Cardinality(S) + 1
    BY <2>1, <2>7
  <2>9. SumIn(z, f, k + 1) = SumIn(s, f, k) + o[f]
    BY <1>2, <1>6, <1>8, <2>1, <2>2, <2>6
  <2>10. DriftIn(z, f, sign, k + 1) = DriftIn(s, f, sign, k) + StepIn(z, f, sign, k + 1)
    BY <1>2, <1>7, <1>8, <2>1, <2>3, <2>6
  <2>. QED  BY <1>1, <1>10, <2>8, <2>9, <2>10 DEF S, OneSeen, k
<1>. QED  BY <1>9, <1>10

LEMMA AlarmStays ==
  ASSUME NEW s, NEW z, NEW f, NEW sign, NEW k, SamePast(s, z, k)
  PROVE  /\ \A i \in 0..k : DriftIn(z, f, sign, i) = DriftIn(s, f, sign, i)
         /\ AlarmIn(z, f, sign, k) <=> AlarmIn(s, f, sign, k)
<1>1. ASSUME NEW i \in 0..k PROVE DriftIn(z, f, sign, i) = DriftIn(s, f, sign, i)
  <2>1. SamePast(s, z, i)
    BY DEF SamePast
  <2>. QED  BY <2>1, PastStays
<1>2. \A j \in 1..k : \A i \in 0..j : i \in 0..k /\ j \in 0..k
  BY DEF SamePast
<1>3. AlarmIn(z, f, sign, k) => AlarmIn(s, f, sign, k)
  BY <1>1, <1>2 DEF AlarmIn
<1>4. AlarmIn(s, f, sign, k) => AlarmIn(z, f, sign, k)
  BY <1>1, <1>2 DEF AlarmIn
<1>. QED  BY <1>1, <1>3, <1>4

(* The statistic now, the best it ever was, and whether it was ever alarming.*)
BestOK(m, best, alarm, s, f, sign) ==
  /\ m \in Int /\ best \in Int /\ alarm \in BOOLEAN
  /\ m = DriftIn(s, f, sign, Len(s))
  /\ \A i \in 0..Len(s) : DriftIn(s, f, sign, i) \in Int /\ DriftIn(s, f, sign, i) <= best
  /\ \E i \in 0..Len(s) : DriftIn(s, f, sign, i) = best
  /\ alarm <=> AlarmIn(s, f, sign, Len(s))

LEMMA BestGrows ==
  ASSUME NEW s, NEW o, NEW z, Grown(s, o, z),
         NEW f \in Fields, NEW sign \in Signs,
         NEW m, NEW best, NEW alarm, BestOK(m, best, alarm, s, f, sign),
         NEW d \in Int, d = DriftIn(z, f, sign, Len(s) + 1),
         NEW top, top = (IF best < d THEN d ELSE best),
         NEW rung, rung = (alarm \/ top - d > Whole * Lam)
  PROVE  BestOK(d, top, rung, z, f, sign)
<1>. DEFINE k == Len(s)
            D(i) == DriftIn(z, f, sign, i)
<1>1. k \in Nat /\ Len(z) = k + 1 /\ SamePast(s, z, k) /\ 0..(k + 1) = 0..k \cup {k + 1}
      /\ 1..(k + 1) = 1..k \cup {k + 1}
  BY GrownIs
<1>2. ASSUME NEW i \in 0..k PROVE D(i) = DriftIn(s, f, sign, i)
  <2>1. SamePast(s, z, i)
    BY <1>1 DEF SamePast
  <2>. QED  BY <2>1, PastStays
<1>3. alarm <=> AlarmIn(z, f, sign, k)
  <2>1. AlarmIn(z, f, sign, k) <=> AlarmIn(s, f, sign, k)
    BY <1>1, AlarmStays
  <2>. QED  BY <2>1 DEF BestOK
<1>4. /\ \A i \in 0..k : D(i) \in Int /\ D(i) <= best
      /\ \E i \in 0..k : D(i) = best
  BY <1>2 DEF BestOK
<1>5. best \in Int /\ alarm \in BOOLEAN /\ D(k + 1) = d
  BY DEF BestOK
<1>. HIDE DEF D
<1>6. top \in Int /\ top >= best /\ top >= d /\ (top = best \/ top = d)
  BY <1>5
<1>7. \A i \in 0..(k + 1) : D(i) \in Int /\ D(i) <= top
  BY <1>1, <1>4, <1>5, <1>6
<1>8. \E i \in 0..(k + 1) : D(i) = top
  BY <1>1, <1>4, <1>5, <1>6
<1>9. rung \in BOOLEAN
  BY <1>5
<1>. DEFINE WL == Whole * Lam
            A(j) == \E i \in 0..j : D(i) - D(j) > WL
<1>10. WL \in Int
  BY VerdictAssumption, Z3
<1>. HIDE DEF WL
<1>11. A(k + 1) <=> top - d > WL
  <2>1. ASSUME A(k + 1) PROVE top - d > WL
    <3>1. PICK i \in 0..(k + 1) : D(i) - D(k + 1) > WL
      BY <2>1
    <3>. QED  BY <1>5, <1>6, <1>7, <1>10, <3>1
  <2>2. ASSUME top - d > WL PROVE A(k + 1)
    <3>1. PICK i \in 0..(k + 1) : D(i) = top
      BY <1>8
    <3>. QED  BY <1>5, <2>2, <3>1
  <2>. QED  BY <2>1, <2>2
<1>12. AlarmIn(z, f, sign, k) <=> \E j \in 1..k : A(j)
  BY DEF AlarmIn, D, WL
<1>13. AlarmIn(z, f, sign, k + 1) <=> \E j \in 1..(k + 1) : A(j)
  BY DEF AlarmIn, D, WL
<1>. HIDE DEF A
<1>14. AlarmIn(z, f, sign, k + 1) <=> AlarmIn(z, f, sign, k) \/ A(k + 1)
  BY <1>1, <1>12, <1>13
<1>15. rung <=> alarm \/ top - d > WL
  BY <1>5 DEF WL
<1>16. rung <=> AlarmIn(z, f, sign, k + 1)
  BY <1>3, <1>11, <1>14, <1>15
<1>. QED  BY <1>1, <1>5, <1>6, <1>7, <1>8, <1>9, <1>16 DEF BestOK, D

(* Nothing was measured: nothing changes.                                    *)
LEMMA BestWaits ==
  ASSUME NEW s, NEW o, NEW z, Grown(s, o, z),
         NEW f \in Fields, NEW sign \in Signs, o[f] = -1,
         NEW m, NEW best, NEW alarm, BestOK(m, best, alarm, s, f, sign)
  PROVE  BestOK(m, best, alarm, z, f, sign)
<1>. DEFINE k == Len(s)
            D(i) == DriftIn(s, f, sign, i)
            WL == Whole * Lam
            top == IF best < m THEN m ELSE best
            rung == alarm \/ top - m > WL
<1>1. k \in Nat /\ m \in Int /\ best \in Int /\ alarm \in BOOLEAN /\ m = D(k) /\ k \in 0..k
  BY GrownIs DEF BestOK
<1>2. m = DriftIn(z, f, sign, k + 1)
  BY <1>1, OneMore DEF OneUnseen
<1>3. m <= best
  BY <1>1 DEF BestOK
<1>4. top = best
  BY <1>1, <1>3
<1>5. rung = alarm
  <2>1. ASSUME best - m > WL PROVE alarm
    <3>1. PICK i \in 0..k : D(i) = best
      BY DEF BestOK
    <3>2. k # 0
      <4>1. WL \in Nat
        BY VerdictAssumption, Z3
      <4>. HIDE DEF WL
      <4>2. ASSUME k = 0 PROVE FALSE
        <5>1. i = k
          BY <3>1, <4>2
        <5>2. best = m
          BY <1>1, <3>1, <5>1
        <5>. QED  BY <1>1, <2>1, <4>1, <5>2
      <4>. QED  BY <4>2
    <3>3. k \in 1..k /\ D(i) - D(k) > WL
      BY <1>1, <2>1, <3>1, <3>2
    <3>4. AlarmIn(s, f, sign, k)
      BY <3>1, <3>3 DEF AlarmIn
    <3>. QED  BY <3>4 DEF BestOK
  <2>2. CASE alarm
    BY <1>1, <2>2
  <2>3. CASE ~alarm
    BY <1>1, <1>4, <2>1, <2>3
  <2>. QED  BY <1>1, <2>2, <2>3
<1>. HIDE DEF top, rung
<1>6. BestOK(m, top, rung, z, f, sign)
  <2>1. top = (IF best < m THEN m ELSE best) /\ rung = (alarm \/ top - m > Whole * Lam)
    BY DEF top, rung
  <2>. QED  BY <1>1, <1>2, <2>1, BestGrows
<1>. QED  BY <1>4, <1>5, <1>6

(* A detector: it falls when its sign is 1, and keeps the mirror otherwise.  *)
DetectorOK(ph, s, f, sign) ==
  /\ ph \in Detectors
  /\ ph.n = Cardinality(ShownIn(s, f, Len(s))) /\ ph.sum = SumIn(s, f, Len(s))
  /\ BestOK(sign * ph.m, sign * ph.extreme, ph.alarm, s, f, sign)

LEMMA DetectorGrows ==
  ASSUME NEW s, NEW o, NEW z, Grown(s, o, z),
         NEW f \in Fields, NEW sign \in Signs, o[f] # -1, NEW ph, DetectorOK(ph, s, f, sign),
         NEW falls \in BOOLEAN, falls <=> sign = 1
  PROVE  DetectorOK(Update(ph, o[f], falls), z, f, sign)
<1>. DEFINE k == Len(s)
            x == o[f]
            e == Update(ph, x, falls)
            c == (Whole \div (ph.n + 1)) * (ph.sum + x)
            d == DriftIn(z, f, sign, k + 1)
            v == ph.m + Whole * x - c + Whole * (IF falls THEN Delta ELSE -Delta)
            WL == Whole * Lam
<1>1. /\ z \in Seq(Observations) /\ Len(z) = k + 1 /\ k \in Nat /\ z[k + 1] = o
      /\ Cardinality(ShownIn(z, f, k + 1)) = Cardinality(ShownIn(s, f, k)) + 1
      /\ SumIn(z, f, k + 1) = SumIn(s, f, k) + x
      /\ d = DriftIn(s, f, sign, k) + StepIn(z, f, sign, k + 1)
  BY OneMore, GrownIs DEF OneSeen
<1>2. /\ ph.n \in Nat /\ ph.sum \in Int /\ ph.m \in Int /\ ph.extreme \in Int /\ ph.alarm \in BOOLEAN
      /\ ph.n = Cardinality(ShownIn(s, f, k)) /\ ph.sum = SumIn(s, f, k)
      /\ sign * ph.m = DriftIn(s, f, sign, k)
  BY DEF DetectorOK, Detectors, BestOK
<1>3. x \in Int /\ d \in Int
  <2>1. k + 1 \in 0..Len(z) /\ k + 1 \in 1..(k + 1)
    BY <1>1
  <2>2. \A i \in 1..(k + 1) : z[i][f] \in Int
    BY <1>1, <2>1, ShownTypes
  <2>3. d \in Int
    BY <1>1, <2>1, ShownTypes
  <2>. QED  BY <1>1, <2>1, <2>2, <2>3
<1>4. MeanIn(z, f, k + 1) = c
  BY <1>1, <1>2 DEF MeanIn
<1>5. c \in Int /\ Whole \in Int /\ Delta \in Int /\ WL \in Int
  <2>1. \A p \in Nat, q \in Int : (p \div (ph.n + 1)) * q \in Int
    BY <1>2, Z3
  <2>2. ph.sum + x \in Int /\ Whole \in Nat /\ Delta \in Int /\ Lam \in Nat
    BY <1>2, <1>3, VerdictAssumption
  <2>3. WL \in Int
    BY <2>2, Z3
  <2>. QED  BY <2>1, <2>2, <2>3
<1>6. d = sign * ph.m + (sign * (Whole * x - c) + Whole * Delta)
  <2>1. StepIn(z, f, sign, k + 1) = sign * (Whole * x - c) + Whole * Delta
    BY <1>1, <1>4 DEF StepIn
  <2>. QED  BY <1>1, <1>2, <2>1
<1>7. /\ e.n = ph.n + 1 /\ e.sum = ph.sum + x /\ e.m = v
      /\ e.extreme = (IF falls THEN Larger(ph.extreme, v) ELSE Smaller(ph.extreme, v))
      /\ e.alarm = (ph.alarm \/ (IF falls THEN e.extreme - v ELSE v - e.extreme) > WL)
      /\ e = [n |-> e.n, sum |-> e.sum, m |-> e.m, extreme |-> e.extreme, alarm |-> e.alarm]
  BY DEF Update, Advance
<1>. HIDE DEF e, c, d, x, WL
<1>8. v \in Int /\ d = sign * v
  <2>. DEFINE y == Whole * x
              w == Whole * Delta
  <2>1. \A a, b \in Int : a * b \in Int /\ a * (-b) = -(a * b) /\ 1 * a = a /\ (-1) * a = -a
    BY Z3
  <2>2. y \in Int /\ w \in Int /\ Whole * (-Delta) = -w
    BY <1>3, <1>5, <2>1
  <2>. HIDE DEF y, w
  <2>3. v = ph.m + y - c + (IF falls THEN w ELSE -w)
    BY <2>2 DEF y, w
  <2>4. d = sign * ph.m + (sign * (y - c) + w)
    BY <1>6 DEF y, w
  <2>. HIDE DEF v
  <2>5. CASE sign = 1
    <3>1. v = ph.m + y - c + w /\ v \in Int
      BY <1>2, <1>5, <2>2, <2>3, <2>5
    <3>2. y - c \in Int /\ d = ph.m + ((y - c) + w)
      BY <1>2, <1>5, <2>1, <2>2, <2>4, <2>5
    <3>. QED  BY <1>2, <1>5, <2>1, <2>2, <2>5, <3>1, <3>2
  <2>6. CASE sign = -1
    <3>1. v = ph.m + y - c - w /\ v \in Int
      BY <1>2, <1>5, <2>2, <2>3, <2>6
    <3>2. y - c \in Int /\ d = -ph.m + (-(y - c) + w)
      BY <1>2, <1>5, <2>1, <2>2, <2>4, <2>6
    <3>. QED  BY <1>2, <1>5, <2>1, <2>2, <2>6, <3>1, <3>2
  <2>. QED  BY <2>5, <2>6 DEF Signs
<1>. HIDE DEF v
<1>. DEFINE best == sign * ph.extreme
            top == sign * e.extreme
<1>9. best \in Int /\ e.extreme \in Int /\ top = (IF best < d THEN d ELSE best)
      /\ (IF falls THEN e.extreme - v ELSE v - e.extreme) = top - d
  <2>1. CASE sign = 1
    <3>1. falls = TRUE
      BY <2>1
    <3>2. best = ph.extreme /\ d = v /\ top = e.extreme
      <4>1. e.extreme = Larger(ph.extreme, v)
        BY <1>7, <3>1
      <4>2. e.extreme \in Int
        BY <1>2, <1>8, <4>1 DEF Larger
      <4>. QED  BY <1>2, <1>8, <2>1, <4>2
    <3>. QED  BY <1>2, <1>7, <1>8, <3>1, <3>2 DEF Larger
  <2>2. CASE sign = -1
    <3>1. falls = FALSE
      BY <2>2
    <3>2. best = -ph.extreme /\ d = -v /\ top = -e.extreme /\ e.extreme \in Int
      <4>1. e.extreme = Smaller(ph.extreme, v)
        BY <1>7, <3>1
      <4>2. e.extreme \in Int
        BY <1>2, <1>8, <4>1 DEF Smaller
      <4>. QED  BY <1>2, <1>8, <2>2, <4>2
    <3>3. e.extreme = IF ph.extreme < v THEN ph.extreme ELSE v
      BY <1>7, <3>1 DEF Smaller
    <3>. HIDE DEF best, top
    <3>4. v \in Int /\ ph.extreme \in Int
      BY <1>2, <1>8
    <3>5. v - e.extreme = top - d /\ best \in Int
      BY <3>2, <3>4
    <3>6. top = (IF best < d THEN d ELSE best)
      BY <3>2, <3>3, <3>4
    <3>. QED  BY <3>1, <3>2, <3>5, <3>6
  <2>. QED  BY <2>1, <2>2 DEF Signs
<1>10. e.alarm = (ph.alarm \/ top - d > WL)
  BY <1>7, <1>9
<1>11. e.alarm \in BOOLEAN
  BY <1>2, <1>10
<1>12. BestOK(d, top, e.alarm, z, f, sign)
  <2>1. BestOK(sign * ph.m, best, ph.alarm, s, f, sign)
    BY DEF DetectorOK
  <2>2. d \in Int /\ d = DriftIn(z, f, sign, Len(s) + 1)
    BY <1>3 DEF d
  <2>3. top = (IF best < d THEN d ELSE best) /\ e.alarm = (ph.alarm \/ top - d > Whole * Lam)
    BY <1>9, <1>10 DEF WL
  <2>. HIDE DEF best, top
  <2>. QED  BY <2>1, <2>2, <2>3, BestGrows
<1>13. e \in Detectors
  <2>1. e.n \in Nat /\ e.sum \in Int /\ e.m \in Int
    BY <1>2, <1>3, <1>7, <1>8
  <2>. QED  BY <1>7, <1>9, <1>11, <2>1 DEF Detectors
<1>14. d = sign * e.m /\ Len(z) = k + 1
  BY <1>1, <1>7, <1>8
<1>15. DetectorOK(e, z, f, sign)
  BY <1>1, <1>2, <1>7, <1>12, <1>13, <1>14 DEF DetectorOK, x
<1>. QED  BY <1>15 DEF e, x

LEMMA DetectorWaits ==
  ASSUME NEW s, NEW o, NEW z, Grown(s, o, z),
         NEW f \in Fields, NEW sign \in Signs, o[f] = -1, NEW ph, DetectorOK(ph, s, f, sign)
  PROVE  DetectorOK(ph, z, f, sign)
<1>1. /\ Len(z) = Len(s) + 1 /\ ShownIn(z, f, Len(s) + 1) = ShownIn(s, f, Len(s))
      /\ SumIn(z, f, Len(s) + 1) = SumIn(s, f, Len(s))
  BY OneMore, GrownIs DEF OneUnseen
<1>2. BestOK(sign * ph.m, sign * ph.extreme, ph.alarm, z, f, sign)
  BY BestWaits DEF DetectorOK
<1>. QED  BY <1>1, <1>2 DEF DetectorOK

(* The switch: while it is alive its detectors know the whole stream and no  *)
(* observation was a cause; once killed it keeps the first cause.            *)
Causes == {"no", "stress band", "edge drift", "execution"}
FirstCause(s, cause) ==
  \E k \in 1..Len(s) : CauseIn(s, k) = cause /\ \A j \in 1..(k - 1) : CauseIn(s, j) = "no"

SwitchOK(s, d) ==
  /\ s \in Seq(Observations) /\ d.killed \in Causes
  /\ d.killed = "no" => /\ DetectorOK(d.exp, s, "ret", 1) /\ DetectorOK(d.slp, s, "slip", -1)
                        /\ \A k \in 1..Len(s) : CauseIn(s, k) = "no"
  /\ d.killed # "no" => FirstCause(s, d.killed)

VerdictInv == SwitchOK(seen, drift) /\ wants \in Seq(Candidates)

LEMMA CausesStay ==
  ASSUME NEW s, NEW o, NEW z, Grown(s, o, z), NEW k \in 1..Len(s)
  PROVE  CauseIn(z, k) = CauseIn(s, k)
<1>1. SamePast(s, z, k) /\ z[k] = s[k]
  BY GrownIs DEF SamePast
<1>2. AlarmIn(z, "ret", 1, k) <=> AlarmIn(s, "ret", 1, k)
  BY <1>1, AlarmStays
<1>3. AlarmIn(z, "slip", -1, k) <=> AlarmIn(s, "slip", -1, k)
  BY <1>1, AlarmStays
<1>. QED  BY <1>1, <1>2, <1>3 DEF CauseIn

LEMMA SwitchIsKilledOnce ==
  ASSUME NEW s, NEW o, NEW z, Grown(s, o, z), NEW d, SwitchOK(s, d), d.killed # "no"
  PROVE  SwitchOK(z, d)
<1>1. PICK k \in 1..Len(s) : CauseIn(s, k) = d.killed /\ \A j \in 1..(k - 1) : CauseIn(s, j) = "no"
  BY DEF SwitchOK, FirstCause
<1>2. z \in Seq(Observations) /\ Len(z) = Len(s) + 1 /\ Len(s) \in Nat
  BY GrownIs
<1>3. k \in 1..Len(z) /\ \A j \in 1..(k - 1) : j \in 1..Len(s)
  BY <1>2
<1>4. CauseIn(z, k) = d.killed /\ \A j \in 1..(k - 1) : CauseIn(z, j) = "no"
  BY <1>1, <1>3, CausesStay
<1>5. FirstCause(z, d.killed)
  BY <1>3, <1>4 DEF FirstCause
<1>. QED  BY <1>2, <1>5 DEF SwitchOK

Verdict(o, exp, slp) ==
  IF o.dd > Band THEN "stress band" ELSE IF exp.alarm THEN "edge drift"
  ELSE IF slp.alarm THEN "execution" ELSE "no"

LEMMA SwitchObserves ==
  ASSUME NEW s, NEW o, NEW z, Grown(s, o, z), NEW d, SwitchOK(s, d), d.killed = "no",
         NEW exp, exp = (IF o.ret = -1 THEN d.exp ELSE Update(d.exp, o.ret, TRUE)),
         NEW slp, slp = (IF o.slip = -1 THEN d.slp ELSE Update(d.slp, o.slip, FALSE)),
         NEW e, e.exp = exp, e.slp = slp, e.killed = Verdict(o, exp, slp)
  PROVE  SwitchOK(z, e)
<1>. DEFINE k == Len(s)
<1>1. /\ k \in Nat /\ z \in Seq(Observations) /\ Len(z) = k + 1 /\ z[k + 1] = o
      /\ 1..(k + 1) = 1..k \cup {k + 1}
  BY GrownIs
<1>2. DetectorOK(exp, z, "ret", 1)
  <2>1. DetectorOK(d.exp, s, "ret", 1) /\ "ret" \in Fields /\ 1 \in Signs /\ (TRUE <=> 1 = 1)
    BY DEF SwitchOK, Fields, Signs
  <2>2. o["ret"] = o.ret
    OBVIOUS
  <2>3. CASE o["ret"] = -1
    <3>1. DetectorOK(d.exp, z, "ret", 1)
      BY <2>1, <2>3, DetectorWaits
    <3>. QED  BY <2>3, <3>1
  <2>4. CASE o["ret"] # -1
    <3>1. DetectorOK(Update(d.exp, o["ret"], TRUE), z, "ret", 1)
      BY <2>1, <2>4, DetectorGrows
    <3>. QED  BY <2>4, <3>1
  <2>. QED  BY <2>3, <2>4
<1>3. DetectorOK(slp, z, "slip", -1)
  <2>1. DetectorOK(d.slp, s, "slip", -1) /\ "slip" \in Fields /\ -1 \in Signs
        /\ (FALSE <=> -1 = 1)
    <3>1. DetectorOK(d.slp, s, "slip", -1)
      BY DEF SwitchOK
    <3>2. "slip" \in Fields /\ -1 \in Signs
      BY DEF Fields, Signs
    <3>3. ~(-1 = 1)
      OBVIOUS
    <3>. QED  BY <3>1, <3>2, <3>3
  <2>2. CASE o["slip"] = -1
    <3>1. DetectorOK(d.slp, z, "slip", -1)
      BY <2>1, <2>2, DetectorWaits
    <3>. QED  BY <2>2, <3>1
  <2>3. CASE o["slip"] # -1
    <3>1. DetectorOK(Update(d.slp, o["slip"], FALSE), z, "slip", -1)
      BY <2>1, <2>3, DetectorGrows
    <3>. QED  BY <2>3, <3>1
  <2>. QED  BY <2>2, <2>3
<1>4. (exp.alarm <=> AlarmIn(z, "ret", 1, k + 1)) /\ (slp.alarm <=> AlarmIn(z, "slip", -1, k + 1))
      /\ exp.alarm \in BOOLEAN /\ slp.alarm \in BOOLEAN
  BY <1>1, <1>2, <1>3 DEF DetectorOK, BestOK
<1>5. CauseIn(z, k + 1) = e.killed
  <2>1. CASE exp.alarm /\ slp.alarm
    BY <1>1, <1>4, <2>1 DEF CauseIn, Verdict
  <2>2. CASE exp.alarm /\ ~slp.alarm
    BY <1>1, <1>4, <2>2 DEF CauseIn, Verdict
  <2>3. CASE ~exp.alarm /\ slp.alarm
    BY <1>1, <1>4, <2>3 DEF CauseIn, Verdict
  <2>4. CASE ~exp.alarm /\ ~slp.alarm
    BY <1>1, <1>4, <2>4 DEF CauseIn, Verdict
  <2>. QED  BY <1>4, <2>1, <2>2, <2>3, <2>4
<1>6. \A j \in 1..k : CauseIn(z, j) = "no"
  BY CausesStay DEF SwitchOK
<1>7. e.killed \in Causes
  BY DEF Causes, Verdict
<1>8. CASE e.killed = "no"
  <2>1. \A j \in 1..Len(z) : CauseIn(z, j) = "no"
    BY <1>1, <1>5, <1>6, <1>8
  <2>. QED  BY <1>1, <1>2, <1>3, <1>7, <1>8, <2>1 DEF SwitchOK
<1>9. CASE e.killed # "no"
  <2>1. k + 1 \in 1..Len(z) /\ (k + 1) - 1 = k
    <3>1. \A n \in Nat : n + 1 \in 1..(n + 1) /\ (n + 1) - 1 = n
      OBVIOUS
    <3>. QED  BY <1>1, <3>1
  <2>2. FirstCause(z, e.killed)
    BY <1>5, <1>6, <2>1 DEF FirstCause
  <2>. QED  BY <1>1, <1>7, <1>9, <2>2 DEF SwitchOK
<1>. QED  BY <1>8, <1>9

LEMMA InitVerdicts == VerdictInit => VerdictInv
<1>. SUFFICES ASSUME VerdictInit PROVE VerdictInv
  OBVIOUS
<1>1. drift = [exp |-> Calm, slp |-> Calm, killed |-> "no"] /\ seen = <<>> /\ wants = <<>>
  BY DEF VerdictInit
<1>2. Len(seen) = 0 /\ seen \in Seq(Observations) /\ wants \in Seq(Candidates) /\ 1..0 = {} /\ 0..0 = {0}
  BY <1>1
<1>3. Calm \in Detectors /\ Calm.n = 0 /\ Calm.sum = 0 /\ Calm.m = 0 /\ Calm.extreme = 0
      /\ Calm.alarm = FALSE
  BY DEF Calm, Detectors
<1>4. ASSUME NEW f \in Fields, NEW sign \in Signs PROVE DetectorOK(Calm, seen, f, sign)
  <2>1. ShownIn(seen, f, 0) = {}
    BY <1>2 DEF ShownIn
  <2>2. Cardinality(ShownIn(seen, f, 0)) = 0
    BY <2>1, FS_EmptySet
  <2>3. SumIn(seen, f, 0) = 0 /\ DriftIn(seen, f, sign, 0) = 0
    BY <2>1, SumEmpty DEF SumIn, DriftIn
  <2>4. sign * 0 = 0
    BY DEF Signs
  <2>5. ~AlarmIn(seen, f, sign, 0)
    BY <1>2 DEF AlarmIn
  <2>6. BestOK(0, 0, FALSE, seen, f, sign)
    BY <1>2, <2>3, <2>5 DEF BestOK
  <2>. QED  BY <1>2, <1>3, <2>2, <2>3, <2>4, <2>6 DEF DetectorOK
<1>5. drift.exp = Calm /\ drift.slp = Calm /\ drift.killed = "no"
  BY <1>1
<1>6. SwitchOK(seen, drift)
  <2>1. DetectorOK(Calm, seen, "ret", 1) /\ DetectorOK(Calm, seen, "slip", -1)
    BY <1>4 DEF Fields, Signs
  <2>. QED  BY <1>2, <1>5, <2>1 DEF SwitchOK, Causes
<1>. QED  BY <1>2, <1>6 DEF VerdictInv

LEMMA ObserveVerdicts == VerdictInv /\ Observe => VerdictInv'
<1>. SUFFICES ASSUME VerdictInv, Observe PROVE VerdictInv'
  OBVIOUS
<1>1. PICK ret \in Xs \cup {-1}, slip \in Xs \cup {-1}, dd \in {-1, Band, Band + 1} :
        LET exp == IF ret = -1 THEN drift.exp ELSE Update(drift.exp, ret, TRUE)
            slp == IF slip = -1 THEN drift.slp ELSE Update(drift.slp, slip, FALSE)
        IN  /\ seen' = Append(seen, [ret |-> ret, slip |-> slip, dd |-> dd])
            /\ drift' = IF drift.killed # "no" THEN drift
                        ELSE [exp |-> exp, slp |-> slp,
                              killed |-> IF dd > Band THEN "stress band"
                                         ELSE IF exp.alarm THEN "edge drift"
                                         ELSE IF slp.alarm THEN "execution" ELSE "no"]
  BY DEF Observe
<1>. DEFINE o == [ret |-> ret, slip |-> slip, dd |-> dd]
            exp == IF o.ret = -1 THEN drift.exp ELSE Update(drift.exp, o.ret, TRUE)
            slp == IF o.slip = -1 THEN drift.slp ELSE Update(drift.slp, o.slip, FALSE)
<1>2. o \in Observations
  <2>1. ret \in Int /\ slip \in Int /\ dd \in Int
    BY VerdictAssumption
  <2>. QED  BY <2>1 DEF Observations
<1>3. SwitchOK(seen, drift) /\ Grown(seen, o, seen')
  BY <1>1, <1>2 DEF VerdictInv, SwitchOK, Grown
<1>4. wants' = wants
  BY DEF Observe
<1>5. CASE drift.killed # "no"
  <2>1. drift' = drift
    BY <1>1, <1>5
  <2>2. SwitchOK(seen', drift)
    BY <1>3, <1>5, SwitchIsKilledOnce
  <2>. QED  BY <1>4, <2>1, <2>2 DEF VerdictInv
<1>6. CASE drift.killed = "no"
  <2>1. drift' = [exp |-> exp, slp |-> slp,
                  killed |-> IF o.dd > Band THEN "stress band"
                             ELSE IF exp.alarm THEN "edge drift"
                             ELSE IF slp.alarm THEN "execution" ELSE "no"]
    BY <1>1, <1>6
  <2>. DEFINE e == drift'
  <2>. HIDE DEF o, exp, slp
  <2>2. e.exp = exp /\ e.slp = slp /\ e.killed = Verdict(o, exp, slp)
    BY <2>1 DEF Verdict
  <2>3. /\ exp = (IF o.ret = -1 THEN drift.exp ELSE Update(drift.exp, o.ret, TRUE))
        /\ slp = (IF o.slip = -1 THEN drift.slp ELSE Update(drift.slp, o.slip, FALSE))
    BY DEF exp, slp
  <2>. HIDE DEF e
  <2>4. SwitchOK(seen', e)
    BY <1>3, <1>6, <2>2, <2>3, SwitchObserves
  <2>. QED  BY <1>4, <2>4 DEF VerdictInv, e
<1>. QED  BY <1>5, <1>6

LEMMA OfferVerdicts == VerdictInv /\ Offer => VerdictInv'
<1>. SUFFICES ASSUME VerdictInv, Offer PROVE VerdictInv'
  OBVIOUS
<1>1. PICK c \in Clusters, n \in Scores, o \in OwnCaps :
        wants' = Append(wants, [cluster |-> c, score |-> n, own |-> o])
  BY DEF Offer
<1>2. [cluster |-> c, score |-> n, own |-> o] \in Candidates
  BY VerdictAssumption DEF Candidates
<1>3. wants' \in Seq(Candidates)
  BY <1>1, <1>2 DEF VerdictInv
<1>4. seen' = seen /\ drift' = drift
  BY DEF Offer
<1>. QED  BY <1>3, <1>4 DEF VerdictInv

LEMMA NextVerdicts == VerdictInv /\ [VerdictNext]_verdictvars => VerdictInv'
<1>. SUFFICES ASSUME VerdictInv, [VerdictNext]_verdictvars PROVE VerdictInv'
  OBVIOUS
<1>1. CASE UNCHANGED verdictvars
  BY <1>1 DEF verdictvars, VerdictInv
<1>2. CASE Worsen
  <2>1. seen' = seen /\ drift' = drift /\ wants' = wants
    BY <1>2 DEF Worsen
  <2>. QED  BY <2>1 DEF VerdictInv
<1>3. CASE VerdictNext
  BY <1>2, <1>3, ObserveVerdicts, OfferVerdicts DEF VerdictNext
<1>. QED  BY <1>1, <1>3

LEMMA SafeSwitch == VerdictInv => KilledAsShown
<1>. SUFFICES ASSUME VerdictInv PROVE KilledAsShown
  OBVIOUS
<1>1. \A k : CauseAt(k) = CauseIn(seen, k)
  BY DEF CauseAt, CauseIn, Alarming, AlarmIn, Drifted, DriftIn, StepIn, MeanOf, MeanIn, SumIn,
         Shown, ShownIn
<1>2. DOMAIN seen = 1..Len(seen)
  BY DEF VerdictInv, SwitchOK
<1>3. CASE drift.killed = "no"
  BY <1>1, <1>2, <1>3 DEF VerdictInv, SwitchOK, KilledAsShown
<1>4. CASE drift.killed # "no"
  BY <1>1, <1>2, <1>4 DEF VerdictInv, SwitchOK, KilledAsShown, FirstCause
<1>. QED  BY <1>3, <1>4

LEMMA SafeBudgets == VerdictInv => BudgetsHold
<1>. SUFFICES ASSUME VerdictInv PROVE BudgetsHold
  OBVIOUS
<1>. DEFINE ws == [i \in Positive(wants) |-> Allocate(wants, i)]
            In(c) == {i \in Positive(wants) : wants[i].cluster = c}
            Budget(c) == [num |-> SumFunctionOnSet([i \in Positive(wants) |-> ws[i].num], In(c)),
                          den |-> IF In(c) = {} THEN 1 ELSE ws[CHOOSE i \in In(c) : TRUE].den]
            total == SumFunctionOnSet([i \in DOMAIN wants |-> wants[i].score], Positive(wants))
<1>1. wants \in Seq(Candidates)
  BY DEF VerdictInv
<1>2. \A i \in Positive(wants) : ws[i] = Allocate(wants, i)
  OBVIOUS
<1>3. total = TotalScore(wants)
  BY DEF TotalScore, ScoreIn
<1>4. DOMAIN ws = Positive(wants)
  OBVIOUS
<1>. HIDE DEF ws, total
<1>5. ASSUME NEW c PROVE Budget(c) = BudgetOf(wants, c)
  <2>1. In(c) = Members(wants, c)
    BY DEF Members
  <2>. HIDE DEF In
  <2>. QED  BY <1>1, <1>2, <2>1, BudgetIs
<1>. HIDE DEF Budget
<1>6. ASSUME NEW i \in DOMAIN ws
      PROVE  /\ ws[i].num > 0 /\ ws[i].num <= CapOf(wants[i]) * ws[i].den
             /\ ws[i].num * total <= 100 * wants[i].score * ws[i].den
  <2>1. i \in Positive(wants) /\ ws[i] = Allocate(wants, i)
    BY <1>2, <1>4
  <2>. QED  BY <1>1, <1>3, <2>1, WeightHolds
<1>7. \A c \in Clusters : Budget(c).num <= MaxCluster * Budget(c).den
  BY <1>1, <1>5, BudgetHolds
<1>8. ASSUME NEW c \in Clusters, NEW d \in Clusters, c # d
      PROVE  Budget(c).num * Budget(d).den + Budget(d).num * Budget(c).den
               <= 100 * Budget(c).den * Budget(d).den
  <2>1. Budget(c) = BudgetOf(wants, c) /\ Budget(d) = BudgetOf(wants, d)
    BY <1>5
  <2>2. BudgetOf(wants, c).num * BudgetOf(wants, d).den
          + BudgetOf(wants, d).num * BudgetOf(wants, c).den
          <= 100 * BudgetOf(wants, c).den * BudgetOf(wants, d).den
    BY <1>1, <1>8, TwoBudgetsHold
  <2>. QED  BY <2>1, <2>2
<1>9. ASSUME NEW i \in DOMAIN ws, NEW j \in DOMAIN ws,
             wants[i].cluster = wants[j].cluster, wants[i].own = wants[j].own,
             wants[i].score <= wants[j].score
      PROVE  ws[i].num <= ws[j].num
  <2>1. i \in Positive(wants) /\ j \in Positive(wants)
        /\ ws[i] = Allocate(wants, i) /\ ws[j] = Allocate(wants, j)
    BY <1>2, <1>4
  <2>2. Allocate(wants, i).num <= Allocate(wants, j).num
    BY <1>1, <1>9, <2>1, BetterHasNoLess
  <2>. QED  BY <2>1, <2>2
<1>. QED  BY <1>6, <1>7, <1>8, <1>9 DEF BudgetsHold, ws, total, Budget, In

(* For every stream, slack, threshold and band, the kill switch is killed at *)
(* the first observation its whole stream calls for, for that reason and for *)
(* good (drift.py 34-84); for every sequence of candidates, the allocator    *)
(* keeps its caps per position and per cluster and the capital, and prefers  *)
(* the better (carry_portfolio_allocator.py 46-69).                          *)
THEOREM LimitsAreKept == GatesSpec => []LimitsHold
<1>1. GatesInit => VerdictInv
  BY InitVerdicts DEF GatesInit
<1>2. VerdictInv /\ [GatesNext]_<<part, gatevars>> => VerdictInv'
  <2>. SUFFICES ASSUME VerdictInv, [GatesNext]_<<part, gatevars>> PROVE VerdictInv'
    OBVIOUS
  <2>1. [VerdictNext]_verdictvars
    BY DEF GatesNext, gatevars
  <2>. QED  BY <2>1, NextVerdicts
<1>3. VerdictInv => LimitsHold
  BY SafeSwitch, SafeBudgets DEF LimitsHold
<1>. QED  BY <1>1, <1>2, <1>3, PTL DEF GatesSpec
------------------------------------------------------------------------------
(* The judges: a worse measurement never earns a better verdict.             *)
(* Each lemma is about every measurement, on the scales or off them: r is    *)
(* what was measured after p and no better in any respect.                   *)
Falls(p, r, F)  == \A f \in F : p[f] \in Int /\ r[f] \in Int /\ r[f] <= p[f]
Rises(p, r, F)  == \A f \in F : p[f] \in Int /\ r[f] \in Int /\ p[f] <= r[f]
Fades(p, r, F)  == \A f \in F : p[f] \in BOOLEAN /\ r[f] \in BOOLEAN /\ (r[f] => p[f])
Lights(p, r, F) == \A f \in F : p[f] \in BOOLEAN /\ r[f] \in BOOLEAN /\ (p[f] => r[f])

WorseStage(p, r) ==
  /\ Falls(p, r, {"current", "retention", "sample"}) /\ Rises(p, r, {"slippage", "dd"})
  /\ Lights(p, r, {"failed"}) /\ p.current \in -1..4 /\ r.current \in -1..4

LEMMA StageFalls == ASSUME NEW p, NEW r, WorseStage(p, r)
                    PROVE  EvaluateStage(r) <= EvaluateStage(p)
<1>1. /\ p.retention \in Int /\ r.retention \in Int /\ r.retention <= p.retention
      /\ p.sample \in Int /\ r.sample \in Int /\ r.sample <= p.sample
      /\ p.slippage \in Int /\ r.slippage \in Int /\ p.slippage <= r.slippage
      /\ p.dd \in Int /\ r.dd \in Int /\ p.dd <= r.dd
      /\ p.current \in -1..4 /\ r.current \in -1..4 /\ r.current <= p.current
  BY DEF WorseStage, Falls, Rises
<1>2. p.failed => r.failed
  BY DEF WorseStage, Lights
<1>3. Kills(p) => Kills(r)
  BY <1>1, <1>2 DEF Kills
<1>4. Demotes(p) => Demotes(r)
  BY <1>1 DEF Demotes
<1>5. Promotes(r) => Promotes(p)
  BY <1>1 DEF Promotes
<1>. QED  BY <1>1, <1>3, <1>4, <1>5 DEF EvaluateStage, Larger, Smaller

(* The live gap, with the same backtest.                                     *)
WorseGap(p, r) ==
  /\ Falls(p, r, {"trades", "live", "modeled"}) /\ Rises(p, r, {"realized"})
  /\ p.backtest \in Int /\ r.backtest = p.backtest

LEMMA GapFades == ASSUME NEW p, NEW r, WorseGap(p, r), BacktestLiveGap(r)
                  PROVE  BacktestLiveGap(p)
<1>1. /\ p.trades \in Int /\ r.trades \in Int /\ r.trades <= p.trades
      /\ p.live \in Int /\ r.live \in Int /\ r.live <= p.live
      /\ p.modeled \in Int /\ r.modeled \in Int /\ r.modeled <= p.modeled
      /\ p.realized \in Int /\ r.realized \in Int /\ p.realized <= r.realized
      /\ p.backtest \in Int /\ r.backtest = p.backtest
  BY DEF WorseGap, Falls, Rises
<1>. QED  BY <1>1 DEF BacktestLiveGap

(* The promotion gate.                                                       *)
WorseEvidence(p, r) ==
  /\ Falls(p, r, {"dsr", "apr", "events", "days", "duty", "modeled", "live", "std"})
  /\ Rises(p, r, {"realized", "shadow"})

LEMMA PromotionFades == ASSUME NEW p, NEW r, WorseEvidence(p, r), EvaluatePromotion(r)
                        PROVE  EvaluatePromotion(p)
<1>1. /\ p.modeled \in Int /\ r.modeled \in Int /\ r.modeled <= p.modeled
      /\ p.live \in Int /\ r.live \in Int /\ r.live <= p.live
      /\ p.std \in Int /\ r.std \in Int /\ r.std <= p.std
      /\ p.realized \in Int /\ r.realized \in Int /\ p.realized <= r.realized
      /\ p.shadow \in Int /\ r.shadow \in Int /\ p.shadow <= r.shadow
  BY DEF WorseEvidence, Falls, Rises
<1>2. \A f \in {"dsr", "apr", "events", "days", "duty"} : p[f] >= PromotionCriteria[f]
  <2>1. \A f \in {"dsr", "apr", "events", "days", "duty"} :
           PromotionCriteria[f] \in Int /\ r[f] >= PromotionCriteria[f]
    BY DEF EvaluatePromotion, PromotionCriteria
  <2>2. \A f \in {"dsr", "apr", "events", "days", "duty"} :
           p[f] \in Int /\ r[f] \in Int /\ r[f] <= p[f]
    BY DEF WorseEvidence, Falls
  <2>. QED  BY <2>1, <2>2
<1>3. 100 * p.realized <= PromotionCriteria.slippage * p.modeled
  BY <1>1 DEF EvaluatePromotion, PromotionCriteria
<1>4. p.live >= p.shadow - PromotionCriteria.sigmas * p.std
  BY <1>1 DEF EvaluatePromotion, PromotionCriteria
<1>. QED  BY <1>2, <1>3, <1>4 DEF EvaluatePromotion

(* The loss limits.                                                          *)
WorseLosses(p, r) ==
  Falls(p, r, {"day", "week", "month", "sinceKill"}) /\ Rises(p, r, {"errors", "gap"})

LEMMA BreakersFade == ASSUME NEW p, NEW r, WorseLosses(p, r), CheckBreakers(r)
                      PROVE  CheckBreakers(p)
<1>1. /\ p.sinceKill \in Int /\ r.sinceKill \in Int /\ r.sinceKill <= p.sinceKill
      /\ p.errors \in Int /\ r.errors \in Int /\ p.errors <= r.errors
      /\ p.gap \in Int /\ r.gap \in Int /\ p.gap <= r.gap
  BY DEF WorseLosses, Falls, Rises
<1>2. \A f \in {"day", "week", "month"} : p[f] > -LossLimits[f]
  <2>1. \A f \in {"day", "week", "month"} : LossLimits[f] \in Int /\ r[f] > -LossLimits[f]
    BY DEF CheckBreakers, LossLimits
  <2>2. \A f \in {"day", "week", "month"} : p[f] \in Int /\ r[f] \in Int /\ r[f] <= p[f]
    BY DEF WorseLosses, Falls
  <2>. QED  BY <2>1, <2>2
<1>. QED  BY <1>1, <1>2 DEF CheckBreakers, LossLimits

(* The ladder of tiers, from one of its tiers to it or a later one.          *)
WorseRecord(p, r) ==
  /\ Falls(p, r, {"days", "events"}) /\ Rises(p, r, {"tier"})
  /\ p.tier \in 1..Len(Tiers) /\ r.tier \in 1..Len(Tiers)

LEMMA MaturityFades == ASSUME NEW p, NEW r, WorseRecord(p, r), CanAdvance(r)
                       PROVE  CanAdvance(p)
<1>1. /\ p.days \in Int /\ r.days \in Int /\ r.days <= p.days
      /\ p.events \in Int /\ r.events \in Int /\ r.events <= p.events
      /\ p.tier \in Int /\ r.tier \in Int /\ p.tier <= r.tier
  BY DEF WorseRecord, Falls, Rises
<1>2. Len(Tiers) = 5
  BY DEF Tiers
<1>3. \A i, j \in 2..5 : i <= j => /\ Tiers[i].days \in Int /\ Tiers[j].days \in Int
                                   /\ Tiers[i].days <= Tiers[j].days
                                   /\ Tiers[i].events \in Int /\ Tiers[j].events \in Int
                                   /\ Tiers[i].events <= Tiers[j].events
  BY DEF Tiers
<1>4. p.tier + 1 \in 2..5 /\ r.tier + 1 \in 2..5 /\ p.tier + 1 <= r.tier + 1 /\ p.tier < Len(Tiers)
  BY <1>1, <1>2 DEF CanAdvance, WorseRecord
<1>5. /\ Tiers[p.tier + 1].days \in Int /\ Tiers[r.tier + 1].days \in Int
      /\ Tiers[p.tier + 1].days <= Tiers[r.tier + 1].days
      /\ Tiers[p.tier + 1].events \in Int /\ Tiers[r.tier + 1].events \in Int
      /\ Tiers[p.tier + 1].events <= Tiers[r.tier + 1].events
  BY <1>3, <1>4
<1>6. r.days >= Tiers[r.tier + 1].days /\ r.events >= Tiers[r.tier + 1].events
  BY DEF CanAdvance
<1>7. p.days >= Tiers[p.tier + 1].days /\ p.events >= Tiers[p.tier + 1].events
  BY <1>1, <1>5, <1>6
<1>. QED  BY <1>4, <1>7 DEF CanAdvance

(* The economics of a cross-venue trade: a shorter holding time spreads the  *)
(* costs over less.                                                          *)
WorseTrade(p, r) ==
  /\ Falls(p, r, {"spread", "duty", "hold"}) /\ Rises(p, r, {"locked"})
  /\ p.hold > 0 /\ r.hold > 0 /\ p.duty >= 0 /\ r.duty >= 0 /\ p.locked >= 0

LEMMA CostsRise ==
  ASSUME NEW a \in Nat, NEW b \in Nat, b > 0, b <= a
  PROVE  12 \div a \in Int /\ 12 \div b \in Int /\ 12 \div a <= 12 \div b
<1>. DEFINE x == 12 \div a
            y == 12 \div b
<1>1. x \in Nat /\ y \in Nat /\ a * x <= 12 /\ 12 < b * (y + 1)
  <2>1. \A n \in Nat \ {0} : /\ 12 \div n \in Nat /\ n * (12 \div n) <= 12
                             /\ 12 < n * ((12 \div n) + 1)
    BY Z3
  <2>. QED  BY <2>1
<1>. HIDE DEF x, y
<1>2. x <= y
  <2>1. \A m, n, u, v \in Nat : n <= m /\ v + 1 <= u => n * (v + 1) <= m * u
    BY Z3
  <2>. QED  BY <1>1, <2>1
<1>. QED  BY <1>1, <1>2 DEF x, y

LEMMA EconomicsFall == ASSUME NEW p, NEW r, WorseTrade(p, r)
                       PROVE  EconomicGate(r) <= EconomicGate(p)
<1>1. /\ p.spread \in Int /\ r.spread \in Int /\ r.spread <= p.spread
      /\ p.duty \in Nat /\ r.duty \in Nat /\ r.duty <= p.duty
      /\ p.hold \in Nat /\ r.hold \in Nat /\ r.hold <= p.hold /\ r.hold > 0
      /\ p.locked \in Nat /\ r.locked \in Nat /\ p.locked <= r.locked
  BY DEF WorseTrade, Falls, Rises
<1>2. Amortised(p) \in Int /\ Amortised(r) \in Int /\ Amortised(p) <= Amortised(r)
  BY <1>1, CostsRise DEF Amortised
<1>3. p.locked * p.locked \in Int /\ r.locked * r.locked \in Int
      /\ p.locked * p.locked <= r.locked * r.locked
  <2>1. \A m, n \in Nat : m <= n => m * m \in Int /\ n * n \in Int /\ m * m <= n * n
    BY Z3
  <2>. QED  BY <1>1, <2>1
<1>. DEFINE x == p.locked * p.locked
            y == r.locked * r.locked
<1>. HIDE DEF x, y
<1>4. /\ NetFunding(p) \in Int /\ NetFunding(r) \in Int /\ NetFunding(r) <= NetFunding(p)
      /\ p.spread - NetFunding(p) = Amortised(p) + 4 /\ r.spread - NetFunding(r) = Amortised(r) + 4
  BY <1>1, <1>2 DEF NetFunding
<1>5. NetOnCapital(p) \in Int /\ NetOnCapital(r) \in Int /\ NetOnCapital(r) <= NetOnCapital(p)
  <2>1. NetOnCapital(p) = 4 * NetFunding(p) - 5 * x /\ NetOnCapital(r) = 4 * NetFunding(r) - 5 * y
    <3>1. \A m \in Nat : 5 * m * m = 5 * (m * m)
      BY Z3
    <3>. QED  BY <1>1, <3>1 DEF NetOnCapital, x, y
  <2>. QED  BY <1>3, <1>4, <2>1 DEF x, y
<1>6. p.duty * NetOnCapital(p) <= 0 => r.duty * NetOnCapital(r) <= 0
  <2>1. \A m, n \in Nat, u, v \in Int : n <= m /\ v <= u /\ m * u <= 0 => n * v <= 0
    BY Z3
  <2>. QED  BY <1>1, <1>5, <2>1
<1>. QED  BY <1>1, <1>2, <1>4, <1>6 DEF EconomicGate

(* The carry screener and the legger, with a long leg of the same size.      *)
WorseCarry(p, r) == Falls(p, r, {"gross", "dsr", "days"}) /\ Rises(p, r, {"cost"})

LEMMA ScreenFalls == ASSUME NEW p, NEW r, WorseCarry(p, r) PROVE ScreenCoin(r) <= ScreenCoin(p)
<1>1. /\ p.gross \in Int /\ r.gross \in Int /\ r.gross <= p.gross
      /\ p.dsr \in Int /\ r.dsr \in Int /\ r.dsr <= p.dsr
      /\ p.days \in Int /\ r.days \in Int /\ r.days <= p.days
      /\ p.cost \in Int /\ r.cost \in Int /\ p.cost <= r.cost
  BY DEF WorseCarry, Falls, Rises
<1>. QED  BY <1>1 DEF ScreenCoin

WorseLegs(p, r) == Falls(p, r, {"short"}) /\ p.long \in Int /\ r.long = p.long

LEMMA LegsFall == ASSUME NEW p, NEW r, WorseLegs(p, r) PROVE CrossLegs(r) <= CrossLegs(p)
  BY DEF WorseLegs, Falls, CrossLegs

(* Preflight: what holds of a paper run is asked of a live one too.          *)
WorseFacts(p, r) ==
  /\ Fades(p, r, {"config", "journal", "credentials", "spendCap", "clockSane", "reachable"})
  /\ Lights(p, r, {"killSwitch"})
  /\ Falls(p, r, {"allowed", "cap"}) /\ Rises(p, r, {"age", "skew"})
  /\ r.mode \in {"paper", "live"} => p.mode \in {"paper", r.mode}

LEMMA PreflightFades == ASSUME NEW p, NEW r, WorseFacts(p, r), RunPreflight(r)
                        PROVE  RunPreflight(p)
<1>1. /\ p.allowed \in Int /\ r.allowed \in Int /\ r.allowed <= p.allowed
      /\ p.cap \in Int /\ r.cap \in Int /\ r.cap <= p.cap
      /\ p.age \in Int /\ r.age \in Int /\ p.age <= r.age
      /\ p.skew \in Int /\ r.skew \in Int /\ p.skew <= r.skew
  BY DEF WorseFacts, Falls, Rises
<1>2. /\ r.config => p.config
      /\ r.journal => p.journal
      /\ r.credentials => p.credentials
      /\ r.spendCap => p.spendCap
      /\ r.clockSane => p.clockSane
      /\ r.reachable => p.reachable
      /\ p.killSwitch => r.killSwitch
  BY DEF WorseFacts, Fades, Lights
<1>3. p.mode \in {"paper", "live"} /\ (p.mode = "live" => r.mode = "live")
  BY DEF WorseFacts, RunPreflight
<1>. QED  BY <1>1, <1>2, <1>3 DEF RunPreflight

(* The arm check.                                                            *)
WorseArm(p, r) ==
  /\ Fades(p, r, {"api", "known", "agent"}) /\ Lights(p, r, {"latched"})
  /\ Falls(p, r, {"collateral"}) /\ Rises(p, r, {"age"})

LEMMA ArmFades == ASSUME NEW p, NEW r, WorseArm(p, r), CheckAll(r) PROVE CheckAll(p)
<1>1. /\ p.collateral \in Int /\ r.collateral \in Int /\ r.collateral <= p.collateral
      /\ p.age \in Int /\ r.age \in Int /\ p.age <= r.age
  BY DEF WorseArm, Falls, Rises
<1>2. /\ r.api => p.api
      /\ r.known => p.known
      /\ r.agent => p.agent
      /\ p.latched => r.latched
  BY DEF WorseArm, Fades, Lights
<1>. QED  BY <1>1, <1>2 DEF CheckAll, CheckAuth, CheckCollateral, CheckRelay, CheckMicro

(* The volatility target, in whole parts.                                    *)
WorseSizing(p, r) ==
  /\ Falls(p, r, {"base", "target", "max"}) /\ Rises(p, r, {"vol"})
  /\ r.base >= 0 /\ r.target >= 0

LEMMA SizesFall == ASSUME NEW p, NEW r, WorseSizing(p, r)
                   PROVE  VolTargetSize(r) <= VolTargetSize(p)
<1>1. /\ p.base \in Nat /\ r.base \in Nat /\ r.base <= p.base
      /\ p.target \in Nat /\ r.target \in Nat /\ r.target <= p.target
      /\ p.max \in Int /\ r.max \in Int /\ r.max <= p.max
      /\ p.vol \in Int /\ r.vol \in Int /\ p.vol <= r.vol
  BY DEF WorseSizing, Falls, Rises
<1>. DEFINE a == 6 * p.base * p.target
            b == 6 * r.base * r.target
            u == Larger(p.vol, 1)
            v == Larger(r.vol, 1)
            x == a \div u
            y == b \div v
<1>2. a \in Nat /\ b \in Nat /\ b <= a
  <2>1. \A k, m, i, j \in Nat : i <= k /\ j <= m => 6 * k * m \in Nat /\ 6 * i * j <= 6 * k * m
    BY Z3
  <2>. QED  BY <1>1, <2>1
<1>3. u \in Nat \ {0} /\ v \in Nat \ {0} /\ u <= v
  BY <1>1 DEF Larger
<1>. HIDE DEF a, b, u, v
<1>4. x \in Nat /\ y \in Nat /\ a < u * (x + 1) /\ v * y <= b
  <2>1. \A m \in Nat, n \in Nat \ {0} : /\ m \div n \in Nat /\ n * (m \div n) <= m
                                        /\ m < n * ((m \div n) + 1)
    BY Z3
  <2>. QED  BY <1>2, <1>3, <2>1
<1>. HIDE DEF x, y
<1>5. y <= x
  <2>1. \A i, j, m, n \in Nat : i <= j /\ m <= n => i * m <= j * n /\ i * m \in Nat /\ j * n \in Nat
    BY Z3
  <2>2. CASE x + 1 <= y
    <3>1. u * (x + 1) <= v * y /\ u * (x + 1) \in Nat /\ v * y \in Nat
      BY <1>3, <1>4, <2>1, <2>2
    <3>. QED  BY <1>2, <1>4, <3>1
  <2>. QED  BY <1>4, <2>2
<1>6. VolTargetSize(p) = Larger(0, Smaller(x, 6 * p.max))
      /\ VolTargetSize(r) = Larger(0, Smaller(y, 6 * r.max))
  BY DEF VolTargetSize, x, y, a, b, u, v
<1>. QED  BY <1>1, <1>4, <1>5, <1>6 DEF Larger, Smaller

(* The risk policy.  Under a quarter of Kelly the growth bound asks nothing  *)
(* more: the bound allows no return that loses what the others gain.         *)
PolicyAllows(p) == p.dsr >= 60 /\ 14 * p.leverage <= 3 * (35 - 3 * p.shift) /\ p.safe

LEMMA KellyImpliesGrowth ==
  ASSUME NEW s \in Nat, NEW l \in Nat \ {0}, 14 * l <= 3 * (35 - 3 * s)
  PROVE  /\ 100 + l * (20 - s) > 0 /\ 100 + l * (10 - s) > 0 /\ 100 + l * (5 - s) > 0
         /\ (100 + l * (20 - s)) * (100 + l * (10 - s)) * (100 + l * (5 - s)) > 1000000
<1>1. s \in 0..10
  OBVIOUS
<1>2. CASE s <= 5
  <2>. DEFINE x == 100 + l * (20 - s)
              y == 100 + l * (10 - s)
              z == 100 + l * (5 - s)
  <2>1. x \in Nat /\ y \in Nat /\ z \in Nat /\ x > 100 /\ y >= 100 /\ z >= 100
    <3>1. \A m \in Nat \ {0}, n \in Nat : m * n \in Nat /\ (n > 0 => m * n > 0)
      BY Z3
    <3>2. 20 - s \in Nat /\ 20 - s > 0 /\ 10 - s \in Nat /\ 5 - s \in Nat
      BY <1>1, <1>2
    <3>. QED  BY <3>1, <3>2
  <2>. HIDE DEF x, y, z
  <2>2. x * y * z > 1000000
    <3>1. \A i, j, m, n \in Nat : i <= j /\ m <= n => i * m <= j * n /\ i * m \in Nat /\ j * n \in Nat
      BY Z3
    <3>2. 101 * 100 <= x * y /\ x * y \in Nat
      BY <2>1, <3>1
    <3>3. (101 * 100) * 100 <= (x * y) * z
      BY <2>1, <3>1, <3>2
    <3>4. (x * y) * z \in Nat
      BY <2>1, <3>1, <3>2
    <3>. QED  BY <3>3, <3>4
  <2>. QED  BY <2>1, <2>2 DEF x, y, z
<1>3. CASE s > 5
  <2>1. \/ s \in {6, 7} /\ l \in {1, 2, 3}
        \/ s = 8 /\ l \in {1, 2}
        \/ s \in {9, 10} /\ l = 1
    BY <1>1, <1>3
  <2>2. CASE s = 6
    <3>1. l \in {1, 2, 3}
      BY <2>1, <2>2
    <3>. QED  BY <2>2, <3>1
  <2>3. CASE s = 7
    <3>1. l \in {1, 2, 3}
      BY <2>1, <2>3
    <3>. QED  BY <2>3, <3>1
  <2>4. CASE s = 8 /\ l \in {1, 2}
    BY <2>4
  <2>5. CASE s \in {9, 10} /\ l = 1
    BY <2>5
  <2>. QED  BY <2>1, <2>2, <2>3, <2>4, <2>5
<1>. QED  BY <1>1, <1>2, <1>3

LEMMA PolicyIs ==
  ASSUME NEW p, p.shift \in Nat, p.leverage \in Nat \ {0}, p.dsr \in Int, p.safe \in BOOLEAN
  PROVE  Assess(p) <=> PolicyAllows(p)
<1>. DEFINE s == p.shift
            l == p.leverage
            rs == <<20 - s, 10 - s, 5 - s>>
            sum == rs[1] + rs[2] + rs[3]
            Square(x) == (3 * x - sum) * (3 * x - sum)
            squares == Square(rs[1]) + Square(rs[2]) + Square(rs[3])
            Factor(x) == 100 + l * x
            growth == Factor(rs[1]) * Factor(rs[2]) * Factor(rs[3])
<1>1. s \in Nat /\ l \in Nat \ {0}
  OBVIOUS
<1>2. Assess(p) <=> /\ p.dsr >= 60 /\ sum > 0 /\ \A i \in DOMAIN rs : Factor(rs[i]) > 0
                    /\ growth > 1000000 /\ squares > 0
                    /\ 4 * l * squares <= 900 * sum /\ l <= 10 /\ p.safe
  BY DEF Assess
<1>. HIDE DEF s, l
<1>3. rs[1] = 20 - s /\ rs[2] = 10 - s /\ rs[3] = 5 - s /\ DOMAIN rs = {1, 2, 3}
  OBVIOUS
<1>. HIDE DEF rs
<1>4. sum = 35 - 3 * s
  BY <1>1, <1>3
<1>5. 3 * rs[1] - sum = 25 /\ 3 * rs[2] - sum = -5 /\ 3 * rs[3] - sum = -20
  BY <1>1, <1>3, <1>4
<1>6. squares = 1050
  BY <1>5
<1>. HIDE DEF sum, squares
<1>7. Assess(p) => PolicyAllows(p)
  BY <1>1, <1>2, <1>4, <1>6 DEF PolicyAllows, s, l
<1>8. ASSUME PolicyAllows(p) PROVE Assess(p)
  <2>1. 14 * l <= 3 * (35 - 3 * s) /\ p.dsr >= 60 /\ p.safe
    BY <1>8 DEF PolicyAllows, s, l
  <2>2. \A i \in DOMAIN rs : Factor(rs[i]) > 0
    BY <1>1, <1>3, <2>1, KellyImpliesGrowth
  <2>3. growth > 1000000
    BY <1>1, <1>3, <2>1, KellyImpliesGrowth
  <2>4. sum > 0 /\ squares > 0 /\ 4 * l * squares <= 900 * sum /\ l <= 10
    BY <1>1, <1>4, <1>6, <2>1
  <2>. HIDE DEF growth
  <2>. QED  BY <1>2, <2>1, <2>2, <2>3, <2>4
<1>. QED  BY <1>7, <1>8

WorsePolicy(p, r) ==
  /\ Rises(p, r, {"shift", "leverage"}) /\ Falls(p, r, {"dsr"}) /\ Fades(p, r, {"safe"})
  /\ p.shift >= 0 /\ p.leverage >= 1

LEMMA PolicyFades == ASSUME NEW p, NEW r, WorsePolicy(p, r), Assess(r) PROVE Assess(p)
<1>1. /\ p.shift \in Nat /\ r.shift \in Nat /\ p.shift <= r.shift
      /\ p.leverage \in Nat \ {0} /\ r.leverage \in Nat \ {0} /\ p.leverage <= r.leverage
      /\ p.dsr \in Int /\ r.dsr \in Int /\ r.dsr <= p.dsr
  BY DEF WorsePolicy, Falls, Rises
<1>2. p.safe \in BOOLEAN /\ r.safe \in BOOLEAN /\ (r.safe => p.safe)
  BY DEF WorsePolicy, Fades
<1>3. PolicyAllows(r)
  BY <1>1, <1>2, PolicyIs
<1>4. PolicyAllows(p)
  BY <1>1, <1>2, <1>3 DEF PolicyAllows
<1>. QED  BY <1>1, <1>2, <1>4, PolicyIs

(* What is asked next is, field by field, the answer given or the next on    *)
(* its scale.                                                                *)
NextOn(s, x, y) ==
  \E i \in DOMAIN s : x = s[i] /\ (y = s[i] \/ (i + 1 \in DOMAIN s /\ y = s[i + 1]))

NextOf(sc, p, r) == \A f \in DOMAIN sc : NextOn(sc[f], p[f], r[f])

LEMMA Fading == ASSUME NEW x, NEW y, NextOn(Wanted, x, y)
                PROVE  x \in BOOLEAN /\ y \in BOOLEAN /\ (y => x)
<1>. DEFINE s == Wanted
<1>1. PICK i \in DOMAIN s : x = s[i] /\ (y = s[i] \/ (i + 1 \in DOMAIN s /\ y = s[i + 1]))
  BY DEF NextOn
<1>2. DOMAIN s = {1, 2} /\ s[1] = TRUE /\ s[2] = FALSE
  BY DEF Wanted
<1>. HIDE DEF s
<1>3. CASE i = 1
  <2>1. i + 1 = 2
    BY <1>3
  <2>. QED  BY <1>1, <1>2, <1>3, <2>1, Zenon
<1>4. CASE i = 2
  <2>1. i + 1 \notin DOMAIN s
    BY <1>2, <1>4
  <2>. QED  BY <1>1, <1>2, <1>4, <2>1, Zenon
<1>. QED  BY <1>1, <1>2, <1>3, <1>4

LEMMA Lighting == ASSUME NEW x, NEW y, NextOn(Unwanted, x, y)
                  PROVE  x \in BOOLEAN /\ y \in BOOLEAN /\ (x => y)
<1>. DEFINE s == Unwanted
<1>1. PICK i \in DOMAIN s : x = s[i] /\ (y = s[i] \/ (i + 1 \in DOMAIN s /\ y = s[i + 1]))
  BY DEF NextOn
<1>2. DOMAIN s = {1, 2} /\ s[1] = FALSE /\ s[2] = TRUE
  BY DEF Unwanted
<1>. HIDE DEF s
<1>3. CASE i = 1
  <2>1. i + 1 = 2
    BY <1>3
  <2>. QED  BY <1>1, <1>2, <1>3, <2>1, Zenon
<1>4. CASE i = 2
  <2>1. i + 1 \notin DOMAIN s
    BY <1>2, <1>4
  <2>. QED  BY <1>1, <1>2, <1>4, <2>1, Zenon
<1>. QED  BY <1>1, <1>2, <1>3, <1>4

LEMMA StageScale == ASSUME NEW p, NEW r, NextOf(LivePerformance, p, r) PROVE WorseStage(p, r)
<1>1. Falls(p, r, {"current", "retention", "sample"})
  BY DEF NextOf, NextOn, LivePerformance, Falls
<1>2. Rises(p, r, {"slippage", "dd"})
  BY DEF NextOf, NextOn, LivePerformance, Rises
<1>3. NextOn(Unwanted, p.failed, r.failed)
  BY DEF NextOf, LivePerformance
<1>4. p.current \in -1..4 /\ r.current \in -1..4
  BY DEF NextOf, NextOn, LivePerformance
<1>. QED  BY <1>1, <1>2, <1>3, <1>4, Lighting DEF WorseStage, Lights

LEMMA GapScale == ASSUME NEW p, NEW r, NextOf(LiveGapInputs, p, r) PROVE WorseGap(p, r)
<1>1. Falls(p, r, {"trades", "live", "modeled"})
  BY DEF NextOf, NextOn, LiveGapInputs, Falls
<1>2. Rises(p, r, {"realized"})
  BY DEF NextOf, NextOn, LiveGapInputs, Rises
<1>3. p.backtest = 2 /\ r.backtest = 2
  BY DEF NextOf, NextOn, LiveGapInputs
<1>. QED  BY <1>1, <1>2, <1>3 DEF WorseGap

LEMMA EvidenceScale == ASSUME NEW p, NEW r, NextOf(StrategyEvidence, p, r) PROVE WorseEvidence(p, r)
<1>1. Falls(p, r, {"dsr", "apr", "events", "days"})
  BY DEF NextOf, NextOn, StrategyEvidence, Falls
<1>2. Falls(p, r, {"duty", "modeled", "live", "std"})
  BY DEF NextOf, NextOn, StrategyEvidence, Falls
<1>3. Rises(p, r, {"realized", "shadow"})
  BY DEF NextOf, NextOn, StrategyEvidence, Rises
<1>. QED  BY <1>1, <1>2, <1>3 DEF WorseEvidence, Falls

LEMMA BreakerScale == ASSUME NEW p, NEW r, NextOf(BreakerInputs, p, r) PROVE WorseLosses(p, r)
<1>1. Falls(p, r, {"day", "week", "month", "sinceKill"})
  BY DEF NextOf, NextOn, BreakerInputs, Falls
<1>2. Rises(p, r, {"errors", "gap"})
  BY DEF NextOf, NextOn, BreakerInputs, Rises
<1>. QED  BY <1>1, <1>2 DEF WorseLosses

LEMMA RecordScale == ASSUME NEW p, NEW r, NextOf(Record, p, r) PROVE WorseRecord(p, r)
<1>1. Falls(p, r, {"days", "events"})
  BY DEF NextOf, NextOn, Record, Falls
<1>2. Rises(p, r, {"tier"}) /\ p.tier \in 1..5 /\ r.tier \in 1..5
  BY DEF NextOf, NextOn, Record, Rises
<1>3. Len(Tiers) = 5
  BY DEF Tiers
<1>. QED  BY <1>1, <1>2, <1>3 DEF WorseRecord

LEMMA TradeScale == ASSUME NEW p, NEW r, NextOf(CrossVenueParams, p, r) PROVE WorseTrade(p, r)
<1>1. Falls(p, r, {"spread", "duty", "hold"})
  BY DEF NextOf, NextOn, CrossVenueParams, Falls
<1>2. Rises(p, r, {"locked"})
  BY DEF NextOf, NextOn, CrossVenueParams, Rises
<1>3. p.hold > 0 /\ r.hold > 0 /\ p.duty >= 0 /\ r.duty >= 0 /\ p.locked >= 0
  BY DEF NextOf, NextOn, CrossVenueParams
<1>. QED  BY <1>1, <1>2, <1>3 DEF WorseTrade

LEMMA CarryScale == ASSUME NEW p, NEW r, NextOf(CarryCandidate, p, r) PROVE WorseCarry(p, r)
<1>1. Falls(p, r, {"gross", "dsr", "days"})
  BY DEF NextOf, NextOn, CarryCandidate, Falls
<1>2. Rises(p, r, {"cost"})
  BY DEF NextOf, NextOn, CarryCandidate, Rises
<1>. QED  BY <1>1, <1>2 DEF WorseCarry

LEMMA FactScale == ASSUME NEW p, NEW r, NextOf(PreflightInputs, p, r) PROVE WorseFacts(p, r)
<1>1. Falls(p, r, {"allowed", "cap"})
  BY DEF NextOf, NextOn, PreflightInputs, Falls
<1>2. Rises(p, r, {"age", "skew"})
  BY DEF NextOf, NextOn, PreflightInputs, Rises
<1>3. r.mode \in {"paper", "live"} => p.mode \in {"paper", r.mode}
  BY DEF NextOf, NextOn, PreflightInputs
<1>4. NextOn(Unwanted, p.killSwitch, r.killSwitch)
  BY DEF NextOf, PreflightInputs
<1>5. \A f \in {"config", "journal", "credentials", "spendCap", "clockSane", "reachable"} :
         NextOn(Wanted, p[f], r[f])
  BY DEF NextOf, PreflightInputs
<1>6. Fades(p, r, {"config", "journal", "credentials", "spendCap", "clockSane", "reachable"})
  BY <1>5, Fading DEF Fades
<1>7. Lights(p, r, {"killSwitch"})
  BY <1>4, Lighting DEF Lights
<1>. QED  BY <1>1, <1>2, <1>3, <1>6, <1>7 DEF WorseFacts

LEMMA ArmScale == ASSUME NEW p, NEW r, NextOf(ArmFacts, p, r) PROVE WorseArm(p, r)
<1>1. Falls(p, r, {"collateral"})
  BY DEF NextOf, NextOn, ArmFacts, Falls
<1>2. Rises(p, r, {"age"})
  BY DEF NextOf, NextOn, ArmFacts, Rises
<1>3. NextOn(Unwanted, p.latched, r.latched)
  BY DEF NextOf, ArmFacts
<1>4. \A f \in {"api", "known", "agent"} : NextOn(Wanted, p[f], r[f])
  BY DEF NextOf, ArmFacts
<1>. QED  BY <1>1, <1>2, <1>3, <1>4, Fading, Lighting DEF WorseArm, Fades, Lights

LEMMA LegScale == ASSUME NEW p, NEW r, NextOf(LegFills, p, r) PROVE WorseLegs(p, r)
<1>1. Falls(p, r, {"short"}) /\ p.long = 100 /\ r.long = 100
  BY DEF NextOf, NextOn, LegFills, Falls
<1>. QED  BY <1>1 DEF WorseLegs

LEMMA SizeScale == ASSUME NEW p, NEW r, NextOf(Sizing, p, r) PROVE WorseSizing(p, r)
<1>1. Falls(p, r, {"base", "target", "max"})
  BY DEF NextOf, NextOn, Sizing, Falls
<1>2. Rises(p, r, {"vol"}) /\ r.base >= 0 /\ r.target >= 0
  BY DEF NextOf, NextOn, Sizing, Rises
<1>. QED  BY <1>1, <1>2 DEF WorseSizing

LEMMA PolicyScale == ASSUME NEW p, NEW r, NextOf(PolicyQuestion, p, r) PROVE WorsePolicy(p, r)
<1>1. Rises(p, r, {"shift", "leverage"}) /\ p.shift >= 0 /\ p.leverage >= 1
  BY DEF NextOf, NextOn, PolicyQuestion, Rises
<1>2. Falls(p, r, {"dsr"})
  BY DEF NextOf, NextOn, PolicyQuestion, Falls
<1>3. NextOn(Wanted, p.safe, r.safe)
  BY DEF NextOf, PolicyQuestion
<1>. QED  BY <1>1, <1>2, <1>3, Fading DEF WorsePolicy, Fades

(* The question put to a judge is an answer of each of its scales.           *)
IsQuestion(q) ==
  /\ q.judge \in DOMAIN Scales /\ q = [judge |-> q.judge, at |-> q.at]
  /\ q.at = [f \in DOMAIN q.at |-> q.at[f]] /\ DOMAIN q.at = DOMAIN Scales[q.judge]
  /\ \A f \in DOMAIN q.at : q.at[f] \in 1..Len(Scales[q.judge][f])

TheJudges == {"stage", "gap", "promotion", "breakers", "maturity", "economics", "screen",
           "preflight", "arm", "legs", "sizing", "policy"}

(* Every scale holds something.                                              *)
Full(s) == DOMAIN s = 1..Len(s) /\ Len(s) \in Nat \ {0}

LEMMA ScalesAre ==
  /\ DOMAIN Scales = TheJudges
  /\ \A j \in TheJudges : \A f \in DOMAIN Scales[j] : Full(Scales[j][f])
<1>1. DOMAIN Scales = TheJudges
  BY DEF Scales, TheJudges
<1>. DEFINE OK(sc) == \A f \in DOMAIN sc : Full(sc[f])
<1>2. OK(LivePerformance)
  <2>1. /\ Full(<<4, 3, 1, 0, -1>>) /\ Full(<<70, 69, 50, 49, 25, 24>>)
        /\ Full(<<150, 151, 200, 201>>) /\ Full(<<1, 2, 3, 4>>) /\ Full(<<30, 29>>)
        /\ Full(Unwanted)
    BY DEF Full, Wanted, Unwanted
  <2>. QED  BY <2>1 DEF LivePerformance
<1>3. OK(LiveGapInputs)
  <2>1. /\ Full(<<2>>) /\ Full(<<30, 29>>) /\ Full(<<2, 1, 0, -1>>)
        /\ Full(<<1, 2, 3>>) /\ Full(<<2, 1, 0>>)
    BY DEF Full
  <2>. QED  BY <2>1 DEF LiveGapInputs
<1>4. OK(StrategyEvidence)
  <2>1. /\ Full(<<60, 59>>) /\ Full(<<5, 4>>) /\ Full(<<30, 29>>)
        /\ Full(<<14, 13>>) /\ Full(<<0>>) /\ Full(<<3, 4>>) /\ Full(<<3, 2>>)
        /\ Full(<<1, 0, -1>>) /\ Full(<<1, 2>>) /\ Full(<<1, 0>>)
    BY DEF Full
  <2>. QED  BY <2>1 DEF StrategyEvidence
<1>5. OK(BreakerInputs)
  <2>1. /\ Full(<<-1, -2>>) /\ Full(<<-4, -5>>) /\ Full(<<-9, -10>>)
        /\ Full(<<7, 6>>) /\ Full(<<2, 3>>) /\ Full(<<30, 31>>)
    BY DEF Full
  <2>. QED  BY <2>1 DEF BreakerInputs
<1>6. OK(Record)
  <2>1. /\ Full(<<1, 2, 3, 4, 5>>) /\ Full(<<240, 239, 60, 59, 14, 13>>)
        /\ Full(<<400, 399, 100, 99, 30, 29>>)
    BY DEF Full
  <2>. QED  BY <2>1 DEF Record
<1>7. OK(CrossVenueParams)
  <2>1. /\ Full(<<60, 20, 19, 13, 12, 0, -1>>) /\ Full(<<100, 1, 0>>)
        /\ Full(<<4, 2, 1>>) /\ Full(<<2, 3>>)
    BY DEF Full
  <2>. QED  BY <2>1 DEF CrossVenueParams
<1>8. OK(CarryCandidate)
  <2>1. /\ Full(<<60, 20, 19, 9, 8, 7>>) /\ Full(<<7, 8>>) /\ Full(<<60, 59, -1>>)
        /\ Full(<<30, 29, 7, 6, -1>>)
    BY DEF Full
  <2>. QED  BY <2>1 DEF CarryCandidate
<1>9. OK(PreflightInputs)
  <2>1. /\ Full(<<"paper", "live", "none">>) /\ Full(Wanted)
        /\ Full(<<1, 0>>) /\ Full(Unwanted)
        /\ Full(<<5, 6, 99>>) /\ Full(<<2, 3, 99>>)
    BY DEF Full, Wanted, Unwanted
  <2>. QED  BY <2>1 DEF PreflightInputs
<1>10. OK(ArmFacts)
  <2>1. /\ Full(Wanted) /\ Full(<<1000, 999, 0>>)
        /\ Full(<<900, 901>>) /\ Full(Unwanted)
    BY DEF Full, Wanted, Unwanted
  <2>. QED  BY <2>1 DEF ArmFacts
<1>11. OK(LegFills)
  <2>1. /\ Full(<<100>>) /\ Full(<<100, 95, 94, 1, 0>>)
    BY DEF Full
  <2>. QED  BY <2>1 DEF LegFills
<1>12. OK(Sizing)
  <2>1. /\ Full(<<0, 1, 2, 3>>) /\ Full(<<3, 1, 0>>) /\ Full(<<2, 1>>)
        /\ Full(<<4, 2, 0>>)
    BY DEF Full
  <2>. QED  BY <2>1 DEF Sizing
<1>13. OK(PolicyQuestion)
  <2>1. /\ Full(<<0, 5, 11, 12, 40>>) /\ Full(<<1, 3, 7, 8, 10, 11>>)
        /\ Full(<<60, 59>>) /\ Full(Wanted)
    BY DEF Full, Wanted, Unwanted
  <2>. QED  BY <2>1 DEF PolicyQuestion
<1>14. ASSUME NEW j \in TheJudges PROVE OK(Scales[j])
  <2>. HIDE DEF OK
  <2>. QED  BY <1>2, <1>3, <1>4, <1>5, <1>6, <1>7, <1>8, <1>9, <1>10, <1>11, <1>12, <1>13
            DEF TheJudges, Scales
<1>. QED  BY <1>1, <1>14

LEMMA WorsenedIs ==
  ASSUME NEW q, IsQuestion(q), NEW w \in Worsened(q)
  PROVE  /\ IsQuestion(w) /\ w.judge = q.judge
         /\ NextOf(Scales[q.judge], Answer(q.judge, q.at), Answer(w.judge, w.at))
<1>1. PICK g \in DOMAIN q.at : /\ q.at[g] < Len(Scales[q.judge][g])
                               /\ w = [q EXCEPT !.at[g] = q.at[g] + 1]
  BY DEF Worsened
<1>. DEFINE at == [q.at EXCEPT ![g] = q.at[g] + 1]
<1>2. w.judge = q.judge /\ w.at = at /\ w = [judge |-> q.judge, at |-> at]
  BY <1>1 DEF IsQuestion
<1>3. DOMAIN at = DOMAIN q.at /\ DOMAIN q.at = DOMAIN Scales[q.judge]
      /\ at = [f \in DOMAIN at |-> at[f]]
  BY DEF IsQuestion
<1>4. \A f \in DOMAIN q.at : /\ q.at[f] \in 1..Len(Scales[q.judge][f])
                             /\ at[f] = IF f = g THEN q.at[f] + 1 ELSE q.at[f]
                             /\ Len(Scales[q.judge][f]) \in Nat
                             /\ DOMAIN Scales[q.judge][f] = 1..Len(Scales[q.judge][f])
  BY <1>3, ScalesAre DEF IsQuestion, Full
<1>5. \A f \in DOMAIN q.at : at[f] \in 1..Len(Scales[q.judge][f])
  BY <1>1, <1>4
<1>. HIDE DEF at
<1>6. IsQuestion(w)
  BY <1>2, <1>3, <1>5 DEF IsQuestion
<1>7. ASSUME NEW f \in DOMAIN Scales[q.judge]
      PROVE  NextOn(Scales[q.judge][f], Answer(q.judge, q.at)[f], Answer(w.judge, w.at)[f])
  <2>. DEFINE s == Scales[q.judge][f]
  <2>1. Answer(q.judge, q.at)[f] = s[q.at[f]] /\ Answer(w.judge, w.at)[f] = s[at[f]]
    BY <1>2, <1>3 DEF Answer
  <2>2. q.at[f] \in DOMAIN s /\ at[f] \in DOMAIN s /\ (at[f] = q.at[f] \/ at[f] = q.at[f] + 1)
    BY <1>3, <1>4, <1>5
  <2>. DEFINE i == q.at[f]
              k == at[f]
              x == Answer(q.judge, q.at)[f]
              y == Answer(w.judge, w.at)[f]
  <2>. HIDE DEF s, i, k, x, y
  <2>3. NextOn(s, x, y)
    <3>1. x = s[i] /\ y = s[k] /\ i \in DOMAIN s /\ k \in DOMAIN s /\ (k = i \/ k = i + 1)
      BY <2>1, <2>2 DEF i, k, x, y
    <3>2. x = s[i] /\ (y = s[i] \/ (i + 1 \in DOMAIN s /\ y = s[i + 1]))
      BY <3>1
    <3>. QED  BY <3>1, <3>2 DEF NextOn
  <2>. QED  BY <2>3 DEF s, x, y
<1>. QED  BY <1>2, <1>6, <1>7 DEF NextOf

LEMMA YesFades == ASSUME NEW a, NEW b, b => a PROVE Yes(b) <= Yes(a)
  BY DEF Yes

LEMMA GradesFall ==
  ASSUME NEW q, IsQuestion(q), NEW w \in Worsened(q)
  PROVE  GradeOf(w) <= GradeOf(q)
<1>. DEFINE p == Answer(q.judge, q.at)
            r == Answer(w.judge, w.at)
<1>1. NextOf(Scales[q.judge], p, r) /\ w.judge = q.judge
  BY WorsenedIs
<1>2. q.judge \in TheJudges
  BY ScalesAre DEF IsQuestion
<1>3. GradeOf(q) = Grade(q.judge, p) /\ GradeOf(w) = Grade(q.judge, r)
  BY <1>1 DEF GradeOf
<1>. HIDE DEF p, r
<1>4. CASE q.judge = "stage"
  <2>1. WorseStage(p, r)
    BY <1>1, <1>4, StageScale DEF Scales
  <2>. QED  BY <1>3, <1>4, <2>1, StageFalls DEF Grade
<1>5. CASE q.judge = "gap"
  <2>1. WorseGap(p, r)
    BY <1>1, <1>5, GapScale DEF Scales
  <2>2. BacktestLiveGap(r) => BacktestLiveGap(p)
    BY <2>1, GapFades
  <2>. QED  BY <1>3, <1>5, <2>2, YesFades DEF Grade
<1>6. CASE q.judge = "promotion"
  <2>1. WorseEvidence(p, r)
    BY <1>1, <1>6, EvidenceScale DEF Scales
  <2>2. EvaluatePromotion(r) => EvaluatePromotion(p)
    BY <2>1, PromotionFades
  <2>. QED  BY <1>3, <1>6, <2>2, YesFades DEF Grade
<1>7. CASE q.judge = "breakers"
  <2>1. WorseLosses(p, r)
    BY <1>1, <1>7, BreakerScale DEF Scales
  <2>2. CheckBreakers(r) => CheckBreakers(p)
    BY <2>1, BreakersFade
  <2>. QED  BY <1>3, <1>7, <2>2, YesFades DEF Grade
<1>8. CASE q.judge = "maturity"
  <2>1. WorseRecord(p, r)
    BY <1>1, <1>8, RecordScale DEF Scales
  <2>2. CanAdvance(r) => CanAdvance(p)
    BY <2>1, MaturityFades
  <2>. QED  BY <1>3, <1>8, <2>2, YesFades DEF Grade
<1>9. CASE q.judge = "economics"
  <2>1. WorseTrade(p, r)
    BY <1>1, <1>9, TradeScale DEF Scales
  <2>. QED  BY <1>3, <1>9, <2>1, EconomicsFall DEF Grade
<1>10. CASE q.judge = "screen"
  <2>1. WorseCarry(p, r)
    BY <1>1, <1>10, CarryScale DEF Scales
  <2>. QED  BY <1>3, <1>10, <2>1, ScreenFalls DEF Grade
<1>11. CASE q.judge = "preflight"
  <2>1. WorseFacts(p, r)
    BY <1>1, <1>11, FactScale DEF Scales
  <2>2. RunPreflight(r) => RunPreflight(p)
    BY <2>1, PreflightFades
  <2>. QED  BY <1>3, <1>11, <2>2, YesFades DEF Grade
<1>12. CASE q.judge = "arm"
  <2>1. WorseArm(p, r)
    BY <1>1, <1>12, ArmScale DEF Scales
  <2>2. CheckAll(r) => CheckAll(p)
    BY <2>1, ArmFades
  <2>. QED  BY <1>3, <1>12, <2>2, YesFades DEF Grade
<1>13. CASE q.judge = "legs"
  <2>1. WorseLegs(p, r)
    BY <1>1, <1>13, LegScale DEF Scales
  <2>. QED  BY <1>3, <1>13, <2>1, LegsFall DEF Grade
<1>14. CASE q.judge = "sizing"
  <2>1. WorseSizing(p, r)
    BY <1>1, <1>14, SizeScale DEF Scales
  <2>. QED  BY <1>3, <1>14, <2>1, SizesFall DEF Grade
<1>15. CASE q.judge = "policy"
  <2>1. WorsePolicy(p, r)
    BY <1>1, <1>15, PolicyScale DEF Scales
  <2>2. Assess(r) => Assess(p)
    BY <2>1, PolicyFades
  <2>. QED  BY <1>3, <1>15, <2>2, YesFades DEF Grade
<1>. QED  BY <1>2, <1>4, <1>5, <1>6, <1>7, <1>8, <1>9, <1>10, <1>11, <1>12, <1>13, <1>14, <1>15
          DEF TheJudges

LEMMA InitAsked == VerdictInit => IsQuestion(asked)
<1>. SUFFICES ASSUME VerdictInit PROVE IsQuestion(asked)
  OBVIOUS
<1>1. PICK j \in DOMAIN Scales : asked = [judge |-> j, at |-> [f \in DOMAIN Scales[j] |-> 1]]
  BY DEF VerdictInit
<1>2. \A f \in DOMAIN Scales[j] : 1 \in 1..Len(Scales[j][f])
  BY ScalesAre DEF Full
<1>. QED  BY <1>1, <1>2 DEF IsQuestion

LEMMA NextAsked == IsQuestion(asked) /\ [VerdictNext]_verdictvars => IsQuestion(asked)'
<1>. SUFFICES ASSUME IsQuestion(asked), [VerdictNext]_verdictvars PROVE IsQuestion(asked')
  OBVIOUS
<1>1. CASE Worsen
  BY <1>1, WorsenedIs DEF Worsen
<1>2. CASE UNCHANGED asked
  BY <1>2
<1>. QED  BY <1>1, <1>2 DEF VerdictNext, Observe, Offer, verdictvars

(* Whatever was measured, one more thing that is worse earns no better       *)
(* verdict from any of the twelve judges (stages.py 66-112, promotion_gate.py *)
(* 70-90, economic_gate.py 24-56 and the others).                            *)
THEOREM WorseEarnsNoMore == GatesSpec => []WorseIsNeverBetter
<1>1. GatesInit => IsQuestion(asked)
  BY InitAsked DEF GatesInit
<1>2. IsQuestion(asked) /\ [GatesNext]_<<part, gatevars>> => IsQuestion(asked)'
  <2>. SUFFICES ASSUME IsQuestion(asked), [GatesNext]_<<part, gatevars>> PROVE IsQuestion(asked)'
    OBVIOUS
  <2>1. [VerdictNext]_verdictvars
    BY DEF GatesNext, gatevars
  <2>. QED  BY <2>1, NextAsked
<1>3. IsQuestion(asked) => WorseIsNeverBetter
  BY GradesFall DEF WorseIsNeverBetter
<1>. QED  BY <1>1, <1>2, <1>3, PTL DEF GatesSpec
==============================================================================
