----------------------------- MODULE ReplayProofs -----------------------------
(* What is rebuilt from a ledger, or kept a piece at a time, against what it *)
(* stands for: the paper books and the tax ledger.                           *)
EXTENDS BooksProofs

------------------------------------------------------------------------------
(* The paper carry: the age that each line hands to the next one is that of  *)
(* the episode in the rates.                                                 *)

CarryActions == {"ENTER", "EXIT", "HOLD", "FLAT"}
CarryLines == [action : CarryActions, f : Rates, r : Int, age : Nat, vetoed : BOOLEAN, net : Int]
Starts(c, i) ==
  {k \in 1..i : c[k].f >= EnterRate /\ \A j \in k..i : c[j].f >= ExitRate}
AgeOf(c, i) == IF Starts(c, i) = {} THEN 0 ELSE i - Min(Starts(c, i)) + 1
WasIn(c, i) == i > 1 /\ c[i - 1].action \in {"ENTER", "HOLD"}
Continues(c, i, ripe) ==
  /\ WasIn(c, i) /\ AgeOf(c, i) > 0 => c[i].action = "HOLD"
  /\ WasIn(c, i) /\ AgeOf(c, i) = 0 => c[i].action = "EXIT"
  /\ ~WasIn(c, i) /\ AgeOf(c, i) >= ripe /\ ~c[i].vetoed => c[i].action = "ENTER"
  /\ ~WasIn(c, i) /\ (AgeOf(c, i) < ripe \/ c[i].vetoed) => c[i].action = "FLAT"
CarryOK(c, ripe) ==
  /\ c \in Seq(CarryLines) /\ ripe \in Nat \ {0}
  /\ \A i \in 1..Len(c) : c[i].age = AgeOf(c, i) /\ Continues(c, i, ripe)

(* Where the episode began does not change as it goes on.                    *)
LEMMA StartsOn ==
  ASSUME NEW c, NEW n \in Nat, \A k \in 1..(n + 1) : c[k].f \in Int
  PROVE  /\ c[n + 1].f < ExitRate => Starts(c, n + 1) = {}
         /\ c[n + 1].f >= ExitRate =>
              Starts(c, n + 1) = Starts(c, n) \cup (IF c[n + 1].f >= EnterRate THEN {n + 1} ELSE {})
<1>. USE HysteresisAssumption
<1>1. ASSUME c[n + 1].f < ExitRate PROVE Starts(c, n + 1) = {}
  <2>1. ASSUME NEW k \in Starts(c, n + 1) PROVE FALSE
    <3>1. k \in 1..(n + 1) /\ \A j \in k..(n + 1) : c[j].f >= ExitRate
      BY DEF Starts
    <3>2. n + 1 \in k..(n + 1) /\ n + 1 \in 1..(n + 1)
      BY <3>1
    <3>. QED  BY <1>1, <3>1, <3>2
  <2>. QED  BY <2>1
<1>2. ASSUME c[n + 1].f >= ExitRate
      PROVE  Starts(c, n + 1) = Starts(c, n) \cup (IF c[n + 1].f >= EnterRate THEN {n + 1} ELSE {})
  <2>1. ASSUME NEW k \in 1..n PROVE k \in Starts(c, n + 1) <=> k \in Starts(c, n)
    <3>1. \A j : j \in k..(n + 1) <=> j \in k..n \/ j = n + 1
      OBVIOUS
    <3>2. (\A j \in k..(n + 1) : c[j].f >= ExitRate) <=> (\A j \in k..n : c[j].f >= ExitRate)
      BY <1>2, <3>1
    <3>3. k \in 1..(n + 1)
      OBVIOUS
    <3>. QED  BY <3>2, <3>3 DEF Starts
  <2>2. n + 1 \in Starts(c, n + 1) <=> c[n + 1].f >= EnterRate
    <3>1. n + 1 \in 1..(n + 1) /\ \A j \in (n + 1)..(n + 1) : j = n + 1
      OBVIOUS
    <3>. QED  BY <1>2, <3>1 DEF Starts
  <2>3. \A k : /\ k \in 1..(n + 1) <=> k \in 1..n \/ k = n + 1
               /\ k \in Starts(c, n + 1) => k \in 1..(n + 1)
               /\ k \in Starts(c, n) => k \in 1..n
    BY DEF Starts
  <2>4. ASSUME NEW k
        PROVE  k \in Starts(c, n + 1) <=> k \in Starts(c, n) \/ (c[n + 1].f >= EnterRate /\ k = n + 1)
    <3>1. n + 1 \notin 1..n
      OBVIOUS
    <3>. QED  BY <2>1, <2>2, <2>3, <3>1
  <2>. QED  BY <2>4
<1>. QED  BY <1>1, <1>2

LEMMA AgeAdvances ==
  ASSUME NEW c, NEW n \in Nat, \A k \in 1..(n + 1) : c[k].f \in Int
  PROVE  AgeOf(c, n) \in Nat /\ AgeOf(c, n + 1) = AdvanceAge(AgeOf(c, n), c[n + 1].f)
<1>. USE HysteresisAssumption
<1>. DEFINE S == Starts(c, n)
            T == Starts(c, n + 1)
            f == c[n + 1].f
<1>1. f \in Int /\ S \in SUBSET (1..n) /\ T \in SUBSET (1..(n + 1)) /\ n + 1 \in Nat
  BY DEF Starts
<1>2. S # {} => /\ Min(S) \in S /\ Min(S) \in 1..n /\ (\A y \in S : Min(S) <= y)
                /\ AgeOf(c, n) = n - Min(S) + 1
  BY <1>1, LowestIsIn DEF AgeOf
<1>3. T # {} => /\ Min(T) \in T /\ Min(T) \in 1..(n + 1) /\ (\A y \in T : Min(T) <= y)
                /\ AgeOf(c, n + 1) = (n + 1) - Min(T) + 1
  <2>. DEFINE o == n + 1
  <2>. HIDE DEF o
  <2>1. o \in Nat /\ T \in SUBSET (1..o)
    BY <1>1 DEF o
  <2>2. T # {} => Min(T) \in T /\ \A y \in T : Min(T) <= y
    <3>. HIDE DEF T
    <3>. QED  BY <2>1, LowestIsIn
  <2>. QED  BY <1>1, <2>2 DEF AgeOf
<1>4. (S = {} => AgeOf(c, n) = 0) /\ (T = {} => AgeOf(c, n + 1) = 0)
  BY DEF AgeOf
<1>5. (f < ExitRate => T = {}) /\ (f >= ExitRate => T = S \cup (IF f >= EnterRate THEN {n + 1} ELSE {}))
  BY StartsOn
<1>. HIDE DEF S, T, f
<1>6. AgeOf(c, n) \in Nat /\ (S = {} <=> AgeOf(c, n) = 0)
  BY <1>2, <1>4
<1>7. CASE f < ExitRate
  BY <1>1, <1>4, <1>5, <1>6, <1>7 DEF AdvanceAge, f
<1>8. CASE f >= ExitRate /\ S = {}
  <2>1. CASE f >= EnterRate
    <3>1. T = {n + 1}
      BY <1>5, <1>8, <2>1
    <3>2. Min(T) = n + 1
      BY <1>3, <3>1
    <3>. QED  BY <1>3, <1>4, <1>6, <1>8, <2>1, <3>1, <3>2 DEF AdvanceAge, f
  <2>2. CASE ~(f >= EnterRate)
    <3>1. T = {}
      BY <1>5, <1>8, <2>2
    <3>. QED  BY <1>4, <1>6, <1>8, <2>2, <3>1 DEF AdvanceAge, f
  <2>. QED  BY <2>1, <2>2
<1>9. CASE f >= ExitRate /\ S # {}
  <2>1. S \subseteq T /\ T \subseteq S \cup {n + 1} /\ T # {}
    BY <1>5, <1>9
  <2>2. Min(T) <= Min(S) /\ (Min(T) \in S \/ Min(T) = n + 1)
    BY <1>2, <1>3, <1>9, <2>1
  <2>3. Min(S) <= Min(T)
    BY <1>2, <1>3, <1>9, <2>1, <2>2
  <2>4. AgeOf(c, n + 1) = AgeOf(c, n) + 1
    BY <1>2, <1>3, <1>9, <2>1, <2>2, <2>3
  <2>5. AgeOf(c, n) \in Nat /\ AgeOf(c, n) # 0 /\ ~(f < ExitRate)
    <3>1. AgeOf(c, n) = n - Min(S) + 1 /\ Min(S) \in 1..n
      BY <1>2, <1>9
    <3>2. AgeOf(c, n) \in Nat /\ AgeOf(c, n) # 0
      BY <3>1
    <3>3. ~(f < ExitRate)
      BY <1>1, <1>9
    <3>. QED  BY <3>2, <3>3
  <2>6. AdvanceAge(AgeOf(c, n), f) = AgeOf(c, n) + 1
    BY <2>5 DEF AdvanceAge
  <2>. QED  BY <2>4, <2>5, <2>6 DEF f
<1>10. f < ExitRate \/ f >= ExitRate
  BY <1>1
<1>11. AgeOf(c, n + 1) = AdvanceAge(AgeOf(c, n), f)
  <2>1. f >= ExitRate => (f >= ExitRate /\ S = {}) \/ (f >= ExitRate /\ S # {})
    OBVIOUS
  <2>. QED  BY <1>7, <1>8, <1>9, <1>10, <2>1 DEF f
<1>. QED  BY <1>6, <1>11 DEF f

(* One line, by the age and the position the last one handed over.           *)
LineGoesOn(x, f, in, age, ripe) ==
  /\ x \in CarryLines /\ x.f = f /\ x.age = age
  /\ in /\ age > 0 => x.action = "HOLD"
  /\ in /\ age = 0 => x.action = "EXIT"
  /\ ~in /\ age >= ripe /\ ~x.vetoed => x.action = "ENTER"
  /\ ~in /\ (age < ripe \/ x.vetoed) => x.action = "FLAT"

LEMMA ReturnIsInt ==
  ASSUME NEW a \in CarryActions, NEW f \in Rates PROVE ReturnFor(a, f) \in Int
<1>. USE HysteresisAssumption
<1>1. a = "ENTER" \/ a = "EXIT" => ReturnFor(a, f) = 0 - LegFee
  BY DEF ReturnFor
<1>2. (a = "HOLD" => ReturnFor(a, f) = f) /\ (a = "FLAT" => ReturnFor(a, f) = 0)
  BY DEF ReturnFor
<1>3. f \in Int /\ 0 - LegFee \in Int
  OBVIOUS
<1>. QED  BY <1>1, <1>2, <1>3 DEF CarryActions

LEMMA NetIsInt ==
  ASSUME NEW f \in Rates, NEW tenths \in {0, 10} PROVE NetEdge(f, tenths) \in Int
<1>1. f \in Int /\ tenths \in Int /\ MakerFee \in Int /\ TakerFee \in Int /\ Legs \in Int /\ HoldHours \in Int
  BY HysteresisAssumption
<1>2. LegCost(tenths) \in Int
  <2>1. tenths * MakerFee \in Int /\ (10 - tenths) * TakerFee \in Int
    BY <1>1
  <2>. QED  BY <2>1 DEF LegCost
<1>3. RoundTrip(tenths) \in Int
  BY <1>1, <1>2 DEF RoundTrip
<1>4. 10 * f * HoldHours \in Int
  <2>1. 10 * f \in Int
    BY <1>1
  <2>. DEFINE m == 10 * f
  <2>. HIDE DEF m
  <2>2. m * HoldHours \in Int
    BY <1>1, <2>1 DEF m
  <2>. QED  BY <2>2 DEF m
<1>. QED  BY <1>3, <1>4 DEF NetEdge

LEMMA ObservedGoesOn ==
  ASSUME minAge \in MinAges, NEW f \in Rates, NEW tenths \in {0, 10},
         Replay.in \in BOOLEAN, Replay.age \in Nat
  PROVE  LineGoesOn(Observed(f, tenths), f, Replay.in, AdvanceAge(Replay.age, f), AtLeastOne(minAge))
<1>. DEFINE age == AdvanceAge(Replay.age, f)
            in == Replay.in
            ripe == AtLeastOne(minAge)
            act == Decide(Replay, f).action
            allowed == AllowEntry(Replay, f, tenths)
            x == Observed(f, tenths)
<1>1. f \in Int /\ age \in Nat /\ ripe \in Nat \ {0} /\ minAge \in Int
  BY HysteresisAssumption DEF AdvanceAge, AtLeastOne
<1>2. /\ Decide(Replay, f).sig.age = age
      /\ in => act = IF age = 0 THEN "EXIT" ELSE "HOLD"
      /\ ~in => act = IF age >= ripe THEN "ENTER" ELSE "FLAT"
  BY DEF Decide
<1>3. /\ x.f = f /\ x.age = age /\ (x.vetoed <=> (act = "ENTER" /\ ~allowed))
      /\ x.action = IF act = "ENTER" /\ ~allowed THEN "FLAT" ELSE act
      /\ x = [action |-> x.action, f |-> f, r |-> ReturnFor(x.action, f), age |-> age,
              vetoed |-> x.vetoed, net |-> NetEdge(f, tenths)]
      /\ x.vetoed \in BOOLEAN
  BY <1>2 DEF Observed
<1>. HIDE DEF age, in, ripe, act, allowed, x
<1>4. act \in CarryActions /\ in \in BOOLEAN
  BY <1>1, <1>2 DEF CarryActions, in
<1>5. x.action \in CarryActions
  BY <1>3, <1>4 DEF CarryActions
<1>6. x \in CarryLines
  BY <1>1, <1>3, <1>5, ReturnIsInt, NetIsInt DEF CarryLines
<1>7. in /\ age > 0 => x.action = "HOLD"
  BY <1>1, <1>2, <1>3
<1>8. in /\ age = 0 => x.action = "EXIT"
  BY <1>1, <1>2, <1>3
<1>9. ~in /\ age >= ripe /\ ~x.vetoed => x.action = "ENTER"
  BY <1>1, <1>2, <1>3
<1>10. ~in /\ (age < ripe \/ x.vetoed) => x.action = "FLAT"
  BY <1>1, <1>2, <1>3
<1>. QED  BY <1>3, <1>6, <1>7, <1>8, <1>9, <1>10 DEF LineGoesOn, x, age, in, ripe

(* What the ledger hands to the next call.                                   *)
InLast(c) == c # <<>> /\ c[Len(c)].action \in {"ENTER", "HOLD"}
AgeLast(c) == IF c = <<>> THEN 0 ELSE c[Len(c)].age

LEMMA CarryGrows ==
  ASSUME NEW c, NEW ripe, CarryOK(c, ripe), NEW x, NEW f \in Rates,
         LineGoesOn(x, f, InLast(c), AdvanceAge(AgeLast(c), f), ripe)
  PROVE  CarryOK(Append(c, x), ripe)
<1>. DEFINE n == Len(c)
            d == Append(c, x)
<1>1. /\ c \in Seq(CarryLines) /\ ripe \in Nat \ {0} /\ n \in Nat /\ x \in CarryLines
      /\ \A i \in 1..n : c[i] \in CarryLines
  BY DEF CarryOK, LineGoesOn
<1>2. /\ d \in Seq(CarryLines) /\ Len(d) = n + 1 /\ d[n + 1] = x
      /\ \A i \in 1..n : d[i] = c[i]
  BY <1>1
<1>3. \A i \in 1..(n + 1) : d[i].f \in Int
  <2>1. \A i \in 1..(n + 1) : d[i] \in CarryLines
    BY <1>2
  <2>. QED  BY <2>1, HysteresisAssumption DEF CarryLines
<1>. HIDE DEF d
<1>4. \A i \in 0..n : Starts(d, i) = Starts(c, i) /\ AgeOf(d, i) = AgeOf(c, i)
  <2>1. ASSUME NEW i \in 0..n PROVE Starts(d, i) = Starts(c, i)
    <3>1. \A k \in 1..i : k \in 1..n /\ \A j \in k..i : j \in 1..n
      BY <1>1
    <3>. QED  BY <1>2, <3>1 DEF Starts
  <2>. QED  BY <2>1 DEF AgeOf
<1>5. ASSUME NEW i \in 1..n PROVE d[i].age = AgeOf(d, i) /\ Continues(d, i, ripe)
  <2>1. c[i].age = AgeOf(c, i) /\ Continues(c, i, ripe) /\ i \in 0..n /\ (i > 1 => i - 1 \in 1..n)
    BY <1>1 DEF CarryOK
  <2>2. d[i] = c[i] /\ AgeOf(d, i) = AgeOf(c, i) /\ (WasIn(d, i) <=> WasIn(c, i))
    BY <1>2, <1>4, <2>1 DEF WasIn
  <2>. QED  BY <2>1, <2>2 DEF Continues
<1>6. d[n + 1].age = AgeOf(d, n + 1) /\ Continues(d, n + 1, ripe)
  <2>1. AgeOf(d, n) \in Nat /\ AgeOf(d, n + 1) = AdvanceAge(AgeOf(d, n), d[n + 1].f)
    BY <1>1, <1>3, AgeAdvances
  <2>2. /\ n = 0 => c = <<>> /\ AgeOf(d, n) = 0 /\ ~WasIn(d, n + 1)
        /\ n > 0 => /\ c # <<>> /\ AgeOf(d, n) = c[n].age
                    /\ WasIn(d, n + 1) <=> c[n].action \in {"ENTER", "HOLD"}
    <3>1. CASE n = 0
      <4>1. Starts(d, 0) = {}
        BY DEF Starts
      <4>. QED  BY <1>1, <3>1, <4>1 DEF AgeOf, WasIn
    <3>2. CASE n > 0
      <4>1. n \in 1..n /\ n \in 0..n /\ (n + 1) - 1 = n /\ n + 1 > 1 /\ c # <<>>
        BY <1>1, <3>2
      <4>. QED  BY <1>1, <1>2, <1>4, <3>2, <4>1 DEF WasIn, CarryOK
    <3>. QED  BY <1>1, <3>1, <3>2
  <2>3. LineGoesOn(x, f, WasIn(d, n + 1), AgeOf(d, n + 1), ripe)
    <3>1. CASE n = 0
      BY <1>2, <2>1, <2>2, <3>1 DEF LineGoesOn, InLast, AgeLast
    <3>2. CASE n > 0
      BY <1>2, <2>1, <2>2, <3>2 DEF LineGoesOn, InLast, AgeLast
    <3>. QED  BY <1>1, <3>1, <3>2
  <2>. QED  BY <1>2, <2>3 DEF LineGoesOn, Continues
<1>7. \A i \in 1..(n + 1) : i \in 1..n \/ i = n + 1
  BY <1>1
<1>. QED  BY <1>1, <1>2, <1>5, <1>6, <1>7 DEF CarryOK, d

CarryInv == minAge \in MinAges /\ CarryOK(carry, AtLeastOne(minAge))
LEMMA InitCarryInv == ShadowInit => CarryInv
<1>. SUFFICES ASSUME ShadowInit PROVE CarryInv
  OBVIOUS
<1>1. carry = <<>> /\ minAge \in MinAges /\ AtLeastOne(minAge) \in Nat \ {0}
  BY HysteresisAssumption DEF ShadowInit, AtLeastOne
<1>2. <<>> \in Seq(CarryLines) /\ Len(<<>>) = 0 /\ 1..0 = {}
  OBVIOUS
<1>. QED  BY <1>1, <1>2 DEF CarryInv, CarryOK

LEMMA ObservedLine ==
  ASSUME CarryInv, NEW f \in Rates, NEW tenths \in {0, 10}
  PROVE  LineGoesOn(Observed(f, tenths), f, InLast(carry), AdvanceAge(AgeLast(carry), f), AtLeastOne(minAge))
<1>. DEFINE in == InLast(carry)
            age == AgeLast(carry)
<1>1. (Replay.in <=> in) /\ Replay.age = age /\ Replay.in \in BOOLEAN
  <2>1. CASE carry = <<>>
    <3>1. Replay = [in |-> FALSE, age |-> 0]
      BY <2>1 DEF Replay, Out
    <3>2. (in <=> FALSE) /\ age = 0
      BY <2>1 DEF InLast, AgeLast
    <3>. HIDE DEF in, age
    <3>. QED  BY <3>1, <3>2
  <2>2. CASE carry # <<>>
    <3>1. Replay = [in |-> carry[Len(carry)].action \in {"ENTER", "HOLD"}, age |-> carry[Len(carry)].age]
      BY <2>2 DEF Replay, Last
    <3>2. (in <=> carry[Len(carry)].action \in {"ENTER", "HOLD"}) /\ age = carry[Len(carry)].age
      BY <2>2 DEF InLast, AgeLast
    <3>. HIDE DEF in, age
    <3>3. Replay.in \in BOOLEAN /\ (Replay.in <=> carry[Len(carry)].action \in {"ENTER", "HOLD"})
      <4>. DEFINE w == carry[Len(carry)].action \in {"ENTER", "HOLD"}
                  b == carry[Len(carry)].age
      <4>1. w \in BOOLEAN /\ Replay = [in |-> w, age |-> b]
        BY <3>1
      <4>. HIDE DEF w, b
      <4>2. Replay.in = w
        BY <4>1
      <4>3. Replay.in \in BOOLEAN /\ (Replay.in <=> w)
        BY <4>1, <4>2
      <4>. QED  BY <4>3 DEF w
    <3>4. Replay.age = carry[Len(carry)].age
      BY <3>1
    <3>. QED  BY <3>2, <3>3, <3>4
  <2>. QED  BY <2>1, <2>2
<1>2. age \in Nat
  <2>1. carry # <<>> => carry[Len(carry)] \in CarryLines
    BY DEF CarryInv, CarryOK
  <2>. QED  BY <2>1 DEF CarryLines, AgeLast
<1>. HIDE DEF in, age
<1>3. LineGoesOn(Observed(f, tenths), f, Replay.in, AdvanceAge(Replay.age, f), AtLeastOne(minAge))
  BY <1>1, <1>2, ObservedGoesOn DEF CarryInv
<1>. QED  BY <1>1, <1>3 DEF LineGoesOn, in, age

LEMMA NextCarryInv == CarryInv /\ [ShadowNext]_shadowvars => CarryInv'
<1>. SUFFICES ASSUME CarryInv, [ShadowNext]_shadowvars PROVE CarryInv'
  OBVIOUS
<1>1. ASSUME NEW f \in Rates, NEW tenths \in {0, 10}, Observe(f, tenths) PROVE CarryInv'
  <2>1. minAge' = minAge /\ carry' = IF cut THEN carry ELSE Append(carry, Observed(f, tenths))
    BY <1>1 DEF Observe
  <2>2. CASE cut
    BY <2>1, <2>2 DEF CarryInv
  <2>3. CASE ~cut
    <3>1. LineGoesOn(Observed(f, tenths), f, InLast(carry), AdvanceAge(AgeLast(carry), f), AtLeastOne(minAge))
      BY ObservedLine
    <3>2. CarryOK(Append(carry, Observed(f, tenths)), AtLeastOne(minAge))
      BY <3>1, CarryGrows DEF CarryInv
    <3>. QED  BY <2>1, <2>3, <3>2 DEF CarryInv
  <2>. QED  BY <2>2, <2>3
<1>2. CASE ObserveCut
  BY <1>2 DEF ObserveCut, CarryInv
<1>3. CASE UNCHANGED shadowvars
  BY <1>3 DEF shadowvars, CarryInv
<1>. QED  BY <1>1, <1>2, <1>3 DEF ShadowNext

LEMMA CarryContinues == CarryInv => BookIsContinuous
<1>. SUFFICES ASSUME CarryInv PROVE BookIsContinuous
  OBVIOUS
<1>. DEFINE ripe == AtLeastOne(minAge)
<1>1. /\ carry \in Seq(CarryLines) /\ DOMAIN carry = 1..Len(carry) /\ Len(carry) \in Nat /\ ripe \in Nat
      /\ \A i \in 1..Len(carry) : Continues(carry, i, ripe)
  BY DEF CarryInv, CarryOK
<1>2. ASSUME NEW i \in DOMAIN carry PROVE AgeAt(i) = AgeOf(carry, i) /\ AgeAt(i) \in Nat
  <2>1. i \in Nat /\ \A k \in 1..i : k \in DOMAIN carry /\ \A j \in k..i : j \in DOMAIN carry
    BY <1>1
  <2>2. {k \in 1..i : Fs[k] >= EnterRate /\ \A j \in k..i : Fs[j] >= ExitRate} = Starts(carry, i)
    BY <2>1 DEF Fs, Starts
  <2>3. AgeAt(i) = AgeOf(carry, i)
    BY <2>2 DEF AgeAt, AgeOf
  <2>4. carry[i].age = AgeOf(carry, i) /\ carry[i] \in CarryLines
    BY <1>1 DEF CarryInv, CarryOK
  <2>. QED  BY <2>3, <2>4 DEF CarryLines
<1>3. ASSUME NEW i \in DOMAIN carry
      PROVE  LET was == i > 1 /\ carry[i - 1].action \in {"ENTER", "HOLD"}
                 due == AgeAt(i) >= AtLeastOne(minAge)
             IN carry[i].action = CASE was /\ AgeAt(i) > 0 -> "HOLD"
                                    [] was /\ AgeAt(i) = 0 -> "EXIT"
                                    [] ~was /\ due /\ ~carry[i].vetoed -> "ENTER"
                                    [] OTHER -> "FLAT"
  <2>. DEFINE was == i > 1 /\ carry[i - 1].action \in {"ENTER", "HOLD"}
              age == AgeAt(i)
  <2>1. Continues(carry, i, ripe) /\ (WasIn(carry, i) <=> was) /\ AgeOf(carry, i) = age /\ age \in Nat
    BY <1>1, <1>2 DEF WasIn
  <2>2. /\ was /\ age > 0 => carry[i].action = "HOLD"
        /\ was /\ age = 0 => carry[i].action = "EXIT"
        /\ ~was /\ age >= ripe /\ ~carry[i].vetoed => carry[i].action = "ENTER"
        /\ ~was /\ (age < ripe \/ carry[i].vetoed) => carry[i].action = "FLAT"
    BY <2>1 DEF Continues
  <2>. HIDE DEF was, age, ripe
  <2>3. carry[i].action = CASE was /\ age > 0 -> "HOLD"
                            [] was /\ age = 0 -> "EXIT"
                            [] ~was /\ age >= ripe /\ ~carry[i].vetoed -> "ENTER"
                            [] OTHER -> "FLAT"
    <3>1. CASE was
      BY <2>1, <2>2, <3>1
    <3>2. CASE ~was /\ age >= ripe /\ ~carry[i].vetoed
      BY <2>1, <2>2, <3>2
    <3>3. CASE ~was /\ ~(age >= ripe /\ ~carry[i].vetoed)
      BY <1>1, <2>1, <2>2, <3>3
    <3>. QED  BY <3>1, <3>2, <3>3
  <2>. QED  BY <2>3 DEF was, age, ripe
<1>. QED  BY <1>3 DEF BookIsContinuous

LEMMA CarryStays ==
  ASSUME [BooksNext]_<<part, recordvars, papervars>>
  PROVE  [ShadowNext]_shadowvars
<1>1. CASE BooksNext
  <2>1. CASE PaperNext
    BY <1>1, <2>1 DEF BooksNext, PaperNext
  <2>2. CASE UNCHANGED papervars
    BY <1>1, <2>2 DEF BooksNext, papervars
  <2>. QED  BY <1>1, <2>1, <2>2 DEF BooksNext
<1>2. CASE UNCHANGED <<part, recordvars, papervars>>
  BY <1>2 DEF papervars
<1>. QED  BY <1>1, <1>2

(* Rebuilt by every hourly call from a ledger that may have lost lines, the  *)
(* paper carry is one continuous book of the rates it holds, for every       *)
(* series of rates, every pair of thresholds and every age rule              *)
(* (shadow.py:68, signals/funding.py:99).                                    *)
THEOREM BookStaysContinuous == BooksSpec => []BookIsContinuous
<1>1. BooksInit => CarryInv
  BY InitCarryInv DEF BooksInit
<1>2. CarryInv /\ [BooksNext]_<<part, recordvars, papervars>> => CarryInv'
  BY CarryStays, NextCarryInv
<1>. QED  BY <1>1, <1>2, CarryContinues, PTL DEF BooksSpec
------------------------------------------------------------------------------
(* The paper scalper: the peak between bar i, where a trade began, and bar   *)
(* j; whether bar j ends it; where a trade begun at bar i ends in a series.  *)
PeakSet(bs, i, j) == {bs[i].c} \cup {bs[k].h : k \in (i + 1)..(j - 1)}
PeakOf(bs, i, j) == Max(PeakSet(bs, i, j))
Hit(bs, i, j) == bs[j].l * 10 <= TrailLevel(PeakOf(bs, i, j))
LevelAt(bs, i, j) ==
  LET trail == TrailLevel(PeakOf(bs, i, j))
      stop  == StopLevel(bs[i].c)
  IN  IF bs[j].l * 10 <= stop /\ stop <= trail THEN stop ELSE trail
EntersAt(bs, i) == EntryOk(bs[i - 2].c, bs[i - 1].c, bs[i].c)
LastBar(bs, i) == IF i + MaxHold <= Len(bs) THEN i + MaxHold ELSE Len(bs)
HitsAfter(bs, i) == {j \in (i + 1)..LastBar(bs, i) : Hit(bs, i, j)}
EndBar(bs, i) == IF HitsAfter(bs, i) = {} THEN LastBar(bs, i) ELSE Min(HitsAfter(bs, i))
ExitIn(bs, i) ==
  [entry |-> bs[i].c, held |-> EndBar(bs, i) - i,
   level |-> IF HitsAfter(bs, i) = {} THEN 10 * bs[LastBar(bs, i)].c ELSE LevelAt(bs, i, EndBar(bs, i))]
ScanStep(a, i, bs) ==
  IF i < a.next \/ ~EntersAt(bs, i) THEN a
  ELSE [next |-> i + ExitIn(bs, i).held + 1, trades |-> Append(a.trades, ExitIn(bs, i))]

(* The tax ledger: the units behind a lot, and those behind a matched trade. *)
UnitOfLot(l) == [coin |-> l.coin, price |-> l.price, unit |-> l.fee \div l.qty, id |-> l.id]
UnitsOfLot(l) == Repeat(UnitOfLot(l), l.qty)
UnitOfTrade(t) == [buy |-> t.buy, sell |-> t.sell, pnl |-> t.pnl \div t.qty]
SoldOfTrade(t) == Repeat(UnitOfTrade(t), t.qty)

(* The programs that read the rates of the paper carry, the backtest of the  *)
(* scalper and all that the tax ledger works out are folds, with the age     *)
(* rule, the bars, the sell, the coin or nothing as their parameter.         *)

Advance(kind, par, a, x) ==
  IF kind = "carry" THEN CarryStep(a, x, par)
  ELSE IF kind = "left" THEN Ripened(a, x, par)
  ELSE IF kind = "funding" THEN FundingStep(a, x)
  ELSE IF kind = "persist" THEN PersistStep(a, x)
  ELSE IF kind = "duty" THEN DutyStep(a, x)
  ELSE IF kind = "parts" THEN DecomposeStep(a, x)
  ELSE IF kind = "scan" THEN ScanStep(a, x, par)
  ELSE IF kind = "units" THEN a \o UnitsOfLot(x)
  ELSE IF kind = "sold" THEN a \o SoldOfTrade(x)
  ELSE IF kind = "sell" THEN SellUnit(a, x)
  ELSE IF kind = "enter" THEN Enter(a, x)
  ELSE IF kind = "match" THEN MatchLot(a, x, par)
  ELSE IF kind = "available" THEN IF x.coin = par THEN a + x.qty ELSE a
  ELSE IF kind = "lots" THEN IF x.coin = par THEN Append(a, x) ELSE a
  ELSE IF kind = "pnl" THEN a + x.pnl
  ELSE IF kind = "cost" THEN a + x.qty * x.price
  ELSE IF kind = "prices" THEN IF x.coin = par THEN a + x.price ELSE a
  ELSE a + x
Folded(kind, par, base, s) == FoldLeft(LAMBDA a, x : Advance(kind, par, a, x), base, s)
Advances(kind, par, A, S) == \A a \in A, x \in S : Advance(kind, par, a, x) \in A

PassBody(it, set, kind, par, base, s) ==
  IF set = {} THEN base ELSE Advance(kind, par, it[set \ {HighestIn(set)}], s[HighestIn(set)])
PassIter(it, kind, par, base, s) ==
  it = [set \in SUBSET DOMAIN s |-> PassBody(it, set, kind, par, base, s)]
PassFold(kind, par, base, s) == CHOOSE it : PassIter(it, kind, par, base, s)
PassStep(kind, par, s, n, A) == [x \in (1..n) \X A |-> Advance(kind, par, x[2], s[x[1]])]

LEMMA FoldedIsPass ==
  ASSUME NEW kind, NEW par, NEW base, NEW s
  PROVE  Folded(kind, par, base, s) = PassFold(kind, par, base, s)[DOMAIN s]
  BY DEF Folded, FoldLeft, MapThenFoldSet, Max, HighestIn, PassFold, PassIter, PassBody

LEMMA PassStepTyped ==
  ASSUME NEW kind, NEW par, NEW A, NEW S, Advances(kind, par, A, S), NEW n \in Nat, NEW s, \A k \in 1..n : s[k] \in S
  PROVE  PassStep(kind, par, s, n, A) \in [(1..n) \X A -> A]
<1>1. \A x \in (1..n) \X A : x[1] \in 1..n /\ x[2] \in A
  OBVIOUS
<1>2. \A x \in (1..n) \X A : Advance(kind, par, x[2], s[x[1]]) \in A
  BY <1>1 DEF Advances
<1>. QED  BY <1>2 DEF PassStep

LEMMA PassRuns ==
  ASSUME NEW kind, NEW par, NEW A, NEW S, Advances(kind, par, A, S), NEW base \in A,
         NEW n \in Nat, NEW s \in [1..n -> S]
  PROVE  \E F : IsRunOf(F, n, base, PassStep(kind, par, s, n, A)) /\ F[n] = Folded(kind, par, base, s)
<1>. DEFINE D == 1..n
            g == PassStep(kind, par, s, n, A)
            it == PassFold(kind, par, base, s)
            F == [k \in 0..n |-> it[1..k]]
<1>1. g \in [D \X A -> A]
  BY PassStepTyped
<1>2. ASSUME NEW k \in D, NEW a \in A PROVE g[<<k, a>>] = Advance(kind, par, a, s[k])
  BY DEF PassStep
<1>. HIDE DEF g
<1>3. PICK f : IsLeftFold(f, n, base, g) /\ \A set \in SUBSET D : f[set] \in A
  BY <1>1, LeftFold
<1>4. \A set \in SUBSET D : set # {} => HighestIn(set) \in D /\ set \ {HighestIn(set)} \in SUBSET D
  BY HighestIsIn
<1>5. DOMAIN s = D
  OBVIOUS
<1>6. PassIter(f, kind, par, base, s)
  <2>1. f = [set \in SUBSET D |-> IF set = {} THEN base
                                  ELSE g[<<HighestIn(set), f[set \ {HighestIn(set)}]>>]]
    BY <1>3 DEF IsLeftFold
  <2>2. \A set \in SUBSET D : f[set] = PassBody(f, set, kind, par, base, s)
    BY <1>2, <1>3, <1>4, <2>1 DEF PassBody
  <2>3. f = [set \in SUBSET D |-> f[set]]
    BY <2>1
  <2>. HIDE DEF D
  <2>. QED  BY <1>5, <2>2, <2>3 DEF PassIter
<1>7. PassIter(it, kind, par, base, s)
  BY <1>6 DEF PassFold
<1>. HIDE DEF it
<1>8. \A set \in SUBSET D : it[set] = PassBody(it, set, kind, par, base, s)
  BY <1>5, <1>7 DEF PassIter
<1>9. it[{}] = base
  BY <1>8 DEF PassBody
<1>10. \A set \in SUBSET D : set # {} /\ it[set \ {HighestIn(set)}] \in A
                             => it[set] = g[<<HighestIn(set), it[set \ {HighestIn(set)}]>>]
  BY <1>2, <1>4, <1>8 DEF PassBody
<1>11. F = [k \in 0..n |-> it[1..k]] /\ F[n] = it[D]
  OBVIOUS
<1>12. IsRunOf(F, n, base, g)
  <2>. HIDE DEF F
  <2>. QED  BY <1>1, <1>9, <1>10, <1>11, IterIsRun
<1>. QED  BY <1>5, <1>11, <1>12, FoldedIsPass DEF g, it

LEMMA FoldedNone ==
  ASSUME NEW kind, NEW par, NEW A, NEW S, Advances(kind, par, A, S), NEW base \in A
  PROVE  Folded(kind, par, base, <<>>) = base
<1>1. PICK F : IsRunOf(F, 0, base, PassStep(kind, par, <<>>, 0, A)) /\ F[0] = Folded(kind, par, base, <<>>)
  <2>1. <<>> \in [1..0 -> S] /\ 0 \in Nat
    OBVIOUS
  <2>. QED  BY <2>1, PassRuns
<1>. QED  BY <1>1 DEF IsRunOf

PassesOn(kind, par, base, s, x) ==
  Folded(kind, par, base, Append(s, x)) = Advance(kind, par, Folded(kind, par, base, s), x)

LEMMA FoldedAppend ==
  ASSUME NEW kind, NEW par, NEW A, NEW S, Advances(kind, par, A, S), NEW base \in A,
         NEW s \in Seq(S), NEW x \in S
  PROVE  PassesOn(kind, par, base, s, x)
<1>. DEFINE n == Len(s)
            more == Append(s, x)
<1>1. /\ n \in Nat /\ n + 1 \in Nat /\ n + 1 \in 1..(n + 1)
      /\ s \in [1..n -> S] /\ more \in [1..(n + 1) -> S]
      /\ (\A k \in 1..n : more[k] = s[k]) /\ more[n + 1] = x
  BY AppendIs
<1>. HIDE DEF n, more
<1>2. PICK F : IsRunOf(F, n, base, PassStep(kind, par, s, n, A)) /\ F[n] = Folded(kind, par, base, s)
  BY <1>1, PassRuns
<1>3. PICK H : /\ IsRunOf(H, n + 1, base, PassStep(kind, par, more, n + 1, A))
               /\ H[n + 1] = Folded(kind, par, base, more)
  BY <1>1, PassRuns
<1>4. \A k \in 0..n : F[k] \in A
  <2>1. PassStep(kind, par, s, n, A) \in [(1..n) \X A -> A]
    BY <1>1, PassStepTyped
  <2>. QED  BY <1>1, <1>2, <2>1, RunTyped
<1>5. \A k \in 0..n : F[k] = H[k]
  <2>1. IsRunOf(H, n, base, PassStep(kind, par, more, n + 1, A))
    BY <1>1, <1>3 DEF IsRunOf
  <2>2. \A k \in 1..n : PassStep(kind, par, s, n, A)[<<k, F[k - 1]>>]
                         = PassStep(kind, par, more, n + 1, A)[<<k, F[k - 1]>>]
    <3>1. \A k \in 1..n : k - 1 \in 0..n /\ k \in 1..(n + 1)
      BY <1>1
    <3>. QED  BY <1>1, <1>4, <3>1 DEF PassStep
  <2>. QED  BY <1>1, <1>2, <2>1, <2>2, RunsAgree
<1>6. H[n + 1] = Advance(kind, par, H[n], more[n + 1])
  <2>1. n + 1 - 1 = n /\ n \in 0..n
    BY <1>1
  <2>2. H[n] \in A
    BY <1>4, <1>5, <2>1
  <2>3. H[n + 1] = PassStep(kind, par, more, n + 1, A)[<<n + 1, H[n]>>]
    BY <1>1, <1>3, <2>1 DEF IsRunOf
  <2>. QED  BY <1>1, <2>2, <2>3 DEF PassStep
<1>7. n \in 0..n
  BY <1>1
<1>. QED  BY <1>1, <1>2, <1>3, <1>4, <1>5, <1>6, <1>7 DEF more, PassesOn

LEMMA FoldedTyped ==
  ASSUME NEW kind, NEW par, NEW A, NEW S, Advances(kind, par, A, S), NEW base \in A, NEW s \in Seq(S)
  PROVE  Folded(kind, par, base, s) \in A
<1>. DEFINE n == Len(s)
<1>1. n \in Nat /\ s \in [1..n -> S] /\ n \in 0..n
  OBVIOUS
<1>. HIDE DEF n
<1>2. PICK F : IsRunOf(F, n, base, PassStep(kind, par, s, n, A)) /\ F[n] = Folded(kind, par, base, s)
  BY <1>1, PassRuns
<1>3. PassStep(kind, par, s, n, A) \in [(1..n) \X A -> A]
  BY <1>1, PassStepTyped
<1>4. \A k \in 0..n : F[k] \in A
  BY <1>1, <1>2, <1>3, RunTyped
<1>. QED  BY <1>1, <1>2, <1>4

------------------------------------------------------------------------------
(* Four programs over one series of rates: what each has after a prefix of   *)
(* it, against what the others have.                                         *)

CarryRuns == [ep : BOOLEAN, age : Nat, in : BOOLEAN, got : Int, hold : Int,
              nets : Seq(Int), holds : Seq(Int), funding : Int]
SameBook(c, d) ==
  /\ d.in <=> c.in
  /\ d.got = c.got /\ d.hold = c.hold /\ d.nets = c.nets /\ d.holds = c.holds /\ d.funding = c.funding
BooksClosed(c, d) ==
  /\ ~d.in /\ d.got = 0 /\ d.hold = 0 /\ d.nets = Append(c.nets, c.got - 2 * LegFee)
  /\ d.holds = Append(c.holds, c.hold) /\ d.funding = c.funding + c.got

LEMMA CloseBooks ==
  ASSUME NEW c \in CarryRuns
  PROVE  /\ Close(c) \in CarryRuns /\ (Close(c).ep <=> c.ep) /\ Close(c).age = c.age
         /\ ~c.in => SameBook(c, Close(c))
         /\ c.in => BooksClosed(c, Close(c))
<1>. DEFINE net == c.got - 2 * LegFee
            sum == c.funding + c.got
            ep == c.ep
            age == c.age
            d == [ep |-> ep, age |-> age, in |-> FALSE, got |-> 0, hold |-> 0,
                  nets |-> Append(c.nets, net), holds |-> Append(c.holds, c.hold), funding |-> sum]
<1>1. net \in Int /\ sum \in Int /\ ep \in BOOLEAN /\ age \in Nat /\ c.hold \in Int
      /\ c.nets \in Seq(Int) /\ c.holds \in Seq(Int)
  BY HysteresisAssumption DEF CarryRuns
<1>2. ASSUME ~c.in PROVE Close(c) = c
  BY <1>2 DEF Close
<1>3. ASSUME c.in PROVE Close(c) = d
  BY <1>3 DEF Close, CarryRuns
<1>4. d \in CarryRuns
  <2>1. Append(c.nets, net) \in Seq(Int) /\ Append(c.holds, c.hold) \in Seq(Int)
    BY <1>1
  <2>. HIDE DEF net, sum, ep, age
  <2>. QED  BY <1>1, <2>1 DEF CarryRuns
<1>5. (d.ep <=> c.ep) /\ d.age = c.age /\ BooksClosed(c, d)
  BY DEF BooksClosed
<1>6. SameBook(c, c)
  BY DEF SameBook
<1>. HIDE DEF d
<1>. QED  BY <1>2, <1>3, <1>4, <1>5, <1>6

(* The changes to a book, field by field.                                    *)
Flagged(c, w, n) == [c EXCEPT !.ep = w, !.age = n]
Collected(c, w, f) == [c EXCEPT !.in = w, !.got = @ + f, !.hold = @ + 1]

LEMMA FlagSet ==
  ASSUME NEW c \in CarryRuns, NEW w \in BOOLEAN, NEW n \in Nat, NEW d, d = Flagged(c, w, n)
  PROVE  d \in CarryRuns /\ (d.ep <=> w) /\ d.age = n /\ SameBook(c, d)
<1>1. d = [ep |-> w, age |-> n, in |-> c.in, got |-> c.got, hold |-> c.hold,
           nets |-> c.nets, holds |-> c.holds, funding |-> c.funding]
  BY DEF CarryRuns, Flagged
<1>. QED  BY <1>1 DEF CarryRuns, SameBook

LEMMA AgeSet ==
  ASSUME NEW c \in CarryRuns, NEW d, d = [c EXCEPT !.age = @ + 1]
  PROVE  d \in CarryRuns /\ (d.ep <=> c.ep) /\ d.age = c.age + 1 /\ SameBook(c, d)
<1>1. d = [ep |-> c.ep, age |-> c.age + 1, in |-> c.in, got |-> c.got, hold |-> c.hold,
           nets |-> c.nets, holds |-> c.holds, funding |-> c.funding]
  BY DEF CarryRuns
<1>2. c.ep \in BOOLEAN /\ c.age + 1 \in Nat /\ c.in \in BOOLEAN /\ c.got \in Int /\ c.hold \in Int
      /\ c.nets \in Seq(Int) /\ c.holds \in Seq(Int) /\ c.funding \in Int
  BY DEF CarryRuns
<1>. QED  BY <1>1, <1>2 DEF CarryRuns, SameBook

Collects(c, d, w, f) ==
  /\ d \in CarryRuns /\ (d.ep <=> c.ep) /\ d.age = c.age /\ (d.in <=> w)
  /\ d.nets = c.nets /\ d.holds = c.holds /\ d.funding = c.funding
  /\ d.got = c.got + f /\ d.hold = c.hold + 1

LEMMA HourSet ==
  ASSUME NEW c \in CarryRuns, NEW f \in Int,
         NEW w \in BOOLEAN, NEW d, d = Collected(c, w, f)
  PROVE  Collects(c, d, w, f)
<1>1. d = [ep |-> c.ep, age |-> c.age, in |-> w, got |-> c.got + f, hold |-> c.hold + 1,
           nets |-> c.nets, holds |-> c.holds, funding |-> c.funding]
  BY DEF CarryRuns, Collected
<1>2. c.ep \in BOOLEAN /\ c.age \in Nat /\ c.got + f \in Int /\ c.hold + 1 \in Int
      /\ c.nets \in Seq(Int) /\ c.holds \in Seq(Int) /\ c.funding \in Int
  BY DEF CarryRuns
<1>. QED  BY <1>1, <1>2 DEF CarryRuns, Collects

EpisodeMoves(c, d, f) ==
  /\ d \in CarryRuns
  /\ ~c.ep /\ f < EnterRate => ~d.ep /\ d.age = c.age /\ SameBook(c, d)
  /\ ~c.ep /\ f >= EnterRate => d.ep /\ d.age = 1 /\ SameBook(c, d)
  /\ c.ep /\ f >= ExitRate => d.ep /\ d.age = c.age + 1 /\ SameBook(c, d)
  /\ c.ep /\ f < ExitRate => /\ ~d.ep /\ d.age = 0
                             /\ IF c.in THEN BooksClosed(c, d) ELSE SameBook(c, d)

LEMMA EpisodeMovesOn ==
  ASSUME NEW c \in CarryRuns, NEW f \in Int PROVE EpisodeMoves(c, CarryEpisode(c, f), f)
<1>. USE HysteresisAssumption
<1>1. CASE ~c.ep /\ f < EnterRate
  <2>1. CarryEpisode(c, f) = c
    BY <1>1 DEF CarryEpisode
  <2>. QED  BY <1>1, <2>1 DEF EpisodeMoves, SameBook
<1>2. CASE ~c.ep /\ f >= EnterRate
  <2>. DEFINE one == 1
              up == TRUE
              d == [c EXCEPT !.ep = TRUE, !.age = one]
  <2>1. CarryEpisode(c, f) = d /\ d = Flagged(c, up, one) /\ one \in Nat /\ up \in BOOLEAN
    BY <1>2 DEF CarryEpisode, Flagged
  <2>. HIDE DEF d, one, up
  <2>2. d \in CarryRuns /\ (d.ep <=> up) /\ d.age = one /\ SameBook(c, d)
    BY <2>1, FlagSet
  <2>3. d \in CarryRuns /\ d.ep /\ d.age = 1 /\ SameBook(c, d)
    BY <2>2 DEF one, up
  <2>. QED  BY <1>2, <2>1, <2>3 DEF EpisodeMoves
<1>3. CASE c.ep /\ f >= ExitRate
  <2>. DEFINE d == [c EXCEPT !.age = @ + 1]
  <2>1. CarryEpisode(c, f) = d
    BY <1>3 DEF CarryEpisode
  <2>2. d = [c EXCEPT !.age = @ + 1]
    OBVIOUS
  <2>. HIDE DEF d
  <2>3. d \in CarryRuns /\ (d.ep <=> c.ep) /\ d.age = c.age + 1 /\ SameBook(c, d)
    BY <2>2, AgeSet
  <2>. QED  BY <1>3, <2>1, <2>3 DEF EpisodeMoves
<1>4. CASE c.ep /\ f < ExitRate
  <2>. DEFINE z == Close(c)
              d == [z EXCEPT !.ep = FALSE, !.age = 0]
  <2>1. CarryEpisode(c, f) = d
    BY <1>4 DEF CarryEpisode
  <2>2. z \in CarryRuns /\ (~c.in => SameBook(c, z)) /\ (c.in => BooksClosed(c, z))
    BY CloseBooks
  <2>. HIDE DEF z
  <2>3. d \in CarryRuns /\ ~d.ep /\ d.age = 0 /\ SameBook(z, d)
    <3>. DEFINE zero == 0
                down == FALSE
    <3>1. d = Flagged(z, down, zero) /\ zero \in Nat /\ down \in BOOLEAN
      BY DEF Flagged
    <3>. HIDE DEF d, zero, down
    <3>2. d \in CarryRuns /\ (d.ep <=> down) /\ d.age = zero /\ SameBook(z, d)
      BY <2>2, <3>1, FlagSet
    <3>. QED  BY <3>2 DEF zero, down
  <2>. HIDE DEF d
  <2>4. IF c.in THEN BooksClosed(c, d) ELSE SameBook(c, d)
    BY <2>2, <2>3 DEF BooksClosed, SameBook
  <2>. QED  BY <1>4, <2>1, <2>3, <2>4 DEF EpisodeMoves
<1>5. c.ep \in BOOLEAN
  BY DEF CarryRuns
<1>. QED  BY <1>1, <1>2, <1>3, <1>4, <1>5

(* One hour of the backtest.                                                 *)
HourBooked(e, d, f, ripe) ==
  /\ d \in CarryRuns /\ (d.ep <=> e.ep) /\ d.age = e.age
  /\ d.in <=> e.in \/ (e.ep /\ e.age >= ripe)
  /\ d.nets = e.nets /\ d.holds = e.holds /\ d.funding = e.funding
  /\ d.got = IF d.in THEN e.got + f ELSE e.got
  /\ d.hold = IF d.in THEN e.hold + 1 ELSE e.hold

LEMMA HourIsBooked ==
  ASSUME NEW c \in CarryRuns, NEW f \in Int, NEW ripe \in Nat
  PROVE  HourBooked(CarryEpisode(c, f), CarryStep(c, f, ripe), f, ripe)
<1>. DEFINE e == CarryEpisode(c, f)
            d == [e EXCEPT !.in = TRUE, !.got = @ + f, !.hold = @ + 1]
<1>1. e \in CarryRuns
  BY EpisodeMovesOn DEF EpisodeMoves
<1>. HIDE DEF e
<1>2. /\ e.in \/ (e.ep /\ e.age >= ripe) => CarryStep(c, f, ripe) = d
      /\ ~(e.in \/ (e.ep /\ e.age >= ripe)) => CarryStep(c, f, ripe) = e
  BY DEF CarryStep, e
<1>3. /\ d \in CarryRuns /\ (d.ep <=> e.ep) /\ d.age = e.age /\ d.in
      /\ d.nets = e.nets /\ d.holds = e.holds /\ d.funding = e.funding
      /\ d.got = e.got + f /\ d.hold = e.hold + 1
  <2>. DEFINE w == TRUE
  <2>1. d = Collected(e, w, f) /\ w \in BOOLEAN /\ w
    BY DEF Collected
  <2>. HIDE DEF d, w
  <2>2. Collects(e, d, w, f)
    BY <1>1, <2>1, HourSet
  <2>. QED  BY <2>1, <2>2 DEF Collects
<1>. HIDE DEF d
<1>. QED  BY <1>1, <1>2, <1>3 DEF HourBooked, e
(* The sums, the counts and what was left of the episodes, one more at a time.*)
LEMMA NetAppend ==
  ASSUME NEW s \in Seq(Int), NEW x \in Int
  PROVE  Net(s) \in Int /\ Net(Append(s, x)) = Net(s) + x /\ Net(<<>>) = 0
<1>. DEFINE none == 0
<1>1. \A t : Net(t) = Folded("sum", none, none, t)
  BY DEF Net, Folded, FoldLeft, MapThenFoldSet, Advance
<1>2. none \in Int /\ \A a \in Int, y \in Int : Advance("sum", none, a, y) = a + y
  BY DEF Advance
<1>. HIDE DEF none
<1>3. Advances("sum", none, Int, Int)
  BY <1>2 DEF Advances
<1>4. /\ Folded("sum", none, none, s) \in Int
      /\ PassesOn("sum", none, none, s, x)
      /\ Folded("sum", none, none, <<>>) = none
  BY <1>2, <1>3, FoldedTyped, FoldedAppend, FoldedNone
<1>5. Net(<<>>) = none
  BY <1>1, <1>4
<1>. QED  BY <1>1, <1>2, <1>4, <1>5 DEF PassesOn, none

LEMMA TimeLeftAppend ==
  ASSUME NEW s \in Seq(Int), NEW d \in Int, NEW ripe \in Int
  PROVE  /\ TimeLeft(s, ripe) \in Seq(Int) /\ TimeLeft(<<>>, ripe) = <<>>
         /\ TimeLeft(Append(s, d), ripe) = Ripened(TimeLeft(s, ripe), d, ripe)
<1>. DEFINE none == <<>>
            S == Seq(Int)
<1>1. \A t : TimeLeft(t, ripe) = Folded("left", ripe, none, t)
  BY DEF TimeLeft, Folded, FoldLeft, MapThenFoldSet, Advance
<1>2. none \in S
  OBVIOUS
<1>3. ASSUME NEW a \in S, NEW y \in Int
      PROVE  Advance("left", ripe, a, y) = Ripened(a, y, ripe) /\ Ripened(a, y, ripe) \in S
  <2>1. y - ripe + 1 \in Int
    OBVIOUS
  <2>2. Append(a, y - ripe + 1) \in S
    BY <2>1
  <2>. QED  BY <2>2 DEF Advance, Ripened
<1>. HIDE DEF none, S
<1>4. Advances("left", ripe, S, Int)
  BY <1>3 DEF Advances
<1>5. /\ Folded("left", ripe, none, s) \in S
      /\ PassesOn("left", ripe, none, s, d)
      /\ Folded("left", ripe, none, <<>>) = none
  BY <1>2, <1>4, FoldedTyped, FoldedAppend, FoldedNone
<1>6. Folded("left", ripe, none, Append(s, d)) = Ripened(Folded("left", ripe, none, s), d, ripe)
  BY <1>3, <1>5 DEF PassesOn
<1>. QED  BY <1>1, <1>5, <1>6 DEF none, S

LEMMA LastingAppend ==
  ASSUME NEW s \in Seq(Int), NEW d \in Int, NEW n \in Int
  PROVE  /\ Lasting(s, n) \in Nat /\ Lasting(<<>>, n) = 0
         /\ Lasting(Append(s, d), n) = Lasting(s, n) + (IF d >= n THEN 1 ELSE 0)
<1>. DEFINE m == Append(s, d)
            len == Len(s)
            A == {i \in DOMAIN s : s[i] >= n}
            B == {i \in DOMAIN m : m[i] >= n}
<1>1. /\ len \in Nat /\ DOMAIN s = 1..len /\ DOMAIN m = 1..(len + 1)
      /\ (\A i \in 1..len : m[i] = s[i]) /\ m[len + 1] = d
  OBVIOUS
<1>. HIDE DEF m, len
<1>2. IsFiniteSet(A) /\ len + 1 \notin A
  <2>1. IsFiniteSet(1..len) /\ A \subseteq 1..len
    BY <1>1, FS_Interval
  <2>2. IsFiniteSet(A)
    <3>. HIDE DEF A
    <3>. QED  BY <2>1, FS_Subset
  <2>. QED  BY <1>1, <2>1, <2>2
<1>3. ASSUME NEW i PROVE i \in B <=> i \in A \/ (d >= n /\ i = len + 1)
  <2>1. i \in 1..(len + 1) <=> i \in 1..len \/ i = len + 1
    BY <1>1
  <2>2. len + 1 \notin 1..len
    BY <1>1
  <2>. QED  BY <1>1, <2>1, <2>2
<1>4. B = IF d >= n THEN A \cup {len + 1} ELSE A
  BY <1>3
<1>5. Cardinality(A) \in Nat /\ Cardinality(A \cup {len + 1}) = Cardinality(A) + 1
  <2>. HIDE DEF A, B
  <2>. QED  BY <1>2, FS_CardinalityType, FS_AddElement
<1>6. Lasting(<<>>, n) = 0
  <2>1. {i \in DOMAIN <<>> : <<>>[i] >= n} = {}
    OBVIOUS
  <2>. QED  BY <2>1, FS_EmptySet DEF Lasting
<1>7. Lasting(s, n) = Cardinality(A) /\ Lasting(m, n) = Cardinality(B)
  BY DEF Lasting
<1>. HIDE DEF A, B
<1>8. Lasting(m, n) = Lasting(s, n) + (IF d >= n THEN 1 ELSE 0)
  BY <1>4, <1>5, <1>7
<1>. QED  BY <1>5, <1>6, <1>7, <1>8 DEF m

Matched(out, holds, ripe) ==
  /\ out \in Seq(Int) /\ holds \in Seq(Int) /\ holds = TimeLeft(out, ripe)
  /\ Lasting(out, ripe) = Len(holds)
  /\ \A n \in Nat : Lasting(out, ripe + n) = Lasting(holds, n + 1)

LEMMA NoneMatched == ASSUME NEW ripe \in Int PROVE Matched(<<>>, <<>>, ripe)
<1>. DEFINE none == 0
<1>1. <<>> \in Seq(Int) /\ none \in Int /\ Len(<<>>) = 0
  OBVIOUS
<1>. HIDE DEF none
<1>2. TimeLeft(<<>>, ripe) = <<>>
  BY <1>1, TimeLeftAppend
<1>3. \A n \in Int : Lasting(<<>>, n) = 0
  BY <1>1, LastingAppend
<1>4. \A n \in Nat : ripe + n \in Int /\ n + 1 \in Int
  OBVIOUS
<1>. QED  BY <1>1, <1>2, <1>3, <1>4 DEF Matched

LEMMA MatchedAppend ==
  ASSUME NEW out, NEW holds, NEW ripe \in Int, NEW d \in Int, Matched(out, holds, ripe)
  PROVE  /\ d >= ripe => Matched(Append(out, d), Append(holds, d - ripe + 1), ripe)
         /\ d < ripe => Matched(Append(out, d), holds, ripe)
<1>. DEFINE h == d - ripe + 1
            more == Append(out, d)
            held == Append(holds, h)
<1>1. h \in Int /\ out \in Seq(Int) /\ holds \in Seq(Int) /\ more \in Seq(Int) /\ held \in Seq(Int)
  BY DEF Matched
<1>2. TimeLeft(more, ripe) = IF d >= ripe THEN held ELSE holds
  BY <1>1, TimeLeftAppend DEF Matched, Ripened
<1>3. Len(held) = Len(holds) + 1 /\ Len(holds) \in Nat
  BY <1>1
<1>4. \A n \in Int : /\ Lasting(out, n) \in Nat
                     /\ Lasting(more, n) = Lasting(out, n) + (IF d >= n THEN 1 ELSE 0)
  BY <1>1, LastingAppend
<1>5. \A n \in Int : /\ Lasting(holds, n) \in Nat
                     /\ Lasting(held, n) = Lasting(holds, n) + (IF h >= n THEN 1 ELSE 0)
  BY <1>1, LastingAppend
<1>6. \A n \in Nat : /\ ripe + n \in Int /\ n + 1 \in Int
                     /\ d >= ripe + n <=> h >= n + 1
                     /\ d >= ripe + n => d >= ripe
  OBVIOUS
<1>7. Lasting(more, ripe) = Len(holds) + (IF d >= ripe THEN 1 ELSE 0)
  BY <1>4 DEF Matched
<1>8. ASSUME NEW n \in Nat
      PROVE  Lasting(more, ripe + n) = IF d >= ripe THEN Lasting(held, n + 1) ELSE Lasting(holds, n + 1)
  <2>. HIDE DEF h, more, held
  <2>1. Lasting(out, ripe + n) = Lasting(holds, n + 1)
    BY DEF Matched
  <2>. QED  BY <1>4, <1>5, <1>6, <2>1
<1>. HIDE DEF h, more, held
<1>9. d >= ripe => Matched(more, held, ripe)
  BY <1>1, <1>2, <1>3, <1>7, <1>8 DEF Matched
<1>10. d < ripe => Matched(more, holds, ripe)
  BY <1>1, <1>2, <1>3, <1>7, <1>8 DEF Matched
<1>. QED  BY <1>9, <1>10 DEF h, more, held
(* The episodes of funding_persistence() and of the backtest.                *)
PersistRuns == [in : BOOLEAN, dur : Nat, out : Seq(Int)]
PersistMoves(p, q, f) ==
  /\ q \in PersistRuns
  /\ ~p.in /\ f < EnterRate => ~q.in /\ q.dur = p.dur /\ q.out = p.out
  /\ ~p.in /\ f >= EnterRate => q.in /\ q.dur = 1 /\ q.out = p.out
  /\ p.in /\ f >= ExitRate => q.in /\ q.dur = p.dur + 1 /\ q.out = p.out
  /\ p.in /\ f < ExitRate => ~q.in /\ q.dur = p.dur /\ q.out = Append(p.out, p.dur)

LEMMA PersistMovesOn ==
  ASSUME NEW p \in PersistRuns, NEW f \in Int PROVE PersistMoves(p, PersistStep(p, f), f)
<1>. USE HysteresisAssumption
<1>. DEFINE q == PersistStep(p, f)
            more == Append(p.out, p.dur)
<1>1. p.in \in BOOLEAN /\ p.dur \in Nat /\ p.out \in Seq(Int) /\ more \in Seq(Int)
  BY DEF PersistRuns
<1>3. CASE ~p.in /\ f < EnterRate
  <2>1. q = p
    BY <1>3 DEF PersistStep
  <2>. QED  BY <1>3, <2>1 DEF PersistMoves
<1>4. CASE ~p.in /\ f >= EnterRate
  <2>1. q = [p EXCEPT !.in = TRUE, !.dur = 1]
    BY <1>4 DEF PersistStep
  <2>. HIDE DEF q
  <2>2. q = [in |-> TRUE, dur |-> 1, out |-> p.out]
    BY <2>1 DEF PersistRuns
  <2>3. q \in PersistRuns
    BY <1>1, <2>2 DEF PersistRuns
  <2>. QED  BY <1>4, <2>2, <2>3 DEF PersistMoves, q
<1>5. CASE p.in /\ f >= ExitRate
  <2>1. q = [p EXCEPT !.dur = @ + 1]
    BY <1>5 DEF PersistStep
  <2>. HIDE DEF q
  <2>2. q = [in |-> TRUE, dur |-> p.dur + 1, out |-> p.out]
    BY <1>5, <2>1 DEF PersistRuns
  <2>3. q \in PersistRuns
    BY <1>1, <2>2 DEF PersistRuns
  <2>. QED  BY <1>5, <2>2, <2>3 DEF PersistMoves, q
<1>6. CASE p.in /\ f < ExitRate
  <2>1. q = [p EXCEPT !.in = FALSE, !.out = more]
    BY <1>6 DEF PersistStep
  <2>. HIDE DEF q, more
  <2>2. q = [in |-> FALSE, dur |-> p.dur, out |-> more]
    BY <2>1 DEF PersistRuns
  <2>3. q \in PersistRuns
    BY <1>1, <2>2 DEF PersistRuns
  <2>. QED  BY <1>6, <2>2, <2>3 DEF PersistMoves, q, more
<1>. QED  BY <1>1, <1>3, <1>4, <1>5, <1>6

SameEpisodes(b, p, ripe) ==
  /\ b \in CarryRuns /\ p \in PersistRuns
  /\ b.ep <=> p.in
  /\ IF p.in THEN b.age = p.dur /\ p.dur >= 1 ELSE b.age = 0
  /\ b.in <=> b.ep /\ b.age >= ripe
  /\ IF b.in THEN b.hold = b.age - ripe + 1 ELSE b.hold = 0 /\ b.got = 0
  /\ Matched(p.out, b.holds, ripe)
  /\ Net(b.nets) = b.funding - 2 * LegFee * Len(b.holds)

LEMMA FeesStep ==
  ASSUME NEW c \in CarryRuns, Net(c.nets) = c.funding - 2 * LegFee * Len(c.holds)
  PROVE  Net(Append(c.nets, c.got - 2 * LegFee))
           = (c.funding + c.got) - 2 * LegFee * Len(Append(c.holds, c.hold))
<1>. DEFINE net == c.got - 2 * LegFee
            n == Len(c.holds)
            fee == 2 * LegFee
<1>1. /\ net \in Int /\ c.nets \in Seq(Int) /\ n \in Nat /\ fee \in Int /\ net = c.got - fee
      /\ c.got \in Int /\ c.funding \in Int /\ c.holds \in Seq(Int) /\ c.hold \in Int
  BY HysteresisAssumption DEF CarryRuns
<1>. HIDE DEF net, fee
<1>2. Net(Append(c.nets, net)) = Net(c.nets) + net /\ Net(c.nets) \in Int
  BY <1>1, NetAppend
<1>3. Len(Append(c.holds, c.hold)) = n + 1
  BY <1>1
<1>. HIDE DEF n
<1>4. fee * (n + 1) = fee * n + fee
  BY <1>1
<1>5. Net(c.nets) = c.funding - fee * n
  BY DEF fee, n
<1>6. Net(Append(c.nets, net)) = (c.funding + c.got) - fee * (n + 1)
  <2>. DEFINE x == fee * n
              y == fee * (n + 1)
              sum == Net(Append(c.nets, net))
  <2>1. x \in Int /\ y = x + fee /\ sum = (c.funding - x) + net
    BY <1>1, <1>2, <1>4, <1>5
  <2>. HIDE DEF x, y, sum
  <2>2. sum = (c.funding + c.got) - y
    BY <1>1, <2>1
  <2>. QED  BY <2>2 DEF sum, y
<1>. QED  BY <1>3, <1>6 DEF net, fee

LEMMA EpisodesStay ==
  ASSUME NEW ripe \in Nat \ {0}, NEW b, NEW p, SameEpisodes(b, p, ripe), NEW f \in Int
  PROVE  SameEpisodes(CarryStep(b, f, ripe), PersistStep(p, f), ripe)
<1>. USE HysteresisAssumption
<1>. DEFINE e == CarryEpisode(b, f)
            d == CarryStep(b, f, ripe)
            q == PersistStep(p, f)
<1>. SUFFICES SameEpisodes(d, q, ripe)
  OBVIOUS
<1>1. b \in CarryRuns /\ p \in PersistRuns
  BY DEF SameEpisodes
<1>2. EpisodeMoves(b, e, f) /\ HourBooked(e, d, f, ripe) /\ PersistMoves(p, q, f)
  BY <1>1, EpisodeMovesOn, HourIsBooked, PersistMovesOn
<1>. HIDE DEF e, d, q
<1>3. /\ b.ep \in BOOLEAN /\ b.age \in Nat /\ b.in \in BOOLEAN /\ b.got \in Int /\ b.hold \in Int
      /\ p.in \in BOOLEAN /\ p.dur \in Nat
      /\ e \in CarryRuns /\ d \in CarryRuns /\ q \in PersistRuns
      /\ e.in \in BOOLEAN /\ d.in \in BOOLEAN /\ e.ep \in BOOLEAN /\ d.ep \in BOOLEAN
      /\ e.got \in Int /\ e.hold \in Int
  BY <1>1, <1>2 DEF CarryRuns, PersistRuns, EpisodeMoves, HourBooked, PersistMoves
<1>4. CASE ~b.ep /\ f < EnterRate
  <2>1. ~e.ep /\ e.age = 0 /\ SameBook(b, e) /\ ~e.in /\ ~q.in /\ q.out = p.out
    BY <1>2, <1>3, <1>4 DEF EpisodeMoves, PersistMoves, SameEpisodes, SameBook
  <2>2. ~d.in /\ ~d.ep /\ d.age = 0 /\ SameBook(b, d)
    BY <1>2, <1>3, <2>1 DEF HourBooked, SameBook
  <2>. QED  BY <1>3, <1>4, <2>1, <2>2 DEF SameEpisodes, SameBook
<1>5. CASE ~b.ep /\ f >= EnterRate
  <2>1. e.ep /\ e.age = 1 /\ SameBook(b, e) /\ ~e.in /\ q.in /\ q.dur = 1 /\ q.out = p.out
    BY <1>2, <1>3, <1>5 DEF EpisodeMoves, PersistMoves, SameEpisodes, SameBook
  <2>2. /\ d.ep /\ d.age = 1 /\ (d.in <=> 1 >= ripe)
        /\ d.holds = b.holds /\ d.nets = b.nets /\ d.funding = b.funding
        /\ IF d.in THEN d.hold = 1 ELSE d.hold = 0 /\ d.got = 0
    BY <1>2, <1>3, <1>5, <2>1 DEF HourBooked, SameBook, SameEpisodes
  <2>3. Matched(q.out, d.holds, ripe) /\ Net(d.nets) = d.funding - 2 * LegFee * Len(d.holds)
    BY <2>1, <2>2 DEF SameEpisodes
  <2>4. /\ d.in <=> d.ep /\ d.age >= ripe
        /\ IF d.in THEN d.hold = d.age - ripe + 1 ELSE d.hold = 0 /\ d.got = 0
    BY <1>3, <2>2
  <2>5. (d.ep <=> q.in) /\ (IF q.in THEN d.age = q.dur /\ q.dur >= 1 ELSE d.age = 0)
    BY <2>1, <2>2
  <2>. QED  BY <1>3, <2>3, <2>4, <2>5 DEF SameEpisodes
<1>6. CASE b.ep /\ f >= ExitRate
  <2>1. /\ e.ep /\ e.age = b.age + 1 /\ SameBook(b, e)
        /\ q.in /\ q.dur = p.dur + 1 /\ q.out = p.out /\ b.age = p.dur
    BY <1>2, <1>3, <1>6 DEF EpisodeMoves, PersistMoves, SameEpisodes
  <2>2. /\ d.ep /\ d.age = b.age + 1 /\ (d.in <=> b.age + 1 >= ripe)
        /\ d.holds = b.holds /\ d.nets = b.nets /\ d.funding = b.funding
        /\ IF d.in THEN d.hold = b.hold + 1 ELSE d.hold = 0 /\ d.got = 0
    BY <1>2, <1>3, <1>6, <2>1 DEF HourBooked, SameBook, SameEpisodes
  <2>3. d.in => d.hold = d.age - ripe + 1
    BY <1>3, <1>6, <2>2 DEF SameEpisodes
  <2>4. Matched(q.out, d.holds, ripe) /\ Net(d.nets) = d.funding - 2 * LegFee * Len(d.holds)
    BY <2>1, <2>2 DEF SameEpisodes
  <2>5. /\ d.in <=> d.ep /\ d.age >= ripe
        /\ IF d.in THEN d.hold = d.age - ripe + 1 ELSE d.hold = 0 /\ d.got = 0
    BY <2>2, <2>3
  <2>6. (d.ep <=> q.in) /\ (IF q.in THEN d.age = q.dur /\ q.dur >= 1 ELSE d.age = 0)
    BY <1>3, <2>1, <2>2
  <2>. QED  BY <1>3, <2>4, <2>5, <2>6 DEF SameEpisodes
<1>7. CASE b.ep /\ f < ExitRate
  <2>1. /\ ~e.ep /\ e.age = 0 /\ (IF b.in THEN BooksClosed(b, e) ELSE SameBook(b, e))
        /\ ~q.in /\ q.out = Append(p.out, p.dur) /\ b.age = p.dur
    BY <1>2, <1>3, <1>7 DEF EpisodeMoves, PersistMoves, SameEpisodes
  <2>2. ~e.in /\ e.hold = 0 /\ e.got = 0
    BY <1>3, <2>1 DEF BooksClosed, SameBook, SameEpisodes
  <2>3. /\ ~d.in /\ ~d.ep /\ d.age = 0 /\ d.hold = 0 /\ d.got = 0
        /\ d.holds = e.holds /\ d.nets = e.nets /\ d.funding = e.funding
    BY <1>2, <1>3, <2>1, <2>2 DEF HourBooked
  <2>4. b.in <=> p.dur >= ripe
    BY <1>7, <2>1 DEF SameEpisodes
  <2>5. Matched(p.out, b.holds, ripe) /\ p.dur \in Int /\ ripe \in Int
    BY <1>3 DEF SameEpisodes
  <2>6. CASE b.in
    <3>1. e.holds = Append(b.holds, b.hold) /\ b.hold = p.dur - ripe + 1
      BY <2>1, <2>6 DEF BooksClosed, SameEpisodes
    <3>2. Matched(q.out, d.holds, ripe)
      <4>1. p.dur >= ripe /\ d.holds = Append(b.holds, p.dur - ripe + 1)
        BY <2>3, <2>4, <2>6, <3>1
      <4>2. Matched(Append(p.out, p.dur), Append(b.holds, p.dur - ripe + 1), ripe)
        BY <2>5, <4>1, MatchedAppend
      <4>. QED  BY <2>1, <4>1, <4>2
    <3>3. Net(d.nets) = d.funding - 2 * LegFee * Len(d.holds)
      <4>1. Net(b.nets) = b.funding - 2 * LegFee * Len(b.holds)
        BY DEF SameEpisodes
      <4>2. e.nets = Append(b.nets, b.got - 2 * LegFee) /\ e.funding = b.funding + b.got
        BY <2>1, <2>6 DEF BooksClosed
      <4>3. Net(Append(b.nets, b.got - 2 * LegFee))
              = (b.funding + b.got) - 2 * LegFee * Len(Append(b.holds, b.hold))
        BY <1>1, <4>1, FeesStep
      <4>4. d.nets = Append(b.nets, b.got - 2 * LegFee) /\ d.holds = Append(b.holds, b.hold)
            /\ d.funding = b.funding + b.got
        BY <2>3, <3>1, <4>2
      <4>. QED  BY <4>3, <4>4
    <3>. QED  BY <1>3, <2>1, <2>3, <3>2, <3>3 DEF SameEpisodes
  <2>7. CASE ~b.in
    <3>1. Matched(q.out, d.holds, ripe)
      <4>1. p.dur < ripe /\ d.holds = b.holds
        BY <1>3, <2>1, <2>3, <2>4, <2>7 DEF SameBook
      <4>. QED  BY <2>1, <2>5, <4>1, MatchedAppend
    <3>. QED  BY <1>3, <2>1, <2>3, <2>7, <3>1 DEF SameEpisodes, SameBook
  <2>. QED  BY <1>3, <2>6, <2>7
<1>8. f \in Int /\ EnterRate \in Int /\ ExitRate \in Int
  OBVIOUS
<1>. QED  BY <1>3, <1>4, <1>5, <1>6, <1>7, <1>8
(* What one hour does to the backtest, by its position and the age.          *)
Kept(b, d) == d.holds = b.holds /\ d.nets = b.nets /\ d.funding = b.funding
BookMoves(b, d, f, ripe) ==
  /\ d.age = AdvanceAge(b.age, f)
  /\ b.in /\ d.age > 0 => d.in /\ d.got = b.got + f /\ d.hold = b.hold + 1 /\ Kept(b, d)
  /\ b.in /\ d.age = 0 => BooksClosed(b, d)
  /\ ~b.in /\ d.age >= ripe => d.in /\ d.got = f /\ d.hold = 1 /\ Kept(b, d)
  /\ ~b.in /\ d.age < ripe => ~d.in /\ d.got = 0 /\ d.hold = 0 /\ Kept(b, d)

LEMMA BookMovesOn ==
  ASSUME NEW ripe \in Nat \ {0}, NEW b, NEW p, SameEpisodes(b, p, ripe), NEW f \in Int
  PROVE  BookMoves(b, CarryStep(b, f, ripe), f, ripe)
<1>. USE HysteresisAssumption
<1>. DEFINE e == CarryEpisode(b, f)
            d == CarryStep(b, f, ripe)
<1>. SUFFICES BookMoves(b, d, f, ripe)
  OBVIOUS
<1>1. b \in CarryRuns /\ p \in PersistRuns
  BY DEF SameEpisodes
<1>2. EpisodeMoves(b, e, f) /\ HourBooked(e, d, f, ripe)
  BY <1>1, EpisodeMovesOn, HourIsBooked
<1>. HIDE DEF e, d
<1>3. /\ b.ep \in BOOLEAN /\ b.age \in Nat /\ b.in \in BOOLEAN /\ b.got \in Int /\ b.hold \in Int
      /\ p.dur \in Nat /\ e.in \in BOOLEAN /\ d.in \in BOOLEAN /\ e.ep \in BOOLEAN
  BY <1>1, <1>2 DEF CarryRuns, PersistRuns, EpisodeMoves, HourBooked
<1>4. /\ b.ep => b.age >= 1
      /\ ~b.ep => b.age = 0 /\ ~b.in
      /\ ~b.in => b.hold = 0 /\ b.got = 0
      /\ b.in <=> b.ep /\ b.age >= ripe
  BY <1>3 DEF SameEpisodes
<1>5. CASE ~b.ep /\ f < EnterRate
  <2>1. ~e.ep /\ e.age = 0 /\ SameBook(b, e) /\ ~e.in /\ ~b.in /\ b.age = 0
    BY <1>2, <1>3, <1>4, <1>5 DEF EpisodeMoves, SameBook
  <2>2. ~d.in /\ d.age = 0 /\ d.got = 0 /\ d.hold = 0 /\ Kept(b, d)
    BY <1>2, <1>3, <1>4, <2>1 DEF HourBooked, SameBook, Kept
  <2>3. AdvanceAge(b.age, f) = 0
    BY <1>5, <2>1 DEF AdvanceAge
  <2>. QED  BY <2>1, <2>2, <2>3 DEF BookMoves
<1>6. CASE ~b.ep /\ f >= EnterRate
  <2>1. e.ep /\ e.age = 1 /\ SameBook(b, e) /\ ~e.in /\ ~b.in /\ b.age = 0
    BY <1>2, <1>3, <1>4, <1>6 DEF EpisodeMoves, SameBook
  <2>2. /\ d.age = 1 /\ (d.in <=> 1 >= ripe) /\ Kept(b, d)
        /\ IF d.in THEN d.got = f /\ d.hold = 1 ELSE d.got = 0 /\ d.hold = 0
    BY <1>2, <1>3, <1>4, <2>1 DEF HourBooked, SameBook, Kept
  <2>3. AdvanceAge(b.age, f) = 1
    BY <1>6, <2>1 DEF AdvanceAge
  <2>. QED  BY <2>1, <2>2, <2>3 DEF BookMoves
<1>7. CASE b.ep /\ f >= ExitRate
  <2>1. e.ep /\ e.age = b.age + 1 /\ SameBook(b, e) /\ (e.in <=> b.in) /\ b.age >= 1
    BY <1>2, <1>3, <1>4, <1>7 DEF EpisodeMoves, SameBook
  <2>2. /\ d.age = b.age + 1 /\ (d.in <=> b.age + 1 >= ripe) /\ Kept(b, d)
        /\ IF d.in THEN d.got = b.got + f /\ d.hold = b.hold + 1 ELSE d.got = b.got /\ d.hold = b.hold
    BY <1>2, <1>3, <1>4, <2>1 DEF HourBooked, SameBook, Kept
  <2>3. AdvanceAge(b.age, f) = b.age + 1
    BY <1>3, <1>7, <2>1 DEF AdvanceAge
  <2>4. b.in => d.in
    BY <1>3, <1>4, <2>2
  <2>. QED  BY <1>3, <1>4, <2>2, <2>3, <2>4 DEF BookMoves
<1>8. CASE b.ep /\ f < ExitRate
  <2>1. /\ ~e.ep /\ e.age = 0 /\ b.age >= 1
        /\ (b.in => BooksClosed(b, e)) /\ (~b.in => SameBook(b, e))
    BY <1>2, <1>3, <1>4, <1>8 DEF EpisodeMoves
  <2>2. ~e.in /\ e.hold = 0 /\ e.got = 0
    BY <1>3, <1>4, <2>1 DEF BooksClosed, SameBook
  <2>3. ~d.in /\ d.age = 0 /\ d.hold = 0 /\ d.got = 0 /\ Kept(e, d)
    BY <1>2, <1>3, <2>1, <2>2 DEF HourBooked, Kept
  <2>4. (b.in => BooksClosed(b, d)) /\ (~b.in => Kept(b, d))
    BY <2>1, <2>3 DEF BooksClosed, SameBook, Kept
  <2>5. AdvanceAge(b.age, f) = 0
    BY <1>3, <1>8, <2>1 DEF AdvanceAge
  <2>. QED  BY <2>3, <2>4, <2>5 DEF BookMoves
<1>. QED  BY <1>3, <1>5, <1>6, <1>7, <1>8

(* The backtest without an age rule, beside the one with the age rule 1.     *)
FundingRuns == [age : Nat, held : Int, trades : Int, total : Int]
SameFunding(b, u, ripe) ==
  /\ u \in FundingRuns /\ u.age = b.age
  /\ ripe = 1 => /\ u.trades = Len(b.holds) + (IF b.in THEN 1 ELSE 0)
                 /\ u.held = Net(b.holds) + b.hold
                 /\ u.total = Net(b.nets) + (IF b.in THEN b.got - LegFee ELSE 0)

(* One hour of it, in the words of the other: its position is the age.       *)
FundingMoves(u, v, age, f) ==
  /\ v \in FundingRuns /\ v.age = age
  /\ u.age = 0 /\ age = 0 => v.held = u.held /\ v.trades = u.trades /\ v.total = u.total
  /\ u.age = 0 /\ age > 0 => /\ v.held = u.held + 1 /\ v.trades = u.trades + 1
                             /\ v.total = (u.total + f) - LegFee
  /\ u.age > 0 /\ age = 0 => v.held = u.held /\ v.trades = u.trades /\ v.total = u.total - LegFee
  /\ u.age > 0 /\ age > 0 => v.held = u.held + 1 /\ v.trades = u.trades /\ v.total = u.total + f

LEMMA FundingMovesOn ==
  ASSUME NEW u \in FundingRuns, NEW f \in Int
  PROVE  FundingMoves(u, FundingStep(u, f), AdvanceAge(u.age, f), f)
<1>. USE HysteresisAssumption
<1>. DEFINE age == AdvanceAge(u.age, f)
            held == u.held + (IF age > 0 THEN 1 ELSE 0)
            trades == u.trades + (IF age > 0 /\ u.age = 0 THEN 1 ELSE 0)
            fee == IF (age > 0) # (u.age > 0) THEN LegFee ELSE 0
            got == IF age > 0 THEN f ELSE 0
            total == u.total + got - fee
            v == FundingStep(u, f)
<1>1. u.age \in Nat /\ u.held \in Int /\ u.trades \in Int /\ u.total \in Int
  BY DEF FundingRuns
<1>2. age \in Nat
  BY <1>1 DEF AdvanceAge
<1>3. v = [age |-> age, held |-> held, trades |-> trades, total |-> total]
  BY DEF FundingStep
<1>. HIDE DEF age, v
<1>4. held \in Int /\ trades \in Int /\ got \in Int /\ fee \in Int
  BY <1>1, <1>2
<1>5. /\ u.age = 0 /\ age = 0 => held = u.held /\ trades = u.trades /\ fee = 0 /\ got = 0
      /\ u.age = 0 /\ age > 0 => held = u.held + 1 /\ trades = u.trades + 1 /\ fee = LegFee /\ got = f
      /\ u.age > 0 /\ age = 0 => held = u.held /\ trades = u.trades /\ fee = LegFee /\ got = 0
      /\ u.age > 0 /\ age > 0 => held = u.held + 1 /\ trades = u.trades /\ fee = 0 /\ got = f
  BY <1>1, <1>2
<1>. HIDE DEF held, trades, fee, got
<1>6. total \in Int /\ total = (u.total + got) - fee
  BY <1>1, <1>4
<1>. HIDE DEF total
<1>7. v \in FundingRuns /\ v.age = age /\ v.held = held /\ v.trades = trades /\ v.total = total
  BY <1>2, <1>3, <1>4, <1>6 DEF FundingRuns
<1>8. /\ u.age = 0 /\ age = 0 => total = u.total
      /\ u.age = 0 /\ age > 0 => total = (u.total + f) - LegFee
      /\ u.age > 0 /\ age = 0 => total = u.total - LegFee
      /\ u.age > 0 /\ age > 0 => total = u.total + f
  BY <1>1, <1>5, <1>6
<1>9. FundingMoves(u, v, age, f)
  BY <1>1, <1>2, <1>5, <1>7, <1>8 DEF FundingMoves
<1>. QED  BY <1>9 DEF age, v

LEMMA FundingStays ==
  ASSUME NEW ripe \in Nat \ {0}, NEW b, NEW p, SameEpisodes(b, p, ripe), NEW f \in Int,
         NEW u, SameFunding(b, u, ripe)
  PROVE  SameFunding(CarryStep(b, f, ripe), FundingStep(u, f), ripe)
<1>. USE HysteresisAssumption
<1>. DEFINE d == CarryStep(b, f, ripe)
            q == PersistStep(p, f)
            v == FundingStep(u, f)
            fee == 2 * LegFee
<1>. SUFFICES SameFunding(d, v, ripe)
  OBVIOUS
<1>1. BookMoves(b, d, f, ripe) /\ SameEpisodes(d, q, ripe)
  BY BookMovesOn, EpisodesStay
<1>2. u \in FundingRuns /\ u.age = b.age
  BY DEF SameFunding
<1>3. FundingMoves(u, v, AdvanceAge(u.age, f), f)
  BY <1>2, FundingMovesOn
<1>. HIDE DEF d, q, v
<1>4. b \in CarryRuns /\ d \in CarryRuns
  BY <1>1 DEF SameEpisodes
<1>5. /\ b.age \in Nat /\ d.age \in Nat /\ b.got \in Int /\ b.hold \in Int /\ b.in \in BOOLEAN
      /\ d.in \in BOOLEAN /\ b.holds \in Seq(Int) /\ b.nets \in Seq(Int)
  BY <1>4 DEF CarryRuns
<1>6. u.held \in Int /\ u.trades \in Int /\ u.total \in Int
  BY <1>2 DEF FundingRuns
<1>7. d.age = AdvanceAge(u.age, f)
  BY <1>1, <1>2 DEF BookMoves
<1>8. FundingMoves(u, v, d.age, f)
  BY <1>3, <1>7
<1>9. v \in FundingRuns /\ v.age = d.age
  BY <1>8 DEF FundingMoves
<1>10. fee \in Int /\ fee = LegFee + LegFee
  OBVIOUS
<1>. HIDE DEF fee
<1>11. ASSUME ripe = 1
      PROVE  /\ v.trades = Len(d.holds) + (IF d.in THEN 1 ELSE 0)
             /\ v.held = Net(d.holds) + d.hold
             /\ v.total = Net(d.nets) + (IF d.in THEN d.got - LegFee ELSE 0)
  <2>1. (b.in <=> u.age > 0) /\ (d.in <=> d.age > 0) /\ (b.in => b.age > 0)
    <3>1. (b.ep => b.age >= 1) /\ (~b.ep => b.age = 0) /\ (b.in <=> b.ep /\ b.age >= 1)
      BY <1>5, <1>11 DEF SameEpisodes
    <3>2. (d.ep => d.age >= 1) /\ (~d.ep => d.age = 0) /\ (d.in <=> d.ep /\ d.age >= 1)
      BY <1>1, <1>5, <1>11 DEF SameEpisodes
    <3>. QED  BY <1>2, <1>5, <3>1, <3>2
  <2>2. /\ u.trades = Len(b.holds) + (IF b.in THEN 1 ELSE 0)
        /\ u.held = Net(b.holds) + b.hold
        /\ u.total = Net(b.nets) + (IF b.in THEN b.got - LegFee ELSE 0)
    BY <1>11 DEF SameFunding
  <2>3. Net(b.holds) \in Int /\ Net(b.nets) \in Int /\ Len(b.holds) \in Nat
    <3>1. Net(b.holds) \in Int
      BY <1>5, NetAppend
    <3>2. Net(b.nets) \in Int
      BY <1>5, NetAppend
    <3>. QED  BY <1>5, <3>1, <3>2
  <2>4. CASE b.in /\ d.in
    <3>1. d.got = b.got + f /\ d.hold = b.hold + 1 /\ Kept(b, d)
      BY <1>1, <2>1, <2>4 DEF BookMoves
    <3>2. v.held = u.held + 1 /\ v.trades = u.trades /\ v.total = u.total + f
      BY <1>8, <2>1, <2>4 DEF FundingMoves
    <3>3. Net(d.holds) = Net(b.holds) /\ Net(d.nets) = Net(b.nets) /\ Len(d.holds) = Len(b.holds)
      BY <3>1 DEF Kept
    <3>4. v.trades = Len(d.holds) + 1
      BY <1>5, <2>2, <2>3, <2>4, <3>2, <3>3
    <3>5. v.held = Net(d.holds) + d.hold
      BY <1>5, <2>2, <2>3, <3>1, <3>2, <3>3
    <3>6. v.total = Net(d.nets) + (d.got - LegFee)
      BY <1>5, <2>2, <2>3, <2>4, <3>1, <3>2, <3>3
    <3>. QED  BY <2>4, <3>4, <3>5, <3>6
  <2>5. CASE b.in /\ ~d.in
    <3>0. d.age = 0
      BY <1>5, <2>1, <2>5
    <3>1. /\ d.nets = Append(b.nets, b.got - fee) /\ d.holds = Append(b.holds, b.hold) /\ d.hold = 0
      BY <1>1, <2>5, <3>0 DEF BookMoves, BooksClosed, fee
    <3>2. b.got - fee \in Int
      BY <1>5, <1>10
    <3>3. /\ Net(d.holds) = Net(b.holds) + b.hold /\ Net(d.nets) = Net(b.nets) + (b.got - fee)
      BY <1>5, <3>1, <3>2, NetAppend
    <3>4. Len(d.holds) = Len(b.holds) + 1
      BY <1>5, <3>1
    <3>5. v.held = u.held /\ v.trades = u.trades /\ v.total = u.total - LegFee
      BY <1>8, <2>1, <2>5, <3>0 DEF FundingMoves
    <3>6. v.trades = Len(d.holds)
      BY <1>5, <2>2, <2>3, <2>5, <3>4, <3>5
    <3>7. v.held = Net(d.holds) + d.hold
      BY <1>5, <2>2, <2>3, <3>1, <3>3, <3>5
    <3>8. v.total = Net(d.nets)
      BY <1>5, <1>10, <2>2, <2>3, <2>5, <3>3, <3>5
    <3>9. Len(d.holds) \in Nat
      BY <2>3, <3>4
    <3>10. Net(d.nets) \in Int
      BY <2>3, <3>2, <3>3
    <3>. QED  BY <2>5, <3>6, <3>7, <3>8, <3>9, <3>10
  <2>6. CASE ~b.in /\ d.in
    <3>0. u.age = 0 /\ d.age > 0 /\ d.age >= ripe
      BY <1>2, <1>5, <1>11, <2>1, <2>6
    <3>1. d.got = f /\ d.hold = 1 /\ Kept(b, d)
      BY <1>1, <2>6, <3>0 DEF BookMoves
    <3>2. b.hold = 0
      BY <2>6 DEF SameEpisodes
    <3>3. v.held = u.held + 1 /\ v.trades = u.trades + 1 /\ v.total = (u.total + f) - LegFee
      BY <1>8, <3>0 DEF FundingMoves
    <3>4. Net(d.holds) = Net(b.holds) /\ Net(d.nets) = Net(b.nets) /\ Len(d.holds) = Len(b.holds)
      BY <3>1 DEF Kept
    <3>5. v.trades = Len(d.holds) + 1
      BY <1>5, <2>2, <2>3, <2>6, <3>3, <3>4
    <3>6. v.held = Net(d.holds) + d.hold
      BY <1>5, <2>2, <2>3, <3>1, <3>2, <3>3, <3>4
    <3>7. v.total = Net(d.nets) + (d.got - LegFee)
      BY <1>5, <2>2, <2>3, <2>6, <3>1, <3>3, <3>4
    <3>. QED  BY <2>6, <3>5, <3>6, <3>7
  <2>7. CASE ~b.in /\ ~d.in
    <3>0. u.age = 0 /\ d.age = 0 /\ d.age < ripe
      BY <1>2, <1>5, <1>11, <2>1, <2>7
    <3>1. d.got = 0 /\ d.hold = 0 /\ Kept(b, d)
      BY <1>1, <2>7, <3>0 DEF BookMoves
    <3>2. b.hold = 0
      BY <2>7 DEF SameEpisodes
    <3>3. v.held = u.held /\ v.trades = u.trades /\ v.total = u.total
      BY <1>8, <3>0 DEF FundingMoves
    <3>4. Net(d.holds) = Net(b.holds) /\ Net(d.nets) = Net(b.nets) /\ Len(d.holds) = Len(b.holds)
      BY <3>1 DEF Kept
    <3>. QED  BY <1>5, <2>2, <2>3, <2>7, <3>1, <3>2, <3>3, <3>4
  <2>. QED  BY <1>5, <2>4, <2>5, <2>6, <2>7
<1>. QED  BY <1>9, <1>11 DEF SameFunding
(* The hours above break-even, beside the episodes they are part of.         *)
DutyRuns == [streak : Nat, best : Nat, on : Nat]
DutyMoves(g, h, f) ==
  /\ h \in DutyRuns
  /\ f >= EnterRate => h.streak = g.streak + 1 /\ h.on = g.on + 1 /\ h.best >= g.best /\ h.best >= h.streak
  /\ f < EnterRate => h.streak = 0 /\ h.on = g.on /\ h.best = g.best

LEMMA DutyMovesOn ==
  ASSUME NEW g \in DutyRuns, NEW f \in Int PROVE DutyMoves(g, DutyStep(g, f), f)
<1>. USE HysteresisAssumption
<1>. DEFINE streak == IF f >= EnterRate THEN g.streak + 1 ELSE 0
            best == IF streak > g.best THEN streak ELSE g.best
            on == g.on + (IF f >= EnterRate THEN 1 ELSE 0)
            h == DutyStep(g, f)
<1>1. g.streak \in Nat /\ g.best \in Nat /\ g.on \in Nat
  BY DEF DutyRuns
<1>2. h = [streak |-> streak, best |-> best, on |-> on]
  BY DEF DutyStep
<1>3. streak \in Nat /\ on \in Nat
  BY <1>1
<1>4. /\ f >= EnterRate => streak = g.streak + 1 /\ on = g.on + 1
      /\ f < EnterRate => streak = 0 /\ on = g.on
  BY <1>1
<1>. HIDE DEF h, streak, on
<1>5. best \in Nat /\ best >= g.best /\ best >= streak /\ (streak = 0 => best = g.best)
  BY <1>1, <1>3
<1>. HIDE DEF best
<1>6. h \in DutyRuns /\ h.streak = streak /\ h.best = best /\ h.on = on
  BY <1>2, <1>3, <1>5 DEF DutyRuns
<1>. QED  BY <1>4, <1>5, <1>6 DEF DutyMoves, h

HighTo(s, i) == \A j \in 1..i : s[j] >= EnterRate
SameDuty(s, p, g) ==
  /\ g \in DutyRuns
  /\ g.on <= Net(p.out) + (IF p.in THEN p.dur ELSE 0)
  /\ \A i \in 1..Len(s) : HighTo(s, i) => g.best >= i
  /\ HighTo(s, Len(s)) => g.streak = Len(s)

LEMMA DutyStays ==
  ASSUME NEW s \in Seq(Int), NEW f \in Int, NEW p \in PersistRuns, NEW g, SameDuty(s, p, g)
  PROVE  SameDuty(Append(s, f), PersistStep(p, f), DutyStep(g, f))
<1>. USE HysteresisAssumption
<1>. DEFINE h == DutyStep(g, f)
            q == PersistStep(p, f)
            n == Len(s)
            m == Append(s, f)
<1>. SUFFICES SameDuty(m, q, h)
  OBVIOUS
<1>1. g \in DutyRuns
  BY DEF SameDuty
<1>2. DutyMoves(g, h, f) /\ PersistMoves(p, q, f)
  BY <1>1, DutyMovesOn, PersistMovesOn
<1>3. /\ n \in Nat /\ Len(m) = n + 1 /\ m[n + 1] = f
      /\ \A i \in 1..n : m[i] = s[i] /\ s[i] \in Int
  BY AppendIs
<1>. HIDE DEF h, q, n, m
<1>4. /\ g.streak \in Nat /\ g.best \in Nat /\ g.on \in Nat /\ h \in DutyRuns
      /\ h.streak \in Nat /\ h.best \in Nat /\ h.on \in Nat
  BY <1>1, <1>2 DEF DutyRuns, DutyMoves
<1>5. p.in \in BOOLEAN /\ p.dur \in Nat /\ p.out \in Seq(Int)
  BY DEF PersistRuns
<1>6. h.on <= Net(q.out) + (IF q.in THEN q.dur ELSE 0)
  <2>. DEFINE sum == Net(p.out)
  <2>0. sum \in Int
    BY <1>5, NetAppend
  <2>1. g.on <= sum + (IF p.in THEN p.dur ELSE 0)
    BY DEF SameDuty
  <2>2. f >= EnterRate => h.on = g.on + 1
    BY <1>2 DEF DutyMoves
  <2>3. f < EnterRate => h.on = g.on
    BY <1>2 DEF DutyMoves
  <2>4. p.dur \in Int
    BY <1>5
  <2>5. Net(Append(p.out, p.dur)) = sum + p.dur
    BY <1>5, <2>4, NetAppend
  <2>6. CASE ~p.in /\ f < EnterRate
    <3>1. ~q.in /\ q.out = p.out
      BY <1>2, <2>6 DEF PersistMoves
    <3>2. Net(q.out) = sum
      BY <3>1
    <3>. HIDE DEF sum
    <3>. QED  BY <2>0, <1>4, <2>1, <2>3, <2>6, <3>1, <3>2
  <2>7. CASE ~p.in /\ f >= EnterRate
    <3>1. q.in /\ q.dur = 1 /\ q.out = p.out
      BY <1>2, <2>7 DEF PersistMoves
    <3>2. Net(q.out) = sum
      BY <3>1
    <3>. HIDE DEF sum
    <3>. QED  BY <2>0, <1>4, <2>1, <2>2, <2>7, <3>1, <3>2
  <2>8. CASE p.in /\ f >= ExitRate
    <3>1. q.in /\ q.dur = p.dur + 1 /\ q.out = p.out
      BY <1>2, <2>8 DEF PersistMoves
    <3>2. Net(q.out) = sum
      BY <3>1
    <3>3. h.on <= g.on + 1
      BY <1>4, <2>2, <2>3
    <3>. HIDE DEF sum
    <3>. QED  BY <2>0, <1>4, <1>5, <2>1, <2>8, <3>1, <3>2, <3>3
  <2>9. CASE p.in /\ f < ExitRate
    <3>1. ~q.in /\ q.out = Append(p.out, p.dur)
      BY <1>2, <2>9 DEF PersistMoves
    <3>2. Net(q.out) = sum + p.dur
      BY <2>5, <3>1
    <3>3. h.on = g.on
      BY <2>3, <2>9
    <3>. HIDE DEF sum
    <3>. QED  BY <2>0, <1>4, <1>5, <2>1, <2>9, <3>1, <3>2, <3>3
  <2>. QED  BY <1>5, <2>6, <2>7, <2>8, <2>9
<1>7. ASSUME NEW i \in 1..n PROVE HighTo(m, i) <=> HighTo(s, i)
  <2>1. \A j \in 1..i : j \in 1..n
    BY <1>3
  <2>. QED  BY <1>3, <2>1 DEF HighTo
<1>8. HighTo(m, n + 1) => HighTo(s, n) /\ f >= EnterRate
  <2>1. n + 1 \in 1..(n + 1) /\ \A j \in 1..n : j \in 1..(n + 1)
    BY <1>3
  <2>. QED  BY <1>3, <2>1 DEF HighTo
<1>9. HighTo(m, n + 1) => h.streak = n + 1
  <2>1. HighTo(s, n) => g.streak = n
    BY DEF SameDuty, n
  <2>. QED  BY <1>2, <1>8, <2>1 DEF DutyMoves
<1>10. h.best >= g.best
  BY <1>2, <1>4 DEF DutyMoves
<1>11. ASSUME NEW i \in 1..(n + 1), HighTo(m, i) PROVE h.best >= i
  <2>1. CASE i \in 1..n
    <3>1. g.best >= i
      BY <1>7, <1>11, <2>1 DEF SameDuty, n
    <3>. QED  BY <1>4, <1>10, <2>1, <3>1
  <2>2. CASE i = n + 1
    <3>1. h.streak = n + 1 /\ f >= EnterRate
      BY <1>8, <1>9, <1>11, <2>2
    <3>2. h.best >= h.streak
      BY <1>2, <3>1 DEF DutyMoves
    <3>. QED  BY <2>2, <3>1, <3>2
  <2>. QED  BY <1>3, <2>1, <2>2
<1>. QED  BY <1>3, <1>4, <1>6, <1>9, <1>11 DEF SameDuty
(* The lines of the book: what they paid, and how often it did what.         *)
Paid(c) == [i \in DOMAIN c |-> c[i].r]
Rated(c) == [i \in DOMAIN c |-> c[i].f]
PaysItsRate(e) == e \in CarryLines /\ e.r = ReturnFor(e.action, e.f)

LEMMA ColumnsAppend ==
  ASSUME NEW c \in Seq(CarryLines), NEW e \in CarryLines
  PROVE  /\ Paid(c) \in Seq(Int) /\ Paid(Append(c, e)) = Append(Paid(c), e.r) /\ e.r \in Int
         /\ Rated(c) \in Seq(Int) /\ Rated(Append(c, e)) = Append(Rated(c), e.f) /\ e.f \in Int
<1>. DEFINE n == Len(c)
            m == Append(c, e)
<1>1. /\ n \in Nat /\ DOMAIN c = 1..n /\ DOMAIN m = 1..(n + 1) /\ m[n + 1] = e
      /\ \A i \in 1..n : m[i] = c[i] /\ c[i] \in CarryLines
  OBVIOUS
<1>2. \A x \in CarryLines : x.r \in Int /\ x.f \in Int
  BY HysteresisAssumption DEF CarryLines
<1>. HIDE DEF n, m
<1>3. Paid(c) = [i \in 1..n |-> c[i].r] /\ Rated(c) = [i \in 1..n |-> c[i].f]
  BY <1>1 DEF Paid, Rated
<1>4. Paid(m) = [i \in 1..(n + 1) |-> m[i].r] /\ Rated(m) = [i \in 1..(n + 1) |-> m[i].f]
  BY <1>1 DEF Paid, Rated
<1>5. Paid(c) \in Seq(Int) /\ Len(Paid(c)) = n
  BY <1>1, <1>2, <1>3
<1>6. Rated(c) \in Seq(Int) /\ Len(Rated(c)) = n
  BY <1>1, <1>2, <1>3
<1>7. \A i \in 1..(n + 1) : i \in 1..n \/ i = n + 1
  BY <1>1
<1>8. Paid(m) = Append(Paid(c), e.r)
  <2>. DEFINE s == Paid(c)
              x == e.r
              t == Append(s, x)
  <2>1. x \in Int /\ s \in Seq(Int) /\ Len(s) = n
    BY <1>2, <1>5
  <2>2. t \in Seq(Int) /\ Len(t) = n + 1 /\ t[n + 1] = x /\ \A i \in 1..n : t[i] = s[i]
    <3>. DEFINE k == Len(s)
    <3>. HIDE DEF s, x
    <3>1. t \in Seq(Int) /\ Len(t) = k + 1 /\ t[k + 1] = x /\ \A i \in 1..k : t[i] = s[i]
      BY <2>1
    <3>. HIDE DEF t, k
    <3>2. k = n
      BY <2>1 DEF k
    <3>. QED  BY <3>1, <3>2
  <2>3. \A i \in 1..n : s[i] = c[i].r
    BY <1>3
  <2>. HIDE DEF s, t
  <2>4. \A i \in 1..(n + 1) : t[i] = m[i].r
    BY <1>1, <1>7, <2>2, <2>3
  <2>5. t = [i \in 1..(n + 1) |-> t[i]]
    BY <2>2
  <2>6. t = Paid(m)
    BY <1>4, <2>4, <2>5
  <2>. QED  BY <2>6 DEF t, s, x
<1>9. Rated(m) = Append(Rated(c), e.f)
  <2>. DEFINE s == Rated(c)
              x == e.f
              t == Append(s, x)
  <2>1. x \in Int /\ s \in Seq(Int) /\ Len(s) = n
    BY <1>2, <1>6
  <2>2. t \in Seq(Int) /\ Len(t) = n + 1 /\ t[n + 1] = x /\ \A i \in 1..n : t[i] = s[i]
    <3>. DEFINE k == Len(s)
    <3>. HIDE DEF s, x
    <3>1. t \in Seq(Int) /\ Len(t) = k + 1 /\ t[k + 1] = x /\ \A i \in 1..k : t[i] = s[i]
      BY <2>1
    <3>. HIDE DEF t, k
    <3>2. k = n
      BY <2>1 DEF k
    <3>. QED  BY <3>1, <3>2
  <2>3. \A i \in 1..n : s[i] = c[i].f
    BY <1>3
  <2>. HIDE DEF s, t
  <2>4. \A i \in 1..(n + 1) : t[i] = m[i].f
    BY <1>1, <1>7, <2>2, <2>3
  <2>5. t = [i \in 1..(n + 1) |-> t[i]]
    BY <2>2
  <2>6. t = Rated(m)
    BY <1>4, <2>4, <2>5
  <2>. QED  BY <2>6 DEF t, s, x
<1>. QED  BY <1>2, <1>5, <1>6, <1>8, <1>9 DEF m

(* The parts of the return: nothing is left for convergence.                 *)
PartRuns == [funding : Int, convergence : Int, fees : Int]
PartMoves(g, h, e) ==
  /\ h \in PartRuns /\ h.convergence = g.convergence
  /\ h.funding = g.funding + (IF e.action = "HOLD" THEN e.f ELSE 0)
  /\ h.funding + h.fees = (g.funding + g.fees) + e.r

LEMMA PartsAreTyped ==
  ASSUME NEW g \in PartRuns, NEW e \in CarryLines PROVE DecomposeStep(g, e) \in PartRuns
<1>. DEFINE h == DecomposeStep(g, e)
            fees == g.fees + e.r
            funding == g.funding + e.f
            rest == g.convergence + e.r - e.f
<1>1. /\ g.fees \in Int /\ g.funding \in Int /\ g.convergence \in Int /\ e.r \in Int /\ e.f \in Int
      /\ e.action \in CarryActions
      /\ g = [funding |-> g.funding, convergence |-> g.convergence, fees |-> g.fees]
  BY HysteresisAssumption DEF PartRuns, CarryLines
<1>2. fees \in Int /\ funding \in Int /\ rest \in Int
  BY <1>1
<1>3. CASE e.action = "ENTER" \/ e.action = "EXIT"
  <2>1. h = [g EXCEPT !.fees = fees]
    BY <1>3 DEF DecomposeStep
  <2>. HIDE DEF h, fees
  <2>2. h = [funding |-> g.funding, convergence |-> g.convergence, fees |-> fees]
    BY <2>1 DEF PartRuns
  <2>. QED  BY <1>1, <1>2, <2>2 DEF PartRuns, h
<1>4. CASE e.action = "HOLD"
  <2>1. h = [g EXCEPT !.funding = funding, !.convergence = rest]
    BY <1>4 DEF DecomposeStep
  <2>. HIDE DEF h, funding, rest
  <2>2. h = [funding |-> funding, convergence |-> rest, fees |-> g.fees]
    BY <2>1 DEF PartRuns
  <2>. QED  BY <1>1, <1>2, <2>2 DEF PartRuns, h
<1>5. CASE e.action = "FLAT"
  <2>1. h = g
    BY <1>5 DEF DecomposeStep
  <2>. QED  BY <2>1
<1>. QED  BY <1>1, <1>3, <1>4, <1>5 DEF CarryActions

LEMMA PartsMoveOn ==
  ASSUME NEW g \in PartRuns, NEW e, PaysItsRate(e) PROVE PartMoves(g, DecomposeStep(g, e), e)
<1>. DEFINE h == DecomposeStep(g, e)
<1>1. e \in CarryLines /\ e.r = ReturnFor(e.action, e.f)
  BY DEF PaysItsRate
<1>2. h \in PartRuns
  BY <1>1, PartsAreTyped
<1>3. /\ g.fees \in Int /\ g.funding \in Int /\ g.convergence \in Int /\ e.r \in Int /\ e.f \in Int
      /\ e.action \in CarryActions
  BY <1>1, HysteresisAssumption DEF PartRuns, CarryLines
<1>4. CASE e.action = "ENTER" \/ e.action = "EXIT"
  <2>1. h = [g EXCEPT !.fees = @ + e.r]
    BY <1>4 DEF DecomposeStep
  <2>. HIDE DEF h
  <2>2. h.fees = g.fees + e.r /\ h.funding = g.funding /\ h.convergence = g.convergence
    BY <2>1 DEF PartRuns
  <2>3. g.funding + (g.fees + e.r) = (g.funding + g.fees) + e.r
        /\ (IF e.action = "HOLD" THEN e.f ELSE 0) = 0 /\ g.funding + 0 = g.funding
    BY <1>3, <1>4
  <2>. QED  BY <1>2, <2>2, <2>3 DEF PartMoves, h
<1>5. CASE e.action = "HOLD"
  <2>1. h = [g EXCEPT !.funding = @ + e.f, !.convergence = @ + e.r - e.f]
    BY <1>5 DEF DecomposeStep
  <2>. HIDE DEF h
  <2>2. h.fees = g.fees /\ h.funding = g.funding + e.f /\ h.convergence = g.convergence + e.r - e.f
    BY <2>1 DEF PartRuns
  <2>3. e.r = e.f
    BY <1>1, <1>5 DEF ReturnFor
  <2>4. h.convergence = g.convergence
    BY <1>3, <2>2, <2>3
  <2>5. (g.funding + e.f) + g.fees = (g.funding + g.fees) + e.r
    BY <1>3, <2>3
  <2>. QED  BY <1>2, <1>5, <2>2, <2>4, <2>5 DEF PartMoves, h
<1>6. CASE e.action = "FLAT"
  <2>1. h = g
    BY <1>6 DEF DecomposeStep
  <2>2. e.r = 0
    BY <1>1, <1>6 DEF ReturnFor
  <2>3. (g.funding + g.fees) + 0 = g.funding + g.fees
        /\ (IF e.action = "HOLD" THEN e.f ELSE 0) = 0 /\ g.funding + 0 = g.funding
    BY <1>3, <1>6
  <2>. QED  BY <1>2, <2>1, <2>2, <2>3 DEF PartMoves
<1>. QED  BY <1>3, <1>4, <1>5, <1>6 DEF CarryActions

SameParts(c, g) ==
  g \in PartRuns /\ g.convergence = 0 /\ g.funding + g.fees = Net(Paid(c))

LEMMA PartsStay ==
  ASSUME NEW c \in Seq(CarryLines), NEW e, PaysItsRate(e), NEW g, SameParts(c, g)
  PROVE  SameParts(Append(c, e), DecomposeStep(g, e))
<1>. DEFINE h == DecomposeStep(g, e)
<1>1. PartMoves(g, h, e)
  BY PartsMoveOn DEF SameParts
<1>2. Paid(c) \in Seq(Int) /\ Paid(Append(c, e)) = Append(Paid(c), e.r) /\ e.r \in Int
  BY ColumnsAppend DEF PaysItsRate
<1>3. Net(Paid(Append(c, e))) = Net(Paid(c)) + e.r
  BY <1>2, NetAppend
<1>. HIDE DEF h
<1>4. h.funding + h.fees = Net(Paid(Append(c, e)))
  BY <1>1, <1>3 DEF PartMoves, SameParts
<1>. QED  BY <1>1, <1>4 DEF PartMoves, SameParts, h
(* How often the book did what, and the rates of the hours it entered in.    *)
LEMMA CountAppend ==
  ASSUME NEW c \in Seq(CarryLines), NEW e \in CarryLines, NEW a
  PROVE  /\ Cardinality(LinesOf(c, a)) \in Nat
         /\ Cardinality(LinesOf(Append(c, e), a))
              = Cardinality(LinesOf(c, a)) + (IF e.action = a THEN 1 ELSE 0)
         /\ LinesOf(Append(c, e), a)
              = IF e.action = a THEN LinesOf(c, a) \cup {Len(c) + 1} ELSE LinesOf(c, a)
         /\ IsFiniteSet(LinesOf(c, a)) /\ Len(c) + 1 \notin LinesOf(c, a) /\ LinesOf(c, a) \subseteq 1..Len(c)
<1>. DEFINE n == Len(c)
            o == n + 1
            m == Append(c, e)
            A == LinesOf(c, a)
<1>1. /\ n \in Nat /\ DOMAIN c = 1..n /\ DOMAIN m = 1..(n + 1) /\ m[n + 1] = e
      /\ \A k \in 1..n : m[k] = c[k]
  OBVIOUS
<1>. HIDE DEF m, n
<1>2. \A k : k \in 1..(n + 1) <=> k \in 1..n \/ k = n + 1
  BY <1>1
<1>3. ASSUME NEW k
      PROVE  k \in LinesOf(m, a) <=> k \in (IF e.action = a THEN A \cup {o} ELSE A)
  BY <1>1, <1>2 DEF LinesOf
<1>4. A \subseteq 1..n /\ o \notin 1..n
  BY <1>1 DEF LinesOf
<1>5. IsFiniteSet(A)
  <2>. HIDE DEF A
  <2>1. IsFiniteSet(1..n)
    BY <1>1, FS_Interval
  <2>. QED  BY <1>4, <2>1, FS_Subset
<1>. HIDE DEF A, o
<1>6. LinesOf(m, a) = IF e.action = a THEN A \cup {o} ELSE A
  BY <1>3
<1>7. Cardinality(A) \in Nat /\ Cardinality(A \cup {o}) = Cardinality(A) + 1
  BY <1>4, <1>5, FS_CardinalityType, FS_AddElement
<1>8. Cardinality(LinesOf(m, a)) = Cardinality(A) + (IF e.action = a THEN 1 ELSE 0)
  BY <1>6, <1>7
<1>. QED  BY <1>4, <1>5, <1>6, <1>7, <1>8 DEF n, m, A, o

RatesIn(c) == SumFunctionOnSet([i \in LinesOf(c, "ENTER") |-> c[i].f], LinesOf(c, "ENTER"))

LEMMA RatesInAppend ==
  ASSUME NEW c \in Seq(CarryLines), NEW e \in CarryLines
  PROVE  /\ RatesIn(c) \in Int
         /\ e.action = "ENTER" => RatesIn(Append(c, e)) = RatesIn(c) + e.f
         /\ e.action # "ENTER" => RatesIn(Append(c, e)) = RatesIn(c)
<1>. DEFINE n == Len(c)
            o == n + 1
            m == Append(c, e)
            A == LinesOf(c, "ENTER")
            B == LinesOf(m, "ENTER")
            w == [i \in A |-> c[i].f]
            v == [i \in B |-> m[i].f]
<1>1. /\ n \in Nat /\ m[o] = e /\ e.f \in Int
      /\ \A k \in 1..n : m[k] = c[k] /\ c[k] \in CarryLines /\ c[k].f \in Int
  <2>1. n \in Nat /\ m[o] = e /\ \A k \in 1..n : m[k] = c[k] /\ c[k] \in CarryLines
    OBVIOUS
  <2>2. \A x \in CarryLines : x.f \in Int
    BY HysteresisAssumption DEF CarryLines
  <2>. HIDE DEF m, n, o
  <2>. QED  BY <2>1, <2>2
<1>. HIDE DEF m, n
<1>2. /\ IsFiniteSet(A) /\ A \subseteq 1..n /\ o \notin A
      /\ e.action = "ENTER" => B = A \cup {o}
      /\ e.action # "ENTER" => B = A
  BY CountAppend DEF m, n
<1>. HIDE DEF A, B, o
<1>3. \A i \in A : w[i] \in Int /\ (i \in B => v[i] = w[i])
  BY <1>1, <1>2
<1>4. RatesIn(c) = SumFunctionOnSet(w, A) /\ RatesIn(m) = SumFunctionOnSet(v, B)
  BY DEF RatesIn, A, B
<1>5. o \in B => v[o] = e.f
  BY <1>1
<1>. HIDE DEF w, v
<1>6. SumFunctionOnSet(w, A) \in Int
  BY <1>2, <1>3, SumInt
<1>7. ASSUME e.action = "ENTER" PROVE RatesIn(m) = RatesIn(c) + e.f
  <2>1. B = A \cup {o} /\ v[o] \in Int /\ v[o] = e.f /\ (\A i \in A : v[i] \in Int /\ v[i] = w[i])
    BY <1>1, <1>2, <1>3, <1>5, <1>7
  <2>2. SumFunctionOnSet(v, A \cup {o}) = SumFunctionOnSet(v, A) + v[o]
    BY <1>2, <2>1, SumAdd
  <2>3. SumFunctionOnSet(w, A) = SumFunctionOnSet(v, A)
    BY <1>2, <1>3, <2>1, SumSame
  <2>. QED  BY <1>4, <2>1, <2>2, <2>3
<1>8. ASSUME e.action # "ENTER" PROVE RatesIn(m) = RatesIn(c)
  <2>1. B = A /\ (\A i \in A : v[i] = w[i])
    BY <1>2, <1>3, <1>8
  <2>2. SumFunctionOnSet(w, A) = SumFunctionOnSet(v, A)
    BY <1>2, <1>3, <2>1, SumSame
  <2>. QED  BY <1>4, <2>1, <2>2
<1>. QED  BY <1>4, <1>6, <1>7, <1>8 DEF m

(* Where no entry was vetoed, the book and the backtest do the same.         *)
Free(c) == \A i \in DOMAIN c : ~c[i].vetoed
SameActs(c, b, g) ==
  /\ InLast(c) <=> b.in
  /\ Cardinality(LinesOf(c, "ENTER")) = Len(b.holds) + (IF b.in THEN 1 ELSE 0)
  /\ Cardinality(LinesOf(c, "ENTER")) + Cardinality(LinesOf(c, "HOLD")) = Net(b.holds) + b.hold
  /\ g.funding + RatesIn(c) = b.funding + b.got

LEMMA ActsStay ==
  ASSUME NEW ripe \in Nat \ {0}, NEW c \in Seq(CarryLines), NEW b, NEW p, SameEpisodes(b, p, ripe),
         b.age = AgeLast(c), NEW f \in Int, NEW g \in PartRuns, NEW e, PaysItsRate(e), ~e.vetoed,
         LineGoesOn(e, f, InLast(c), AdvanceAge(AgeLast(c), f), ripe), SameActs(c, b, g)
  PROVE  SameActs(Append(c, e), CarryStep(b, f, ripe), DecomposeStep(g, e))
<1>. DEFINE d == CarryStep(b, f, ripe)
            h == DecomposeStep(g, e)
            q == PersistStep(p, f)
            m == Append(c, e)
            enters == Cardinality(LinesOf(c, "ENTER"))
            holds == Cardinality(LinesOf(c, "HOLD"))
            fees == 2 * LegFee
<1>. SUFFICES SameActs(m, d, h)
  OBVIOUS
<1>1. BookMoves(b, d, f, ripe) /\ PartMoves(g, h, e) /\ SameEpisodes(d, q, ripe)
  BY BookMovesOn, PartsMoveOn, EpisodesStay
<1>. HIDE DEF d, h, q
<1>2. b \in CarryRuns /\ d \in CarryRuns /\ e \in CarryLines /\ h \in PartRuns
  BY <1>1 DEF SameEpisodes, PaysItsRate, PartMoves
<1>3. /\ b.in \in BOOLEAN /\ d.in \in BOOLEAN /\ b.got \in Int /\ b.hold \in Int /\ b.funding \in Int
      /\ b.holds \in Seq(Int) /\ b.age \in Nat /\ d.age \in Nat
  BY <1>2 DEF CarryRuns
<1>4. g.funding \in Int /\ h.funding \in Int
  BY <1>2 DEF PartRuns
<1>5. InLast(m) <=> e.action = "ENTER" \/ e.action = "HOLD"
  <2>1. m # <<>> /\ m[Len(m)] = e
    BY <1>2
  <2>. QED  BY <2>1 DEF InLast
<1>6. /\ enters \in Nat /\ holds \in Nat
      /\ Cardinality(LinesOf(m, "ENTER")) = enters + (IF e.action = "ENTER" THEN 1 ELSE 0)
      /\ Cardinality(LinesOf(m, "HOLD")) = holds + (IF e.action = "HOLD" THEN 1 ELSE 0)
  <2>. DEFINE x == "ENTER"
              y == "HOLD"
  <2>. HIDE DEF x, y
  <2>1. /\ Cardinality(LinesOf(c, x)) \in Nat
        /\ Cardinality(LinesOf(m, x)) = Cardinality(LinesOf(c, x)) + (IF e.action = x THEN 1 ELSE 0)
    BY <1>2, CountAppend
  <2>2. /\ Cardinality(LinesOf(c, y)) \in Nat
        /\ Cardinality(LinesOf(m, y)) = Cardinality(LinesOf(c, y)) + (IF e.action = y THEN 1 ELSE 0)
    BY <1>2, CountAppend
  <2>. QED  BY <2>1, <2>2 DEF x, y
<1>7. /\ RatesIn(c) \in Int
      /\ e.action = "ENTER" => RatesIn(m) = RatesIn(c) + e.f
      /\ e.action # "ENTER" => RatesIn(m) = RatesIn(c)
  BY <1>2, RatesInAppend
<1>8. Net(b.holds) \in Int /\ Len(b.holds) \in Nat
  <2>1. Net(b.holds) \in Int
    BY <1>3, NetAppend
  <2>. QED  BY <1>3, <2>1
<1>9. /\ h.funding = g.funding + (IF e.action = "HOLD" THEN e.f ELSE 0)
  BY <1>1 DEF PartMoves
<1>10. /\ InLast(c) <=> b.in
       /\ enters = Len(b.holds) + (IF b.in THEN 1 ELSE 0)
       /\ enters + holds = Net(b.holds) + b.hold
       /\ g.funding + RatesIn(c) = b.funding + b.got
  BY DEF SameActs
<1>11. d.age = AdvanceAge(AgeLast(c), f)
  BY <1>1 DEF BookMoves
<1>12. e.f = f /\ LineGoesOn(e, f, InLast(c), d.age, ripe)
  BY <1>11 DEF LineGoesOn
<1>13. ~b.in => b.hold = 0 /\ b.got = 0
  BY DEF SameEpisodes
<1>14. (d.in <=> d.ep /\ d.age >= ripe)
  BY <1>1 DEF SameEpisodes
<1>. HIDE DEF m, enters, holds
<1>15. CASE b.in /\ d.age > 0
  <2>1. e.action = "HOLD"
    BY <1>10, <1>12, <1>15 DEF LineGoesOn
  <2>2. d.in /\ d.got = b.got + f /\ d.hold = b.hold + 1 /\ d.holds = b.holds /\ d.funding = b.funding
    BY <1>1, <1>15 DEF BookMoves, Kept
  <2>3. InLast(m) /\ Cardinality(LinesOf(m, "ENTER")) = enters /\ Cardinality(LinesOf(m, "HOLD")) = holds + 1
        /\ RatesIn(m) = RatesIn(c) /\ h.funding = g.funding + f
    BY <1>5, <1>6, <1>7, <1>9, <1>12, <2>1
  <2>4. Cardinality(LinesOf(m, "ENTER")) = Len(d.holds) + (IF d.in THEN 1 ELSE 0)
    BY <1>10, <1>15, <2>2, <2>3
  <2>5. Cardinality(LinesOf(m, "ENTER")) + Cardinality(LinesOf(m, "HOLD")) = Net(d.holds) + d.hold
    <3>1. Net(d.holds) = Net(b.holds)
      BY <2>2
    <3>2. enters + (holds + 1) = Net(b.holds) + (b.hold + 1)
      <4>1. enters + holds = Net(b.holds) + b.hold
        BY <1>10
      <4>. DEFINE x == Net(b.holds)
                  y == b.hold
      <4>2. x \in Int /\ y \in Int /\ enters \in Int /\ holds \in Int /\ enters + holds = x + y
        BY <1>3, <1>6, <1>8, <4>1
      <4>. HIDE DEF x, y
      <4>3. enters + (holds + 1) = x + (y + 1)
        BY <4>2
      <4>. QED  BY <4>3 DEF x, y
    <3>. QED  BY <2>2, <2>3, <3>1, <3>2
  <2>6. h.funding + RatesIn(m) = d.funding + d.got
    <3>1. (g.funding + f) + RatesIn(c) = b.funding + (b.got + f)
      <4>. DEFINE x == g.funding
                  y == RatesIn(c)
                  z == b.funding
                  w == b.got
      <4>1. x + y = z + w
        BY <1>10
      <4>2. x \in Int /\ y \in Int /\ z \in Int /\ w \in Int
        BY <1>3, <1>4, <1>7
      <4>. HIDE DEF x, y, z, w
      <4>3. (x + f) + y = z + (w + f)
        BY <4>1, <4>2
      <4>. QED  BY <4>3 DEF x, y, z, w
    <3>. QED  BY <2>2, <2>3, <3>1
  <2>. QED  BY <2>2, <2>3, <2>4, <2>5, <2>6 DEF SameActs
<1>16. CASE b.in /\ d.age = 0
  <2>1. e.action = "EXIT"
    BY <1>10, <1>12, <1>16 DEF LineGoesOn
  <2>2. /\ ~d.in /\ d.got = 0 /\ d.hold = 0 /\ d.holds = Append(b.holds, b.hold)
        /\ d.funding = b.funding + b.got
    BY <1>1, <1>16 DEF BookMoves, BooksClosed
  <2>3. ~InLast(m) /\ Cardinality(LinesOf(m, "ENTER")) = enters /\ Cardinality(LinesOf(m, "HOLD")) = holds
        /\ RatesIn(m) = RatesIn(c) /\ h.funding = g.funding
    BY <1>4, <1>5, <1>6, <1>7, <1>9, <2>1
  <2>4. Len(d.holds) = Len(b.holds) + 1
    BY <1>3, <2>2
  <2>5. Net(d.holds) = Net(b.holds) + b.hold
    BY <1>3, <2>2, NetAppend
  <2>6. Cardinality(LinesOf(m, "ENTER")) = Len(d.holds) + (IF d.in THEN 1 ELSE 0)
    BY <1>8, <1>10, <1>16, <2>2, <2>3, <2>4
  <2>7. Cardinality(LinesOf(m, "ENTER")) + Cardinality(LinesOf(m, "HOLD")) = Net(d.holds) + d.hold
    <3>1. enters + holds = Net(d.holds)
      BY <1>10, <2>5
    <3>2. enters + holds \in Int /\ Net(d.holds) + 0 = Net(d.holds)
      BY <1>6, <3>1
    <3>. QED  BY <2>2, <2>3, <3>1, <3>2
  <2>8. h.funding + RatesIn(m) = d.funding + d.got
    <3>1. h.funding + RatesIn(m) = d.funding
      BY <1>10, <2>2, <2>3
    <3>2. d.funding + 0 = d.funding
      BY <1>3, <2>2
    <3>. QED  BY <2>2, <3>1, <3>2
  <2>. QED  BY <2>2, <2>3, <2>6, <2>7, <2>8 DEF SameActs
<1>17. CASE ~b.in /\ d.age >= ripe
  <2>1. e.action = "ENTER"
    BY <1>10, <1>12, <1>17 DEF LineGoesOn
  <2>2. d.in /\ d.got = f /\ d.hold = 1 /\ d.holds = b.holds /\ d.funding = b.funding
    BY <1>1, <1>17 DEF BookMoves, Kept
  <2>3. InLast(m) /\ Cardinality(LinesOf(m, "ENTER")) = enters + 1 /\ Cardinality(LinesOf(m, "HOLD")) = holds
        /\ RatesIn(m) = RatesIn(c) + f /\ h.funding = g.funding
    BY <1>4, <1>5, <1>6, <1>7, <1>9, <1>12, <2>1
  <2>4. Cardinality(LinesOf(m, "ENTER")) = Len(d.holds) + (IF d.in THEN 1 ELSE 0)
    BY <1>8, <1>10, <1>17, <2>2, <2>3
  <2>5. Cardinality(LinesOf(m, "ENTER")) + Cardinality(LinesOf(m, "HOLD")) = Net(d.holds) + d.hold
    <3>1. Net(d.holds) = Net(b.holds) /\ enters + holds = Net(b.holds)
      BY <1>8, <1>10, <1>13, <1>17, <2>2
    <3>2. (enters + 1) + holds = Net(b.holds) + 1
      BY <1>6, <1>8, <3>1
    <3>. QED  BY <2>2, <2>3, <3>1, <3>2
  <2>6. h.funding + RatesIn(m) = d.funding + d.got
    <3>1. g.funding + RatesIn(c) = b.funding
      BY <1>3, <1>10, <1>13, <1>17
    <3>. QED  BY <1>3, <1>4, <1>7, <2>2, <2>3, <3>1
  <2>. QED  BY <2>2, <2>3, <2>4, <2>5, <2>6 DEF SameActs
<1>18. CASE ~b.in /\ d.age < ripe
  <2>1. e.action = "FLAT"
    BY <1>10, <1>12, <1>18 DEF LineGoesOn
  <2>2. ~d.in /\ d.got = 0 /\ d.hold = 0 /\ d.holds = b.holds /\ d.funding = b.funding
    BY <1>1, <1>18 DEF BookMoves, Kept
  <2>3. ~InLast(m) /\ Cardinality(LinesOf(m, "ENTER")) = enters /\ Cardinality(LinesOf(m, "HOLD")) = holds
        /\ RatesIn(m) = RatesIn(c) /\ h.funding = g.funding
    BY <1>4, <1>5, <1>6, <1>7, <1>9, <2>1
  <2>4. Cardinality(LinesOf(m, "ENTER")) = Len(d.holds) + (IF d.in THEN 1 ELSE 0)
    BY <1>8, <1>10, <1>18, <2>2, <2>3
  <2>5. Cardinality(LinesOf(m, "ENTER")) + Cardinality(LinesOf(m, "HOLD")) = Net(d.holds) + d.hold
    <3>1. Net(d.holds) = Net(b.holds) /\ enters + holds = Net(b.holds) + d.hold
      BY <1>10, <1>13, <1>18, <2>2
    <3>. QED  BY <2>3, <3>1
  <2>6. h.funding + RatesIn(m) = d.funding + d.got
    BY <1>10, <1>13, <1>18, <2>2, <2>3
  <2>. QED  BY <2>2, <2>3, <2>4, <2>5, <2>6 DEF SameActs
<1>. QED  BY <1>3, <1>15, <1>16, <1>17, <1>18
(* The books at the end of the series: what is open is closed.               *)
Lengths(p) == IF p.in THEN Append(p.out, p.dur) ELSE p.out
EndsAs(b, z, p, durations, ripe) ==
  /\ Matched(durations, z.holds, ripe)
  /\ Net(z.nets) = z.funding - 2 * LegFee * Len(z.holds)
  /\ Len(z.holds) = Len(b.holds) + (IF b.in THEN 1 ELSE 0)
  /\ Net(z.holds) = Net(b.holds) + b.hold
  /\ z.funding = b.funding + b.got
  /\ Net(z.nets) = Net(b.nets) + (IF b.in THEN b.got - 2 * LegFee ELSE 0)
  /\ Net(durations) = Net(p.out) + (IF p.in THEN p.dur ELSE 0)

LEMMA BooksClose ==
  ASSUME NEW ripe \in Nat \ {0}, NEW b, NEW p, SameEpisodes(b, p, ripe)
  PROVE  EndsAs(b, Close(b), p, Lengths(p), ripe)
<1>. DEFINE z == Close(b)
            out == Lengths(p)
            net == b.got - 2 * LegFee
<1>. SUFFICES EndsAs(b, z, p, out, ripe)
  OBVIOUS
<1>1. b \in CarryRuns /\ p \in PersistRuns
  BY DEF SameEpisodes
<1>2. (~b.in => SameBook(b, z)) /\ (b.in => BooksClosed(b, z))
  BY <1>1, CloseBooks
<1>. HIDE DEF z
<1>3. /\ b.in \in BOOLEAN /\ b.got \in Int /\ b.hold \in Int /\ b.funding \in Int /\ b.ep \in BOOLEAN
      /\ b.holds \in Seq(Int) /\ b.nets \in Seq(Int) /\ b.age \in Nat /\ net \in Int
  BY <1>1, HysteresisAssumption DEF CarryRuns
<1>4. p.in \in BOOLEAN /\ p.dur \in Nat /\ p.dur \in Int /\ p.out \in Seq(Int)
  BY <1>1 DEF PersistRuns
<1>5. /\ b.in => p.in /\ b.hold = p.dur - ripe + 1 /\ p.dur >= ripe
      /\ p.in /\ ~b.in => p.dur < ripe
      /\ ~b.in => b.hold = 0 /\ b.got = 0
  BY <1>3, <1>4 DEF SameEpisodes
<1>6. Matched(p.out, b.holds, ripe) /\ Net(b.nets) = b.funding - 2 * LegFee * Len(b.holds) /\ ripe \in Int
  BY DEF SameEpisodes
<1>7. Net(b.holds) \in Int /\ Net(b.nets) \in Int /\ Net(p.out) \in Int /\ Len(b.holds) \in Nat
  <2>1. Net(b.holds) \in Int
    BY <1>3, NetAppend
  <2>2. Net(b.nets) \in Int
    BY <1>3, NetAppend
  <2>3. Net(p.out) \in Int
    BY <1>4, NetAppend
  <2>. QED  BY <1>3, <2>1, <2>2, <2>3
<1>8. Net(out) = Net(p.out) + (IF p.in THEN p.dur ELSE 0)
  <2>1. CASE p.in
    <3>1. out = Append(p.out, p.dur)
      BY <2>1 DEF Lengths
    <3>2. Net(Append(p.out, p.dur)) = Net(p.out) + p.dur
      BY <1>4, NetAppend
    <3>. HIDE DEF out
    <3>. QED  BY <2>1, <3>1, <3>2
  <2>2. CASE ~p.in
    BY <1>7, <2>2 DEF Lengths
  <2>. QED  BY <1>4, <2>1, <2>2
<1>9. CASE b.in
  <2>1. z.nets = Append(b.nets, net) /\ z.holds = Append(b.holds, b.hold) /\ z.funding = b.funding + b.got
    BY <1>2, <1>9 DEF BooksClosed
  <2>2. out = Append(p.out, p.dur)
    BY <1>5, <1>9 DEF Lengths
  <2>3. Matched(out, z.holds, ripe)
    <3>1. p.dur >= ripe /\ z.holds = Append(b.holds, p.dur - ripe + 1)
      BY <1>5, <1>9, <2>1
    <3>. HIDE DEF out
    <3>2. Matched(Append(p.out, p.dur), Append(b.holds, p.dur - ripe + 1), ripe)
      BY <1>4, <1>6, <3>1, MatchedAppend
    <3>. QED  BY <2>2, <3>1, <3>2
  <2>4. Net(z.nets) = z.funding - 2 * LegFee * Len(z.holds)
    <3>1. Net(Append(b.nets, b.got - 2 * LegFee))
            = (b.funding + b.got) - 2 * LegFee * Len(Append(b.holds, b.hold))
      BY <1>1, <1>6, FeesStep
    <3>. QED  BY <2>1, <3>1
  <2>. HIDE DEF net, out
  <2>5. Net(z.nets) = Net(b.nets) + net
    BY <1>3, <2>1, NetAppend
  <2>6. Net(z.holds) = Net(b.holds) + b.hold
    BY <1>3, <2>1, NetAppend
  <2>7. Len(z.holds) = Len(b.holds) + 1
    BY <1>3, <2>1
  <2>8. Len(z.holds) = Len(b.holds) + (IF b.in THEN 1 ELSE 0)
    BY <1>9, <2>7
  <2>9. Net(z.nets) = Net(b.nets) + (IF b.in THEN b.got - 2 * LegFee ELSE 0)
    BY <1>9, <2>5 DEF net
  <2>. QED  BY <1>8, <2>1, <2>3, <2>4, <2>6, <2>8, <2>9 DEF EndsAs
<1>10. CASE ~b.in
  <2>1. z.nets = b.nets /\ z.holds = b.holds /\ z.funding = b.funding /\ b.hold = 0 /\ b.got = 0
    BY <1>2, <1>5, <1>10 DEF SameBook
  <2>2. Matched(out, z.holds, ripe)
    <3>1. CASE p.in
      <4>1. p.dur < ripe /\ out = Append(p.out, p.dur)
        BY <1>5, <1>10, <3>1 DEF Lengths
      <4>. HIDE DEF out
      <4>2. Matched(Append(p.out, p.dur), b.holds, ripe)
        BY <1>4, <1>6, <4>1, MatchedAppend
      <4>. QED  BY <2>1, <4>1, <4>2
    <3>2. CASE ~p.in
      BY <1>6, <2>1, <3>2 DEF Lengths
    <3>. QED  BY <1>4, <3>1, <3>2
  <2>. HIDE DEF out
  <2>3. Net(z.nets) = z.funding - 2 * LegFee * Len(z.holds)
    BY <1>6, <2>1
  <2>4. Len(z.holds) = Len(b.holds) + (IF b.in THEN 1 ELSE 0)
    BY <1>7, <1>10, <2>1
  <2>5. Net(z.nets) = Net(b.nets) + (IF b.in THEN b.got - 2 * LegFee ELSE 0)
    <3>1. Net(z.nets) = Net(b.nets) + 0
      BY <1>7, <2>1
    <3>. QED  BY <1>10, <3>1
  <2>6. Net(z.holds) = Net(b.holds) + b.hold
    <3>1. Net(z.holds) = Net(b.holds) + 0
      BY <1>7, <2>1
    <3>. QED  BY <2>1, <3>1
  <2>7. z.funding = b.funding + b.got
    <3>1. b.funding = b.funding + 0
      BY <1>3
    <3>. QED  BY <2>1, <3>1
  <2>. QED  BY <1>8, <2>2, <2>3, <2>4, <2>5, <2>6, <2>7 DEF EndsAs
<1>. QED  BY <1>3, <1>9, <1>10
(* All of it, for the lines a ledger has.                                    *)
BookRun(c, ripe) == Folded("carry", ripe, CarryStart, Rated(c))
PersistRun(c) == Folded("persist", 0, [in |-> FALSE, dur |-> 0, out |-> <<>>], Rated(c))
FundingRun(c) == Folded("funding", 0, [age |-> 0, held |-> 0, trades |-> 0, total |-> 0], Rated(c))
DutyRun(c) == Folded("duty", 0, [streak |-> 0, best |-> 0, on |-> 0], Rated(c))
PartRun(c) == Folded("parts", 0, [funding |-> 0, convergence |-> 0, fees |-> 0], c)

LEMMA RunsBegin ==
  /\ CarryStart \in CarryRuns /\ [in |-> FALSE, dur |-> 0, out |-> <<>>] \in PersistRuns
  /\ [age |-> 0, held |-> 0, trades |-> 0, total |-> 0] \in FundingRuns
  /\ [streak |-> 0, best |-> 0, on |-> 0] \in DutyRuns
  /\ [funding |-> 0, convergence |-> 0, fees |-> 0] \in PartRuns
  BY DEF CarryStart, CarryRuns, PersistRuns, FundingRuns, DutyRuns, PartRuns

LEMMA RunsAdvance ==
  ASSUME NEW ripe \in Nat
  PROVE  /\ Advances("carry", ripe, CarryRuns, Int) /\ Advances("persist", 0, PersistRuns, Int)
         /\ Advances("funding", 0, FundingRuns, Int) /\ Advances("duty", 0, DutyRuns, Int)
         /\ Advances("parts", 0, PartRuns, CarryLines)
<1>1. \A b \in CarryRuns, f \in Int : Advance("carry", ripe, b, f) \in CarryRuns
  BY HourIsBooked DEF Advance, HourBooked
<1>2. \A p \in PersistRuns, f \in Int : Advance("persist", 0, p, f) \in PersistRuns
  BY PersistMovesOn DEF Advance, PersistMoves
<1>3. \A u \in FundingRuns, f \in Int : Advance("funding", 0, u, f) \in FundingRuns
  BY FundingMovesOn DEF Advance, FundingMoves
<1>4. \A g \in DutyRuns, f \in Int : Advance("duty", 0, g, f) \in DutyRuns
  BY DutyMovesOn DEF Advance, DutyMoves
<1>5. \A g \in PartRuns, e \in CarryLines : Advance("parts", 0, g, e) \in PartRuns
  BY PartsAreTyped DEF Advance
<1>. QED  BY <1>1, <1>2, <1>3, <1>4, <1>5 DEF Advances

RunsMove(c, e, ripe) ==
  /\ BookRun(Append(c, e), ripe) = CarryStep(BookRun(c, ripe), e.f, ripe)
  /\ PersistRun(Append(c, e)) = PersistStep(PersistRun(c), e.f)
  /\ FundingRun(Append(c, e)) = FundingStep(FundingRun(c), e.f)
  /\ DutyRun(Append(c, e)) = DutyStep(DutyRun(c), e.f)
  /\ PartRun(Append(c, e)) = DecomposeStep(PartRun(c), e)

LEMMA RunsMoveOn ==
  ASSUME NEW ripe \in Nat, NEW c \in Seq(CarryLines), NEW e \in CarryLines PROVE RunsMove(c, e, ripe)
<1>. DEFINE s == Rated(c)
            f == e.f
            z == 0
            a1 == CarryStart
            a2 == [in |-> FALSE, dur |-> 0, out |-> <<>>]
            a3 == [age |-> 0, held |-> 0, trades |-> 0, total |-> 0]
            a4 == [streak |-> 0, best |-> 0, on |-> 0]
            a5 == [funding |-> 0, convergence |-> 0, fees |-> 0]
<1>1. s \in Seq(Int) /\ f \in Int /\ Rated(Append(c, e)) = Append(s, f)
  BY ColumnsAppend
<1>2. a1 \in CarryRuns /\ a2 \in PersistRuns /\ a3 \in FundingRuns /\ a4 \in DutyRuns /\ a5 \in PartRuns
  BY RunsBegin
<1>3. /\ Advances("carry", ripe, CarryRuns, Int) /\ Advances("persist", z, PersistRuns, Int)
      /\ Advances("funding", z, FundingRuns, Int) /\ Advances("duty", z, DutyRuns, Int)
      /\ Advances("parts", z, PartRuns, CarryLines)
  BY RunsAdvance
<1>4. /\ BookRun(c, ripe) = Folded("carry", ripe, a1, s)
      /\ BookRun(Append(c, e), ripe) = Folded("carry", ripe, a1, Append(s, f))
      /\ PersistRun(c) = Folded("persist", z, a2, s)
      /\ PersistRun(Append(c, e)) = Folded("persist", z, a2, Append(s, f))
      /\ FundingRun(c) = Folded("funding", z, a3, s)
      /\ FundingRun(Append(c, e)) = Folded("funding", z, a3, Append(s, f))
      /\ DutyRun(c) = Folded("duty", z, a4, s)
      /\ DutyRun(Append(c, e)) = Folded("duty", z, a4, Append(s, f))
      /\ PartRun(c) = Folded("parts", z, a5, c)
      /\ PartRun(Append(c, e)) = Folded("parts", z, a5, Append(c, e))
  BY <1>1 DEF BookRun, PersistRun, FundingRun, DutyRun, PartRun
<1>. HIDE DEF s, f, z, a1, a2, a3, a4, a5
<1>5. PassesOn("carry", ripe, a1, s, f)
  BY <1>1, <1>2, <1>3, FoldedAppend
<1>6. PassesOn("persist", z, a2, s, f)
  BY <1>1, <1>2, <1>3, FoldedAppend
<1>7. PassesOn("funding", z, a3, s, f)
  BY <1>1, <1>2, <1>3, FoldedAppend
<1>8. PassesOn("duty", z, a4, s, f)
  BY <1>1, <1>2, <1>3, FoldedAppend
<1>9. PassesOn("parts", z, a5, c, e)
  BY <1>2, <1>3, FoldedAppend
<1>10. BookRun(Append(c, e), ripe) = CarryStep(BookRun(c, ripe), f, ripe)
  BY <1>4, <1>5 DEF PassesOn, Advance
<1>11. PersistRun(Append(c, e)) = PersistStep(PersistRun(c), f)
  BY <1>4, <1>6 DEF PassesOn, Advance
<1>12. FundingRun(Append(c, e)) = FundingStep(FundingRun(c), f)
  BY <1>4, <1>7 DEF PassesOn, Advance
<1>13. DutyRun(Append(c, e)) = DutyStep(DutyRun(c), f)
  BY <1>4, <1>8 DEF PassesOn, Advance
<1>14. PartRun(Append(c, e)) = DecomposeStep(PartRun(c), e)
  BY <1>4, <1>9 DEF PassesOn, Advance
<1>. QED  BY <1>10, <1>11, <1>12, <1>13, <1>14 DEF RunsMove, f

LEMMA RunsStart ==
  ASSUME NEW ripe \in Nat
  PROVE  /\ BookRun(<<>>, ripe) = CarryStart
         /\ PersistRun(<<>>) = [in |-> FALSE, dur |-> 0, out |-> <<>>]
         /\ FundingRun(<<>>) = [age |-> 0, held |-> 0, trades |-> 0, total |-> 0]
         /\ DutyRun(<<>>) = [streak |-> 0, best |-> 0, on |-> 0]
         /\ PartRun(<<>>) = [funding |-> 0, convergence |-> 0, fees |-> 0]
<1>. DEFINE z == 0
            a1 == CarryStart
            a2 == [in |-> FALSE, dur |-> 0, out |-> <<>>]
            a3 == [age |-> 0, held |-> 0, trades |-> 0, total |-> 0]
            a4 == [streak |-> 0, best |-> 0, on |-> 0]
            a5 == [funding |-> 0, convergence |-> 0, fees |-> 0]
<1>1. Rated(<<>>) = <<>>
  BY DEF Rated
<1>2. a1 \in CarryRuns /\ a2 \in PersistRuns /\ a3 \in FundingRuns /\ a4 \in DutyRuns /\ a5 \in PartRuns
  BY RunsBegin
<1>3. /\ Advances("carry", ripe, CarryRuns, Int) /\ Advances("persist", z, PersistRuns, Int)
      /\ Advances("funding", z, FundingRuns, Int) /\ Advances("duty", z, DutyRuns, Int)
      /\ Advances("parts", z, PartRuns, CarryLines)
  BY RunsAdvance
<1>4. /\ BookRun(<<>>, ripe) = Folded("carry", ripe, a1, <<>>)
      /\ PersistRun(<<>>) = Folded("persist", z, a2, <<>>)
      /\ FundingRun(<<>>) = Folded("funding", z, a3, <<>>)
      /\ DutyRun(<<>>) = Folded("duty", z, a4, <<>>)
      /\ PartRun(<<>>) = Folded("parts", z, a5, <<>>)
  BY <1>1 DEF BookRun, PersistRun, FundingRun, DutyRun, PartRun
<1>. HIDE DEF z, a1, a2, a3, a4, a5
<1>5. Folded("carry", ripe, a1, <<>>) = a1 /\ Folded("persist", z, a2, <<>>) = a2
  BY <1>2, <1>3, FoldedNone
<1>6. Folded("funding", z, a3, <<>>) = a3 /\ Folded("duty", z, a4, <<>>) = a4
  BY <1>2, <1>3, FoldedNone
<1>7. Folded("parts", z, a5, <<>>) = a5
  BY <1>2, <1>3, FoldedNone
<1>8. BookRun(<<>>, ripe) = a1 /\ PersistRun(<<>>) = a2 /\ FundingRun(<<>>) = a3 /\ DutyRun(<<>>) = a4
      /\ PartRun(<<>>) = a5
  BY <1>4, <1>5, <1>6, <1>7
<1>. QED  BY <1>8 DEF a1, a2, a3, a4, a5
(* What every ledger of the paper carry keeps to.                            *)
EpisodesKept(c, ripe) ==
  /\ CarryOK(c, ripe)
  /\ SameEpisodes(BookRun(c, ripe), PersistRun(c), ripe)
  /\ SameFunding(BookRun(c, ripe), FundingRun(c), ripe)
  /\ SameDuty(Rated(c), PersistRun(c), DutyRun(c))
  /\ SameParts(c, PartRun(c))
  /\ BookRun(c, ripe).age = AgeLast(c)
  /\ Free(c) => SameActs(c, BookRun(c, ripe), PartRun(c))

LEMMA NoEpisodesYet == ASSUME NEW ripe \in Nat \ {0} PROVE EpisodesKept(<<>>, ripe)
<1>. DEFINE b == CarryStart
            p == [in |-> FALSE, dur |-> 0, out |-> <<>>]
            u == [age |-> 0, held |-> 0, trades |-> 0, total |-> 0]
            h == [streak |-> 0, best |-> 0, on |-> 0]
            g == [funding |-> 0, convergence |-> 0, fees |-> 0]
            none == 0
            nil == <<>>
<1>1. /\ BookRun(<<>>, ripe) = b /\ PersistRun(<<>>) = p /\ FundingRun(<<>>) = u /\ DutyRun(<<>>) = h
      /\ PartRun(<<>>) = g
  BY RunsStart
<1>2. b \in CarryRuns /\ p \in PersistRuns /\ u \in FundingRuns /\ h \in DutyRuns /\ g \in PartRuns
  BY RunsBegin
<1>3. Net(<<>>) = 0
  <2>1. <<>> \in Seq(Int) /\ none \in Int
    OBVIOUS
  <2>. HIDE DEF none
  <2>. QED  BY <2>1, NetAppend
<1>4. Rated(<<>>) = <<>> /\ Paid(<<>>) = <<>> /\ Len(<<>>) = 0
  BY DEF Rated, Paid
<1>5. CarryOK(<<>>, ripe)
  <2>1. <<>> \in Seq(CarryLines) /\ 1..0 = {}
    OBVIOUS
  <2>. QED  BY <1>4, <2>1 DEF CarryOK
<1>6. /\ ~b.ep /\ b.age = 0 /\ ~b.in /\ b.got = 0 /\ b.hold = 0 /\ b.nets = nil /\ b.holds = nil /\ b.funding = 0
      /\ ~p.in /\ p.dur = 0 /\ p.out = nil
  BY DEF CarryStart
<1>7. /\ u.age = 0 /\ u.held = 0 /\ u.trades = 0 /\ u.total = 0 /\ h.streak = 0 /\ h.best = 0 /\ h.on = 0
      /\ g.funding = 0 /\ g.convergence = 0 /\ g.fees = 0
  OBVIOUS
<1>. HIDE DEF b, p, u, h, g
<1>8. SameEpisodes(b, p, ripe)
  <2>1. Matched(nil, nil, ripe)
    BY NoneMatched
  <2>2. 2 * LegFee * Len(nil) = 0
    <3>. DEFINE fee == 2 * LegFee
    <3>1. fee \in Int
      BY HysteresisAssumption
    <3>. HIDE DEF fee
    <3>2. fee * 0 = 0
      BY <3>1
    <3>. QED  BY <1>4, <3>2 DEF fee
  <2>3. Net(nil) = 0 - 2 * LegFee * Len(nil)
    BY <1>3, <2>2
  <2>. HIDE DEF nil
  <2>. QED  BY <1>2, <1>6, <2>1, <2>3 DEF SameEpisodes
<1>9. SameFunding(b, u, ripe)
  BY <1>2, <1>3, <1>4, <1>6, <1>7 DEF SameFunding
<1>10. SameDuty(<<>>, p, h)
  BY <1>2, <1>3, <1>4, <1>6, <1>7 DEF SameDuty
<1>11. SameParts(<<>>, g)
  BY <1>2, <1>3, <1>4, <1>7 DEF SameParts
<1>12. SameActs(<<>>, b, g)
  <2>1. LinesOf(<<>>, "ENTER") = {} /\ LinesOf(<<>>, "HOLD") = {}
    BY DEF LinesOf
  <2>2. Cardinality({}) = 0
    BY FS_EmptySet
  <2>3. RatesIn(<<>>) = 0
    BY <2>1, SumEmpty DEF RatesIn
  <2>4. ~InLast(<<>>)
    BY DEF InLast
  <2>5. Len(b.holds) = 0 /\ Net(b.holds) = 0 /\ ~b.in /\ b.hold = 0 /\ b.funding = 0 /\ b.got = 0
    BY <1>3, <1>4, <1>6
  <2>6. Cardinality(LinesOf(<<>>, "ENTER")) = 0 /\ Cardinality(LinesOf(<<>>, "HOLD")) = 0
    BY <2>1, <2>2
  <2>7. Cardinality(LinesOf(<<>>, "ENTER")) = Len(b.holds) + (IF b.in THEN 1 ELSE 0)
    BY <2>5, <2>6
  <2>8. Cardinality(LinesOf(<<>>, "ENTER")) + Cardinality(LinesOf(<<>>, "HOLD")) = Net(b.holds) + b.hold
    BY <2>5, <2>6
  <2>9. g.funding + RatesIn(<<>>) = b.funding + b.got
    BY <1>7, <2>3, <2>5
  <2>. QED  BY <2>4, <2>5, <2>7, <2>8, <2>9 DEF SameActs
<1>13. b.age = AgeLast(<<>>)
  BY <1>6 DEF AgeLast
<1>. QED  BY <1>1, <1>4, <1>5, <1>8, <1>9, <1>10, <1>11, <1>12, <1>13 DEF EpisodesKept

LEMMA EpisodesGoOn ==
  ASSUME NEW c, NEW ripe, EpisodesKept(c, ripe), NEW e, PaysItsRate(e), NEW f \in Rates,
         LineGoesOn(e, f, InLast(c), AdvanceAge(AgeLast(c), f), ripe)
  PROVE  EpisodesKept(Append(c, e), ripe)
<1>. DEFINE m == Append(c, e)
            b == BookRun(c, ripe)
            p == PersistRun(c)
            u == FundingRun(c)
            h == DutyRun(c)
            g == PartRun(c)
            d == CarryStep(b, f, ripe)
            q == PersistStep(p, f)
            v == FundingStep(u, f)
            k == DutyStep(h, f)
            w == DecomposeStep(g, e)
<1>1. /\ c \in Seq(CarryLines) /\ ripe \in Nat \ {0} /\ e \in CarryLines /\ e.f = f /\ f \in Int
      /\ e.age = AdvanceAge(AgeLast(c), f)
  BY HysteresisAssumption DEF EpisodesKept, CarryOK, LineGoesOn
<1>2. /\ SameEpisodes(b, p, ripe) /\ SameFunding(b, u, ripe) /\ SameDuty(Rated(c), p, h) /\ SameParts(c, g)
      /\ b.age = AgeLast(c) /\ (Free(c) => SameActs(c, b, g))
  BY DEF EpisodesKept
<1>3. BookRun(m, ripe) = d /\ PersistRun(m) = q /\ FundingRun(m) = v /\ DutyRun(m) = k /\ PartRun(m) = w
  BY <1>1, RunsMoveOn DEF RunsMove
<1>4. Rated(c) \in Seq(Int) /\ Rated(m) = Append(Rated(c), f)
  BY <1>1, ColumnsAppend
<1>5. p \in PersistRuns /\ g \in PartRuns
  BY <1>2 DEF SameEpisodes, SameParts
<1>. HIDE DEF b, p, u, h, g
<1>6. CarryOK(m, ripe)
  BY CarryGrows DEF EpisodesKept
<1>7. SameEpisodes(d, q, ripe)
  BY <1>1, <1>2, EpisodesStay
<1>8. SameFunding(d, v, ripe)
  BY <1>1, <1>2, FundingStays
<1>9. SameDuty(Rated(m), q, k)
  BY <1>1, <1>2, <1>4, <1>5, DutyStays
<1>10. SameParts(m, w)
  BY <1>1, <1>2, PartsStay
<1>11. d.age = AgeLast(m)
  <2>1. d.age = AdvanceAge(b.age, f)
    BY <1>1, <1>2, BookMovesOn DEF BookMoves
  <2>2. m # <<>> /\ m[Len(m)] = e
    BY <1>1
  <2>. QED  BY <1>1, <1>2, <2>1, <2>2 DEF AgeLast
<1>12. ASSUME Free(m) PROVE SameActs(m, d, w)
  <2>1. Free(c) /\ ~e.vetoed
    <3>1. /\ DOMAIN c = 1..Len(c) /\ DOMAIN m = 1..(Len(c) + 1) /\ Len(c) \in Nat /\ m[Len(c) + 1] = e
          /\ \A i \in 1..Len(c) : m[i] = c[i]
      BY <1>1
    <3>. HIDE DEF m
    <3>2. Len(c) + 1 \in 1..(Len(c) + 1) /\ \A i \in 1..Len(c) : i \in 1..(Len(c) + 1)
      BY <3>1
    <3>. QED  BY <1>12, <3>1, <3>2 DEF Free
  <2>2. SameActs(c, b, g)
    BY <1>2, <2>1
  <2>. QED  BY <1>1, <1>2, <1>5, <2>1, <2>2, ActsStay
<1>. HIDE DEF m, d, q, v, k, w
<1>13. EpisodesKept(m, ripe)
  BY <1>3, <1>6, <1>7, <1>8, <1>9, <1>10, <1>11, <1>12 DEF EpisodesKept
<1>. QED  BY <1>13 DEF m

EpisodesInv == minAge \in MinAges /\ EpisodesKept(carry, AtLeastOne(minAge))

LEMMA InitEpisodes == ShadowInit => EpisodesInv
<1>. SUFFICES ASSUME ShadowInit PROVE EpisodesInv
  OBVIOUS
<1>1. carry = <<>> /\ minAge \in MinAges /\ AtLeastOne(minAge) \in Nat \ {0}
  BY HysteresisAssumption DEF ShadowInit, AtLeastOne
<1>. QED  BY <1>1, NoEpisodesYet DEF EpisodesInv

LEMMA NextEpisodes == EpisodesInv /\ [ShadowNext]_shadowvars => EpisodesInv'
<1>. SUFFICES ASSUME EpisodesInv, [ShadowNext]_shadowvars PROVE EpisodesInv'
  OBVIOUS
<1>0. CarryInv
  BY DEF EpisodesInv, EpisodesKept, CarryInv
<1>1. ASSUME NEW f \in Rates, NEW tenths \in {0, 10}, Observe(f, tenths) PROVE EpisodesInv'
  <2>. DEFINE e == Observed(f, tenths)
  <2>1. minAge' = minAge /\ carry' = IF cut THEN carry ELSE Append(carry, e)
    BY <1>1 DEF Observe
  <2>2. LineGoesOn(e, f, InLast(carry), AdvanceAge(AgeLast(carry), f), AtLeastOne(minAge))
    BY <1>0, ObservedLine
  <2>3. e.r = ReturnFor(e.action, e.f)
    BY DEF Observed
  <2>4. PaysItsRate(e)
    BY <2>2, <2>3 DEF PaysItsRate, LineGoesOn
  <2>. HIDE DEF e
  <2>5. EpisodesKept(Append(carry, e), AtLeastOne(minAge))
    BY <2>2, <2>4, EpisodesGoOn DEF EpisodesInv
  <2>6. CASE cut
    BY <2>1, <2>6 DEF EpisodesInv
  <2>7. CASE ~cut
    BY <2>1, <2>5, <2>7 DEF EpisodesInv
  <2>. QED  BY <2>6, <2>7
<1>2. CASE ObserveCut
  BY <1>2 DEF ObserveCut, EpisodesInv
<1>3. CASE UNCHANGED shadowvars
  BY <1>3 DEF shadowvars, EpisodesInv
<1>. QED  BY <1>1, <1>2, <1>3 DEF ShadowNext
(* The programs are these folds.                                             *)
LEMMA ProgramsAreRuns ==
  ASSUME NEW c \in Seq(CarryLines), NEW ripe
  PROVE  /\ BacktestCarry(Rated(c), ripe) = Close(BookRun(c, ripe))
         /\ Persistence(Rated(c)) = [durations |-> Lengths(PersistRun(c)), censored |-> PersistRun(c).in]
         /\ BacktestFunding(Rated(c)) = FundingRun(c)
         /\ DutyCycle(Rated(c)) = DutyRun(c)
         /\ Decompose(c) = PartRun(c)
<1>1. BacktestCarry(Rated(c), ripe) = Close(BookRun(c, ripe))
  BY DEF BacktestCarry, BookRun, Folded, FoldLeft, MapThenFoldSet, Advance
<1>2. Persistence(Rated(c)) = [durations |-> Lengths(PersistRun(c)), censored |-> PersistRun(c).in]
  BY DEF Persistence, PersistRun, Lengths, Folded, FoldLeft, MapThenFoldSet, Advance
<1>3. BacktestFunding(Rated(c)) = FundingRun(c)
  BY DEF BacktestFunding, FundingRun, Folded, FoldLeft, MapThenFoldSet, Advance
<1>4. DutyCycle(Rated(c)) = DutyRun(c)
  BY DEF DutyCycle, DutyRun, Folded, FoldLeft, MapThenFoldSet, Advance
<1>5. Decompose(c) = PartRun(c)
  BY DEF Decompose, PartRun, Folded, FoldLeft, MapThenFoldSet, Advance
<1>. QED  BY <1>1, <1>2, <1>3, <1>4, <1>5

LEMMA RateSum ==
  ASSUME NEW S, IsFiniteSet(S)
  PROVE  MapThenSumSet(LAMBDA i : Fs[i], S) = SumFunctionOnSet([i \in S |-> Fs[i]], S)
<1>. DEFINE w == [i \in S |-> Fs[i]]
            P(it) == it = [s \in SUBSET S |->
                             IF s = {} THEN 0 ELSE Fs[Taken(s)] + it[s \ {Taken(s)}]]
            c == CHOOSE it : P(it)
<1>1. MapThenSumSet(LAMBDA i : Fs[i], S) = c[S]
  BY DEF MapThenSumSet, MapThenFoldSet, Taken
<1>2. ASSUME NEW it PROVE P(it) <=> IsIter(it, S, w)
  <2>1. ASSUME NEW s \in SUBSET S
        PROVE  (IF s = {} THEN 0 ELSE Fs[Taken(s)] + it[s \ {Taken(s)}]) = Body(it, s, w)
    BY TakenIn DEF Body
  <2>. QED  BY <2>1 DEF IsIter
<1>3. P(IterOf(S, w))
  <2>. HIDE DEF w, P
  <2>. QED  BY <1>2, IterExists
<1>4. P(c)
  <2>. HIDE DEF P
  <2>. QED  BY <1>3
<1>5. IsIter(c, S, w)
  <2>. HIDE DEF P, c, w
  <2>. QED  BY <1>2, <1>4
<1>6. c[S] = IterOf(S, w)[S]
  <2>. HIDE DEF c, w
  <2>. QED  BY <1>5, IterExists, IterUnique
<1>. QED  BY <1>1, <1>6, SumIsIter

LEMMA KeptAgree == EpisodesInv => EpisodesAgree
<1>. SUFFICES ASSUME EpisodesInv PROVE EpisodesAgree
  OBVIOUS
<1>. DEFINE ripe == AtLeastOne(minAge)
            b == BookRun(carry, ripe)
            p == PersistRun(carry)
            u == FundingRun(carry)
            h == DutyRun(carry)
            g == PartRun(carry)
            z == Close(b)
            out == Lengths(p)
            bt == BacktestCarry(Fs, ripe)
            ps == Persistence(Fs)
            dec == Decompose(carry)
            fb == BacktestFunding(Fs)
            duty == DutyCycle(Fs)
            EnterLines == Acts("ENTER")
            HoldLines == Acts("HOLD")
            In == p.in
<1>1. /\ carry \in Seq(CarryLines) /\ ripe \in Nat \ {0}
      /\ SameEpisodes(b, p, ripe) /\ SameFunding(b, u, ripe) /\ SameDuty(Rated(carry), p, h)
      /\ SameParts(carry, g) /\ (Free(carry) => SameActs(carry, b, g))
  BY DEF EpisodesInv, EpisodesKept, CarryOK
<1>2. Fs = Rated(carry) /\ DOMAIN carry = 1..Len(carry) /\ Len(carry) \in Nat
  BY <1>1 DEF Fs, Rated
<1>3. /\ bt = z /\ fb = u /\ duty = h /\ dec = g
      /\ ps = [durations |-> out, censored |-> In]
  BY <1>1, <1>2, ProgramsAreRuns
<1>4. ps.durations = out /\ ps.censored = In
  BY <1>3
<1>5. EnterLines = LinesOf(carry, "ENTER") /\ HoldLines = LinesOf(carry, "HOLD")
  BY DEF Acts, LinesOf
<1>6. EndsAs(b, z, p, out, ripe)
  BY <1>1, BooksClose
<1>7. b \in CarryRuns /\ p \in PersistRuns /\ u \in FundingRuns /\ h \in DutyRuns /\ g \in PartRuns
  BY <1>1 DEF SameEpisodes, SameFunding, SameDuty, SameParts
<1>8. Len(Rated(carry)) = Len(carry)
  BY <1>2 DEF Rated
<1>. HIDE DEF ripe, b, p, u, h, g, z, out, bt, ps, dec, fb, duty, EnterLines, HoldLines
<1>9. /\ b.in \in BOOLEAN /\ b.got \in Int /\ b.hold \in Int /\ b.funding \in Int /\ b.age \in Nat
      /\ b.holds \in Seq(Int) /\ b.nets \in Seq(Int) /\ p.in \in BOOLEAN /\ p.dur \in Nat /\ p.out \in Seq(Int)
      /\ g.funding \in Int /\ g.fees \in Int /\ h.on \in Nat /\ LegFee \in Int
  BY <1>7, HysteresisAssumption DEF CarryRuns, PersistRuns, PartRuns, DutyRuns
<1>10. Net(b.nets) \in Int /\ Net(b.holds) \in Int /\ Len(b.holds) \in Nat
  <2>1. Net(b.nets) \in Int
    BY <1>9, NetAppend
  <2>2. Net(b.holds) \in Int
    BY <1>9, NetAppend
  <2>. QED  BY <1>9, <2>1, <2>2
<1>11. bt.holds = TimeLeft(ps.durations, ripe)
  BY <1>3, <1>4, <1>6 DEF EndsAs, Matched
<1>12. ASSUME NEW be \in 1..MaxObs
       PROVE  ConditionalReach(ps.durations, ripe, be) = <<Lasting(bt.holds, be + 1), Len(bt.holds)>>
  <2>1. be \in Nat
    BY HysteresisAssumption
  <2>2. Lasting(out, ripe + be) = Lasting(z.holds, be + 1) /\ Lasting(out, ripe) = Len(z.holds)
    BY <1>6, <2>1 DEF EndsAs, Matched
  <2>. QED  BY <1>3, <1>4, <2>2 DEF ConditionalReach
<1>13. Net(bt.nets) = bt.funding - 2 * LegFee * Len(bt.holds)
  BY <1>3, <1>6 DEF EndsAs
<1>14. ASSUME ripe = 1
       PROVE  /\ fb.trades = Len(bt.holds) /\ fb.held = Net(bt.holds)
              /\ fb.total = Net(bt.nets) + (IF ps.censored THEN LegFee ELSE 0)
  <2>1. /\ u.trades = Len(b.holds) + (IF b.in THEN 1 ELSE 0)
        /\ u.held = Net(b.holds) + b.hold
        /\ u.total = Net(b.nets) + (IF b.in THEN b.got - LegFee ELSE 0)
    BY <1>1, <1>14 DEF SameFunding
  <2>2. b.in <=> p.in
    BY <1>1, <1>9, <1>14 DEF SameEpisodes
  <2>3. Net(z.nets) = Net(b.nets) + (IF b.in THEN b.got - 2 * LegFee ELSE 0)
    BY <1>6 DEF EndsAs
  <2>4. u.trades = Len(z.holds) /\ u.held = Net(z.holds)
    BY <1>6, <2>1 DEF EndsAs
  <2>5. u.total = Net(z.nets) + (IF b.in THEN LegFee ELSE 0)
    <3>. DEFINE x == Net(b.nets)
    <3>1. x \in Int /\ u.total = x + (IF b.in THEN b.got - LegFee ELSE 0)
          /\ Net(z.nets) = x + (IF b.in THEN b.got - 2 * LegFee ELSE 0)
      BY <1>10, <2>1, <2>3
    <3>. HIDE DEF x
    <3>. QED  BY <1>9, <3>1
  <2>. QED  BY <1>3, <1>4, <2>2, <2>4, <2>5
<1>15. ASSUME \A i \in DOMAIN carry : ~carry[i].vetoed
       PROVE  /\ Cardinality(EnterLines) = Len(bt.holds)
              /\ Cardinality(HoldLines) = Net(bt.holds) - Len(bt.holds)
              /\ dec.funding = bt.funding - MapThenSumSet(LAMBDA i : Fs[i], Acts("ENTER"))
  <2>1. SameActs(carry, b, g)
    BY <1>1, <1>15 DEF Free
  <2>2. /\ Cardinality(EnterLines) = Len(b.holds) + (IF b.in THEN 1 ELSE 0)
        /\ Cardinality(EnterLines) + Cardinality(HoldLines) = Net(b.holds) + b.hold
        /\ g.funding + RatesIn(carry) = b.funding + b.got
    BY <1>5, <2>1 DEF SameActs
  <2>3. Cardinality(EnterLines) \in Nat /\ Cardinality(HoldLines) \in Nat /\ IsFiniteSet(EnterLines) /\ EnterLines \subseteq 1..Len(carry)
    <3>. DEFINE D == 1..Len(carry)
    <3>1. IsFiniteSet(D)
      BY <1>2, FS_Interval
    <3>2. EnterLines \subseteq D /\ HoldLines \subseteq D
      BY <1>2, <1>5 DEF LinesOf
    <3>. HIDE DEF D
    <3>3. IsFiniteSet(EnterLines) /\ IsFiniteSet(HoldLines)
      BY <3>1, <3>2, FS_Subset
    <3>. QED  BY <3>2, <3>3, FS_CardinalityType DEF D
  <2>4. Cardinality(EnterLines) = Len(z.holds) /\ Net(z.holds) = Net(b.holds) + b.hold /\ z.funding = b.funding + b.got
    BY <1>6, <2>2 DEF EndsAs
  <2>5. Cardinality(HoldLines) = Net(z.holds) - Len(z.holds)
    <3>. DEFINE x == Net(z.holds)
                y == Cardinality(EnterLines)
                w == Cardinality(HoldLines)
    <3>1. y + w = x /\ y \in Int /\ w \in Int
      <4>1. y + w = x
        BY <2>2, <2>4
      <4>2. y \in Nat /\ w \in Nat
        BY <2>3
      <4>. HIDE DEF x, y, w
      <4>. QED  BY <4>1, <4>2
    <3>2. y = Len(z.holds)
      BY <2>4
    <3>. HIDE DEF x, y, w
    <3>3. w = x - y
      BY <3>1
    <3>. QED  BY <3>2, <3>3 DEF x, w
  <2>6. MapThenSumSet(LAMBDA i : Fs[i], Acts("ENTER")) = RatesIn(carry)
    <3>1. MapThenSumSet(LAMBDA i : Fs[i], EnterLines) = SumFunctionOnSet([i \in EnterLines |-> Fs[i]], EnterLines)
      BY <2>3, RateSum
    <3>2. [i \in EnterLines |-> Fs[i]] = [i \in EnterLines |-> carry[i].f]
      BY <1>2, <2>3 DEF Fs
    <3>. QED  BY <1>5, <3>1, <3>2 DEF RatesIn, EnterLines
  <2>7. RatesIn(carry) \in Int
    <3>. DEFINE w == [i \in EnterLines |-> carry[i].f]
    <3>1. \A i \in EnterLines : w[i] \in Int
      <4>1. \A i \in EnterLines : carry[i] \in CarryLines
        BY <1>1, <2>3
      <4>. QED  BY <4>1, HysteresisAssumption DEF CarryLines
    <3>. HIDE DEF w
    <3>2. SumFunctionOnSet(w, EnterLines) \in Int
      BY <2>3, <3>1, SumInt
    <3>. QED  BY <1>5, <3>2 DEF RatesIn, w
  <2>8. g.funding = z.funding - RatesIn(carry)
    <3>. DEFINE x == RatesIn(carry)
    <3>1. g.funding + x = z.funding /\ x \in Int
      BY <2>2, <2>4, <2>7
    <3>. HIDE DEF x
    <3>2. g.funding = z.funding - x
      BY <1>9, <3>1
    <3>. QED  BY <3>2 DEF x
  <2>. QED  BY <1>3, <2>4, <2>5, <2>6, <2>8
<1>16. /\ dec.funding + dec.convergence + dec.fees = Net([i \in DOMAIN carry |-> carry[i].r])
       /\ dec.convergence = 0
  <2>1. g.convergence = 0 /\ g.funding + g.fees = Net(Paid(carry))
    BY <1>1 DEF SameParts
  <2>2. g.funding + g.convergence + g.fees = g.funding + g.fees
    BY <1>9, <2>1
  <2>. QED  BY <1>3, <2>1, <2>2 DEF Paid
<1>17. duty.on <= Net(ps.durations)
  <2>1. h.on <= Net(p.out) + (IF p.in THEN p.dur ELSE 0)
    BY <1>1 DEF SameDuty
  <2>. QED  BY <1>3, <1>4, <1>6, <2>1 DEF EndsAs
<1>18. ASSUME NEW i \in DOMAIN carry, \A j \in 1..i : Fs[j] >= EnterRate PROVE duty.best >= i
  BY <1>1, <1>2, <1>3, <1>8, <1>18 DEF SameDuty, HighTo
<1>. QED  BY <1>11, <1>12, <1>13, <1>14, <1>15, <1>16, <1>17, <1>18
          DEF EpisodesAgree, ripe, bt, ps, dec, fb, duty, EnterLines, HoldLines

(* The programs that read the same rates agree on every ledger there can be: *)
(* the book enters and holds as the backtest does, the backtest's holds are  *)
(* the lasting episodes less their youth, and the parts of the return add up *)
(* (carry_backtest.py:49, funding_persistence.py:52).                        *)
THEOREM EpisodesAlwaysAgree == BooksSpec => []EpisodesAgree
<1>1. BooksInit => EpisodesInv
  BY InitEpisodes DEF BooksInit
<1>2. EpisodesInv /\ [BooksNext]_<<part, recordvars, papervars>> => EpisodesInv'
  BY CarryStays, NextEpisodes
<1>. QED  BY <1>1, <1>2, KeptAgree, PTL DEF BooksSpec

------------------------------------------------------------------------------
(* The paper scalper: where each trade began, and the bars between.          *)

Prefix(bs, cs, n) == \A k \in 1..n : bs[k] = cs[k]
Quiet(bs, i, j) == \A k \in (i + 1)..j : ~Hit(bs, i, k)
NoEntry(bs, from, to) == \A i \in from..to : ~EntersAt(bs, i)

(* A completed trade, begun at bar i.                                        *)
ClosedTrade(bs, n, i, t) ==
  /\ i \in 3..n /\ t.held \in 1..MaxHold /\ i + t.held <= n /\ t.entry = bs[i].c
  /\ Quiet(bs, i, i + t.held - 1)
  /\ \/ Hit(bs, i, i + t.held) /\ t.level = LevelAt(bs, i, i + t.held)
     \/ ~Hit(bs, i, i + t.held) /\ t.held = MaxHold /\ t.level = 10 * bs[i + t.held].c
ResumeAt(at, ds, c) == IF c = 0 THEN 3 ELSE at[c] + ds[c].held + 1
Began(bs, n, at, ds, c) ==
  /\ ClosedTrade(bs, n, at[c], ds[c]) /\ EntersAt(bs, at[c])
  /\ ResumeAt(at, ds, c - 1) \in 3..at[c] /\ NoEntry(bs, ResumeAt(at, ds, c - 1), at[c] - 1)

(* The position still open, begun at bar e.                                  *)
HoldsOn(bs, n, p, e) ==
  /\ e \in 3..n /\ EntersAt(bs, e) /\ Quiet(bs, e, n) /\ n - e < MaxHold
  /\ p.entry = bs[e].c /\ p.peak = PeakOf(bs, e, n + 1) /\ p.held = n - e

(* Where the scan of the backtest is when it has seen n bars.                *)
TradesTraced(bs, n, at, ds) ==
  /\ at \in [1..Len(ds) -> Nat] /\ \A c \in 1..Len(ds) : Began(bs, n, at, ds, c)
  /\ ResumeAt(at, ds, Len(ds)) \in Nat /\ 3 <= ResumeAt(at, ds, Len(ds))
  /\ ResumeAt(at, ds, Len(ds)) = 3 \/ ResumeAt(at, ds, Len(ds)) <= n + 1
PositionTraced(bs, n, p, from) ==
  \/ ~p.in /\ NoEntry(bs, from, n)
  \/ p.in /\ \E e \in 3..n : HoldsOn(bs, n, p, e) /\ from <= e /\ NoEntry(bs, from, e - 1)
LastCloses(bs, n, s) ==
  /\ s.prev = IF n = 0 THEN 0 ELSE bs[n].c
  /\ s.prev2 = IF n < 2 THEN 0 ELSE bs[n - 1].c
BookTraced(bs, n, s, ds, at) ==
  /\ TradesTraced(bs, n, at, ds) /\ PositionTraced(bs, n, s.pos, ResumeAt(at, ds, Len(ds)))
  /\ LastCloses(bs, n, s)

TheBars == [h : Nat \ {0}, l : Nat \ {0}, c : Nat \ {0}]
LEMMA BarsAre == ASSUME NEW b \in Bars PROVE b \in TheBars /\ b.h \in Nat \ {0} /\ b.l \in Nat \ {0} /\ b.c \in Nat \ {0}
<1>1. b \in [h : Prices, l : Prices, c : Prices] /\ Prices \subseteq Nat \ {0}
  BY ScalpAssumption DEF Bars
<1>. QED  BY <1>1 DEF TheBars

LEMMA PeakIsHigh ==
  ASSUME NEW n \in Nat, NEW bs, \A k \in 1..n : bs[k].h \in Nat /\ bs[k].c \in Nat,
         NEW i \in 1..n, NEW j \in 1..(n + 1)
  PROVE  /\ PeakOf(bs, i, j) \in PeakSet(bs, i, j) /\ PeakOf(bs, i, j) \in Nat
         /\ \A y \in PeakSet(bs, i, j) : y <= PeakOf(bs, i, j) /\ y \in Nat
<1>. DEFINE S == PeakSet(bs, i, j)
            D == (i + 1)..(j - 1)
            T == {bs[k].h : k \in D}
            f == [v \in S |-> v]
<1>1. IsFiniteSet(D)
  <2>1. i + 1 \in Int /\ j - 1 \in Int
    OBVIOUS
  <2>. QED  BY <2>1, FS_Interval
<1>2. IsFiniteSet(T)
  <2>. DEFINE g == [k \in D |-> bs[k].h]
  <2>. HIDE DEF D
  <2>1. g \in Surjection(D, T)
    BY DEF Surjection
  <2>. HIDE DEF g, T
  <2>. QED  BY <1>1, <2>1, FS_Surjection
<1>3. IsFiniteSet(S) /\ S # {}
  <2>1. S = T \cup {bs[i].c}
    BY DEF PeakSet
  <2>. HIDE DEF S, T
  <2>. QED  BY <1>2, <2>1, FS_AddElement
<1>4. \A v \in S : v \in Nat
  <2>1. \A k \in D : k \in 1..n
    OBVIOUS
  <2>. QED  BY <2>1 DEF PeakSet
<1>5. \A v \in S : f[v] = v /\ f[v] \in Int
  BY <1>4
<1>. HIDE DEF S, f
<1>6. PICK v \in S : \A w \in S : f[w] <= f[v]
  BY <1>3, <1>5, Highest
<1>7. \A w \in S : v >= w
  BY <1>4, <1>5, <1>6
<1>8. PeakOf(bs, i, j) = CHOOSE x \in S : \A y \in S : x >= y
  BY DEF PeakOf, Max, S
<1>9. PeakOf(bs, i, j) \in S /\ \A y \in S : PeakOf(bs, i, j) >= y
  BY <1>7, <1>8
<1>. QED  BY <1>4, <1>9 DEF S

(* One bar more moves the peak by its high, and nothing that was there.      *)
LEMMA SamePeaks ==
  ASSUME NEW n \in Nat, NEW bs, NEW cs, Prefix(bs, cs, n), NEW i \in 1..n, NEW j \in 1..(n + 1)
  PROVE  /\ PeakOf(cs, i, j) = PeakOf(bs, i, j)
         /\ j <= n => (Hit(cs, i, j) <=> Hit(bs, i, j)) /\ LevelAt(cs, i, j) = LevelAt(bs, i, j)
<1>1. \A k \in (i + 1)..(j - 1) : k \in 1..n
  OBVIOUS
<1>2. \A k \in 1..n : bs[k] = cs[k]
  BY DEF Prefix
<1>3. PeakSet(cs, i, j) = PeakSet(bs, i, j)
  BY <1>1, <1>2 DEF PeakSet
<1>4. PeakOf(cs, i, j) = PeakOf(bs, i, j)
  BY <1>3 DEF PeakOf
<1>5. j <= n => bs[j] = cs[j]
  BY <1>2
<1>. QED  BY <1>2, <1>4, <1>5 DEF Hit, LevelAt

LEMMA PeakGrows ==
  ASSUME NEW n \in Nat, NEW bs, \A k \in 1..(n + 1) : bs[k].h \in Nat /\ bs[k].c \in Nat, NEW i \in 1..n
  PROVE  PeakOf(bs, i, n + 2) = Larger(PeakOf(bs, i, n + 1), bs[n + 1].h)
<1>. DEFINE S == PeakSet(bs, i, n + 1)
            T == PeakSet(bs, i, n + 2)
            p == PeakOf(bs, i, n + 1)
            q == PeakOf(bs, i, n + 2)
            h == bs[n + 1].h
<1>1. p \in S /\ p \in Nat /\ \A y \in S : y <= p /\ y \in Nat
  BY PeakIsHigh
<1>2. q \in T /\ q \in Nat /\ \A y \in T : y <= q /\ y \in Nat
  <2>1. n + 1 \in Nat /\ i \in 1..(n + 1) /\ n + 2 \in 1..((n + 1) + 1)
    OBVIOUS
  <2>. DEFINE m == n + 1
              j == n + 2
  <2>2. /\ m \in Nat /\ i \in 1..m /\ j \in 1..(m + 1)
        /\ \A k \in 1..m : bs[k].h \in Nat /\ bs[k].c \in Nat
    BY <2>1
  <2>. HIDE DEF m, j
  <2>3. PeakOf(bs, i, j) \in PeakSet(bs, i, j) /\ PeakOf(bs, i, j) \in Nat
        /\ \A y \in PeakSet(bs, i, j) : y <= PeakOf(bs, i, j) /\ y \in Nat
    BY <2>2, PeakIsHigh
  <2>. QED  BY <2>3 DEF j
<1>3. \A y : y \in T <=> y \in S \/ y = h
  <2>1. \A k : k \in (i + 1)..((n + 2) - 1) <=> k \in (i + 1)..((n + 1) - 1) \/ k = n + 1
    OBVIOUS
  <2>. QED  BY <2>1 DEF PeakSet
<1>4. h \in Nat
  OBVIOUS
<1>. HIDE DEF S, T, p, q, h
<1>5. q = IF p > h THEN p ELSE h
  BY <1>1, <1>2, <1>3, <1>4
<1>. QED  BY <1>5 DEF Larger, p, q, h

(* One bar more.                                                             *)
NextBar(bs, cs, n, b) ==
  /\ n \in Nat /\ Prefix(bs, cs, n) /\ cs[n + 1] = b
  /\ \A k \in 1..(n + 1) : cs[k].h \in Nat /\ cs[k].l \in Nat /\ cs[k].c \in Nat

LEMMA SameEntries ==
  ASSUME NEW n \in Nat, NEW bs, NEW cs, Prefix(bs, cs, n), NEW i \in 3..n
  PROVE  EntersAt(cs, i) <=> EntersAt(bs, i)
<1>1. i \in 1..n /\ i - 1 \in 1..n /\ i - 2 \in 1..n
  OBVIOUS
<1>. QED  BY <1>1 DEF Prefix, EntersAt

LEMMA ClosedStays ==
  ASSUME NEW n \in Nat, NEW bs, NEW cs, Prefix(bs, cs, n), NEW i, NEW t, ClosedTrade(bs, n, i, t)
  PROVE  ClosedTrade(cs, n + 1, i, t)
<1>. DEFINE j == i + t.held
<1>1. i \in 3..n /\ i \in 1..n /\ t.held \in 1..MaxHold /\ MaxHold \in Nat /\ j \in 1..n /\ j \in 1..(n + 1)
      /\ t.entry = bs[i].c
  BY ScalpAssumption DEF ClosedTrade
<1>2. cs[i] = bs[i] /\ cs[j] = bs[j]
  BY <1>1 DEF Prefix
<1>3. ASSUME NEW k \in (i + 1)..(j - 1) PROVE ~Hit(cs, i, k)
  <2>1. k \in 1..(n + 1) /\ k <= n
    BY <1>1
  <2>2. ~Hit(bs, i, k)
    BY DEF ClosedTrade, Quiet
  <2>. QED  BY <1>1, <2>1, <2>2, SamePeaks
<1>4. (Hit(cs, i, j) <=> Hit(bs, i, j)) /\ LevelAt(cs, i, j) = LevelAt(bs, i, j)
  <2>1. j <= n
    BY <1>1
  <2>. QED  BY <1>1, <2>1, SamePeaks
<1>5. i \in 3..(n + 1) /\ j <= n + 1
  BY <1>1
<1>6. \/ Hit(bs, i, j) /\ t.level = LevelAt(bs, i, j)
      \/ ~Hit(bs, i, j) /\ t.held = MaxHold /\ t.level = 10 * bs[j].c
  BY DEF ClosedTrade
<1>. QED  BY <1>1, <1>2, <1>3, <1>4, <1>5, <1>6 DEF ClosedTrade, Quiet

LEMMA BeganStays ==
  ASSUME NEW n \in Nat, NEW bs, NEW cs, Prefix(bs, cs, n),
         NEW at, NEW ds, NEW at2, NEW ds2, NEW c \in Nat \ {0}, Began(bs, n, at, ds, c),
         at2[c] = at[c] /\ ds2[c] = ds[c], c > 1 => at2[c - 1] = at[c - 1] /\ ds2[c - 1] = ds[c - 1]
  PROVE  Began(cs, n + 1, at2, ds2, c)
<1>1. ResumeAt(at2, ds2, c - 1) = ResumeAt(at, ds, c - 1)
  <2>1. CASE c = 1
    BY <2>1 DEF ResumeAt
  <2>2. CASE c > 1
    BY <2>2 DEF ResumeAt
  <2>. QED  BY <2>1, <2>2
<1>2. ClosedTrade(cs, n + 1, at[c], ds[c])
  BY ClosedStays DEF Began
<1>3. at[c] \in 3..n /\ ResumeAt(at, ds, c - 1) \in 3..at[c]
  BY DEF Began, ClosedTrade
<1>4. EntersAt(cs, at[c])
  BY <1>3, SameEntries DEF Began
<1>5. NoEntry(cs, ResumeAt(at, ds, c - 1), at[c] - 1)
  <2>1. \A i \in ResumeAt(at, ds, c - 1)..(at[c] - 1) : i \in 3..n
    BY <1>3
  <2>. QED  BY <2>1, SameEntries DEF Began, NoEntry
<1>. QED  BY <1>1, <1>2, <1>3, <1>4, <1>5 DEF Began

LEMMA TradesStay ==
  ASSUME NEW n \in Nat, NEW bs, NEW cs, Prefix(bs, cs, n), NEW at, NEW ds \in Seq(Trades), TradesTraced(bs, n, at, ds)
  PROVE  TradesTraced(cs, n + 1, at, ds)
<1>1. \A c \in 1..Len(ds) : c \in Nat \ {0} /\ Began(bs, n, at, ds, c)
  BY DEF TradesTraced
<1>2. \A c \in 1..Len(ds) : Began(cs, n + 1, at, ds, c)
  BY <1>1, BeganStays
<1>. QED  BY <1>2 DEF TradesTraced

(* A bar without a position, and without one begun.                          *)
LEMMA BarIdle ==
  ASSUME NEW n, NEW bs, NEW cs, NEW b, NextBar(bs, cs, n, b), NEW s, NEW from \in Nat, 3 <= from,
         LastCloses(bs, n, s), NoEntry(bs, from, n), ~EntryOk(s.prev2, s.prev, b.c)
  PROVE  NoEntry(cs, from, n + 1)
<1>1. ASSUME NEW i \in from..(n + 1) PROVE ~EntersAt(cs, i)
  <2>1. CASE i \in from..n
    <3>1. i \in 3..n /\ n \in Nat
      BY <2>1 DEF NextBar
    <3>. QED  BY <2>1, <3>1, SameEntries DEF NoEntry, NextBar
  <2>2. CASE i = n + 1
    <3>1. n >= 2 /\ i - 1 = n /\ i - 2 = n - 1 /\ n \in 1..n /\ n - 1 \in 1..n /\ n # 0 /\ ~(n < 2)
      BY <2>2 DEF NextBar
    <3>2. cs[n] = bs[n] /\ cs[n - 1] = bs[n - 1]
      BY <3>1 DEF NextBar, Prefix
    <3>. QED  BY <2>2, <3>1, <3>2 DEF NextBar, LastCloses, EntersAt
  <2>. QED  BY <2>1, <2>2 DEF NextBar
<1>. QED  BY <1>1 DEF NoEntry

(* A bar on which one begins.                                                *)
LEMMA BarEnters ==
  ASSUME NEW n, NEW bs, NEW cs, NEW b, NextBar(bs, cs, n, b), NEW s, LastCloses(bs, n, s),
         NEW from \in Nat, 3 <= from, from = 3 \/ from <= n + 1,
         NoEntry(bs, from, n), EntryOk(s.prev2, s.prev, b.c),
         NEW p, p.in, p.entry = b.c, p.peak = b.c, p.held = 0
  PROVE  PositionTraced(cs, n + 1, p, from)
<1>. DEFINE e == n + 1
<1>1. n \in Nat /\ n >= 2
  <2>1. n \in Nat /\ s.prev2 > 0
    BY DEF NextBar, EntryOk
  <2>. QED  BY <2>1 DEF LastCloses
<1>2. e \in 3..e /\ e \in 1..e /\ e + 1 \in 1..(e + 1) /\ e \in Nat /\ from <= e /\ e - 1 = n /\ e - 2 = n - 1
      /\ n \in 1..n /\ n - 1 \in 1..n
  BY <1>1
<1>3. cs[n] = bs[n] /\ cs[n - 1] = bs[n - 1] /\ cs[e] = b
  BY <1>2 DEF NextBar, Prefix
<1>4. EntersAt(cs, e)
  BY <1>1, <1>2, <1>3 DEF LastCloses, EntersAt
<1>5. \A k \in 1..e : cs[k].h \in Nat /\ cs[k].c \in Nat
  BY DEF NextBar
<1>6. NoEntry(cs, from, e - 1)
  <2>1. \A i \in from..(e - 1) : i \in from..n /\ i \in 3..n
    BY <1>1, <1>2
  <2>. QED  BY <2>1, SameEntries DEF NoEntry, NextBar
<1>7. PeakSet(cs, e, e + 1) = {b.c}
  <2>1. (e + 1)..((e + 1) - 1) = {}
    BY <1>2
  <2>. QED  BY <1>3, <2>1 DEF PeakSet
<1>. HIDE DEF e
<1>8. PeakOf(cs, e, e + 1) = b.c
  <2>1. PeakOf(cs, e, e + 1) \in PeakSet(cs, e, e + 1)
    BY <1>2, <1>5, PeakIsHigh
  <2>. QED  BY <1>7, <2>1
<1>9. HoldsOn(cs, e, p, e)
  <2>1. e - e = 0 /\ 0 < MaxHold /\ (e + 1)..e = {}
    BY <1>2, ScalpAssumption
  <2>. QED  BY <1>2, <1>3, <1>4, <1>8, <2>1 DEF HoldsOn, Quiet
<1>. QED  BY <1>2, <1>6, <1>9 DEF PositionTraced, e

(* A bar held through: the low is above the trail of the peak before it.     *)
LEMMA BarHolds ==
  ASSUME NEW n, NEW bs, NEW cs, NEW b, NextBar(bs, cs, n, b), NEW p, NEW e, HoldsOn(bs, n, p, e),
         ~(b.l * 10 <= TrailLevel(p.peak)), p.held + 1 < MaxHold,
         NEW q, q.entry = p.entry, q.peak = Larger(p.peak, b.h), q.held = p.held + 1
  PROVE  HoldsOn(cs, n + 1, q, e)
<1>1. /\ n \in Nat /\ e \in 3..n /\ e \in 1..n /\ e \in 3..(n + 1) /\ p.held = n - e
      /\ n + 1 \in 1..(n + 1) /\ (n + 1) + 1 = n + 2
  BY DEF NextBar, HoldsOn
<1>2. Prefix(bs, cs, n) /\ cs[e] = bs[e] /\ cs[n + 1] = b
  BY <1>1 DEF NextBar, Prefix
<1>3. EntersAt(cs, e)
  BY <1>1, <1>2, SameEntries DEF HoldsOn
<1>4. PeakOf(cs, e, n + 1) = p.peak
  <2>1. PeakOf(cs, e, n + 1) = PeakOf(bs, e, n + 1)
    BY <1>1, <1>2, SamePeaks
  <2>. QED  BY <2>1 DEF HoldsOn
<1>5. PeakOf(cs, e, n + 2) = Larger(p.peak, b.h)
  <2>1. \A k \in 1..(n + 1) : cs[k].h \in Nat /\ cs[k].c \in Nat
    BY DEF NextBar
  <2>. QED  BY <1>1, <1>2, <1>4, <2>1, PeakGrows
<1>6. ASSUME NEW k \in (e + 1)..(n + 1) PROVE ~Hit(cs, e, k)
  <2>1. CASE k \in (e + 1)..n
    <3>1. k \in 1..(n + 1) /\ k <= n
      BY <1>1, <2>1
    <3>2. ~Hit(bs, e, k)
      BY <2>1 DEF HoldsOn, Quiet
    <3>. QED  BY <1>1, <1>2, <3>1, <3>2, SamePeaks
  <2>2. CASE k = n + 1
    BY <1>2, <1>4, <2>2 DEF Hit
  <2>. QED  BY <1>1, <2>1, <2>2
<1>7. (n + 1) - e < MaxHold /\ q.held = (n + 1) - e
  <2>1. MaxHold \in Nat
    BY ScalpAssumption
  <2>. QED  BY <1>1, <2>1
<1>8. q.entry = cs[e].c /\ q.peak = PeakOf(cs, e, (n + 1) + 1)
  BY <1>1, <1>2, <1>5 DEF HoldsOn
<1>. QED  BY <1>1, <1>3, <1>6, <1>7, <1>8 DEF HoldsOn, Quiet

(* A bar on which the open position leaves.                                  *)
LEMMA BarEnds ==
  ASSUME NEW n, NEW bs, NEW cs, NEW b, NextBar(bs, cs, n, b), NEW p, NEW e, HoldsOn(bs, n, p, e),
         NEW t, t.entry = p.entry, t.held = p.held + 1,
         \/ b.l * 10 <= TrailLevel(p.peak)
            /\ t.level = (IF b.l * 10 <= StopLevel(p.entry) /\ StopLevel(p.entry) <= TrailLevel(p.peak)
                          THEN StopLevel(p.entry) ELSE TrailLevel(p.peak))
         \/ ~(b.l * 10 <= TrailLevel(p.peak)) /\ p.held + 1 >= MaxHold /\ t.level = 10 * b.c
  PROVE  ClosedTrade(cs, n + 1, e, t) /\ e + t.held = n + 1
<1>1. /\ n \in Nat /\ e \in 3..n /\ e \in 1..n /\ e \in 3..(n + 1) /\ p.held = n - e
      /\ n + 1 \in 1..(n + 1) /\ MaxHold \in Nat \ {0} /\ n - e < MaxHold /\ p.entry = bs[e].c
  BY ScalpAssumption DEF NextBar, HoldsOn
<1>2. Prefix(bs, cs, n) /\ cs[e] = bs[e] /\ cs[n + 1] = b
  BY <1>1 DEF NextBar, Prefix
<1>3. t.held = (n + 1) - e /\ t.held \in 1..MaxHold /\ e + t.held = n + 1 /\ (e + t.held) - 1 = n
  BY <1>1
<1>4. PeakOf(cs, e, n + 1) = p.peak
  <2>1. PeakOf(cs, e, n + 1) = PeakOf(bs, e, n + 1)
    BY <1>1, <1>2, SamePeaks
  <2>. QED  BY <2>1 DEF HoldsOn
<1>5. ASSUME NEW k \in (e + 1)..n PROVE ~Hit(cs, e, k)
  <2>1. k \in 1..(n + 1) /\ k <= n
    BY <1>1
  <2>2. ~Hit(bs, e, k)
    BY DEF HoldsOn, Quiet
  <2>. QED  BY <1>1, <1>2, <2>1, <2>2, SamePeaks
<1>6. /\ Hit(cs, e, n + 1) <=> b.l * 10 <= TrailLevel(p.peak)
      /\ LevelAt(cs, e, n + 1) = IF b.l * 10 <= StopLevel(p.entry) /\ StopLevel(p.entry) <= TrailLevel(p.peak)
                                 THEN StopLevel(p.entry) ELSE TrailLevel(p.peak)
  BY <1>1, <1>2, <1>4 DEF Hit, LevelAt
<1>7. \/ Hit(cs, e, n + 1) /\ t.level = LevelAt(cs, e, n + 1)
      \/ ~Hit(cs, e, n + 1) /\ t.held = MaxHold /\ t.level = 10 * cs[n + 1].c
  BY <1>1, <1>2, <1>3, <1>6
<1>. QED  BY <1>1, <1>2, <1>3, <1>5, <1>7 DEF ClosedTrade, Quiet

ClosedAgain(cs, n, ds) ==
  \E at : TradesTraced(cs, n, at, ds) /\ NoEntry(cs, ResumeAt(at, ds, Len(ds)), n)

LEMMA TradesGoOn ==
  ASSUME NEW n, NEW bs, NEW cs, NEW b, NextBar(bs, cs, n, b), NEW at, NEW ds \in Seq(Trades),
         TradesTraced(bs, n, at, ds), NEW p, NEW e, HoldsOn(bs, n, p, e),
         ResumeAt(at, ds, Len(ds)) <= e, NoEntry(bs, ResumeAt(at, ds, Len(ds)), e - 1),
         NEW t \in Trades, ClosedTrade(cs, n + 1, e, t), e + t.held = n + 1
  PROVE  ClosedAgain(cs, n + 1, Append(ds, t))
<1>. DEFINE m == Len(ds)
            ds2 == Append(ds, t)
            at2 == [x \in 1..(m + 1) |-> IF x = m + 1 THEN e ELSE at[x]]
            from == ResumeAt(at, ds, m)
<1>1. /\ n \in Nat /\ e \in 3..n /\ Prefix(bs, cs, n) /\ m \in Nat /\ at \in [1..m -> Nat]
      /\ from \in Nat /\ 3 <= from /\ from <= e /\ NoEntry(bs, from, e - 1) /\ EntersAt(bs, e)
      /\ \A c \in 1..m : c \in Nat \ {0} /\ Began(bs, n, at, ds, c)
  BY DEF NextBar, HoldsOn, TradesTraced
<1>2. /\ Len(ds2) = m + 1 /\ ds2[m + 1] = t /\ (\A x \in 1..m : ds2[x] = ds[x])
      /\ at2 \in [1..(m + 1) -> Nat] /\ at2[m + 1] = e /\ \A x \in 1..m : at2[x] = at[x]
  BY <1>1
<1>. SUFFICES ClosedAgain(cs, n + 1, ds2)
  OBVIOUS
<1>. HIDE DEF ds2, at2, m, from
<1>3. ASSUME NEW c \in 1..m PROVE Began(cs, n + 1, at2, ds2, c)
  <2>1. c > 1 => c - 1 \in 1..m
    BY <1>1
  <2>. QED  BY <1>1, <1>2, <2>1, BeganStays
<1>4. ResumeAt(at2, ds2, m) = from
  <2>1. CASE m = 0
    BY <2>1 DEF ResumeAt, from
  <2>2. CASE m # 0
    <3>1. m \in 1..m
      BY <1>1, <2>2
    <3>. QED  BY <1>2, <2>2, <3>1 DEF ResumeAt, from
  <2>. QED  BY <2>1, <2>2
<1>5. Began(cs, n + 1, at2, ds2, m + 1)
  <2>1. (m + 1) - 1 = m
    BY <1>1
  <2>2. EntersAt(cs, e)
    BY <1>1, SameEntries
  <2>3. NoEntry(cs, from, e - 1)
    <3>1. \A i \in from..(e - 1) : i \in 3..n
      BY <1>1
    <3>. QED  BY <1>1, <3>1, SameEntries DEF NoEntry
  <2>4. from \in 3..e
    BY <1>1
  <2>. QED  BY <1>2, <1>4, <2>1, <2>2, <2>3, <2>4 DEF Began
<1>6. ResumeAt(at2, ds2, m + 1) = n + 2
  <2>1. m + 1 # 0 /\ t.held \in Int /\ (e + t.held) + 1 = n + 2
    BY <1>1 DEF Trades
  <2>. QED  BY <1>1, <1>2, <2>1 DEF ResumeAt
<1>7. TradesTraced(cs, n + 1, at2, ds2)
  <2>1. \A c \in 1..(m + 1) : c \in 1..m \/ c = m + 1
    BY <1>1
  <2>2. n + 2 \in Nat /\ 3 <= n + 2 /\ n + 2 <= (n + 1) + 1
    BY <1>1
  <2>. QED  BY <1>2, <1>3, <1>5, <1>6, <2>1, <2>2 DEF TradesTraced
<1>8. NoEntry(cs, n + 2, n + 1)
  <2>1. (n + 2)..(n + 1) = {}
    BY <1>1
  <2>. QED  BY <2>1 DEF NoEntry
<1>9. TradesTraced(cs, n + 1, at2, ds2) /\ NoEntry(cs, ResumeAt(at2, ds2, Len(ds2)), n + 1)
  BY <1>2, <1>6, <1>7, <1>8
<1>. QED  BY <1>9 DEF ClosedAgain

LEMMA ClosesMove ==
  ASSUME NEW n, NEW bs, NEW cs, NEW b, NextBar(bs, cs, n, b), NEW s, LastCloses(bs, n, s),
         NEW s2, s2.prev2 = s.prev, s2.prev = b.c
  PROVE  LastCloses(cs, n + 1, s2)
<1>1. n \in Nat /\ n + 1 # 0 /\ (n + 1) - 1 = n /\ cs[n + 1] = b
  BY DEF NextBar
<1>2. s2.prev = IF n + 1 = 0 THEN 0 ELSE cs[n + 1].c
  BY <1>1
<1>3. s2.prev2 = IF n + 1 < 2 THEN 0 ELSE cs[(n + 1) - 1].c
  <2>1. CASE n = 0
    BY <2>1 DEF LastCloses
  <2>2. CASE n # 0
    <3>1. n \in 1..n /\ ~(n + 1 < 2)
      BY <1>1, <2>2
    <3>2. cs[n] = bs[n]
      BY <3>1 DEF NextBar, Prefix
    <3>. QED  BY <1>1, <2>2, <3>1, <3>2 DEF LastCloses
  <2>. QED  BY <2>1, <2>2
<1>. QED  BY <1>2, <1>3 DEF LastCloses

BookIsTraced ==
  bars \in Seq(Bars) /\ \E at : BookTraced(bars, Len(bars), scalp, done, at)

LEMMA NewBookTraced ==
  ASSUME NEW bs, bs = <<>>, NEW ds, ds = <<>>
  PROVE  bs \in Seq(Bars) /\ \E at : BookTraced(bs, Len(bs), NewBook, ds, at)
<1>. DEFINE at == [x \in 1..0 |-> 0]
<1>1. /\ NewBook.prev = 0 /\ NewBook.prev2 = 0 /\ ~NewBook.pos.in
      /\ Len(bs) = 0 /\ Len(ds) = 0 /\ bs \in Seq(Bars)
  BY DEF NewBook, Flat
<1>2. at \in [1..0 -> Nat] /\ 1..0 = {} /\ 3..0 = {}
  OBVIOUS
<1>. HIDE DEF at
<1>3. ResumeAt(at, ds, 0) = 3
  BY DEF ResumeAt
<1>4. TradesTraced(bs, 0, at, ds) /\ PositionTraced(bs, 0, NewBook.pos, 3) /\ LastCloses(bs, 0, NewBook)
  BY <1>1, <1>2, <1>3 DEF TradesTraced, PositionTraced, NoEntry, LastCloses
<1>. QED  BY <1>1, <1>3, <1>4 DEF BookTraced

LEMMA InitTraced == ScalpInit => BookIsTraced
BY NewBookTraced DEF ScalpInit, BookIsTraced

LEMMA RestartTraced == ScalpRestart => BookIsTraced'
BY NewBookTraced DEF ScalpRestart, BookIsTraced

LEMMA BarTraced ==
  ASSUME ScalpInv, BookIsTraced, NEW b \in Bars, NEW left, NEW returned, Bar(b, left, returned)
  PROVE  BookIsTraced'
<1>. DEFINE n == Len(bars)
            p == scalp.pos
            prev == scalp.prev
            exit == ExitOf(p, b)
            ends == p.in /\ exit.action # "HOLD"
            enter == ~p.in /\ EntryOk(scalp.prev2, prev, b.c)
            m == Len(done)
            P == [in : BOOLEAN, entry : Int, peak : Int, held : Int]
            t == [entry |-> p.entry, level |-> exit.level, held |-> p.held + 1]
<1>1. PICK at : BookTraced(bars, n, scalp, done, at)
  BY DEF BookIsTraced
<1>. DEFINE from == ResumeAt(at, done, m)
<1>2. /\ scalp \in Scalps /\ p \in P /\ done \in Seq(Trades) /\ bars \in Seq(Bars)
      /\ p.in \in BOOLEAN /\ p.entry \in Int /\ p.peak \in Int /\ p.held \in Int
  BY DEF ScalpInv, ScalpOK, BookIsTraced, Scalps
<1>3. /\ TradesTraced(bars, n, at, done) /\ PositionTraced(bars, n, p, from) /\ LastCloses(bars, n, scalp)
      /\ from \in Nat /\ 3 <= from /\ (from = 3 \/ from <= n + 1)
  BY <1>1 DEF BookTraced, TradesTraced
<1>4. /\ bars' = Append(bars, b) /\ bars' \in Seq(Bars) /\ Len(bars') = n + 1 /\ n \in Nat
      /\ NextBar(bars, bars', n, b)
  <2>1. bars' = Append(bars, b) /\ bars' \in Seq(Bars) /\ Len(bars') = n + 1 /\ n \in Nat
    BY <1>2 DEF Bar
  <2>2. bars'[n + 1] = b /\ \A k \in 1..n : bars'[k] = bars[k]
    BY <1>2, <2>1
  <2>3. \A k \in 1..(n + 1) : bars'[k] \in Bars
    BY <2>1
  <2>4. \A k \in 1..(n + 1) : bars'[k].h \in Nat /\ bars'[k].l \in Nat /\ bars'[k].c \in Nat
    BY <2>3, BarsAre
  <2>. QED  BY <2>1, <2>2, <2>4 DEF NextBar, Prefix
<1>5. scalp'.prev2 = prev /\ scalp'.prev = b.c
  BY DEF Bar
<1>6. LastCloses(bars', n + 1, scalp')
  BY <1>3, <1>4, <1>5, ClosesMove
<1>7. TradesTraced(bars', n + 1, at, done)
  BY <1>2, <1>3, <1>4, TradesStay DEF NextBar
<1>8. p.in => exit.action = "HOLD" \/ ends
  OBVIOUS
<1>9. /\ exit.action = "HOLD" => ~(b.l * 10 <= TrailLevel(p.peak)) /\ ~(p.held + 1 >= MaxHold)
      /\ exit.action # "HOLD" =>
           \/ b.l * 10 <= TrailLevel(p.peak)
              /\ exit.level = (IF b.l * 10 <= StopLevel(p.entry) /\ StopLevel(p.entry) <= TrailLevel(p.peak)
                               THEN StopLevel(p.entry) ELSE TrailLevel(p.peak))
           \/ ~(b.l * 10 <= TrailLevel(p.peak)) /\ p.held + 1 >= MaxHold /\ exit.level = 10 * b.c
  <2>. DEFINE trail == TrailLevel(p.peak)
              stop == StopLevel(p.entry)
              low == b.l * 10
  <2>1. low \in Int /\ trail \in Int /\ stop \in Int /\ b.c \in Int /\ MaxHold \in Int
    BY <1>2, BarsAre, ScalpAssumption DEF TrailLevel, StopLevel
  <2>2. exit = IF low <= stop /\ stop <= trail THEN [action |-> "EXIT_STOP", level |-> stop]
               ELSE IF low <= trail THEN [action |-> "EXIT_TRAIL", level |-> trail]
               ELSE IF p.held + 1 >= MaxHold THEN [action |-> "EXIT_TIME", level |-> b.c * 10]
               ELSE [action |-> "HOLD", level |-> b.c * 10]
    BY DEF ExitOf, TrailNow
  <2>. HIDE DEF trail, stop, low, exit
  <2>3. exit.action = "HOLD" => ~(low <= trail) /\ ~(p.held + 1 >= MaxHold)
    BY <2>1, <2>2
  <2>4. exit.action # "HOLD" =>
           \/ low <= trail /\ exit.level = (IF low <= stop /\ stop <= trail THEN stop ELSE trail)
           \/ ~(low <= trail) /\ p.held + 1 >= MaxHold /\ exit.level = 10 * b.c
    BY <2>1, <2>2
  <2>. QED  BY <2>3, <2>4 DEF low, trail, stop
<1>10. exit.level \in Int /\ b.c \in Int /\ b.h \in Int
  BY <1>2, ExitTyped
<1>. HIDE DEF exit, from
<1>11. CASE p.in /\ exit.action = "HOLD"
  <2>1. PICK e \in 3..n : HoldsOn(bars, n, p, e) /\ from <= e /\ NoEntry(bars, from, e - 1)
    BY <1>3, <1>11 DEF PositionTraced
  <2>2. done' = done /\ scalp'.pos = [p EXCEPT !.held = @ + 1, !.peak = Larger(@, b.h)]
    BY <1>11 DEF Bar, exit
  <2>3. /\ scalp'.pos.in /\ scalp'.pos.entry = p.entry /\ scalp'.pos.held = p.held + 1
        /\ scalp'.pos.peak = Larger(p.peak, b.h)
    BY <1>2, <1>11, <2>2
  <2>4. p.held + 1 < MaxHold
    BY <1>2, <1>9, <1>11, ScalpAssumption
  <2>5. HoldsOn(bars', n + 1, scalp'.pos, e)
    BY <1>4, <1>9, <1>11, <2>1, <2>3, <2>4, BarHolds
  <2>6. NoEntry(bars', from, e - 1)
    <3>1. \A i \in from..(e - 1) : i \in 3..n
      BY <1>3, <1>4
    <3>. QED  BY <1>4, <2>1, <3>1, SameEntries DEF NoEntry, NextBar
  <2>7. e \in 3..(n + 1)
    BY <1>4
  <2>8. PositionTraced(bars', n + 1, scalp'.pos, from)
    BY <2>1, <2>3, <2>5, <2>6, <2>7 DEF PositionTraced
  <2>. QED  BY <1>4, <1>6, <1>7, <2>2, <2>8 DEF BookIsTraced, BookTraced, from
<1>12. CASE ends
  <2>1. PICK e \in 3..n : HoldsOn(bars, n, p, e) /\ from <= e /\ NoEntry(bars, from, e - 1)
    BY <1>3, <1>12 DEF PositionTraced
  <2>2. done' = Append(done, t) /\ scalp'.pos = Flat
    BY <1>12 DEF Bar, exit
  <2>3. t \in Trades /\ t.entry = p.entry /\ t.level = exit.level /\ t.held = p.held + 1
    BY <1>2, <1>10 DEF Trades
  <2>4. ~scalp'.pos.in
    BY <2>2 DEF Flat
  <2>. HIDE DEF t
  <2>5. ClosedTrade(bars', n + 1, e, t) /\ e + t.held = n + 1
    BY <1>4, <1>9, <1>12, <2>1, <2>3, BarEnds
  <2>6. ClosedAgain(bars', n + 1, Append(done, t))
    BY <1>2, <1>3, <1>4, <2>1, <2>3, <2>5, TradesGoOn DEF from
  <2>7. PICK w : /\ TradesTraced(bars', n + 1, w, Append(done, t))
                  /\ NoEntry(bars', ResumeAt(w, Append(done, t), Len(Append(done, t))), n + 1)
    BY <2>6 DEF ClosedAgain
  <2>8. BookTraced(bars', n + 1, scalp', done', w)
    BY <1>6, <2>2, <2>4, <2>7 DEF BookTraced, PositionTraced
  <2>. QED  BY <1>4, <2>8 DEF BookIsTraced
<1>13. CASE enter
  <2>1. done' = done /\ scalp'.pos = [in |-> TRUE, entry |-> b.c, peak |-> b.c, held |-> 0]
    BY <1>13 DEF Bar
  <2>2. scalp'.pos.in /\ scalp'.pos.entry = b.c /\ scalp'.pos.peak = b.c /\ scalp'.pos.held = 0
    BY <2>1
  <2>3. NoEntry(bars, from, n)
    BY <1>3, <1>13 DEF PositionTraced
  <2>4. PositionTraced(bars', n + 1, scalp'.pos, from)
    BY <1>3, <1>4, <1>13, <2>2, <2>3, BarEnters
  <2>. QED  BY <1>4, <1>6, <1>7, <2>1, <2>4 DEF BookIsTraced, BookTraced, from
<1>14. CASE ~p.in /\ ~enter
  <2>1. done' = done /\ scalp'.pos = Flat
    BY <1>14 DEF Bar
  <2>2. ~scalp'.pos.in
    BY <2>1 DEF Flat
  <2>3. NoEntry(bars, from, n)
    BY <1>3, <1>14 DEF PositionTraced
  <2>4. NoEntry(bars', from, n + 1)
    BY <1>3, <1>4, <1>14, <2>3, BarIdle
  <2>5. PositionTraced(bars', n + 1, scalp'.pos, from)
    BY <2>2, <2>4 DEF PositionTraced
  <2>. QED  BY <1>4, <1>6, <1>7, <2>1, <2>5 DEF BookIsTraced, BookTraced, from
<1>. QED  BY <1>2, <1>11, <1>12, <1>13, <1>14

LEMMA NextTraced ==
  ScalpInv /\ BookIsTraced /\ [ScalpNext]_scalpvars => BookIsTraced'
<1>1. ASSUME ScalpInv, BookIsTraced, ScalpNext PROVE BookIsTraced'
  BY <1>1, BarTraced, RestartTraced DEF ScalpNext
<1>2. ASSUME BookIsTraced, UNCHANGED scalpvars PROVE BookIsTraced'
  BY <1>2 DEF scalpvars, BookIsTraced
<1>. QED  BY <1>1, <1>2

(* What the backtest makes of a trade that ended, and of one still open.     *)
LEMMA LastBarIs ==
  ASSUME NEW bs \in Seq(Bars), NEW i \in 1..Len(bs)
  PROVE  /\ LastBar(bs, i) \in 1..Len(bs) /\ i <= LastBar(bs, i) /\ HitsAfter(bs, i) \in SUBSET (1..Len(bs))
         /\ Len(bs) \in Nat /\ MaxHold \in Nat \ {0}
<1>1. Len(bs) \in Nat /\ MaxHold \in Nat \ {0}
  BY ScalpAssumption
<1>2. LastBar(bs, i) \in 1..Len(bs) /\ i <= LastBar(bs, i)
  BY <1>1 DEF LastBar
<1>3. \A j \in (i + 1)..LastBar(bs, i) : j \in 1..Len(bs)
  BY <1>1, <1>2
<1>. QED  BY <1>1, <1>2, <1>3 DEF HitsAfter

LEMMA ClosedIsExit ==
  ASSUME NEW bs \in Seq(Bars), NEW i, NEW t \in Trades, ClosedTrade(bs, Len(bs), i, t)
  PROVE  ExitIn(bs, i) = t
<1>. DEFINE n == Len(bs)
            j == i + t.held
            last == LastBar(bs, i)
            hits == HitsAfter(bs, i)
<1>1. /\ i \in 3..n /\ i \in 1..n /\ n \in Nat /\ t.held \in 1..MaxHold /\ MaxHold \in Nat \ {0}
      /\ j <= n /\ j \in 1..n /\ t.entry = bs[i].c
  BY ScalpAssumption DEF ClosedTrade
<1>2. last \in 1..n /\ i <= last /\ hits \in SUBSET (1..n) /\ j <= last /\ j \in (i + 1)..last
  <2>1. last \in 1..n /\ i <= last /\ hits \in SUBSET (1..n)
    BY <1>1, LastBarIs
  <2>2. last = IF i + MaxHold <= n THEN i + MaxHold ELSE n
    BY DEF LastBar
  <2>. HIDE DEF last, n, hits
  <2>. QED  BY <1>1, <2>1, <2>2
<1>3. \A k \in (i + 1)..(j - 1) : ~Hit(bs, i, k)
  BY DEF ClosedTrade, Quiet
<1>4. t = [entry |-> t.entry, held |-> t.held, level |-> t.level]
  BY DEF Trades
<1>5. \/ Hit(bs, i, j) /\ t.level = LevelAt(bs, i, j)
      \/ ~Hit(bs, i, j) /\ t.held = MaxHold /\ t.level = 10 * bs[j].c
  BY DEF ClosedTrade
<1>6. \A k : k \in hits <=> k \in (i + 1)..last /\ Hit(bs, i, k)
  BY DEF HitsAfter
<1>7. ExitIn(bs, i) = [entry |-> bs[i].c, held |-> EndBar(bs, i) - i,
                       level |-> IF hits = {} THEN 10 * bs[last].c ELSE LevelAt(bs, i, EndBar(bs, i))]
  BY DEF ExitIn
<1>8. EndBar(bs, i) = IF hits = {} THEN last ELSE Min(hits)
  BY DEF EndBar
<1>9. last = IF i + MaxHold <= n THEN i + MaxHold ELSE n
  BY DEF LastBar
<1>10. j - i = t.held
  BY <1>1
<1>. HIDE DEF n, j, last, hits
<1>11. CASE Hit(bs, i, j)
  <2>1. j \in hits
    BY <1>2, <1>6, <1>11
  <2>2. Min(hits) \in hits /\ \A y \in hits : Min(hits) <= y
    BY <1>1, <1>2, <2>1, LowestIsIn
  <2>3. Min(hits) = j
    <3>1. Min(hits) <= j /\ Min(hits) \in (i + 1)..last /\ Hit(bs, i, Min(hits))
      BY <1>6, <2>1, <2>2
    <3>2. Min(hits) \notin (i + 1)..(j - 1)
      BY <1>3, <3>1
    <3>. QED  BY <1>1, <1>2, <3>1, <3>2
  <2>. QED  BY <1>1, <1>4, <1>5, <1>7, <1>8, <1>10, <1>11, <2>1, <2>3
<1>12. CASE ~Hit(bs, i, j)
  <2>1. t.held = MaxHold /\ t.level = 10 * bs[j].c
    BY <1>5, <1>12
  <2>2. j = last
    <3>1. i + MaxHold = j
      BY <1>10, <2>1, <1>1, <1>2
    <3>. QED  BY <1>1, <1>2, <1>9, <3>1
  <2>3. hits = {}
    <3>1. \A k \in (i + 1)..last : k \in (i + 1)..(j - 1) \/ k = j
      BY <1>1, <1>2, <2>2
    <3>. QED  BY <1>3, <1>6, <1>12, <3>1
  <2>. QED  BY <1>1, <1>4, <1>7, <1>8, <1>10, <2>1, <2>2, <2>3
<1>. QED  BY <1>11, <1>12

LEMMA OpenIsExit ==
  ASSUME NEW bs \in Seq(Bars), NEW p, NEW e, HoldsOn(bs, Len(bs), p, e)
  PROVE  ExitIn(bs, e) = [entry |-> p.entry, held |-> p.held, level |-> 10 * bs[Len(bs)].c]
<1>. DEFINE n == Len(bs)
            last == LastBar(bs, e)
            hits == HitsAfter(bs, e)
<1>1. /\ e \in 3..n /\ n \in Nat /\ MaxHold \in Nat \ {0} /\ n - e < MaxHold
      /\ p.entry = bs[e].c /\ p.held = n - e
  BY ScalpAssumption DEF HoldsOn
<1>2. last = n
  <2>1. last = IF e + MaxHold <= n THEN e + MaxHold ELSE n
    BY DEF LastBar
  <2>. HIDE DEF n, last
  <2>. QED  BY <1>1, <2>1
<1>3. hits = {}
  BY <1>2 DEF HitsAfter, HoldsOn, Quiet
<1>4. ExitIn(bs, e) = [entry |-> bs[e].c, held |-> EndBar(bs, e) - e,
                       level |-> IF hits = {} THEN 10 * bs[last].c ELSE LevelAt(bs, e, EndBar(bs, e))]
  BY DEF ExitIn
<1>5. EndBar(bs, e) = IF hits = {} THEN last ELSE Min(hits)
  BY DEF EndBar
<1>. HIDE DEF last, hits
<1>. QED  BY <1>1, <1>2, <1>3, <1>4, <1>5

LEMMA ExitInTyped == ASSUME NEW bs \in Seq(Bars), NEW i \in 3..Len(bs) PROVE ExitIn(bs, i) \in Trades
<1>. DEFINE n == Len(bs)
            last == LastBar(bs, i)
            hits == HitsAfter(bs, i)
            j == EndBar(bs, i)
<1>1. \A k \in 1..n : bs[k] \in Bars /\ bs[k].h \in Nat /\ bs[k].l \in Nat /\ bs[k].c \in Nat
  BY BarsAre
<1>2. /\ i \in 1..n /\ n \in Nat /\ last \in 1..n /\ i <= last /\ hits \in SUBSET (1..n)
  <2>1. i \in 1..n /\ n \in Nat
    OBVIOUS
  <2>. QED  BY <2>1, LastBarIs
<1>3. j \in 1..n
  <2>1. hits # {} => Min(hits) \in 1..n
    <3>. HIDE DEF hits, n
    <3>. QED  BY <1>2, LowestIsIn
  <2>. QED  BY <1>2, <2>1 DEF EndBar
<1>4. LevelAt(bs, i, j) \in Int
  <2>. DEFINE peak == PeakOf(bs, i, j)
              entry == bs[i].c
  <2>1. peak \in Int /\ entry \in Int
    <3>1. j \in 1..(n + 1)
      BY <1>2, <1>3
    <3>. HIDE DEF n, j, peak
    <3>2. PeakOf(bs, i, j) \in Nat
      BY <1>1, <1>2, <3>1, PeakIsHigh
    <3>. QED  BY <1>1, <1>2, <3>2 DEF peak
  <2>2. 10 - Trail \in Int /\ 10 - HardStop \in Int
    BY ScalpAssumption
  <2>. HIDE DEF peak, entry
  <2>3. peak * (10 - Trail) \in Int /\ entry * (10 - HardStop) \in Int
    BY <2>1, <2>2, TimesOver
  <2>4. TrailLevel(peak) \in Int /\ StopLevel(entry) \in Int
    BY <2>3 DEF TrailLevel, StopLevel
  <2>5. LevelAt(bs, i, j) \in {TrailLevel(peak), StopLevel(entry)}
    BY DEF LevelAt, peak, entry
  <2>. QED  BY <2>4, <2>5
<1>5. ExitIn(bs, i) = [entry |-> bs[i].c, held |-> j - i,
                       level |-> IF hits = {} THEN 10 * bs[last].c ELSE LevelAt(bs, i, j)]
  BY DEF ExitIn
<1>6. bs[i].c \in Int /\ 10 * bs[last].c \in Int /\ j - i \in Int
  BY <1>1, <1>2, <1>3
<1>. HIDE DEF n, last, hits, j
<1>. QED  BY <1>4, <1>5, <1>6 DEF Trades

ScanRuns == [next : Int, trades : Seq(Trades)]
ScanStart == [next |-> 3, trades |-> <<>>]
LEMMA ScanAdvances == ASSUME NEW bs \in Seq(Bars) PROVE Advances("scan", bs, ScanRuns, 3..(Len(bs) - 1))
<1>1. ASSUME NEW a \in ScanRuns, NEW i \in 3..(Len(bs) - 1) PROVE Advance("scan", bs, a, i) \in ScanRuns
  <2>. DEFINE x == ExitIn(bs, i)
  <2>1. Advance("scan", bs, a, i) = ScanStep(a, i, bs)
    BY DEF Advance
  <2>2. i \in 3..Len(bs)
    OBVIOUS
  <2>3. x \in Trades /\ x.held \in Int
    BY <2>2, ExitInTyped DEF Trades
  <2>. HIDE DEF x
  <2>4. a.trades \in Seq(Trades) /\ a.next \in Int
    BY DEF ScanRuns
  <2>5. Append(a.trades, x) \in Seq(Trades) /\ i + x.held + 1 \in Int
    BY <2>3, <2>4
  <2>6. [next |-> i + x.held + 1, trades |-> Append(a.trades, x)] \in ScanRuns
    BY <2>5 DEF ScanRuns
  <2>7. ScanStep(a, i, bs) = a \/ ScanStep(a, i, bs) = [next |-> i + x.held + 1, trades |-> Append(a.trades, x)]
    BY DEF ScanStep, x
  <2>. QED  BY <2>1, <2>6, <2>7
<1>. QED  BY <1>1 DEF Advances

(* A list of trades that leaves out no entry the scan would take.            *)
AllExits(bs, at, all) ==
  /\ all \in Seq(Trades) /\ at \in [1..Len(all) -> Nat]
  /\ \A c \in 1..Len(all) :
       /\ ExitIn(bs, at[c]) = all[c] /\ all[c].held \in Nat /\ EntersAt(bs, at[c]) /\ at[c] <= Len(bs) - 1
       /\ ResumeAt(at, all, c - 1) \in 3..at[c] /\ NoEntry(bs, ResumeAt(at, all, c - 1), at[c] - 1)
  /\ NoEntry(bs, ResumeAt(at, all, Len(all)), Len(bs) - 1)

(* What the scan has of it after the bars up to i.                           *)
Scanned(at, all, a, c, i) ==
  /\ c \in 0..Len(all) /\ Len(a.trades) = c /\ \A x \in 1..c : a.trades[x] = all[x]
  /\ a.next = ResumeAt(at, all, c) /\ (c < Len(all) => at[c + 1] > i)
HasScanned(at, all, a, i) == \E c \in 0..Len(all) : Scanned(at, all, a, c, i)

LEMMA ScanGoesOn ==
  ASSUME NEW bs \in Seq(Bars), NEW at, NEW all, AllExits(bs, at, all),
         NEW a \in ScanRuns, NEW i \in 3..(Len(bs) - 1), HasScanned(at, all, a, i - 1)
  PROVE  HasScanned(at, all, ScanStep(a, i, bs), i)
<1>. DEFINE m == Len(all)
            x == ExitIn(bs, i)
            z == [next |-> i + x.held + 1, trades |-> Append(a.trades, x)]
            N == Len(bs)
<1>1. PICK c \in 0..m : Scanned(at, all, a, c, i - 1)
  BY DEF HasScanned
<1>2. /\ m \in Nat /\ N \in Nat /\ c \in Nat /\ i \in Nat /\ i <= N - 1 /\ a.next \in Int /\ a.trades \in Seq(Trades)
      /\ at \in [1..m -> Nat] /\ Len(a.trades) = c /\ (\A k \in 1..c : a.trades[k] = all[k])
      /\ a.next = ResumeAt(at, all, c)
      /\ (c < m => c + 1 \in 1..m /\ at[c + 1] \in Nat /\ at[c + 1] >= i)
  <2>1. c < m => c + 1 \in 1..m /\ at[c + 1] \in Nat
    BY <1>1 DEF AllExits
  <2>. QED  BY <1>1, <2>1 DEF AllExits, ScanRuns, Scanned
<1>3. c < m => /\ ExitIn(bs, at[c + 1]) = all[c + 1] /\ all[c + 1].held \in Nat /\ EntersAt(bs, at[c + 1])
               /\ NoEntry(bs, a.next, at[c + 1] - 1) /\ a.next <= at[c + 1]
  <2>1. (c + 1) - 1 = c
    BY <1>2
  <2>2. c < m => ResumeAt(at, all, (c + 1) - 1) \in 3..at[c + 1] /\ NoEntry(bs, ResumeAt(at, all, (c + 1) - 1), at[c + 1] - 1)
    BY <1>2 DEF AllExits
  <2>. QED  BY <1>2, <2>1, <2>2 DEF AllExits
<1>4. c = m => NoEntry(bs, a.next, N - 1)
  BY <1>2 DEF AllExits
<1>5. ScanStep(a, i, bs) = IF i < a.next \/ ~EntersAt(bs, i) THEN a ELSE z
  BY DEF ScanStep
<1>. HIDE DEF m, x, z, N
<1>6. CASE i < a.next \/ ~EntersAt(bs, i)
  <2>1. c < m => at[c + 1] > i
    <3>1. ASSUME c < m, at[c + 1] = i PROVE FALSE
      BY <1>2, <1>3, <1>6, <3>1
    <3>. QED  BY <1>2, <3>1
  <2>2. Scanned(at, all, a, c, i)
    BY <1>1, <2>1 DEF Scanned, m
  <2>. QED  BY <1>1, <1>5, <1>6, <2>2 DEF HasScanned, m
<1>7. CASE ~(i < a.next) /\ EntersAt(bs, i)
  <2>1. c < m
    <3>1. ASSUME c = m PROVE FALSE
      <4>1. i \in a.next..(N - 1)
        BY <1>2, <1>7
      <4>. QED  BY <1>4, <1>7, <3>1, <4>1 DEF NoEntry
    <3>. QED  BY <1>1, <1>2, <3>1
  <2>2. at[c + 1] = i
    <3>1. ASSUME at[c + 1] > i PROVE FALSE
      <4>1. i \in a.next..(at[c + 1] - 1)
        BY <1>2, <1>7, <2>1, <3>1
      <4>. QED  BY <1>3, <1>7, <2>1, <4>1 DEF NoEntry
    <3>. QED  BY <1>2, <2>1, <3>1
  <2>3. x = all[c + 1] /\ x.held \in Nat /\ c + 1 \in 1..m /\ c + 1 \in 0..m /\ c + 1 # 0
    BY <1>2, <1>3, <2>1, <2>2 DEF x
  <2>4. x \in Trades
    BY <2>3 DEF AllExits, m
  <2>5. z.next = ResumeAt(at, all, c + 1)
    BY <2>2, <2>3 DEF z, ResumeAt
  <2>6. Len(z.trades) = c + 1 /\ \A k \in 1..(c + 1) : z.trades[k] = all[k]
    <3>1. z.trades = Append(a.trades, x)
      BY DEF z
    <3>. HIDE DEF z
    <3>. QED  BY <1>2, <2>3, <2>4, <3>1
  <2>7. c + 1 < m => at[(c + 1) + 1] > i
    <3>1. CASE c + 1 < m
      <4>1. (c + 1) + 1 \in 1..m /\ ((c + 1) + 1) - 1 = c + 1 /\ at[(c + 1) + 1] \in Nat
        BY <1>2, <3>1
      <4>2. ResumeAt(at, all, c + 1) \in 3..at[(c + 1) + 1]
        BY <4>1 DEF AllExits, m
      <4>3. ResumeAt(at, all, c + 1) = i + x.held + 1
        BY <2>5 DEF z
      <4>. DEFINE y == at[(c + 1) + 1]
                  h == x.held
      <4>4. y \in Nat /\ h \in Nat /\ i + h + 1 \in 3..y
        BY <2>3, <4>1, <4>2, <4>3
      <4>. HIDE DEF y, h
      <4>5. y > i
        BY <1>2, <4>4
      <4>. QED  BY <4>5 DEF y
    <3>. QED  BY <3>1
  <2>8. Scanned(at, all, z, c + 1, i)
    BY <2>3, <2>5, <2>6, <2>7 DEF Scanned, m
  <2>. QED  BY <1>5, <1>7, <2>3, <2>8 DEF HasScanned, m
<1>. QED  BY <1>6, <1>7

LEMMA ScanFinds ==
  ASSUME NEW bs \in Seq(Bars), NEW at, NEW all, AllExits(bs, at, all)
  PROVE  Folded("scan", bs, ScanStart, [k \in 1..Larger(Len(bs) - 3, 0) |-> k + 2]).trades = all
<1>. DEFINE N == Len(bs)
            n == Larger(N - 3, 0)
            s == [k \in 1..n |-> k + 2]
            S == 3..(N - 1)
            m == Len(all)
            base == ScanStart
<1>1. N \in Nat /\ n \in Nat /\ (n = IF N > 3 THEN N - 3 ELSE 0)
  <2>1. N \in Nat
    OBVIOUS
  <2>. HIDE DEF N
  <2>. QED  BY <2>1 DEF Larger
<1>2. s \in [1..n -> S] /\ \A k \in 1..n : s[k] = k + 2 /\ s[k] \in S
  <2>1. \A k \in 1..n : k + 2 \in S
    BY <1>1
  <2>. QED  BY <2>1
<1>3. base \in ScanRuns /\ base.next = 3 /\ base.trades = <<>>
  BY DEF ScanRuns, ScanStart
<1>4. Advances("scan", bs, ScanRuns, S)
  BY ScanAdvances
<1>5. m \in Nat /\ all \in Seq(Trades) /\ at \in [1..m -> Nat]
  BY DEF AllExits
<1>. HIDE DEF N, n, s, S, m, base
<1>6. PICK F : IsRunOf(F, n, base, PassStep("scan", bs, s, n, ScanRuns)) /\ F[n] = Folded("scan", bs, base, s)
  BY <1>1, <1>2, <1>3, <1>4, PassRuns
<1>7. PassStep("scan", bs, s, n, ScanRuns) \in [(1..n) \X ScanRuns -> ScanRuns]
  BY <1>1, <1>2, <1>4, PassStepTyped
<1>8. \A k \in 0..n : F[k] \in ScanRuns
  BY <1>1, <1>3, <1>6, <1>7, RunTyped
<1>9. \A k \in 1..n : F[k] = ScanStep(F[k - 1], k + 2, bs)
  <2>1. ASSUME NEW k \in 1..n PROVE F[k] = ScanStep(F[k - 1], k + 2, bs)
    <3>1. k - 1 \in 0..n /\ F[k - 1] \in ScanRuns
      BY <1>1, <1>8
    <3>2. F[k] = Advance("scan", bs, F[k - 1], s[k])
      BY <1>6, <3>1 DEF IsRunOf, PassStep
    <3>. QED  BY <1>2, <3>2 DEF Advance
  <2>. QED  BY <2>1
<1>10. HasScanned(at, all, F[0], 2)
  <2>1. F[0] = base /\ Len(<<>>) = 0
    BY <1>6 DEF IsRunOf
  <2>2. 0 < m => at[0 + 1] > 2
    <3>1. CASE 0 < m
      <4>1. 1 \in 1..m /\ at[1] \in Nat /\ 1 - 1 = 0 /\ 0 + 1 = 1
        BY <1>5, <3>1
      <4>2. ResumeAt(at, all, 0) \in 3..at[1]
        BY <4>1 DEF AllExits, m
      <4>. QED  BY <4>1, <4>2 DEF ResumeAt
    <3>. QED  BY <3>1
  <2>3. 0 \in 0..m /\ 1..0 = {} /\ ResumeAt(at, all, 0) = 3
    BY <1>5 DEF ResumeAt
  <2>4. Scanned(at, all, F[0], 0, 2)
    BY <1>3, <2>1, <2>2, <2>3 DEF Scanned, m
  <2>. QED  BY <2>3, <2>4 DEF HasScanned, m
<1>11. \A k \in 0..n : HasScanned(at, all, F[k], k + 2)
  <2>. DEFINE Bad == {k \in 0..n : ~HasScanned(at, all, F[k], k + 2)}
  <2>. SUFFICES ASSUME Bad # {} PROVE FALSE
    OBVIOUS
  <2>1. PICK k \in Bad : k \in 0..n /\ (k # 0 => k - 1 \in 0..n /\ k - 1 \notin Bad)
    <3>1. Bad \subseteq 0..n
      OBVIOUS
    <3>. HIDE DEF Bad
    <3>. QED  BY <1>1, <3>1, FirstBad
  <2>2. k # 0
    <3>1. 0 + 2 = 2
      OBVIOUS
    <3>. QED  BY <1>10, <3>1
  <2>3. k \in 1..n /\ k - 1 \in 0..n /\ (k - 1) + 2 = (k + 2) - 1 /\ k + 2 \in 3..(N - 1)
    BY <1>1, <2>1, <2>2
  <2>4. HasScanned(at, all, F[k - 1], (k + 2) - 1)
    BY <2>1, <2>2, <2>3
  <2>5. HasScanned(at, all, ScanStep(F[k - 1], k + 2, bs), k + 2)
    BY <1>8, <2>3, <2>4, ScanGoesOn DEF N
  <2>. QED  BY <1>9, <2>1, <2>3, <2>5
<1>12. PICK c \in 0..m : Scanned(at, all, F[n], c, n + 2)
  <2>1. n \in 0..n
    BY <1>1
  <2>. QED  BY <1>11, <2>1 DEF HasScanned, m
<1>13. c = m
  <2>1. ASSUME c < m PROVE FALSE
    <3>1. c + 1 \in 1..m /\ at[c + 1] \in Nat /\ at[c + 1] > n + 2
      BY <1>5, <1>12, <2>1 DEF Scanned, m
    <3>2. at[c + 1] <= N - 1 /\ ResumeAt(at, all, (c + 1) - 1) \in 3..at[c + 1]
      BY <3>1 DEF AllExits, m, N
    <3>3. at[c + 1] >= 3
      BY <3>1, <3>2
    <3>. QED  BY <1>1, <3>1, <3>2, <3>3
  <2>. QED  BY <1>5, <1>12, <2>1
<1>14. F[n].trades \in Seq(Trades) /\ Len(F[n].trades) = m /\ \A k \in 1..m : F[n].trades[k] = all[k]
  <2>1. n \in 0..n
    BY <1>1
  <2>. QED  BY <1>8, <1>12, <1>13, <2>1 DEF Scanned, ScanRuns
<1>15. F[n].trades = all
  <2>. DEFINE f == F[n].trades
  <2>1. f \in Seq(Trades) /\ Len(f) = Len(all) /\ \A k \in 1..Len(all) : f[k] = all[k]
    BY <1>14 DEF m
  <2>. HIDE DEF f
  <2>2. f = all
    BY <1>5, <2>1
  <2>. QED  BY <2>2 DEF f
<1>. QED  BY <1>6, <1>15 DEF base, s, n, N

(* The trades of the book, and the open one valued at the last close.        *)
OpenTrade(s) == [entry |-> s.pos.entry, level |-> 10 * s.prev, held |-> s.pos.held]
IsOpen(s) == s.pos.in /\ s.pos.held > 0

LEMMA ClosedExits ==
  ASSUME NEW bs \in Seq(Bars), NEW at, NEW ds \in Seq(Trades), TradesTraced(bs, Len(bs), at, ds)
  PROVE  \A c \in 1..Len(ds) :
           /\ ExitIn(bs, at[c]) = ds[c] /\ ds[c].held \in Nat /\ EntersAt(bs, at[c]) /\ at[c] <= Len(bs) - 1
           /\ ResumeAt(at, ds, c - 1) \in 3..at[c] /\ NoEntry(bs, ResumeAt(at, ds, c - 1), at[c] - 1)
<1>. SUFFICES ASSUME NEW c \in 1..Len(ds)
              PROVE  /\ ExitIn(bs, at[c]) = ds[c] /\ ds[c].held \in Nat /\ EntersAt(bs, at[c]) /\ at[c] <= Len(bs) - 1
                     /\ ResumeAt(at, ds, c - 1) \in 3..at[c] /\ NoEntry(bs, ResumeAt(at, ds, c - 1), at[c] - 1)
  OBVIOUS
<1>1. Began(bs, Len(bs), at, ds, c) /\ ds[c] \in Trades
  BY DEF TradesTraced
<1>2. ClosedTrade(bs, Len(bs), at[c], ds[c])
  BY <1>1 DEF Began
<1>3. ExitIn(bs, at[c]) = ds[c]
  BY <1>1, <1>2, ClosedIsExit
<1>4. ds[c].held \in Nat /\ at[c] <= Len(bs) - 1
  <2>1. ds[c].held \in 1..MaxHold /\ at[c] + ds[c].held <= Len(bs) /\ at[c] \in 3..Len(bs)
    BY <1>2 DEF ClosedTrade
  <2>2. MaxHold \in Nat /\ Len(bs) \in Nat
    BY ScalpAssumption
  <2>. HIDE DEF Trades
  <2>. QED  BY <2>1, <2>2
<1>. QED  BY <1>1, <1>3, <1>4 DEF Began

ExitsAre(bs, ds) == \E at : AllExits(bs, at, ds)

LEMMA FlatExits ==
  ASSUME NEW bs \in Seq(Bars), NEW at, NEW s, NEW ds \in Seq(Trades), BookTraced(bs, Len(bs), s, ds, at), ~IsOpen(s)
  PROVE  ExitsAre(bs, ds)
<1>. DEFINE n == Len(bs)
            from == ResumeAt(at, ds, Len(ds))
<1>1. TradesTraced(bs, n, at, ds) /\ PositionTraced(bs, n, s.pos, from) /\ n \in Nat /\ from \in Nat
  BY DEF BookTraced, TradesTraced
<1>2. NoEntry(bs, from, n - 1)
  <2>1. CASE ~s.pos.in
    <3>1. NoEntry(bs, from, n)
      BY <1>1, <2>1 DEF PositionTraced
    <3>2. \A i \in from..(n - 1) : i \in from..n
      BY <1>1
    <3>. QED  BY <3>1, <3>2 DEF NoEntry
  <2>2. CASE s.pos.in
    <3>1. PICK e \in 3..n : HoldsOn(bs, n, s.pos, e) /\ NoEntry(bs, from, e - 1)
      BY <1>1, <2>2 DEF PositionTraced
    <3>2. e = n
      BY <1>1, <2>2, <3>1 DEF HoldsOn, IsOpen
    <3>. QED  BY <3>1, <3>2
  <2>. QED  BY <2>1, <2>2
<1>3. AllExits(bs, at, ds)
  BY <1>1, <1>2, ClosedExits DEF AllExits, TradesTraced
<1>. QED  BY <1>3 DEF ExitsAre

LEMMA OpenExits ==
  ASSUME NEW bs \in Seq(Bars), NEW at, NEW s \in Scalps, NEW ds \in Seq(Trades),
         BookTraced(bs, Len(bs), s, ds, at), IsOpen(s)
  PROVE  ExitsAre(bs, Append(ds, OpenTrade(s)))
<1>. DEFINE n == Len(bs)
            m == Len(ds)
            from == ResumeAt(at, ds, m)
            t == OpenTrade(s)
<1>1. TradesTraced(bs, n, at, ds) /\ n \in Nat /\ from \in Nat /\ 3 <= from /\ m \in Nat /\ at \in [1..m -> Nat]
  BY DEF BookTraced, TradesTraced
<1>2. PICK e \in 3..n : HoldsOn(bs, n, s.pos, e) /\ from <= e /\ NoEntry(bs, from, e - 1)
  BY DEF BookTraced, PositionTraced, IsOpen
<1>3. e \in Nat /\ s.pos.held = n - e /\ e <= n - 1 /\ EntersAt(bs, e) /\ s.pos.held \in Nat
  BY <1>1, <1>2 DEF HoldsOn, IsOpen
<1>4. t \in Trades /\ t = [entry |-> s.pos.entry, held |-> s.pos.held, level |-> 10 * s.prev]
      /\ t.held = n - e
  <2>1. s.pos.entry \in Int /\ s.prev \in Int /\ s.pos.held \in Int /\ 10 * s.prev \in Int
    BY DEF Scalps
  <2>. QED  BY <1>3, <2>1 DEF OpenTrade, Trades
<1>5. ExitIn(bs, e) = t
  <2>1. s.prev = bs[n].c
    BY <1>1, <1>2 DEF BookTraced, LastCloses
  <2>2. ExitIn(bs, e) = [entry |-> s.pos.entry, held |-> s.pos.held, level |-> 10 * bs[n].c]
    BY <1>2, OpenIsExit
  <2>. HIDE DEF t
  <2>. QED  BY <1>4, <2>1, <2>2
<1>6. \A c \in 1..m :
           /\ ExitIn(bs, at[c]) = ds[c] /\ ds[c].held \in Nat /\ EntersAt(bs, at[c]) /\ at[c] <= n - 1
           /\ ResumeAt(at, ds, c - 1) \in 3..at[c] /\ NoEntry(bs, ResumeAt(at, ds, c - 1), at[c] - 1)
  BY <1>1, ClosedExits
<1>. DEFINE ds2 == Append(ds, t)
            at2 == [x \in 1..(m + 1) |-> IF x = m + 1 THEN e ELSE at[x]]
<1>. SUFFICES ExitsAre(bs, ds2)
  OBVIOUS
<1>7. /\ ds2 \in Seq(Trades) /\ Len(ds2) = m + 1 /\ ds2[m + 1] = t /\ (\A x \in 1..m : ds2[x] = ds[x])
      /\ at2 \in [1..(m + 1) -> Nat] /\ at2[m + 1] = e /\ \A x \in 1..m : at2[x] = at[x]
  <2>1. /\ ds2 \in Seq(Trades) /\ Len(ds2) = m + 1 /\ ds2[m + 1] = t /\ (\A x \in 1..m : ds2[x] = ds[x])
    <3>. HIDE DEF t
    <3>. QED  BY <1>4
  <2>2. at2 \in [1..(m + 1) -> Nat] /\ at2[m + 1] = e /\ \A x \in 1..m : at2[x] = at[x]
    BY <1>1, <1>3
  <2>. QED  BY <2>1, <2>2
<1>8. m + 1 # 0 /\ (e + (n - e)) + 1 = n + 1
  BY <1>1, <1>3
<1>. HIDE DEF ds2, at2, m, from, t, n
<1>9. \A c \in 0..m : ResumeAt(at2, ds2, c) = ResumeAt(at, ds, c)
  <2>1. ASSUME NEW c \in 0..m PROVE ResumeAt(at2, ds2, c) = ResumeAt(at, ds, c)
    <3>1. c # 0 => c \in 1..m
      BY <1>1
    <3>. QED  BY <1>7, <3>1 DEF ResumeAt
  <2>. QED  BY <2>1
<1>10. ResumeAt(at2, ds2, m + 1) = n + 1
  BY <1>1, <1>3, <1>4, <1>7, <1>8 DEF ResumeAt
<1>11. ASSUME NEW c \in 1..(m + 1)
       PROVE  /\ ExitIn(bs, at2[c]) = ds2[c] /\ ds2[c].held \in Nat /\ EntersAt(bs, at2[c]) /\ at2[c] <= n - 1
              /\ ResumeAt(at2, ds2, c - 1) \in 3..at2[c] /\ NoEntry(bs, ResumeAt(at2, ds2, c - 1), at2[c] - 1)
  <2>1. c - 1 \in 0..m
    BY <1>1
  <2>2. CASE c \in 1..m
    BY <1>6, <1>7, <1>9, <2>1, <2>2
  <2>3. CASE c = m + 1
    <3>1. c - 1 = m /\ ResumeAt(at2, ds2, c - 1) = from /\ from \in 3..e
      BY <1>1, <1>2, <1>3, <1>9, <2>1, <2>3 DEF from
    <3>. QED  BY <1>2, <1>3, <1>4, <1>5, <1>7, <2>3, <3>1
  <2>. QED  BY <1>1, <2>2, <2>3
<1>12. NoEntry(bs, n + 1, n - 1)
  <2>1. (n + 1)..(n - 1) = {}
    BY <1>1
  <2>. QED  BY <2>1 DEF NoEntry
<1>13. AllExits(bs, at2, ds2)
  BY <1>7, <1>10, <1>11, <1>12 DEF AllExits, n
<1>. QED  BY <1>13 DEF ExitsAre

LEMMA BacktestIsScan ==
  BacktestMomentum = Folded("scan", bars, ScanStart, [k \in 1..Larger(Len(bars) - 3, 0) |-> k + 2]).trades
  BY DEF BacktestMomentum, Folded, Advance, ScanStep, ScanStart, EntersAt, FoldLeft, MapThenFoldSet,
         SimulateExit, ExitIn, EndBar, HitsAfter, LastBar, LevelAt, Hit, PeakOf, PeakSet, PeakAt

LEMMA TracedIsBacktest == ScalpInv /\ BookIsTraced => BookIsBacktest
<1>. SUFFICES ASSUME ScalpInv, BookIsTraced PROVE BookIsBacktest
  OBVIOUS
<1>. DEFINE bt == BacktestMomentum
            open == scalp.pos.in /\ scalp.pos.held > 0
            t == [entry |-> scalp.pos.entry, level |-> 10 * scalp.prev, held |-> scalp.pos.held]
<1>1. bars \in Seq(Bars) /\ done \in Seq(Trades) /\ scalp \in Scalps /\ Len(done) \in Nat
      /\ DOMAIN done = 1..Len(done)
  BY DEF BookIsTraced, ScalpInv, ScalpOK
<1>2. PICK at : BookTraced(bars, Len(bars), scalp, done, at)
  BY DEF BookIsTraced
<1>3. ASSUME NEW all, ExitsAre(bars, all) PROVE bt = all
  <2>1. PICK w : AllExits(bars, w, all)
    BY <1>3 DEF ExitsAre
  <2>. QED  BY <1>1, <2>1, ScanFinds, BacktestIsScan
<1>4. CASE ~open
  <2>1. ExitsAre(bars, done)
    BY <1>1, <1>2, <1>4, FlatExits DEF IsOpen
  <2>2. bt = done
    BY <1>3, <2>1
  <2>. HIDE DEF bt, open, t
  <2>3. /\ Len(bt) = Len(done) + (IF open THEN 1 ELSE 0) /\ \A k \in DOMAIN done : bt[k] = done[k]
        /\ open => Last(bt) = t
    BY <1>1, <1>4, <2>2
  <2>. QED  BY <2>3 DEF BookIsBacktest, bt, open, t
<1>5. CASE open
  <2>1. ExitsAre(bars, Append(done, OpenTrade(scalp)))
    BY <1>1, <1>2, <1>5, OpenExits DEF IsOpen
  <2>2. t = OpenTrade(scalp) /\ t \in Trades
    <3>1. scalp.pos.entry \in Int /\ scalp.prev \in Int /\ scalp.pos.held \in Int /\ 10 * scalp.prev \in Int
      BY <1>1 DEF Scalps
    <3>. QED  BY <3>1 DEF OpenTrade, Trades
  <2>3. bt = Append(done, t)
    BY <1>3, <2>1, <2>2
  <2>. HIDE DEF bt, open, t
  <2>4. Len(bt) = Len(done) + 1 /\ (\A k \in 1..Len(done) : bt[k] = done[k]) /\ bt[Len(bt)] = t
    BY <1>1, <2>2, <2>3
  <2>5. /\ Len(bt) = Len(done) + (IF open THEN 1 ELSE 0) /\ \A k \in DOMAIN done : bt[k] = done[k]
        /\ open => Last(bt) = t
    BY <1>1, <1>5, <2>4 DEF Last
  <2>. QED  BY <2>5 DEF BookIsBacktest, bt, open, t
<1>. QED  BY <1>4, <1>5

(* Fed one bar at a time, the paper scalper has the trades the backtest of   *)
(* the same rules finds in the whole series, and the open one besides, for   *)
(* every series of bars and every trail, stop and holding time               *)
(* (scalp_shadow.py:29, momentum_backtest.py).                               *)
THEOREM ScalperIsBacktest == BooksSpec => []BookIsBacktest
<1>. DEFINE Inv == ScalpInv /\ BookIsTraced
<1>1. BooksInit => Inv
  BY InitScalpInv, InitTraced DEF BooksInit
<1>2. Inv /\ [BooksNext]_<<part, recordvars, papervars>> => Inv'
  BY ScalperStep, NextScalpInv, NextTraced
<1>3. Inv => BookIsBacktest
  BY TracedIsBacktest
<1>. QED  BY <1>1, <1>2, <1>3, PTL DEF BooksSpec

(* A paper book fed one reading at a time and rebuilt after every restart is *)
(* the backtest of the same readings (shadow.py:68, carry_backtest.py:49,    *)
(* scalp_shadow.py:29).                                                      *)
THEOREM BooksAreAlwaysBacktests == BooksSpec => []BooksAreBacktests
<1>1. BookIsContinuous /\ EpisodesAgree /\ BookIsBacktest => BooksAreBacktests
  BY DEF BooksAreBacktests
<1>. QED  BY <1>1, BookStaysContinuous, EpisodesAlwaysAgree, ScalperIsBacktest, PTL

------------------------------------------------------------------------------
(* The tax ledger.  A sell takes units off the front of the first lot of its *)
(* coin; whether it takes them one by one or as many as the lot has, what is *)
(* left, and what is booked, are the same units.                             *)
TaxUnits == [coin : Coins, price : Int, unit : Int, id : Int]
TaxSolds == [buy : Int, sell : Int, pnl : Int]
TaxRuns == [units : Seq(TaxUnits), sold : Seq(TaxSolds)]
GoodFills == [coin : Coins, side : {"BUY", "SELL"}, qty : Nat \ {0}, price : Nat \ {0},
              unit : Nat, id : Nat]
GoodLots == {l \in BuyLot : l.fee = l.qty * (l.fee \div l.qty)}
GoodTrades == {t \in MatchedTrade : t.pnl = t.qty * (t.pnl \div t.qty)}

LEMMA RepeatIs ==
  ASSUME NEW T, NEW x \in T, NEW n \in Nat
  PROVE  /\ Repeat(x, n) \in Seq(T) /\ Len(Repeat(x, n)) = n /\ Repeat(x, 0) = <<>>
         /\ \A i \in 1..n : Repeat(x, n)[i] = x
         /\ Repeat(x, n + 1) = Append(Repeat(x, n), x)
         /\ Repeat(x, n + 1) = <<x>> \o Repeat(x, n)
<1>1. \A m \in Nat : /\ Repeat(x, m) \in Seq(T) /\ Len(Repeat(x, m)) = m
                     /\ \A i \in 1..m : Repeat(x, m)[i] = x
  BY DEF Repeat
<1>2. Repeat(x, 0) = <<>>
  BY <1>1
<1>. DEFINE a == Repeat(x, n)
            b == Repeat(x, n + 1)
<1>3. /\ a \in Seq(T) /\ Len(a) = n /\ \A i \in 1..n : a[i] = x
      /\ b \in Seq(T) /\ Len(b) = n + 1 /\ \A i \in 1..(n + 1) : b[i] = x
  BY <1>1
<1>. HIDE DEF a, b
<1>4. b = Append(a, x)
  <2>1. Append(a, x) \in Seq(T) /\ Len(Append(a, x)) = n + 1 /\ \A i \in 1..(n + 1) : Append(a, x)[i] = x
    BY <1>3
  <2>. QED  BY <1>3, <2>1
<1>5. b = <<x>> \o a
  <2>. DEFINE c == <<x>> \o a
  <2>1. c \in Seq(T) /\ Len(c) = n + 1 /\ \A i \in 1..(n + 1) : c[i] = x
    BY <1>3
  <2>. HIDE DEF c
  <2>2. b = c
    BY <1>3, <2>1
  <2>. QED  BY <2>2 DEF c
<1>. QED  BY <1>1, <1>2, <1>4, <1>5 DEF a, b

LEMMA JoinedThrice ==
  ASSUME NEW T, NEW a \in Seq(T), NEW b \in Seq(T), NEW c \in Seq(T)
  PROVE  (a \o b) \o c = a \o (b \o c) /\ a \o b \in Seq(T) /\ a \o <<>> = a /\ <<>> \o a = a
         /\ a \o (b \o c) \in Seq(T)
<1>1. a \o b \in Seq(T) /\ b \o c \in Seq(T)
  OBVIOUS
<1>. DEFINE l == (a \o b) \o c
            r == a \o (b \o c)
            n == Len(a) + Len(b) + Len(c)
<1>2. l \in Seq(T) /\ r \in Seq(T) /\ Len(l) = n /\ Len(r) = n
  BY <1>1
<1>3. ASSUME NEW i \in 1..n PROVE l[i] = r[i]
  BY <1>1, <1>3
<1>4. l = r
  <2>. HIDE DEF l, r, n
  <2>. QED  BY <1>2, <1>3
<1>. QED  BY <1>1, <1>2, <1>4

LEMMA JoinedAppend ==
  ASSUME NEW T, NEW a \in Seq(T), NEW b \in Seq(T), NEW x \in T
  PROVE  a \o Append(b, x) = Append(a \o b, x) /\ Append(b, x) \in Seq(T) /\ a \o b \in Seq(T)
<1>. DEFINE l == a \o Append(b, x)
            r == Append(a \o b, x)
            n == Len(a) + Len(b) + 1
<1>1. a \o b \in Seq(T) /\ Append(b, x) \in Seq(T) /\ Len(a) \in Nat /\ Len(b) \in Nat
  OBVIOUS
<1>2. l \in Seq(T) /\ r \in Seq(T) /\ Len(l) = n /\ Len(r) = n
  BY <1>1
<1>3. ASSUME NEW i \in 1..n PROVE l[i] = r[i]
  BY <1>1, <1>3
<1>4. l = r
  <2>. HIDE DEF l, r, n
  <2>. QED  BY <1>2, <1>3
<1>. QED  BY <1>1, <1>4

(* Without the oldest unit of a coin.                                        *)
LEMMA FirstTaken ==
  ASSUME NEW T, NEW a \in Seq(T), NEW u \in T, NEW b \in Seq(T)
  PROVE  RemoveAt(a \o (<<u>> \o b), Len(a) + 1) = a \o b
<1>. DEFINE s == a \o (<<u>> \o b)
            k == Len(a) + 1
            r == RemoveAt(s, k)
            n == Len(a) + Len(b)
<1>1. /\ s \in Seq(T) /\ Len(s) = Len(a) + Len(b) + 1 /\ Len(a) \in Nat /\ Len(b) \in Nat
      /\ (\A i \in 1..Len(a) : s[i] = a[i]) /\ s[k] = u
      /\ \A i \in 1..Len(b) : s[k + i] = b[i]
  OBVIOUS
<1>. HIDE DEF s
<1>2. r = SubSeq(s, 1, k - 1) \o SubSeq(s, k + 1, Len(s))
  BY DEF RemoveAt
<1>3. /\ SubSeq(s, 1, k - 1) \in Seq(T) /\ Len(SubSeq(s, 1, k - 1)) = Len(a)
      /\ SubSeq(s, 1, k - 1) = a
  <2>1. /\ SubSeq(s, 1, k - 1) \in Seq(T) /\ Len(SubSeq(s, 1, k - 1)) = Len(a)
        /\ \A i \in 1..Len(a) : SubSeq(s, 1, k - 1)[i] = a[i]
    BY <1>1
  <2>. QED  BY <2>1
<1>4. SubSeq(s, k + 1, Len(s)) = b
  <2>. DEFINE c == SubSeq(s, k + 1, Len(s))
  <2>1. k \in Nat \ {0} /\ Len(s) = k + Len(b) /\ Len(s) \in Nat
    BY <1>1
  <2>2. c \in Seq(T)
    BY <1>1, <2>1
  <2>3. Len(c) = Len(b)
    BY <1>1, <2>1
  <2>4. ASSUME NEW i \in 1..Len(b) PROVE c[i] = b[i]
    <3>1. i \in 1..(Len(s) - (k + 1) + 1) /\ i + (k + 1) - 1 = k + i
      BY <1>1, <2>1
    <3>2. c[i] = s[k + i]
      BY <1>1, <2>1, <3>1
    <3>. QED  BY <1>1, <3>2
  <2>. HIDE DEF c
  <2>5. c = b
    BY <2>2, <2>3, <2>4
  <2>. QED  BY <2>5 DEF c
<1>. QED  BY <1>2, <1>3, <1>4 DEF s

LEMMA OldestIs ==
  ASSUME NEW units \in Seq(TaxUnits), NEW coin, ~\A i \in DOMAIN units : units[i].coin # coin
  PROVE  \E i \in DOMAIN units : IsOldest(units, i, coin)
<1>. DEFINE n == Len(units)
            mine == {i \in 1..n : units[i].coin = coin}
<1>1. DOMAIN units = 1..n /\ n \in Nat
  OBVIOUS
<1>2. mine # {} /\ mine \in SUBSET (1..n)
  BY <1>1
<1>3. Min(mine) \in mine /\ \A y \in mine : Min(mine) <= y
  <2>. HIDE DEF mine, n
  <2>. QED  BY <1>1, <1>2, LowestIsIn
<1>4. \A j \in 1..(Min(mine) - 1) : j \notin mine /\ j \in 1..n
  <2>. DEFINE k == Min(mine)
  <2>1. k \in 1..n /\ \A y \in mine : k <= y
    BY <1>3
  <2>. HIDE DEF k
  <2>. QED  BY <1>1, <2>1 DEF k
<1>. QED  BY <1>1, <1>3, <1>4 DEF IsOldest

LEMMA ProfitTyped ==
  ASSUME NEW u \in TaxUnits, NEW f \in GoodFills
  PROVE  Profit(u, f) \in TaxSolds /\ Short(f) \in TaxSolds
BY DEF Profit, Short, TaxUnits, GoodFills, TaxSolds

LEMMA SellUnitTyped ==
  ASSUME NEW r \in TaxRuns, NEW f \in GoodFills
  PROVE  SellUnit(r, f) \in TaxRuns
<1>1. r.units \in Seq(TaxUnits) /\ r.sold \in Seq(TaxSolds)
  BY DEF TaxRuns
<1>2. CASE \A i \in DOMAIN r.units : r.units[i].coin # f.coin
  <2>1. Short(f) \in TaxSolds
    BY DEF Short, GoodFills, TaxSolds
  <2>2. Append(r.sold, Short(f)) \in Seq(TaxSolds)
    BY <1>1, <2>1
  <2>. QED  BY <1>1, <1>2, <2>2 DEF SellUnit, TaxRuns
<1>3. CASE ~\A i \in DOMAIN r.units : r.units[i].coin # f.coin
  <2>. DEFINE k == CHOOSE i \in DOMAIN r.units : IsOldest(r.units, i, f.coin)
  <2>1. k \in DOMAIN r.units
    BY <1>1, <1>3, OldestIs
  <2>2. SellUnit(r, f) = [units |-> RemoveAt(r.units, k), sold |-> Append(r.sold, Profit(r.units[k], f))]
    BY <1>3 DEF SellUnit
  <2>. HIDE DEF k
  <2>3. r.units[k] \in TaxUnits /\ k \in 1..Len(r.units)
    BY <1>1, <2>1
  <2>4. RemoveAt(r.units, k) \in Seq(TaxUnits)
    <3>1. SubSeq(r.units, 1, k - 1) \in Seq(TaxUnits) /\ SubSeq(r.units, k + 1, Len(r.units)) \in Seq(TaxUnits)
      BY <1>1, <2>3
    <3>. QED  BY <3>1 DEF RemoveAt
  <2>5. Append(r.sold, Profit(r.units[k], f)) \in Seq(TaxSolds)
    <3>1. Profit(r.units[k], f) \in TaxSolds
      BY <2>3, ProfitTyped
    <3>. QED  BY <1>1, <3>1
  <2>. QED  BY <2>2, <2>4, <2>5 DEF TaxRuns
<1>. QED  BY <1>2, <1>3

NoneOf(units, coin) == \A i \in DOMAIN units : units[i].coin # coin

LEMMA FirstUnitSold ==
  ASSUME NEW f \in GoodFills, NEW a \in Seq(TaxUnits), NoneOf(a, f.coin),
         NEW u \in TaxUnits, u.coin = f.coin, NEW b \in Seq(TaxUnits), NEW sd
  PROVE  SellUnit([units |-> a \o (<<u>> \o b), sold |-> sd], f)
           = [units |-> a \o b, sold |-> Append(sd, Profit(u, f))]
<1>. DEFINE s == a \o (<<u>> \o b)
            k == Len(a) + 1
<1>1. /\ s \in Seq(TaxUnits) /\ Len(s) = Len(a) + Len(b) + 1 /\ Len(a) \in Nat /\ Len(b) \in Nat
      /\ (\A i \in 1..Len(a) : s[i] = a[i]) /\ s[k] = u
  OBVIOUS
<1>2. RemoveAt(s, k) = a \o b
  BY FirstTaken
<1>. HIDE DEF s
<1>3. DOMAIN s = 1..Len(s) /\ k \in DOMAIN s /\ DOMAIN a = 1..Len(a)
  BY <1>1
<1>4. \A i \in 1..Len(a) : s[i].coin # f.coin
  BY <1>1, <1>3 DEF NoneOf
<1>5. IsOldest(s, k, f.coin)
  <2>1. \A j \in 1..(k - 1) : j \in 1..Len(a)
    BY <1>1
  <2>. QED  BY <1>1, <1>4, <2>1 DEF IsOldest
<1>6. ASSUME NEW i \in DOMAIN s, IsOldest(s, i, f.coin) PROVE i = k
  <2>1. i \in Nat /\ i \notin 1..Len(a) /\ i >= 1
    BY <1>1, <1>3, <1>4, <1>6 DEF IsOldest
  <2>2. ~(k < i)
    <3>. SUFFICES ASSUME k < i PROVE FALSE
      OBVIOUS
    <3>1. k \in 1..(i - 1)
      BY <1>1, <2>1
    <3>. QED  BY <1>1, <1>6, <3>1 DEF IsOldest
  <2>. QED  BY <1>1, <2>1, <2>2
<1>7. (CHOOSE i \in DOMAIN s : IsOldest(s, i, f.coin)) = k
  BY <1>3, <1>5, <1>6
<1>8. ~\A i \in DOMAIN s : s[i].coin # f.coin
  BY <1>1, <1>3
<1>. DEFINE r == [units |-> s, sold |-> sd]
<1>9. r.units = s /\ r.sold = sd
  OBVIOUS
<1>. HIDE DEF r
<1>10. SellUnit(r, f) = [units |-> RemoveAt(s, k), sold |-> Append(sd, Profit(s[k], f))]
  BY <1>7, <1>8, <1>9 DEF SellUnit
<1>. QED  BY <1>1, <1>2, <1>10 DEF r, s

(* One unit after the other.                                                 *)
Selling(r, f, q) == Folded("sell", 0, r, Repeat(f, q))

LEMMA SellingNext ==
  ASSUME NEW r \in TaxRuns, NEW f \in GoodFills, NEW q \in Nat
  PROVE  /\ Selling(r, f, 0) = r /\ Selling(r, f, q) \in TaxRuns
         /\ Selling(r, f, q + 1) = SellUnit(Selling(r, f, q), f)
<1>1. \A a \in TaxRuns, x \in GoodFills : Advance("sell", 0, a, x) = SellUnit(a, x)
  BY DEF Advance
<1>2. Advances("sell", 0, TaxRuns, GoodFills)
  BY <1>1, SellUnitTyped DEF Advances
<1>3. /\ Repeat(f, 0) = <<>> /\ Repeat(f, q) \in Seq(GoodFills)
      /\ Repeat(f, q + 1) = Append(Repeat(f, q), f)
  BY RepeatIs
<1>4. Selling(r, f, 0) = r
  BY <1>2, <1>3, FoldedNone DEF Selling
<1>5. Selling(r, f, q) \in TaxRuns
  BY <1>2, <1>3, FoldedTyped DEF Selling
<1>6. PassesOn("sell", 0, r, Repeat(f, q), f)
  BY <1>2, <1>3, FoldedAppend
<1>. QED  BY <1>1, <1>3, <1>4, <1>5, <1>6 DEF Selling, PassesOn

TakenOff(r, f, d, a, u, n, b, sd, q) ==
  Selling(r, f, d + q) = [units |-> a \o (Repeat(u, n - q) \o b), sold |-> sd \o Repeat(Profit(u, f), q)]

LEMMA OneMoreTaken ==
  ASSUME NEW f \in GoodFills, NEW a \in Seq(TaxUnits), NoneOf(a, f.coin),
         NEW u \in TaxUnits, u.coin = f.coin, NEW n \in Nat, NEW b \in Seq(TaxUnits),
         NEW sd \in Seq(TaxSolds), NEW r \in TaxRuns, NEW d \in Nat,
         NEW p \in Nat, p + 1 <= n, TakenOff(r, f, d, a, u, n, b, sd, p)
  PROVE  TakenOff(r, f, d, a, u, n, b, sd, p + 1)
<1>1. \E w \in TaxSolds : w = Profit(u, f)
  BY ProfitTyped
<1>2. PICK w \in TaxSolds : w = Profit(u, f)
  BY <1>1
<1>3. PICK k \in Nat : n - p = k + 1 /\ n - (p + 1) = k
  <2>1. n - (p + 1) \in Nat /\ n - p = (n - (p + 1)) + 1
    OBVIOUS
  <2>. QED  BY <2>1
<1>4. <<u>> \in Seq(TaxUnits) /\ Repeat(u, k) \in Seq(TaxUnits)
  <2>1. Repeat(u, k) \in Seq(TaxUnits)
    BY RepeatIs
  <2>. QED  BY <2>1
<1>5. Repeat(u, k + 1) = <<u>> \o Repeat(u, k)
  BY RepeatIs
<1>6. PICK ru \in Seq(TaxUnits) : ru = Repeat(u, k)
  BY <1>4
<1>7. PICK rest \in Seq(TaxUnits) : rest = ru \o b
  <2>1. ru \o b \in Seq(TaxUnits)
    OBVIOUS
  <2>. QED  BY <2>1
<1>8. (<<u>> \o ru) \o b = <<u>> \o rest
  BY <1>4, <1>7, JoinedThrice
<1>9. Repeat(w, p + 1) = Append(Repeat(w, p), w) /\ Repeat(w, p) \in Seq(TaxSolds)
  BY RepeatIs
<1>10. PICK rw \in Seq(TaxSolds) : rw = Repeat(w, p)
  BY <1>9
<1>11. sd \o Append(rw, w) = Append(sd \o rw, w)
  BY JoinedAppend
<1>12. Selling(r, f, d + p) = [units |-> a \o (<<u>> \o rest), sold |-> sd \o rw]
  BY <1>2, <1>3, <1>5, <1>6, <1>8, <1>10 DEF TakenOff
<1>13. SellUnit([units |-> a \o (<<u>> \o rest), sold |-> sd \o rw], f)
         = [units |-> a \o rest, sold |-> Append(sd \o rw, w)]
  <2>1. \A s2 : SellUnit([units |-> a \o (<<u>> \o rest), sold |-> s2], f)
                  = [units |-> a \o rest, sold |-> Append(s2, Profit(u, f))]
    BY FirstUnitSold, Zenon
  <2>2. SellUnit([units |-> a \o (<<u>> \o rest), sold |-> sd \o rw], f)
          = [units |-> a \o rest, sold |-> Append(sd \o rw, Profit(u, f))]
    BY <2>1
  <2>. QED  BY <1>2, <2>2
<1>14. d + p \in Nat /\ (d + p) + 1 = d + (p + 1)
  OBVIOUS
<1>15. Selling(r, f, (d + p) + 1) = SellUnit(Selling(r, f, d + p), f)
  BY <1>14, SellingNext
<1>16. Selling(r, f, d + (p + 1)) = [units |-> a \o rest, sold |-> Append(sd \o rw, w)]
  BY <1>12, <1>13, <1>14, <1>15
<1>. QED  BY <1>2, <1>3, <1>6, <1>7, <1>9, <1>10, <1>11, <1>16 DEF TakenOff

LEMMA LotSells ==
  ASSUME NEW f \in GoodFills, NEW a \in Seq(TaxUnits), NoneOf(a, f.coin),
         NEW u \in TaxUnits, u.coin = f.coin, NEW n \in Nat, NEW b \in Seq(TaxUnits),
         NEW sd \in Seq(TaxSolds), NEW r \in TaxRuns, NEW d \in Nat,
         Selling(r, f, d) = [units |-> a \o (Repeat(u, n) \o b), sold |-> sd]
  PROVE  \A q \in 0..n : TakenOff(r, f, d, a, u, n, b, sd, q)
<1>. DEFINE w == Profit(u, f)
            Bad == {q \in 0..n : ~TakenOff(r, f, d, a, u, n, b, sd, q)}
<1>0. w \in TaxSolds
  BY ProfitTyped
<1>. SUFFICES ASSUME Bad # {} PROVE FALSE
  OBVIOUS
<1>1. PICK q \in Bad : q \in 0..n /\ (q # 0 => q - 1 \in 0..n /\ q - 1 \notin Bad)
  <2>1. Bad \subseteq 0..n
    OBVIOUS
  <2>. HIDE DEF Bad
  <2>. QED  BY <2>1, FirstBad
<1>2. ~TakenOff(r, f, d, a, u, n, b, sd, q) /\ q \in Nat
  BY <1>1
<1>3. CASE q = 0
  <2>1. Repeat(w, 0) = <<>>
    BY <1>0, RepeatIs
  <2>2. sd \o <<>> = sd /\ d + 0 = d /\ n - 0 = n
    OBVIOUS
  <2>. HIDE DEF w
  <2>3. TakenOff(r, f, d, a, u, n, b, sd, 0)
    BY <2>1, <2>2 DEF TakenOff, w
  <2>. QED  BY <1>2, <1>3, <2>3
<1>4. CASE q # 0
  <2>1. q - 1 \in Nat /\ (q - 1) + 1 = q /\ q <= n /\ TakenOff(r, f, d, a, u, n, b, sd, q - 1)
    BY <1>1, <1>4
  <2>2. TakenOff(r, f, d, a, u, n, b, sd, (q - 1) + 1)
    <3>. HIDE DEF Bad
    <3>. QED  BY <2>1, OneMoreTaken
  <2>. QED  BY <1>2, <2>1, <2>2
<1>. QED  BY <1>3, <1>4

(* A lot is what its units are, and stays so when a part of it is sold.      *)
LEMMA ExactQuotient ==
  ASSUME NEW n \in Nat \ {0}, NEW x \in Int
  PROVE  n * x \in Int /\ (n * x) \div n = x
BY Z3

LEMMA LotIsMatched ==
  ASSUME NEW l \in GoodLots, NEW f \in GoodFills, NEW q \in 1..l.qty
  PROVE  LET bfee == (l.fee * q) \div l.qty
             sfee == q * f.unit
             t == [coin |-> f.coin, qty |-> q, bfee |-> bfee, sfee |-> sfee,
                   buy |-> l.id, sell |-> f.id,
                   pnl |-> q * f.price - q * l.price - bfee - sfee]
         IN  /\ UnitOfLot(l) \in TaxUnits /\ UnitOfLot(l).coin = l.coin
             /\ t \in GoodTrades /\ UnitOfTrade(t) = Profit(UnitOfLot(l), f) /\ t.qty = q
             /\ q # l.qty => /\ Rest(l, q, bfee) \in GoodLots /\ Rest(l, q, bfee).qty = l.qty - q
                             /\ UnitOfLot(Rest(l, q, bfee)) = UnitOfLot(l)
<1>. DEFINE n == l.qty
            u == l.fee \div n
            bfee == (l.fee * q) \div n
            sfee == q * f.unit
            x == f.price - l.price - u - f.unit
            gain == q * f.price - q * l.price - bfee - sfee
            t == [coin |-> f.coin, qty |-> q, bfee |-> bfee, sfee |-> sfee,
                  buy |-> l.id, sell |-> f.id, pnl |-> gain]
            rest == Rest(l, q, bfee)
<1>1. /\ l = [coin |-> l.coin, qty |-> l.qty, price |-> l.price, fee |-> l.fee, id |-> l.id]
      /\ l.coin \in Coins /\ n \in Nat \ {0} /\ l.price \in Nat \ {0} /\ l.fee \in Nat /\ l.id \in Nat
      /\ l.fee = n * u
  BY DEF GoodLots, BuyLot
<1>2. /\ f.coin \in Coins /\ f.qty \in Nat \ {0} /\ f.price \in Nat \ {0} /\ f.unit \in Nat /\ f.id \in Nat
      /\ q \in Nat \ {0} /\ q <= n
  BY <1>1 DEF GoodFills
<1>3. u \in Nat
  <2>1. \A a \in Nat, c \in Nat \ {0} : a \div c \in Nat
    BY Z3
  <2>. QED  BY <1>1, <2>1
<1>. HIDE DEF u, n
<1>4. bfee = u * q /\ u * q \in Nat
  <2>1. l.fee * q = n * (u * q) /\ u * q \in Nat
    <3>1. \A a, c, e \in Nat : (a * c) * e = a * (c * e) /\ c * e \in Nat
      BY Z3
    <3>. QED  BY <1>1, <1>2, <1>3, <3>1
  <2>2. u * q \in Int
    BY <2>1
  <2>3. (n * (u * q)) \div n = u * q
    BY <1>1, <2>2, ExactQuotient
  <2>. QED  BY <2>1, <2>3
<1>. HIDE DEF bfee
<1>5. sfee \in Nat /\ x \in Int /\ gain = q * x /\ gain \in Int
  <2>1. \A a, c, e, g, h \in Nat : /\ a * h \in Nat
                                   /\ a * c - a * e - g * a - a * h = a * (c - e - g - h)
                                   /\ a * c - a * e - g * a - a * h \in Int
    BY Z3
  <2>2. x \in Int
    BY <1>1, <1>2, <1>3
  <2>3. gain = q * f.price - q * l.price - u * q - q * f.unit
    BY <1>4
  <2>4. PICK c \in Nat, e \in Nat, h \in Nat : c = f.price /\ e = l.price /\ h = f.unit
    BY <1>1, <1>2
  <2>5. /\ q * h \in Nat /\ q * c - q * e - u * q - q * h = q * (c - e - u - h)
        /\ q * c - q * e - u * q - q * h \in Int
    BY <1>2, <1>3, <2>1
  <2>. QED  BY <2>2, <2>3, <2>4, <2>5
<1>. HIDE DEF gain, sfee, x
<1>6. t.pnl = gain /\ t.qty = q /\ t.buy = l.id /\ t.sell = f.id /\ gain \div q = x
  BY <1>2, <1>5, ExactQuotient
<1>7. t \in GoodTrades
  <2>1. t \in MatchedTrade
    BY <1>1, <1>2, <1>4, <1>5 DEF MatchedTrade
  <2>. HIDE DEF t
  <2>. QED  BY <1>5, <1>6, <2>1 DEF GoodTrades
<1>8. UnitOfLot(l) = [coin |-> l.coin, price |-> l.price, unit |-> u, id |-> l.id]
  BY DEF UnitOfLot, u, n
<1>9. UnitOfTrade(t) = Profit(UnitOfLot(l), f)
  <2>1. UnitOfTrade(t) = [buy |-> l.id, sell |-> f.id, pnl |-> x]
    <3>. HIDE DEF t
    <3>. QED  BY <1>6 DEF UnitOfTrade
  <2>. QED  BY <1>8, <2>1 DEF Profit, x
<1>10. ASSUME q # n
       PROVE  rest \in GoodLots /\ rest.qty = n - q /\ UnitOfLot(rest) = UnitOfLot(l)
  <2>1. rest = [coin |-> l.coin, qty |-> n - q, price |-> l.price, fee |-> l.fee - bfee, id |-> l.id]
    <3>1. Rest(l, q, bfee) = [l EXCEPT !.qty = l.qty - q, !.fee = l.fee - bfee]
      BY DEF Rest
    <3>. HIDE DEF rest
    <3>2. Rest(l, q, bfee) = [coin |-> l.coin, qty |-> l.qty - q, price |-> l.price,
                              fee |-> l.fee - bfee, id |-> l.id]
      BY <1>1, <3>1
    <3>. QED  BY <3>2 DEF rest, n
  <2>2. n - q \in Nat \ {0}
    BY <1>1, <1>2, <1>10
  <2>3. l.fee - bfee = (n - q) * u /\ (n - q) * u \in Nat
    <3>1. \A a, c, e \in Nat : c <= a => a * e - e * c = (a - c) * e /\ (a - c) * e \in Nat
      BY Z3
    <3>. QED  BY <1>1, <1>2, <1>3, <1>4, <3>1
  <2>4. ((n - q) * u) \div (n - q) = u
    <3>1. u \in Int
      BY <1>3
    <3>. QED  BY <2>2, <3>1, ExactQuotient
  <2>. DEFINE k == n - q
              e == k * u
  <2>5. rest = [coin |-> l.coin, qty |-> k, price |-> l.price, fee |-> e, id |-> l.id]
    BY <2>1, <2>3
  <2>6. k \in Nat \ {0} /\ e \in Nat /\ e \div k = u /\ e = k * u
    BY <2>2, <2>3, <2>4
  <2>. HIDE DEF k, e, rest
  <2>7. rest.fee = e /\ rest.qty = k /\ rest.coin = l.coin /\ rest.price = l.price /\ rest.id = l.id
    BY <2>5
  <2>8. rest \in GoodLots
    <3>1. rest \in BuyLot
      BY <1>1, <2>5, <2>6 DEF BuyLot
    <3>. QED  BY <2>6, <2>7, <3>1 DEF GoodLots
  <2>9. UnitOfLot(rest) = UnitOfLot(l)
    BY <1>8, <2>6, <2>7 DEF UnitOfLot
  <2>. QED  BY <2>7, <2>8, <2>9 DEF k
<1>11. UnitOfLot(l) \in TaxUnits /\ UnitOfLot(l).coin = l.coin
  BY <1>1, <1>3, <1>8 DEF TaxUnits
<1>. QED  BY <1>6, <1>7, <1>9, <1>10, <1>11 DEF n, bfee, sfee, gain

LEMMA UnitsAppend ==
  ASSUME NEW lots \in Seq(GoodLots), NEW x \in GoodLots
  PROVE  /\ UnitsOf(<<>>) = <<>> /\ UnitsOf(lots) \in Seq(TaxUnits) /\ UnitsOfLot(x) \in Seq(TaxUnits)
         /\ UnitsOf(Append(lots, x)) = UnitsOf(lots) \o UnitsOfLot(x)
<1>. DEFINE S == Seq(TaxUnits)
<1>1. \A s : UnitsOf(s) = Folded("units", 0, <<>>, s)
  BY DEF UnitsOf, Folded, FoldLeft, MapThenFoldSet, Advance, UnitsOfLot, UnitOfLot
<1>2. ASSUME NEW a \in S, NEW l \in GoodLots
      PROVE  /\ Advance("units", 0, a, l) = a \o UnitsOfLot(l) /\ a \o UnitsOfLot(l) \in S
             /\ UnitsOfLot(l) \in S
  <2>1. UnitOfLot(l) \in TaxUnits /\ l.qty \in Nat
    <3>1. /\ l.coin \in Coins /\ l.qty \in Nat \ {0} /\ l.price \in Nat \ {0} /\ l.fee \in Nat /\ l.id \in Nat
      BY DEF GoodLots, BuyLot
    <3>2. \A c \in Nat, e \in Nat \ {0} : c \div e \in Nat
      BY Z3
    <3>3. l.fee \div l.qty \in Nat
      BY <3>1, <3>2
    <3>. QED  BY <3>1, <3>3 DEF UnitOfLot, TaxUnits
  <2>2. UnitsOfLot(l) \in S
    BY <2>1, RepeatIs DEF UnitsOfLot
  <2>3. Advance("units", 0, a, l) = a \o UnitsOfLot(l)
    BY DEF Advance
  <2>. QED  BY <2>2, <2>3
<1>3. Advances("units", 0, S, GoodLots)
  BY <1>2 DEF Advances
<1>4. <<>> \in S
  OBVIOUS
<1>. HIDE DEF S
<1>5. /\ Folded("units", 0, <<>>, <<>>) = <<>> /\ Folded("units", 0, <<>>, lots) \in S
      /\ PassesOn("units", 0, <<>>, lots, x)
  BY <1>3, <1>4, FoldedNone, FoldedTyped, FoldedAppend
<1>. QED  BY <1>1, <1>2, <1>4, <1>5 DEF PassesOn, S

LEMMA SoldAppend ==
  ASSUME NEW trades \in Seq(GoodTrades), NEW x \in GoodTrades
  PROVE  /\ SoldOf(<<>>) = <<>> /\ SoldOf(trades) \in Seq(TaxSolds) /\ SoldOfTrade(x) \in Seq(TaxSolds)
         /\ SoldOf(Append(trades, x)) = SoldOf(trades) \o SoldOfTrade(x)
<1>. DEFINE S == Seq(TaxSolds)
<1>1. \A s : SoldOf(s) = Folded("sold", 0, <<>>, s)
  BY DEF SoldOf, Folded, FoldLeft, MapThenFoldSet, Advance, SoldOfTrade, UnitOfTrade
<1>2. ASSUME NEW a \in S, NEW t \in GoodTrades
      PROVE  /\ Advance("sold", 0, a, t) = a \o SoldOfTrade(t) /\ a \o SoldOfTrade(t) \in S
             /\ SoldOfTrade(t) \in S
  <2>1. UnitOfTrade(t) \in TaxSolds /\ t.qty \in Nat
    <3>1. t.qty \in Nat \ {0} /\ t.buy \in Nat /\ t.sell \in Nat /\ t.pnl \in Int
      BY DEF GoodTrades, MatchedTrade
    <3>2. \A c \in Int, e \in Nat \ {0} : c \div e \in Int
      BY Z3
    <3>3. t.pnl \div t.qty \in Int
      BY <3>1, <3>2
    <3>. QED  BY <3>1, <3>3 DEF UnitOfTrade, TaxSolds
  <2>2. SoldOfTrade(t) \in S
    BY <2>1, RepeatIs DEF SoldOfTrade
  <2>3. Advance("sold", 0, a, t) = a \o SoldOfTrade(t)
    BY DEF Advance
  <2>. QED  BY <2>2, <2>3
<1>3. Advances("sold", 0, S, GoodTrades)
  BY <1>2 DEF Advances
<1>4. <<>> \in S
  OBVIOUS
<1>. HIDE DEF S
<1>5. /\ Folded("sold", 0, <<>>, <<>>) = <<>> /\ Folded("sold", 0, <<>>, trades) \in S
      /\ PassesOn("sold", 0, <<>>, trades, x)
  BY <1>3, <1>4, FoldedNone, FoldedTyped, FoldedAppend
<1>. QED  BY <1>1, <1>2, <1>4, <1>5 DEF PassesOn, S

LEMMA AvailableAppend ==
  ASSUME NEW lots \in Seq(GoodLots), NEW x \in GoodLots, NEW coin
  PROVE  /\ Available(<<>>, coin) = 0 /\ Available(lots, coin) \in Nat
         /\ Available(Append(lots, x), coin)
              = IF x.coin = coin THEN Available(lots, coin) + x.qty ELSE Available(lots, coin)
<1>1. \A s : Available(s, coin) = Folded("available", coin, 0, s)
  BY DEF Available, Folded, FoldLeft, MapThenFoldSet, Advance
<1>2. ASSUME NEW a \in Nat, NEW l \in GoodLots
      PROVE  /\ Advance("available", coin, a, l) = (IF l.coin = coin THEN a + l.qty ELSE a)
             /\ (IF l.coin = coin THEN a + l.qty ELSE a) \in Nat
  <2>1. l.qty \in Nat
    BY DEF GoodLots, BuyLot
  <2>. QED  BY <2>1 DEF Advance
<1>3. Advances("available", coin, Nat, GoodLots)
  BY <1>2 DEF Advances
<1>4. /\ Folded("available", coin, 0, <<>>) = 0 /\ Folded("available", coin, 0, lots) \in Nat
      /\ PassesOn("available", coin, 0, lots, x)
  <2>. DEFINE none == 0
  <2>1. none \in Nat
    OBVIOUS
  <2>. HIDE DEF none
  <2>2. /\ Folded("available", coin, none, <<>>) = none /\ Folded("available", coin, none, lots) \in Nat
        /\ PassesOn("available", coin, none, lots, x)
    BY <1>3, <2>1, FoldedNone, FoldedTyped, FoldedAppend
  <2>. QED  BY <2>2 DEF none
<1>. QED  BY <1>1, <1>2, <1>4 DEF PassesOn

MatchRuns(f) == [left : 0..f.qty, lots : Seq(GoodLots), trades : Seq(GoodTrades)]

(* One lot: passed by, or sold off to the extent of what is left to sell.    *)
TakenOf(m, x) == IF m.left < x.qty THEN m.left ELSE x.qty
TradeOf(x, f, q) ==
  [coin |-> f.coin, qty |-> q, bfee |-> (x.fee * q) \div x.qty, sfee |-> q * f.unit,
   buy |-> x.id, sell |-> f.id,
   pnl |-> q * f.price - q * x.price - (x.fee * q) \div x.qty - q * f.unit]
RestOf(x, q) == Rest(x, q, (x.fee * q) \div x.qty)

LEMMA MatchLotIs ==
  ASSUME NEW f \in GoodFills, NEW m \in MatchRuns(f), NEW x \in GoodLots
  PROVE  /\ MatchLot(m, x, f) \in MatchRuns(f)
         /\ x.coin # f.coin \/ m.left = 0 =>
              MatchLot(m, x, f) = [left |-> m.left, lots |-> Append(m.lots, x), trades |-> m.trades]
         /\ ~(x.coin # f.coin \/ m.left = 0) =>
              LET q == TakenOf(m, x)
              IN  /\ q \in 1..x.qty /\ q <= m.left /\ (q # x.qty => q = m.left)
                  /\ MatchLot(m, x, f) =
                       [left |-> m.left - q,
                        lots |-> IF q = x.qty THEN m.lots ELSE Append(m.lots, RestOf(x, q)),
                        trades |-> Append(m.trades, TradeOf(x, f, q))]
<1>1. /\ m = [left |-> m.left, lots |-> m.lots, trades |-> m.trades] /\ m.left \in 0..f.qty /\ m.left \in Nat
      /\ m.lots \in Seq(GoodLots) /\ m.trades \in Seq(GoodTrades) /\ f.qty \in Nat
  BY DEF MatchRuns, GoodFills
<1>2. x.qty \in Nat \ {0}
  BY DEF GoodLots, BuyLot
<1>3. CASE x.coin # f.coin \/ m.left = 0
  <2>1. MatchLot(m, x, f) = [m EXCEPT !.lots = Append(m.lots, x)]
    BY <1>3 DEF MatchLot
  <2>2. MatchLot(m, x, f) = [left |-> m.left, lots |-> Append(m.lots, x), trades |-> m.trades]
    BY <1>1, <2>1
  <2>3. Append(m.lots, x) \in Seq(GoodLots)
    BY <1>1
  <2>. QED  BY <1>1, <1>3, <2>2, <2>3 DEF MatchRuns
<1>4. CASE ~(x.coin # f.coin \/ m.left = 0)
  <2>. DEFINE q == TakenOf(m, x)
  <2>1. q \in 1..x.qty /\ q <= m.left /\ (q # x.qty => q = m.left) /\ m.left - q \in 0..f.qty
    BY <1>1, <1>2, <1>4 DEF TakenOf
  <2>2. MatchLot(m, x, f) =
          [left |-> m.left - q,
           lots |-> IF q = x.qty THEN m.lots ELSE Append(m.lots, RestOf(x, q)),
           trades |-> Append(m.trades, TradeOf(x, f, q))]
    BY <1>4 DEF MatchLot, RestOf, TradeOf, TakenOf
  <2>. HIDE DEF q
  <2>3. TradeOf(x, f, q) \in GoodTrades /\ (q # x.qty => RestOf(x, q) \in GoodLots)
    BY <2>1, LotIsMatched DEF TradeOf, RestOf
  <2>4. Append(m.trades, TradeOf(x, f, q)) \in Seq(GoodTrades)
    BY <1>1, <2>3
  <2>5. (IF q = x.qty THEN m.lots ELSE Append(m.lots, RestOf(x, q))) \in Seq(GoodLots)
    BY <1>1, <2>3
  <2>6. MatchLot(m, x, f) \in MatchRuns(f)
    BY <2>1, <2>2, <2>4, <2>5 DEF MatchRuns
  <2>. QED  BY <1>4, <2>1, <2>2, <2>6 DEF q
<1>. QED  BY <1>3, <1>4

(* The lots passed so far, sold one by one and matched.                      *)
SoldSame(f, T, l, m, b) ==
  Selling([units |-> UnitsOf(l) \o b, sold |-> SoldOf(T)], f, f.qty - m.left)
    = [units |-> UnitsOf(m.lots) \o b, sold |-> SoldOf(T \o m.trades)]
SoldAlike(f, T, l, m) ==
  /\ m \in MatchRuns(f)
  /\ m.left # 0 => NoneOf(UnitsOf(m.lots), f.coin)
  /\ m.left = 0 \/ m.left = f.qty - Available(l, f.coin)
  /\ \A b \in Seq(TaxUnits) : SoldSame(f, T, l, m, b)

LEMMA NoneSoldYet ==
  ASSUME NEW f \in GoodFills, NEW T \in Seq(GoodTrades)
  PROVE  SoldAlike(f, T, <<>>, [left |-> f.qty, lots |-> <<>>, trades |-> <<>>])
<1>. DEFINE m == [left |-> f.qty, lots |-> <<>>, trades |-> <<>>]
<1>1. m.left = f.qty /\ m.lots = <<>> /\ m.trades = <<>> /\ f.qty \in Nat \ {0} /\ f.qty - f.qty = 0
  BY DEF GoodFills
<1>2. m \in MatchRuns(f)
  BY <1>1 DEF MatchRuns
<1>. HIDE DEF m
<1>3. GoodLots # {} => UnitsOf(<<>>) = <<>> /\ Available(<<>>, f.coin) = 0
  <2>. SUFFICES ASSUME NEW x \in GoodLots PROVE UnitsOf(<<>>) = <<>> /\ Available(<<>>, f.coin) = 0
    OBVIOUS
  <2>1. <<>> \in Seq(GoodLots)
    OBVIOUS
  <2>. QED  BY <2>1, UnitsAppend, AvailableAppend
<1>4. GoodLots # {}
  <2>. DEFINE l == [coin |-> f.coin, qty |-> 1, price |-> 1, fee |-> 0, id |-> 0]
  <2>1. l \in BuyLot /\ l.fee = 0 /\ l.qty = 1
    BY DEF BuyLot, GoodFills
  <2>2. 0 = 1 * (0 \div 1)
    BY Z3
  <2>3. l \in GoodLots
    BY <2>1, <2>2 DEF GoodLots
  <2>. QED  BY <2>3
<1>5. NoneOf(<<>>, f.coin)
  BY DEF NoneOf
<1>6. T \o <<>> = T
  OBVIOUS
<1>7. GoodTrades # {} => SoldOf(T) \in Seq(TaxSolds)
  BY SoldAppend
<1>8. GoodTrades # {}
  <2>. DEFINE t == [coin |-> f.coin, qty |-> 1, bfee |-> 0, sfee |-> 0, buy |-> 0, sell |-> 0, pnl |-> 0]
  <2>1. t \in MatchedTrade /\ t.pnl = 0 /\ t.qty = 1
    BY DEF MatchedTrade, GoodFills
  <2>2. 0 = 1 * (0 \div 1)
    BY Z3
  <2>3. t \in GoodTrades
    BY <2>1, <2>2 DEF GoodTrades
  <2>. QED  BY <2>3
<1>9. ASSUME NEW b \in Seq(TaxUnits) PROVE SoldSame(f, T, <<>>, m, b)
  <2>1. [units |-> <<>> \o b, sold |-> SoldOf(T)] \in TaxRuns
    BY <1>7, <1>8 DEF TaxRuns
  <2>2. Selling([units |-> <<>> \o b, sold |-> SoldOf(T)], f, 0) = [units |-> <<>> \o b, sold |-> SoldOf(T)]
    <3>1. 0 \in Nat
      OBVIOUS
    <3>. QED  BY <2>1, <3>1, SellingNext
  <2>. QED  BY <1>1, <1>3, <1>4, <1>6, <2>2 DEF SoldSame
<1>10. SoldAlike(f, T, <<>>, m)
  BY <1>1, <1>2, <1>3, <1>4, <1>5, <1>9 DEF SoldAlike
<1>. QED  BY <1>10 DEF m

LEMMA UnitsJoin ==
  ASSUME NEW a \in Seq(TaxUnits), NEW b \in Seq(TaxUnits), NEW c \in Seq(TaxUnits)
  PROVE  (a \o b) \o c = a \o (b \o c)
BY JoinedThrice

LEMMA NoneOfJoined ==
  ASSUME NEW a \in Seq(TaxUnits), NEW c \in Seq(TaxUnits), NEW coin, NoneOf(a, coin), NoneOf(c, coin)
  PROVE  NoneOf(a \o c, coin)
<1>. SUFFICES ASSUME NEW i \in DOMAIN (a \o c) PROVE (a \o c)[i].coin # coin
  BY DEF NoneOf
<1>1. Len(a) \in Nat /\ Len(c) \in Nat /\ i \in 1..(Len(a) + Len(c))
  OBVIOUS
<1>2. CASE i <= Len(a)
  <2>1. i \in DOMAIN a /\ (a \o c)[i] = a[i]
    BY <1>1, <1>2
  <2>. QED  BY <2>1 DEF NoneOf
<1>3. CASE ~(i <= Len(a))
  <2>1. i - Len(a) \in DOMAIN c /\ (a \o c)[i] = c[i - Len(a)]
    BY <1>1, <1>3
  <2>. QED  BY <2>1 DEF NoneOf
<1>. QED  BY <1>2, <1>3

(* A lot that is passed by stays among the units behind the cursor.          *)
LEMMA LotPassedBy ==
  ASSUME NEW f \in GoodFills, NEW T \in Seq(GoodTrades), NEW l \in Seq(GoodLots), NEW x \in GoodLots,
         NEW m, SoldAlike(f, T, l, m), x.coin # f.coin \/ m.left = 0
  PROVE  SoldAlike(f, T, Append(l, x), MatchLot(m, x, f))
<1>. DEFINE w == MatchLot(m, x, f)
            more == Append(l, x)
<1>1. m \in MatchRuns(f) /\ m.lots \in Seq(GoodLots) /\ m.left \in Nat
  BY DEF SoldAlike, MatchRuns, GoodFills
<1>2. /\ w \in MatchRuns(f) /\ w.left = m.left /\ w.lots = Append(m.lots, x) /\ w.trades = m.trades
  BY <1>1, MatchLotIs
<1>. HIDE DEF w
<1>3. /\ UnitsOf(l) \in Seq(TaxUnits) /\ UnitsOf(m.lots) \in Seq(TaxUnits) /\ UnitsOfLot(x) \in Seq(TaxUnits)
      /\ UnitsOf(more) = UnitsOf(l) \o UnitsOfLot(x) /\ UnitsOf(w.lots) = UnitsOf(m.lots) \o UnitsOfLot(x)
  BY <1>1, <1>2, UnitsAppend
<1>4. w.left # 0 => NoneOf(UnitsOf(w.lots), f.coin)
  <2>. SUFFICES ASSUME m.left # 0 PROVE NoneOf(UnitsOf(m.lots) \o UnitsOfLot(x), f.coin)
    BY <1>2, <1>3
  <2>1. x.coin # f.coin /\ NoneOf(UnitsOf(m.lots), f.coin)
    BY DEF SoldAlike
  <2>2. \A i \in DOMAIN UnitsOfLot(x) : UnitsOfLot(x)[i].coin = x.coin
    BY DEF UnitsOfLot, Repeat, UnitOfLot
  <2>3. PICK a \in Seq(TaxUnits), c \in Seq(TaxUnits) : a = UnitsOf(m.lots) /\ c = UnitsOfLot(x)
    BY <1>3
  <2>4. NoneOf(a, f.coin) /\ NoneOf(c, f.coin)
    BY <2>1, <2>2, <2>3 DEF NoneOf
  <2>5. NoneOf(a \o c, f.coin)
    BY <2>4, NoneOfJoined
  <2>. QED  BY <2>3, <2>5
<1>5. w.left = 0 \/ w.left = f.qty - Available(more, f.coin)
  <2>1. CASE m.left = 0
    BY <1>2, <2>1
  <2>2. CASE m.left # 0
    <3>1. x.coin # f.coin /\ m.left = f.qty - Available(l, f.coin)
      BY <2>2 DEF SoldAlike
    <3>2. Available(more, f.coin) = Available(l, f.coin)
      BY <3>1, AvailableAppend
    <3>. QED  BY <1>2, <3>1, <3>2
  <2>. QED  BY <2>1, <2>2
<1>6. ASSUME NEW b \in Seq(TaxUnits) PROVE SoldSame(f, T, more, w, b)
  <2>. DEFINE c == UnitsOfLot(x) \o b
  <2>1. c \in Seq(TaxUnits)
    BY <1>3
  <2>2. /\ (UnitsOf(l) \o UnitsOfLot(x)) \o b = UnitsOf(l) \o c
        /\ (UnitsOf(m.lots) \o UnitsOfLot(x)) \o b = UnitsOf(m.lots) \o c
    <3>1. PICK ul \in Seq(TaxUnits), um \in Seq(TaxUnits), ux \in Seq(TaxUnits) :
               ul = UnitsOf(l) /\ um = UnitsOf(m.lots) /\ ux = UnitsOfLot(x)
      BY <1>3
    <3>2. (ul \o ux) \o b = ul \o (ux \o b)
      BY UnitsJoin
    <3>3. (um \o ux) \o b = um \o (ux \o b)
      BY UnitsJoin
    <3>. QED  BY <3>1, <3>2, <3>3
  <2>. HIDE DEF c
  <2>3. SoldSame(f, T, l, m, c)
    BY <2>1 DEF SoldAlike
  <2>. QED  BY <1>2, <1>3, <2>2, <2>3 DEF SoldSame
<1>7. SoldAlike(f, T, more, w)
  BY <1>2, <1>4, <1>5, <1>6 DEF SoldAlike
<1>. QED  BY <1>7 DEF w

(* A lot that is sold from, to its end or in part.                           *)
LEMMA LotTaken ==
  ASSUME NEW f \in GoodFills, NEW T \in Seq(GoodTrades), NEW l \in Seq(GoodLots), NEW x \in GoodLots,
         NEW m, SoldAlike(f, T, l, m), ~(x.coin # f.coin \/ m.left = 0)
  PROVE  SoldAlike(f, T, Append(l, x), MatchLot(m, x, f))
<1>. DEFINE w == MatchLot(m, x, f)
            more == Append(l, x)
            q == TakenOf(m, x)
            n == x.qty
            u == UnitOfLot(x)
            t == TradeOf(x, f, q)
            A == UnitsOf(m.lots)
            d == f.qty - m.left
            e == Profit(u, f)
<1>1. /\ m \in MatchRuns(f) /\ m.lots \in Seq(GoodLots) /\ m.trades \in Seq(GoodTrades)
      /\ m.left \in Nat /\ m.left <= f.qty /\ f.qty \in Nat /\ m.left # 0 /\ x.coin = f.coin
      /\ NoneOf(A, f.coin) /\ m.left = f.qty - Available(l, f.coin)
  BY DEF SoldAlike, MatchRuns, GoodFills
<1>2. /\ w \in MatchRuns(f) /\ q \in 1..n /\ q <= m.left /\ (q # n => q = m.left)
      /\ w = [left |-> m.left - q,
              lots |-> IF q = n THEN m.lots ELSE Append(m.lots, RestOf(x, q)),
              trades |-> Append(m.trades, t)]
  BY <1>1, MatchLotIs
<1>3. n \in Nat \ {0}
  BY DEF GoodLots, BuyLot
<1>. HIDE DEF q, w
<1>4. w.left = m.left - q /\ w.trades = Append(m.trades, t)
      /\ w.lots = IF q = n THEN m.lots ELSE Append(m.lots, RestOf(x, q))
  BY <1>2
<1>5. /\ u \in TaxUnits /\ u.coin = f.coin /\ t \in GoodTrades /\ UnitOfTrade(t) = e /\ t.qty = q
      /\ q # n => RestOf(x, q) \in GoodLots /\ RestOf(x, q).qty = n - q /\ UnitOfLot(RestOf(x, q)) = u
  BY <1>1, <1>2, LotIsMatched DEF TradeOf, RestOf
<1>6. /\ UnitsOf(l) \in Seq(TaxUnits) /\ A \in Seq(TaxUnits) /\ UnitsOfLot(x) \in Seq(TaxUnits)
      /\ UnitsOf(more) = UnitsOf(l) \o UnitsOfLot(x) /\ UnitsOfLot(x) = Repeat(u, n)
  BY <1>1, UnitsAppend DEF UnitsOfLot
<1>7. e \in TaxSolds
  BY <1>5, ProfitTyped
<1>. HIDE DEF u, t, A, e
<1>8. w.left # 0 => q = n
  BY <1>1, <1>2, <1>3, <1>4
<1>9. w.left # 0 => NoneOf(UnitsOf(w.lots), f.coin)
  BY <1>1, <1>4, <1>8 DEF A
<1>10. w.left = 0 \/ w.left = f.qty - Available(more, f.coin)
  <2>1. Available(more, f.coin) = Available(l, f.coin) + n /\ Available(l, f.coin) \in Nat
    BY <1>1, AvailableAppend
  <2>. QED  BY <1>1, <1>2, <1>3, <1>4, <1>8, <2>1
<1>11. /\ T \o m.trades \in Seq(GoodTrades) /\ SoldOf(T \o m.trades) \in Seq(TaxSolds)
       /\ SoldOf(T \o w.trades) = SoldOf(T \o m.trades) \o Repeat(e, q)
  <2>1. T \o Append(m.trades, t) = Append(T \o m.trades, t) /\ T \o m.trades \in Seq(GoodTrades)
    BY <1>1, <1>5, JoinedAppend
  <2>2. /\ SoldOf(T \o m.trades) \in Seq(TaxSolds)
        /\ SoldOf(Append(T \o m.trades, t)) = SoldOf(T \o m.trades) \o SoldOfTrade(t)
    BY <1>5, <2>1, SoldAppend
  <2>3. SoldOfTrade(t) = Repeat(e, q)
    BY <1>5 DEF SoldOfTrade
  <2>. QED  BY <1>4, <2>1, <2>2, <2>3
<1>12. d \in Nat /\ f.qty - w.left = d + q /\ q \in 0..n
  BY <1>1, <1>2, <1>3, <1>4
<1>. HIDE DEF d, n
<1>13. ASSUME NEW b \in Seq(TaxUnits) PROVE SoldSame(f, T, more, w, b)
  <2>. DEFINE c == Repeat(u, n) \o b
              sd == SoldOf(T \o m.trades)
              r == [units |-> UnitsOf(l) \o c, sold |-> SoldOf(T)]
  <2>1. c \in Seq(TaxUnits) /\ UnitsOf(more) \o b = UnitsOf(l) \o c
    <3>1. PICK ul \in Seq(TaxUnits), ux \in Seq(TaxUnits) : ul = UnitsOf(l) /\ ux = Repeat(u, n)
      BY <1>6
    <3>2. (ul \o ux) \o b = ul \o (ux \o b)
      BY UnitsJoin
    <3>3. ux \o b \in Seq(TaxUnits)
      OBVIOUS
    <3>. QED  BY <1>6, <3>1, <3>2, <3>3
  <2>2. r \in TaxRuns
    <3>1. SoldOf(T) \in Seq(TaxSolds)
      BY <1>5, SoldAppend
    <3>2. UnitsOf(l) \o c \in Seq(TaxUnits)
      BY <1>6, <2>1
    <3>. QED  BY <3>1, <3>2 DEF TaxRuns
  <2>3. SoldSame(f, T, l, m, c)
    BY <2>1 DEF SoldAlike
  <2>4. Selling(r, f, d) = [units |-> A \o (Repeat(u, n) \o b), sold |-> sd]
    BY <2>3 DEF SoldSame, A, d
  <2>5. sd \in Seq(TaxSolds)
    BY <1>11
  <2>. HIDE DEF r, sd, c
  <2>6. TakenOff(r, f, d, A, u, n, b, sd, q)
    BY <1>1, <1>3, <1>5, <1>6, <1>12, <2>2, <2>4, <2>5, LotSells DEF n
  <2>7. Selling(r, f, d + q) = [units |-> A \o (Repeat(u, n - q) \o b), sold |-> sd \o Repeat(e, q)]
    BY <2>6 DEF TakenOff, e
  <2>8. A \o (Repeat(u, n - q) \o b) = UnitsOf(w.lots) \o b
    <3>1. CASE q = n
      <4>1. Repeat(u, n - q) = <<>>
        <5>1. n - q = 0 /\ 0 \in Nat
          BY <1>3, <3>1 DEF n
        <5>2. Repeat(u, 0) = <<>>
          BY <1>5, <5>1, RepeatIs
        <5>. QED  BY <5>1, <5>2
      <4>2. <<>> \o b = b
        OBVIOUS
      <4>. QED  BY <1>4, <3>1, <4>1, <4>2 DEF A
    <3>2. CASE q # n
      <4>1. UnitsOfLot(RestOf(x, q)) = Repeat(u, n - q)
        BY <1>5, <3>2 DEF UnitsOfLot
      <4>2. UnitsOf(w.lots) = A \o Repeat(u, n - q) /\ Repeat(u, n - q) \in Seq(TaxUnits)
        BY <1>1, <1>4, <1>5, <3>2, <4>1, UnitsAppend DEF A
      <4>3. PICK a \in Seq(TaxUnits), ur \in Seq(TaxUnits) : a = A /\ ur = Repeat(u, n - q)
        BY <1>6, <4>2
      <4>4. (a \o ur) \o b = a \o (ur \o b)
        BY UnitsJoin
      <4>. QED  BY <4>2, <4>3, <4>4
    <3>. QED  BY <3>1, <3>2
  <2>9. Selling(r, f, f.qty - w.left) = [units |-> UnitsOf(w.lots) \o b, sold |-> SoldOf(T \o w.trades)]
    BY <1>11, <1>12, <2>7, <2>8 DEF sd
  <2>10. r = [units |-> UnitsOf(more) \o b, sold |-> SoldOf(T)]
    BY <2>1 DEF r
  <2>. QED  BY <2>9, <2>10 DEF SoldSame
<1>14. SoldAlike(f, T, more, w)
  BY <1>2, <1>9, <1>10, <1>13 DEF SoldAlike
<1>. QED  BY <1>14 DEF w

MatchStart(f) == [left |-> f.qty, lots |-> <<>>, trades |-> <<>>]

LEMMA MatchAppend ==
  ASSUME NEW f \in GoodFills, NEW lots \in Seq(GoodLots), NEW x \in GoodLots
  PROVE  /\ MatchSell(<<>>, f) = MatchStart(f) /\ MatchSell(lots, f) \in MatchRuns(f)
         /\ MatchSell(Append(lots, x), f) = MatchLot(MatchSell(lots, f), x, f)
<1>1. \A s : MatchSell(s, f) = Folded("match", f, MatchStart(f), s)
  BY DEF MatchSell, Folded, FoldLeft, MapThenFoldSet, Advance, MatchStart
<1>2. ASSUME NEW m \in MatchRuns(f), NEW l \in GoodLots
      PROVE  Advance("match", f, m, l) = MatchLot(m, l, f) /\ MatchLot(m, l, f) \in MatchRuns(f)
  BY MatchLotIs DEF Advance
<1>3. Advances("match", f, MatchRuns(f), GoodLots)
  BY <1>2 DEF Advances
<1>4. MatchStart(f) \in MatchRuns(f)
  BY DEF MatchStart, MatchRuns, GoodFills
<1>5. /\ Folded("match", f, MatchStart(f), <<>>) = MatchStart(f)
      /\ Folded("match", f, MatchStart(f), lots) \in MatchRuns(f)
      /\ PassesOn("match", f, MatchStart(f), lots, x)
  BY <1>3, <1>4, FoldedNone, FoldedTyped, FoldedAppend
<1>. QED  BY <1>1, <1>2, <1>5 DEF PassesOn

LEMMA MatchIsSale ==
  ASSUME NEW f \in GoodFills, NEW T \in Seq(GoodTrades), NEW lots \in Seq(GoodLots), lots # <<>>
  PROVE  SoldAlike(f, T, lots, MatchSell(lots, f))
<1>. DEFINE n == Len(lots)
            SoldUpTo(k) == SoldAlike(f, T, SubSeq(lots, 1, k), MatchSell(SubSeq(lots, 1, k), f))
            Bad == {k \in 0..n : ~SoldUpTo(k)}
<1>1. n \in Nat /\ n \in 0..n /\ SubSeq(lots, 1, n) = lots /\ SubSeq(lots, 1, 0) = <<>> /\ lots[1] \in GoodLots
  OBVIOUS
<1>2. ASSUME NEW k \in 0..n, k # 0
      PROVE  /\ SubSeq(lots, 1, k) = Append(SubSeq(lots, 1, k - 1), lots[k]) /\ lots[k] \in GoodLots
             /\ SubSeq(lots, 1, k - 1) \in Seq(GoodLots)
  <2>1. /\ SubSeq(lots, 1, k) \in Seq(GoodLots) /\ SubSeq(lots, 1, k - 1) \in Seq(GoodLots)
        /\ Len(SubSeq(lots, 1, k)) = k /\ Len(SubSeq(lots, 1, k - 1)) = k - 1 /\ lots[k] \in GoodLots
        /\ \A i \in 1..k : SubSeq(lots, 1, k)[i] = lots[i]
        /\ \A i \in 1..(k - 1) : SubSeq(lots, 1, k - 1)[i] = lots[i]
    BY <1>1, <1>2
  <2>. QED  BY <1>2, <2>1
<1>3. SoldUpTo(0)
  <2>1. <<>> \in Seq(GoodLots)
    OBVIOUS
  <2>2. MatchSell(<<>>, f) = MatchStart(f)
    BY <1>1, <2>1, MatchAppend
  <2>. QED  BY <1>1, <2>2, NoneSoldYet DEF MatchStart
<1>4. ASSUME NEW k \in 0..n, k # 0, SoldUpTo(k - 1) PROVE SoldUpTo(k)
  <2>. DEFINE l == SubSeq(lots, 1, k - 1)
              x == lots[k]
              m == MatchSell(l, f)
  <2>1. l \in Seq(GoodLots) /\ x \in GoodLots /\ SubSeq(lots, 1, k) = Append(l, x)
    BY <1>2, <1>4
  <2>2. SoldAlike(f, T, l, m)
    BY <1>4
  <2>. HIDE DEF l, x, m
  <2>3. SoldAlike(f, T, Append(l, x), MatchLot(m, x, f))
    BY <2>1, <2>2, LotPassedBy, LotTaken
  <2>4. MatchSell(Append(l, x), f) = MatchLot(m, x, f)
    BY <2>1, MatchAppend DEF m
  <2>. QED  BY <2>1, <2>3, <2>4
<1>5. Bad = {}
  <2>. SUFFICES ASSUME Bad # {} PROVE FALSE
    OBVIOUS
  <2>1. PICK k \in Bad : k \in 0..n /\ (k # 0 => k - 1 \in 0..n /\ k - 1 \notin Bad)
    <3>1. Bad \subseteq 0..n
      OBVIOUS
    <3>. HIDE DEF Bad
    <3>. QED  BY <1>1, <3>1, FirstBad
  <2>2. ~SoldUpTo(k) /\ (k # 0 => SoldUpTo(k - 1))
    BY <2>1
  <2>. HIDE DEF SoldUpTo
  <2>. QED  BY <1>3, <1>4, <2>1, <2>2
<1>6. SoldUpTo(n)
  <2>. HIDE DEF SoldUpTo
  <2>. QED  BY <1>1, <1>5
<1>. QED  BY <1>1, <1>6

(* A sell that is covered is matched in full, as unit by unit.               *)
LEMMA SaleIsMatched ==
  ASSUME NEW f \in GoodFills, NEW T \in Seq(GoodTrades), NEW lots \in Seq(GoodLots),
         Available(lots, f.coin) >= f.qty
  PROVE  LET m == MatchSell(lots, f)
         IN  /\ m.lots \in Seq(GoodLots) /\ T \o m.trades \in Seq(GoodTrades)
             /\ Selling([units |-> UnitsOf(lots), sold |-> SoldOf(T)], f, f.qty)
                  = [units |-> UnitsOf(m.lots), sold |-> SoldOf(T \o m.trades)]
<1>. DEFINE m == MatchSell(lots, f)
<1>0. f.qty \in Nat \ {0}
  BY DEF GoodFills
<1>1. lots # <<>> /\ Available(lots, f.coin) \in Nat
  <2>1. \E x : x \in GoodLots
    <3>. SUFFICES ASSUME GoodLots = {} PROVE FALSE
      OBVIOUS
    <3>. DEFINE l == [coin |-> f.coin, qty |-> 1, price |-> 1, fee |-> 0, id |-> 0]
    <3>1. l \in BuyLot /\ l.fee = 0 /\ l.qty = 1
      BY DEF BuyLot, GoodFills
    <3>2. 0 = 1 * (0 \div 1)
      BY Z3
    <3>3. l \in GoodLots
      BY <3>1, <3>2 DEF GoodLots
    <3>. QED  BY <3>3
  <2>2. PICK x \in GoodLots : TRUE
    BY <2>1
  <2>3. Available(<<>>, f.coin) = 0 /\ Available(lots, f.coin) \in Nat
    BY <2>2, AvailableAppend
  <2>. QED  BY <1>0, <2>3
<1>2. SoldAlike(f, T, lots, m)
  BY <1>1, MatchIsSale
<1>. HIDE DEF m
<1>3. m \in MatchRuns(f) /\ m.left = 0 /\ m.lots \in Seq(GoodLots) /\ m.trades \in Seq(GoodTrades)
  BY <1>0, <1>1, <1>2 DEF SoldAlike, MatchRuns
<1>4. \A b \in Seq(TaxUnits) : SoldSame(f, T, lots, m, b)
  BY <1>2 DEF SoldAlike
<1>5. PICK none \in Seq(TaxUnits) : none = <<>>
  <2>1. <<>> \in Seq(TaxUnits)
    OBVIOUS
  <2>. QED  BY <2>1
<1>6. /\ UnitsOf(lots) \in Seq(TaxUnits) /\ UnitsOf(m.lots) \in Seq(TaxUnits)
      /\ UnitsOf(lots) \o none = UnitsOf(lots) /\ UnitsOf(m.lots) \o none = UnitsOf(m.lots)
  <2>1. lots[1] \in GoodLots
    BY <1>1
  <2>2. UnitsOf(lots) \in Seq(TaxUnits) /\ UnitsOf(m.lots) \in Seq(TaxUnits)
    BY <1>3, <2>1, UnitsAppend
  <2>3. \A v \in Seq(TaxUnits) : v \o none = v
    BY <1>5
  <2>. QED  BY <2>2, <2>3
<1>7. SoldSame(f, T, lots, m, none)
  BY <1>4
<1>8. f.qty - m.left = f.qty
  BY <1>0, <1>3
<1>9. T \o m.trades \in Seq(GoodTrades)
  BY <1>3
<1>. QED  BY <1>3, <1>6, <1>7, <1>8, <1>9 DEF SoldSame, m

NoRun == [units |-> <<>>, sold |-> <<>>]

LEMMA EnterIs ==
  ASSUME NEW r \in TaxRuns, NEW f \in GoodFills
  PROVE  /\ Enter(r, f) \in TaxRuns
         /\ f.side = "BUY" =>
              Enter(r, f) = [units |-> r.units \o Repeat([coin |-> f.coin, price |-> f.price,
                                                          unit |-> f.unit, id |-> f.id], f.qty),
                             sold |-> r.sold]
         /\ f.side = "SELL" => Enter(r, f) = Selling(r, f, f.qty)
<1>1. /\ r = [units |-> r.units, sold |-> r.sold] /\ r.units \in Seq(TaxUnits) /\ r.sold \in Seq(TaxSolds)
      /\ f.qty \in Nat /\ f.side \in {"BUY", "SELL"}
  BY DEF TaxRuns, GoodFills
<1>2. CASE f.side = "BUY"
  <2>. DEFINE u == [coin |-> f.coin, price |-> f.price, unit |-> f.unit, id |-> f.id]
              more == r.units \o Repeat(u, f.qty)
  <2>1. u \in TaxUnits
    BY DEF TaxUnits, GoodFills
  <2>. HIDE DEF u
  <2>2. Repeat(u, f.qty) \in Seq(TaxUnits)
    BY <1>1, <2>1, RepeatIs
  <2>3. more \in Seq(TaxUnits)
    BY <1>1, <2>2
  <2>4. Enter(r, f) = [r EXCEPT !.units = more]
    BY <1>2 DEF Enter, u
  <2>. HIDE DEF more
  <2>5. Enter(r, f) = [units |-> more, sold |-> r.sold]
    BY <1>1, <2>4
  <2>. QED  BY <1>1, <1>2, <2>3, <2>5 DEF TaxRuns, more, u
<1>3. CASE f.side = "SELL"
  <2>1. f.side # "BUY"
    BY <1>3
  <2>2. Enter(r, f) = FoldLeft(SellUnit, r, Repeat(f, f.qty))
    BY <2>1 DEF Enter
  <2>3. Enter(r, f) = Selling(r, f, f.qty)
    BY <2>2 DEF Selling, Folded, FoldLeft, MapThenFoldSet, Advance
  <2>4. Selling(r, f, f.qty) \in TaxRuns
    BY <1>1, SellingNext
  <2>. QED  BY <1>3, <2>1, <2>3, <2>4
<1>. QED  BY <1>1, <1>2, <1>3

LEMMA ReferenceAppend ==
  ASSUME NEW h \in Seq(GoodFills), NEW f \in GoodFills
  PROVE  /\ Reference(h) \in TaxRuns /\ Reference(Append(h, f)) = Enter(Reference(h), f)
<1>1. \A s : Reference(s) = Folded("enter", 0, NoRun, s)
  BY DEF Reference, Folded, FoldLeft, MapThenFoldSet, Advance, NoRun
<1>2. ASSUME NEW r \in TaxRuns, NEW g \in GoodFills
      PROVE  Advance("enter", 0, r, g) = Enter(r, g) /\ Enter(r, g) \in TaxRuns
  BY EnterIs DEF Advance
<1>3. Advances("enter", 0, TaxRuns, GoodFills)
  BY <1>2 DEF Advances
<1>4. NoRun \in TaxRuns
  BY DEF NoRun, TaxRuns
<1>5. /\ Folded("enter", 0, NoRun, h) \in TaxRuns /\ PassesOn("enter", 0, NoRun, h, f)
  BY <1>3, <1>4, FoldedTyped, FoldedAppend
<1>. QED  BY <1>1, <1>2, <1>5 DEF PassesOn

LEMMA NothingEntered == Reference(<<>>) = NoRun /\ UnitsOf(<<>>) = <<>> /\ SoldOf(<<>>) = <<>>
<1>1. Reference(<<>>) = Folded("enter", 0, NoRun, <<>>)
  BY DEF Reference, Folded, FoldLeft, MapThenFoldSet, Advance, NoRun
<1>2. UnitsOf(<<>>) = Folded("units", 0, <<>>, <<>>)
  BY DEF UnitsOf, Folded, FoldLeft, MapThenFoldSet, Advance, UnitsOfLot, UnitOfLot
<1>3. SoldOf(<<>>) = Folded("sold", 0, <<>>, <<>>)
  BY DEF SoldOf, Folded, FoldLeft, MapThenFoldSet, Advance, SoldOfTrade, UnitOfTrade
<1>4. ASSUME NEW kind, NEW base PROVE Folded(kind, 0, base, <<>>) = base
  <2>1. Advances(kind, 0, {base}, {}) /\ base \in {base}
    BY DEF Advances
  <2>. QED  BY <2>1, FoldedNone
<1>. QED  BY <1>1, <1>2, <1>3, <1>4

(* A book and the fills behind it.                                           *)
BookSame(book, h) ==
  /\ book = [lots |-> book.lots, trades |-> book.trades]
  /\ book.lots \in Seq(GoodLots) /\ book.trades \in Seq(GoodTrades) /\ h \in Seq(GoodFills)
  /\ Tells(book, h)

LEMMA BoughtSame ==
  ASSUME NEW book, NEW h, BookSame(book, h), NEW f \in GoodFills, f.side = "BUY",
         NEW lot, lot = [coin |-> f.coin, qty |-> f.qty, price |-> f.price, fee |-> f.qty * f.unit,
                         id |-> f.id]
  PROVE  BookSame([lots |-> Append(book.lots, lot), trades |-> book.trades], Append(h, f))
<1>1. /\ book.lots \in Seq(GoodLots) /\ book.trades \in Seq(GoodTrades) /\ h \in Seq(GoodFills)
      /\ UnitsOf(book.lots) = Reference(h).units /\ SoldOf(book.trades) = Reference(h).sold
  BY DEF BookSame, Tells
<1>2. f.coin \in Coins /\ f.qty \in Nat \ {0} /\ f.price \in Nat \ {0} /\ f.unit \in Nat /\ f.id \in Nat
  BY DEF GoodFills
<1>3. f.qty * f.unit \in Nat /\ (f.qty * f.unit) \div f.qty = f.unit
  <2>1. \A a, c \in Nat : a * c \in Nat
    BY Z3
  <2>. QED  BY <1>2, <2>1, ExactQuotient
<1>. DEFINE fee == f.qty * f.unit
<1>. HIDE DEF fee
<1>4. lot = [coin |-> f.coin, qty |-> f.qty, price |-> f.price, fee |-> fee, id |-> f.id]
      /\ fee \in Nat /\ fee \div f.qty = f.unit /\ fee = f.qty * f.unit
  BY <1>3 DEF fee
<1>5. lot \in GoodLots /\ UnitOfLot(lot) = [coin |-> f.coin, price |-> f.price, unit |-> f.unit, id |-> f.id]
      /\ lot.qty = f.qty
  <2>1. lot.coin = f.coin /\ lot.qty = f.qty /\ lot.price = f.price /\ lot.fee = fee /\ lot.id = f.id
    BY <1>4
  <2>2. lot \in BuyLot
    BY <1>2, <1>4 DEF BuyLot
  <2>. QED  BY <1>4, <2>1, <2>2 DEF GoodLots, UnitOfLot
<1>6. UnitsOf(Append(book.lots, lot)) = UnitsOf(book.lots) \o UnitsOfLot(lot)
  BY <1>1, <1>5, UnitsAppend
<1>7. Reference(Append(h, f)) = Enter(Reference(h), f) /\ Reference(h) \in TaxRuns
  BY <1>1, ReferenceAppend
<1>8. Enter(Reference(h), f) = [units |-> Reference(h).units \o UnitsOfLot(lot), sold |-> Reference(h).sold]
  BY <1>5, <1>7, EnterIs DEF UnitsOfLot
<1>9. Append(book.lots, lot) \in Seq(GoodLots) /\ Append(h, f) \in Seq(GoodFills)
  BY <1>1, <1>5
<1>10. PICK more : more = Append(book.lots, lot)
  OBVIOUS
<1>11. PICK next : next = Append(h, f)
  OBVIOUS
<1>12. /\ Reference(next).units = Reference(h).units \o UnitsOfLot(lot)
       /\ Reference(next).sold = Reference(h).sold
  <2>1. PICK ref : ref = Reference(next)
    OBVIOUS
  <2>2. ref = [units |-> Reference(h).units \o UnitsOfLot(lot), sold |-> Reference(h).sold]
    BY <1>7, <1>8, <1>11, <2>1
  <2>. QED  BY <2>1, <2>2
<1>13. UnitsOf(more) = Reference(next).units /\ SoldOf(book.trades) = Reference(next).sold
  BY <1>1, <1>6, <1>10, <1>12
<1>. DEFINE b == [lots |-> more, trades |-> book.trades]
<1>14. b = [lots |-> b.lots, trades |-> b.trades] /\ b.lots = more /\ b.trades = book.trades
  OBVIOUS
<1>. HIDE DEF b
<1>15. BookSame(b, next)
  BY <1>1, <1>9, <1>10, <1>11, <1>13, <1>14 DEF BookSame, Tells
<1>. QED  BY <1>10, <1>11, <1>15 DEF b

LEMMA SaleSame ==
  ASSUME NEW book, NEW h, BookSame(book, h), NEW f \in GoodFills, f.side = "SELL",
         Available(book.lots, f.coin) >= f.qty, NEW m, m = MatchSell(book.lots, f)
  PROVE  BookSame([lots |-> m.lots, trades |-> book.trades \o m.trades], Append(h, f))
<1>1. /\ book.lots \in Seq(GoodLots) /\ book.trades \in Seq(GoodTrades) /\ h \in Seq(GoodFills)
      /\ UnitsOf(book.lots) = Reference(h).units /\ SoldOf(book.trades) = Reference(h).sold
  BY DEF BookSame, Tells
<1>2. /\ m.lots \in Seq(GoodLots) /\ book.trades \o m.trades \in Seq(GoodTrades)
      /\ Selling([units |-> UnitsOf(book.lots), sold |-> SoldOf(book.trades)], f, f.qty)
           = [units |-> UnitsOf(m.lots), sold |-> SoldOf(book.trades \o m.trades)]
  BY <1>1, SaleIsMatched
<1>3. Reference(Append(h, f)) = Enter(Reference(h), f) /\ Reference(h) \in TaxRuns
  BY <1>1, ReferenceAppend
<1>4. Enter(Reference(h), f) = Selling(Reference(h), f, f.qty)
  BY <1>3, EnterIs
<1>5. Reference(h) = [units |-> UnitsOf(book.lots), sold |-> SoldOf(book.trades)]
  BY <1>1, <1>3 DEF TaxRuns
<1>6. Append(h, f) \in Seq(GoodFills)
  BY <1>1
<1>. QED  BY <1>2, <1>3, <1>4, <1>5, <1>6 DEF BookSame, Tells

(* What is added up over the lots and trades of a book is what is added up   *)
(* over their units.                                                         *)
LEMMA PrefixGrows ==
  ASSUME NEW S, NEW s \in Seq(S)
  PROVE  /\ SubSeq(s, 1, Len(s)) = s /\ SubSeq(s, 1, 0) = <<>> /\ Len(s) \in 0..Len(s)
         /\ \A k \in 0..Len(s) : k # 0 =>
              /\ SubSeq(s, 1, k) = Append(SubSeq(s, 1, k - 1), s[k])
              /\ s[k] \in S /\ SubSeq(s, 1, k - 1) \in Seq(S)
<1>1. SubSeq(s, 1, Len(s)) = s /\ SubSeq(s, 1, 0) = <<>> /\ Len(s) \in Nat
  OBVIOUS
<1>2. ASSUME NEW k \in 0..Len(s), k # 0
      PROVE  /\ SubSeq(s, 1, k) = Append(SubSeq(s, 1, k - 1), s[k])
             /\ s[k] \in S /\ SubSeq(s, 1, k - 1) \in Seq(S)
  <2>1. /\ SubSeq(s, 1, k) \in Seq(S) /\ SubSeq(s, 1, k - 1) \in Seq(S)
        /\ Len(SubSeq(s, 1, k)) = k /\ Len(SubSeq(s, 1, k - 1)) = k - 1 /\ s[k] \in S
        /\ \A i \in 1..k : SubSeq(s, 1, k)[i] = s[i]
        /\ \A i \in 1..(k - 1) : SubSeq(s, 1, k - 1)[i] = s[i]
    BY <1>1, <1>2
  <2>. QED  BY <1>2, <2>1
<1>. QED  BY <1>1, <1>2

PnlOf(s) == Folded("pnl", 0, 0, s)

LEMMA PnlAppend ==
  ASSUME NEW S, \A x \in S : x.pnl \in Int, NEW s \in Seq(S), NEW x \in S
  PROVE  /\ PnlOf(<<>>) = 0 /\ PnlOf(s) \in Int /\ PnlOf(Append(s, x)) = PnlOf(s) + x.pnl
<1>1. ASSUME NEW a \in Int, NEW t \in S
      PROVE  Advance("pnl", 0, a, t) = a + t.pnl /\ a + t.pnl \in Int
  BY DEF Advance
<1>2. Advances("pnl", 0, Int, S)
  BY <1>1 DEF Advances
<1>. DEFINE none == 0
<1>3. none \in Int
  OBVIOUS
<1>. HIDE DEF none
<1>4. /\ Folded("pnl", 0, none, <<>>) = none /\ Folded("pnl", 0, none, s) \in Int
      /\ PassesOn("pnl", 0, none, s, x)
  BY <1>2, <1>3, FoldedNone, FoldedTyped, FoldedAppend
<1>5. Folded("pnl", 0, none, s) \in Int
  BY <1>4
<1>. QED  BY <1>1, <1>4, <1>5 DEF PassesOn, PnlOf, none

LEMMA OneMoreTimes == \A n \in Nat, x \in Int : (n + 1) * x = n * x + x /\ n * x \in Int /\ 0 * x = 0
BY Z3

LEMMA PnlRepeated ==
  ASSUME NEW s \in Seq(TaxSolds), NEW w \in TaxSolds, NEW n \in Nat
  PROVE  /\ PnlOf(s \o Repeat(w, n)) = PnlOf(s) + n * w.pnl
<1>. DEFINE Sums(q) == PnlOf(s \o Repeat(w, q)) = PnlOf(s) + q * w.pnl
            Bad == {q \in 0..n : ~Sums(q)}
<1>1. \A x \in TaxSolds : x.pnl \in Int
  BY DEF TaxSolds
<1>2. PnlOf(s) \in Int /\ w.pnl \in Int
  BY <1>1, PnlAppend
<1>3. Sums(0)
  <2>1. Repeat(w, 0) = <<>>
    BY RepeatIs
  <2>2. s \o <<>> = s
    OBVIOUS
  <2>3. PnlOf(s \o Repeat(w, 0)) = PnlOf(s)
    BY <2>1, <2>2
  <2>. DEFINE p == 0 * w.pnl
  <2>4. p = 0
    BY <1>2, OneMoreTimes
  <2>. HIDE DEF p
  <2>5. PnlOf(s \o Repeat(w, 0)) = PnlOf(s) + p
    BY <1>2, <2>3, <2>4
  <2>. QED  BY <2>5 DEF p
<1>4. ASSUME NEW k \in Nat, Sums(k) PROVE Sums(k + 1)
  <2>1. Repeat(w, k + 1) = Append(Repeat(w, k), w) /\ Repeat(w, k) \in Seq(TaxSolds)
    BY RepeatIs
  <2>2. PICK a \in Seq(TaxSolds) : a = Repeat(w, k)
    BY <2>1
  <2>3. s \o Append(a, w) = Append(s \o a, w) /\ s \o a \in Seq(TaxSolds)
    BY JoinedAppend
  <2>4. PnlOf(Append(s \o a, w)) = PnlOf(s \o a) + w.pnl
    BY <1>1, <2>3, PnlAppend
  <2>5. PnlOf(s \o Repeat(w, k + 1)) = (PnlOf(s) + k * w.pnl) + w.pnl
    BY <1>4, <2>1, <2>2, <2>3, <2>4
  <2>6. (k + 1) * w.pnl = k * w.pnl + w.pnl /\ k * w.pnl \in Int
    BY <1>2, OneMoreTimes
  <2>. DEFINE p == k * w.pnl
  <2>7. p \in Int /\ (k + 1) * w.pnl = p + w.pnl /\ PnlOf(s \o Repeat(w, k + 1)) = (PnlOf(s) + p) + w.pnl
    BY <2>5, <2>6
  <2>. HIDE DEF p
  <2>8. (PnlOf(s) + p) + w.pnl = PnlOf(s) + (p + w.pnl)
    BY <1>2, <2>7
  <2>. QED  BY <2>7, <2>8
<1>. SUFFICES ASSUME Bad # {} PROVE FALSE
  <2>1. n \in 0..n
    OBVIOUS
  <2>. HIDE DEF Sums
  <2>2. Sums(n)
    BY <2>1
  <2>. QED  BY <2>2 DEF Sums
<1>5. PICK q \in Bad : q \in 0..n /\ (q # 0 => q - 1 \in 0..n /\ q - 1 \notin Bad)
  <2>1. Bad \subseteq 0..n
    OBVIOUS
  <2>. HIDE DEF Bad
  <2>. QED  BY <2>1, FirstBad
<1>6. ~Sums(q) /\ q \in Nat /\ (q # 0 => Sums(q - 1) /\ q - 1 \in Nat /\ (q - 1) + 1 = q)
  <2>. HIDE DEF Sums
  <2>. QED  BY <1>5
<1>7. q # 0
  <2>. HIDE DEF Sums
  <2>. QED  BY <1>3, <1>6
<1>8. Sums((q - 1) + 1)
  <2>. HIDE DEF Sums
  <2>. QED  BY <1>4, <1>6, <1>7
<1>. HIDE DEF Sums
<1>. QED  BY <1>6, <1>7, <1>8

LEMMA PnlSame ==
  ASSUME NEW trades \in Seq(GoodTrades)
  PROVE  PnlOf(SoldOf(trades)) = PnlOf(trades)
<1>. DEFINE n == Len(trades)
            upto(k) == SubSeq(trades, 1, k)
            Same(k) == PnlOf(SoldOf(upto(k))) = PnlOf(upto(k))
            Bad == {k \in 0..n : ~Same(k)}
<1>1. \A t \in GoodTrades : t.pnl \in Int /\ t.qty \in Nat \ {0} /\ t.pnl = t.qty * (t.pnl \div t.qty)
  BY DEF GoodTrades, MatchedTrade
<1>2. Same(0)
  <2>1. PnlOf(<<>>) = PnlOf(SoldOf(<<>>))
    BY NothingEntered
  <2>. QED  BY <2>1, PrefixGrows
<1>3. ASSUME NEW k \in 0..n, k # 0, Same(k - 1) PROVE Same(k)
  <2>1. PICK l \in Seq(GoodTrades), t \in GoodTrades : l = upto(k - 1) /\ t = trades[k] /\ upto(k) = Append(l, t)
    <3>1. /\ SubSeq(trades, 1, k) = Append(SubSeq(trades, 1, k - 1), trades[k])
          /\ trades[k] \in GoodTrades /\ SubSeq(trades, 1, k - 1) \in Seq(GoodTrades)
      BY <1>3, PrefixGrows
    <3>. QED  BY <3>1
  <2>2. PnlOf(Append(l, t)) = PnlOf(l) + t.pnl
    BY <1>1, PnlAppend
  <2>3. SoldOf(Append(l, t)) = SoldOf(l) \o SoldOfTrade(t) /\ SoldOf(l) \in Seq(TaxSolds)
    BY SoldAppend
  <2>4. UnitOfTrade(t) \in TaxSolds /\ t.qty \in Nat /\ UnitOfTrade(t).pnl = t.pnl \div t.qty
    <3>1. t.qty \in Nat \ {0} /\ t.buy \in Nat /\ t.sell \in Nat /\ t.pnl \in Int
      BY DEF GoodTrades, MatchedTrade
    <3>2. \A c \in Int, e \in Nat \ {0} : c \div e \in Int
      BY Z3
    <3>3. t.pnl \div t.qty \in Int
      BY <3>1, <3>2
    <3>. QED  BY <3>1, <3>3 DEF UnitOfTrade, TaxSolds
  <2>. HIDE DEF upto
  <2>5. PnlOf(SoldOf(l) \o Repeat(UnitOfTrade(t), t.qty)) = PnlOf(SoldOf(l)) + t.qty * UnitOfTrade(t).pnl
    BY <2>3, <2>4, PnlRepeated
  <2>6. PnlOf(SoldOf(Append(l, t))) = PnlOf(SoldOf(l)) + t.pnl
    BY <1>1, <2>3, <2>4, <2>5 DEF SoldOfTrade
  <2>. QED  BY <1>3, <2>1, <2>2, <2>6
<1>4. n \in Nat /\ n \in 0..n /\ upto(n) = trades
  BY PrefixGrows
<1>. HIDE DEF Same
<1>5. Bad = {}
  <2>. SUFFICES ASSUME Bad # {} PROVE FALSE
    OBVIOUS
  <2>1. PICK k \in Bad : k \in 0..n /\ (k # 0 => k - 1 \in 0..n /\ k - 1 \notin Bad)
    <3>1. Bad \subseteq 0..n
      OBVIOUS
    <3>. HIDE DEF Bad
    <3>. QED  BY <1>4, <3>1, FirstBad
  <2>. QED  BY <1>2, <1>3, <2>1
<1>6. Same(n)
  BY <1>4, <1>5
<1>. QED  BY <1>4, <1>6 DEF Same

HeldIn(c, lots) == Folded("lots", c, <<>>, lots)
CostOf(lots) == Folded("cost", 0, 0, lots)
PricesIn(c, units) == Folded("prices", c, 0, units)

LEMMA NothingCosts ==
  ASSUME NEW c
  PROVE  HeldIn(c, <<>>) = <<>> /\ CostOf(<<>>) = 0 /\ PricesIn(c, <<>>) = 0
<1>1. ASSUME NEW kind, NEW par, NEW base PROVE Folded(kind, par, base, <<>>) = base
  <2>1. Advances(kind, par, {base}, {}) /\ base \in {base}
    BY DEF Advances
  <2>. QED  BY <2>1, FoldedNone
<1>. QED  BY <1>1 DEF HeldIn, CostOf, PricesIn

LotHeldNext(c, lots, x) ==
  HeldIn(c, Append(lots, x)) = IF x.coin = c THEN Append(HeldIn(c, lots), x) ELSE HeldIn(c, lots)

LEMMA LotsHeldAppend ==
  ASSUME NEW c, NEW lots \in Seq(GoodLots), NEW x \in GoodLots
  PROVE  HeldIn(c, lots) \in Seq(GoodLots) /\ LotHeldNext(c, lots, x)
<1>. DEFINE A == Seq(GoodLots)
<1>1. ASSUME NEW a \in A, NEW l \in GoodLots
      PROVE  /\ Advance("lots", c, a, l) = (IF l.coin = c THEN Append(a, l) ELSE a)
             /\ (IF l.coin = c THEN Append(a, l) ELSE a) \in A
  <2>1. Append(a, l) \in A
    OBVIOUS
  <2>. QED  BY <2>1 DEF Advance
<1>2. Advances("lots", c, A, GoodLots)
  BY <1>1 DEF Advances
<1>3. <<>> \in A
  OBVIOUS
<1>4. lots \in Seq(GoodLots)
  OBVIOUS
<1>. HIDE DEF A
<1>5. /\ Folded("lots", c, <<>>, lots) \in A
      /\ PassesOn("lots", c, <<>>, lots, x)
  BY <1>2, <1>3, <1>4, FoldedTyped, FoldedAppend
<1>6. PICK held \in A : held = HeldIn(c, lots)
  BY <1>5 DEF HeldIn
<1>7. HeldIn(c, Append(lots, x)) = Advance("lots", c, held, x)
  BY <1>5, <1>6 DEF PassesOn, HeldIn
<1>8. Advance("lots", c, held, x) = IF x.coin = c THEN Append(held, x) ELSE held
  BY <1>1
<1>9. LotHeldNext(c, lots, x)
  BY <1>6, <1>7, <1>8 DEF LotHeldNext
<1>10. HeldIn(c, lots) \in Seq(GoodLots)
  BY <1>6 DEF A
<1>. QED  BY <1>9, <1>10

LEMMA CostAppend ==
  ASSUME NEW lots \in Seq(GoodLots), NEW x \in GoodLots
  PROVE  /\ CostOf(lots) \in Int /\ CostOf(Append(lots, x)) = CostOf(lots) + x.qty * x.price
<1>1. ASSUME NEW a \in Int, NEW l \in GoodLots
      PROVE  Advance("cost", 0, a, l) = a + l.qty * l.price /\ a + l.qty * l.price \in Int
  <2>1. l.qty \in Nat /\ l.price \in Int
    BY DEF GoodLots, BuyLot
  <2>2. l.qty * l.price \in Int
    BY <2>1, OneMoreTimes
  <2>. QED  BY <2>2 DEF Advance
<1>2. Advances("cost", 0, Int, GoodLots)
  BY <1>1 DEF Advances
<1>. DEFINE none == 0
<1>3. none \in Int
  OBVIOUS
<1>. HIDE DEF none
<1>4. /\ Folded("cost", 0, none, lots) \in Int
      /\ PassesOn("cost", 0, none, lots, x)
  BY <1>2, <1>3, FoldedTyped, FoldedAppend
<1>. QED  BY <1>1, <1>4 DEF PassesOn, CostOf, none

LEMMA PricesAppend ==
  ASSUME NEW c, NEW s \in Seq(TaxUnits), NEW u \in TaxUnits
  PROVE  /\ PricesIn(c, s) \in Int
         /\ PricesIn(c, Append(s, u)) = IF u.coin = c THEN PricesIn(c, s) + u.price ELSE PricesIn(c, s)
<1>1. ASSUME NEW a \in Int, NEW v \in TaxUnits
      PROVE  /\ Advance("prices", c, a, v) = (IF v.coin = c THEN a + v.price ELSE a)
             /\ (IF v.coin = c THEN a + v.price ELSE a) \in Int
  <2>1. v.price \in Int
    BY DEF TaxUnits
  <2>. QED  BY <2>1 DEF Advance
<1>2. Advances("prices", c, Int, TaxUnits)
  BY <1>1 DEF Advances
<1>. DEFINE none == 0
<1>3. none \in Int
  OBVIOUS
<1>. HIDE DEF none
<1>4. /\ Folded("prices", c, none, s) \in Int
      /\ PassesOn("prices", c, none, s, u)
  BY <1>2, <1>3, FoldedTyped, FoldedAppend
<1>. QED  BY <1>1, <1>4 DEF PassesOn, PricesIn, none

(* What n units like u are worth in the coin c.                              *)
UnitsWorth(c, u, n) == IF u.coin = c THEN n * u.price ELSE 0

LEMMA PricesRepeated ==
  ASSUME NEW c, NEW s \in Seq(TaxUnits), NEW u \in TaxUnits, NEW n \in Nat
  PROVE  PricesIn(c, s \o Repeat(u, n)) = PricesIn(c, s) + UnitsWorth(c, u, n)
<1>. DEFINE Sums(q) == PricesIn(c, s \o Repeat(u, q)) = PricesIn(c, s) + UnitsWorth(c, u, q)
            Bad == {q \in 0..n : ~Sums(q)}
<1>1. u.price \in Int /\ PricesIn(c, s) \in Int
  BY PricesAppend DEF TaxUnits
<1>2. ASSUME NEW q \in Nat
      PROVE  /\ UnitsWorth(c, u, q) \in Int /\ UnitsWorth(c, u, 0) = 0
             /\ UnitsWorth(c, u, q + 1) = UnitsWorth(c, u, q) + (IF u.coin = c THEN u.price ELSE 0)
  <2>1. (q + 1) * u.price = q * u.price + u.price /\ q * u.price \in Int /\ 0 * u.price = 0
    BY <1>1, OneMoreTimes
  <2>. DEFINE p == q * u.price
              r == (q + 1) * u.price
              z == 0 * u.price
  <2>2. r = p + u.price /\ p \in Int /\ z = 0
    BY <2>1
  <2>3. /\ UnitsWorth(c, u, q) = (IF u.coin = c THEN p ELSE 0)
        /\ UnitsWorth(c, u, q + 1) = (IF u.coin = c THEN r ELSE 0)
        /\ UnitsWorth(c, u, 0) = (IF u.coin = c THEN z ELSE 0)
    BY DEF UnitsWorth
  <2>. HIDE DEF p, r, z
  <2>. QED  BY <1>1, <2>2, <2>3
<1>3. Sums(0)
  <2>1. Repeat(u, 0) = <<>>
    BY RepeatIs
  <2>2. s \o <<>> = s
    OBVIOUS
  <2>3. PricesIn(c, s \o Repeat(u, 0)) = PricesIn(c, s)
    BY <2>1, <2>2
  <2>4. UnitsWorth(c, u, 0) = 0
    BY <1>2
  <2>. QED  BY <1>1, <2>3, <2>4
<1>4. ASSUME NEW k \in Nat, Sums(k) PROVE Sums(k + 1)
  <2>1. Repeat(u, k + 1) = Append(Repeat(u, k), u) /\ Repeat(u, k) \in Seq(TaxUnits)
    BY RepeatIs
  <2>2. PICK a \in Seq(TaxUnits) : a = Repeat(u, k)
    BY <2>1
  <2>3. s \o Append(a, u) = Append(s \o a, u) /\ s \o a \in Seq(TaxUnits)
    BY JoinedAppend
  <2>. DEFINE v == IF u.coin = c THEN u.price ELSE 0
              now == PricesIn(c, s \o a)
              next == PricesIn(c, Append(s \o a, u))
  <2>4. next = now + v /\ now \in Int /\ v \in Int
    <3>1. /\ next = (IF u.coin = c THEN now + u.price ELSE now) /\ now \in Int
      BY <2>3, PricesAppend
    <3>. HIDE DEF now, next
    <3>. QED  BY <1>1, <3>1
  <2>. HIDE DEF v
  <2>5. UnitsWorth(c, u, k + 1) = UnitsWorth(c, u, k) + v /\ UnitsWorth(c, u, k) \in Int
    BY <1>2 DEF v
  <2>6. now = PricesIn(c, s) + UnitsWorth(c, u, k)
    BY <1>4, <2>2
  <2>7. PricesIn(c, s \o Repeat(u, k + 1)) = next
    BY <2>1, <2>2, <2>3
  <2>. HIDE DEF now, next
  <2>8. next = PricesIn(c, s) + UnitsWorth(c, u, k + 1)
    BY <1>1, <2>4, <2>5, <2>6
  <2>. QED  BY <2>7, <2>8
<1>. SUFFICES ASSUME Bad # {} PROVE FALSE
  <2>1. n \in 0..n
    OBVIOUS
  <2>. HIDE DEF Sums
  <2>2. Sums(n)
    BY <2>1
  <2>. QED  BY <2>2 DEF Sums
<1>5. PICK q \in Bad : q \in 0..n /\ (q # 0 => q - 1 \in 0..n /\ q - 1 \notin Bad)
  <2>1. Bad \subseteq 0..n
    OBVIOUS
  <2>. HIDE DEF Bad
  <2>. QED  BY <2>1, FirstBad
<1>. HIDE DEF Sums
<1>6. ~Sums(q) /\ q \in Nat /\ (q # 0 => Sums(q - 1) /\ q - 1 \in Nat /\ (q - 1) + 1 = q)
  BY <1>5
<1>7. q # 0
  BY <1>3, <1>6
<1>8. Sums((q - 1) + 1)
  BY <1>4, <1>6, <1>7
<1>. QED  BY <1>6, <1>7, <1>8

LEMMA CostSame ==
  ASSUME NEW c, NEW lots \in Seq(GoodLots)
  PROVE  CostOf(HeldIn(c, lots)) = PricesIn(c, UnitsOf(lots))
<1>. DEFINE n == Len(lots)
            upto(k) == SubSeq(lots, 1, k)
            Same(k) == CostOf(HeldIn(c, upto(k))) = PricesIn(c, UnitsOf(upto(k)))
            Bad == {k \in 0..n : ~Same(k)}
<1>2. Same(0)
  <2>1. upto(0) = <<>>
    BY PrefixGrows
  <2>. HIDE DEF upto
  <2>. QED  BY <2>1, NothingEntered, NothingCosts
<1>3. ASSUME NEW k \in 0..n, k # 0, Same(k - 1) PROVE Same(k)
  <2>1. PICK l \in Seq(GoodLots), x \in GoodLots : l = upto(k - 1) /\ x = lots[k] /\ upto(k) = Append(l, x)
    <3>1. /\ SubSeq(lots, 1, k) = Append(SubSeq(lots, 1, k - 1), lots[k])
          /\ lots[k] \in GoodLots /\ SubSeq(lots, 1, k - 1) \in Seq(GoodLots)
      BY <1>3, PrefixGrows
    <3>. QED  BY <3>1
  <2>. HIDE DEF upto
  <2>. DEFINE u == UnitOfLot(x)
              m == x.qty
  <2>2. u \in TaxUnits /\ m \in Nat /\ u.coin = x.coin /\ u.price = x.price /\ x.price \in Int
    <3>1. /\ x.coin \in Coins /\ x.qty \in Nat \ {0} /\ x.price \in Nat \ {0} /\ x.fee \in Nat /\ x.id \in Nat
      BY DEF GoodLots, BuyLot
    <3>2. \A a \in Nat, e \in Nat \ {0} : a \div e \in Nat
      BY Z3
    <3>3. x.fee \div x.qty \in Nat
      BY <3>1, <3>2
    <3>. QED  BY <3>1, <3>3 DEF UnitOfLot, TaxUnits
  <2>3. UnitsOf(l) \in Seq(TaxUnits) /\ UnitsOf(Append(l, x)) = UnitsOf(l) \o Repeat(u, m)
    BY UnitsAppend DEF UnitsOfLot
  <2>4. HeldIn(c, l) \in Seq(GoodLots)
    BY LotsHeldAppend
  <2>9. HeldIn(c, Append(l, x)) = IF x.coin = c THEN Append(HeldIn(c, l), x) ELSE HeldIn(c, l)
    <3>1. LotHeldNext(c, l, x)
      BY LotsHeldAppend
    <3>. QED  BY <3>1 DEF LotHeldNext
  <2>5. CostOf(Append(HeldIn(c, l), x)) = CostOf(HeldIn(c, l)) + m * u.price
        /\ CostOf(HeldIn(c, l)) \in Int
    BY <2>2, <2>4, CostAppend
  <2>. HIDE DEF u, m
  <2>6. PricesIn(c, UnitsOf(l) \o Repeat(u, m)) = PricesIn(c, UnitsOf(l)) + UnitsWorth(c, u, m)
    BY <2>2, <2>3, PricesRepeated
  <2>7. CostOf(HeldIn(c, l)) = PricesIn(c, UnitsOf(l))
    BY <1>3, <2>1
  <2>8. CostOf(HeldIn(c, Append(l, x))) = CostOf(HeldIn(c, l)) + UnitsWorth(c, u, m)
    <3>1. CASE x.coin = c
      <4>1. UnitsWorth(c, u, m) = m * u.price
        BY <2>2, <3>1 DEF UnitsWorth
      <4>. QED  BY <2>5, <2>9, <3>1, <4>1
    <3>2. CASE x.coin # c
      <4>1. UnitsWorth(c, u, m) = 0
        BY <2>2, <3>2 DEF UnitsWorth
      <4>2. HeldIn(c, Append(l, x)) = HeldIn(c, l)
        BY <2>9, <3>2
      <4>. QED  BY <2>5, <4>1, <4>2
    <3>. QED  BY <3>1, <3>2
  <2>. QED  BY <2>1, <2>3, <2>6, <2>7, <2>8
<1>4. n \in Nat /\ n \in 0..n /\ upto(n) = lots
  BY PrefixGrows
<1>. HIDE DEF Same
<1>5. Bad = {}
  <2>. SUFFICES ASSUME Bad # {} PROVE FALSE
    OBVIOUS
  <2>1. PICK k \in Bad : k \in 0..n /\ (k # 0 => k - 1 \in 0..n /\ k - 1 \notin Bad)
    <3>1. Bad \subseteq 0..n
      OBVIOUS
    <3>. HIDE DEF Bad
    <3>. QED  BY <1>4, <3>1, FirstBad
  <2>. QED  BY <1>2, <1>3, <2>1
<1>6. Same(n)
  BY <1>4, <1>5
<1>. QED  BY <1>4, <1>6 DEF Same

(* Through every fill, failed save, crash and restart.                       *)
TaxAgreeInv == TaxInv /\ BookSame(tax, taxhist) /\ BookSame(taxfile.book, taxkept)

LEMMA NoBookSame == BookSame(NoBook, <<>>)
<1>1. <<>> \in Seq(GoodLots) /\ <<>> \in Seq(GoodTrades) /\ <<>> \in Seq(GoodFills)
  OBVIOUS
<1>2. NoRun.units = <<>> /\ NoRun.sold = <<>>
  BY DEF NoRun
<1>3. NoBook.lots = <<>> /\ NoBook.trades = <<>> /\ NoBook = [lots |-> NoBook.lots, trades |-> NoBook.trades]
  BY DEF NoBook
<1>. QED  BY <1>1, <1>2, <1>3, NothingEntered DEF BookSame, Tells

LEMMA NamedIsGood ==
  ASSUME TaxInv, NEW f \in Fills, ValidFill(f)
  PROVE  /\ Named(f) \in GoodFills
         /\ Named(f).coin = f.coin /\ Named(f).side = f.side /\ Named(f).qty = f.qty
         /\ Named(f).price = f.price /\ Named(f).unit = f.unit /\ Named(f).id = Fresh
<1>1. /\ f.coin \in Coins /\ f.side \in {"BUY", "SELL"} /\ f.qty \in Nat \ {0} /\ f.price \in Nat \ {0}
      /\ f.unit \in Nat /\ Fresh \in Nat
  <2>1. /\ f.coin \in Coins /\ f.side \in {"BUY", "SELL"} /\ f.qty \in TaxQtys /\ f.price \in TaxPrices
        /\ f.unit \in {0, 1}
    BY DEF Fills
  <2>2. f.qty \in Nat /\ f.price \in Nat /\ f.qty > 0 /\ f.price > 0
    BY <2>1, TaxAssumption DEF ValidFill
  <2>3. f.qty \in Nat \ {0} /\ f.price \in Nat \ {0} /\ f.unit \in Nat
    BY <2>1, <2>2
  <2>4. Fresh \in Nat
    BY DEF Fresh, TaxInv
  <2>. QED  BY <2>1, <2>3, <2>4
<1>. QED  BY <1>1 DEF Named, GoodFills

LEMMA TaxBuySame ==
  ASSUME TaxInv, BookSame(tax, taxhist), NEW f \in Fills, TaxBuy(f)
  PROVE  BookSame(tax', taxhist') /\ UNCHANGED <<taxfile, taxkept>>
<1>. DEFINE g == Named(f)
            lot == [coin |-> f.coin, qty |-> f.qty, price |-> f.price, fee |-> f.qty * f.unit, id |-> Fresh]
<1>1. /\ g \in GoodFills /\ g.side = "BUY" /\ g.coin = f.coin /\ g.qty = f.qty
      /\ g.price = f.price /\ g.unit = f.unit /\ g.id = Fresh
  BY NamedIsGood DEF TaxBuy
<1>2. /\ tax' = [tax EXCEPT !.lots = Append(@, lot)] /\ taxhist' = Append(taxhist, g)
      /\ UNCHANGED <<taxfile, taxkept>>
  BY DEF TaxBuy
<1>3. lot = [coin |-> g.coin, qty |-> g.qty, price |-> g.price, fee |-> g.qty * g.unit, id |-> g.id]
  BY <1>1
<1>4. tax = [lots |-> tax.lots, trades |-> tax.trades]
  BY DEF BookSame
<1>. HIDE DEF g, lot
<1>5. BookSame([lots |-> Append(tax.lots, lot), trades |-> tax.trades], Append(taxhist, g))
  BY <1>1, <1>3, BoughtSame
<1>6. tax' = [lots |-> Append(tax.lots, lot), trades |-> tax.trades]
  BY <1>2, <1>4
<1>. QED  BY <1>2, <1>5, <1>6

LEMMA TaxSellSame ==
  ASSUME TaxInv, BookSame(tax, taxhist), NEW f \in Fills, TaxSell(f)
  PROVE  BookSame(tax', taxhist') /\ UNCHANGED <<taxfile, taxkept>>
<1>. DEFINE g == Named(f)
            m == MatchSell(tax.lots, g)
<1>1. g \in GoodFills /\ g.side = "SELL" /\ g.coin = f.coin /\ g.qty = f.qty
  BY NamedIsGood DEF TaxSell
<1>2. /\ tax' = [lots |-> m.lots, trades |-> tax.trades \o m.trades] /\ taxhist' = Append(taxhist, g)
      /\ Available(tax.lots, f.coin) >= f.qty /\ UNCHANGED <<taxfile, taxkept>>
  BY DEF TaxSell
<1>3. Available(tax.lots, g.coin) >= g.qty
  BY <1>1, <1>2
<1>. HIDE DEF g
<1>4. BookSame([lots |-> m.lots, trades |-> tax.trades \o m.trades], Append(taxhist, g))
  BY <1>1, <1>3, SaleSame
<1>. QED  BY <1>2, <1>4

LEMMA InitTaxAgree == TaxInit => TaxAgreeInv
<1>. SUFFICES ASSUME TaxInit PROVE TaxAgreeInv
  OBVIOUS
<1>1. taxfile.book = NoBook /\ tax = NoBook /\ taxhist = <<>> /\ taxkept = <<>>
  BY DEF TaxInit
<1>. QED  BY <1>1, InitTaxInv, NoBookSame DEF TaxAgreeInv

LEMMA NextTaxAgree == TaxAgreeInv /\ [TaxNext]_taxvars => TaxAgreeInv'
<1>. SUFFICES ASSUME TaxAgreeInv, [TaxNext]_taxvars PROVE TaxAgreeInv'
  OBVIOUS
<1>1. TaxInv /\ BookSame(tax, taxhist) /\ BookSame(taxfile.book, taxkept) /\ TaxInv'
  BY NextTaxInv DEF TaxAgreeInv
<1>2. ASSUME NEW f \in Fills, TaxBuy(f) \/ TaxSell(f) PROVE TaxAgreeInv'
  <2>1. BookSame(tax', taxhist') /\ UNCHANGED <<taxfile, taxkept>>
    BY <1>1, <1>2, TaxBuySame, TaxSellSame
  <2>. QED  BY <1>1, <2>1 DEF TaxAgreeInv
<1>3. CASE TaxSave
  <2>1. taxfile'.book = tax /\ taxkept' = taxhist /\ UNCHANGED <<tax, taxhist>>
    BY <1>3 DEF TaxSave, OnDisk
  <2>. QED  BY <1>1, <2>1 DEF TaxAgreeInv
<1>4. CASE TaxCrash
  <2>1. tax' = NoBook /\ taxhist' = <<>>
    BY <1>4 DEF TaxCrash
  <2>2. UNCHANGED <<taxfile, taxkept>> \/ (taxfile'.book = tax /\ taxkept' = taxhist)
    BY <1>4 DEF TaxCrash, OnDisk
  <2>3. BookSame(taxfile'.book, taxkept')
    BY <1>1, <2>2
  <2>. QED  BY <1>1, <2>1, <2>3, NoBookSame DEF TaxAgreeInv
<1>5. CASE TaxSpoil
  <2>1. taxfile'.book = NoBook /\ taxkept' = <<>> /\ UNCHANGED <<tax, taxhist>>
    BY <1>5 DEF TaxSpoil
  <2>. QED  BY <1>1, <2>1, NoBookSame DEF TaxAgreeInv
<1>6. CASE TaxLoad
  <2>1. tax' = taxfile.book /\ taxhist' = taxkept /\ UNCHANGED <<taxfile, taxkept>>
    BY <1>6 DEF TaxLoad
  <2>. QED  BY <1>1, <2>1 DEF TaxAgreeInv
<1>7. CASE UNCHANGED <<tax, taxhist, taxfile, taxkept>>
  BY <1>1, <1>7 DEF TaxAgreeInv
<1>8. TaxSaveFails \/ TaxLoadRaises \/ (\E f \in Fills \cup BadFills : TaxRefuse(f)) \/ UNCHANGED taxvars
        => UNCHANGED <<tax, taxhist, taxfile, taxkept>>
  BY DEF TaxSaveFails, TaxLoadRaises, TaxRefuse, taxvars
<1>. QED  BY <1>2, <1>3, <1>4, <1>5, <1>6, <1>7, <1>8 DEF TaxNext

LEMMA SameAgrees == TaxAgreeInv => TaxBooksAgree
<1>. SUFFICES ASSUME TaxAgreeInv PROVE TaxBooksAgree
  OBVIOUS
<1>1. /\ tax.lots \in Seq(GoodLots) /\ tax.trades \in Seq(GoodTrades)
      /\ Tells(tax, taxhist) /\ Tells(taxfile.book, taxkept)
      /\ UnitsOf(tax.lots) = Reference(taxhist).units /\ SoldOf(tax.trades) = Reference(taxhist).sold
  BY DEF TaxAgreeInv, BookSame, Tells
<1>2. TaxTypeOK
  <2>1. \A i \in DOMAIN tax.lots : tax.lots[i] \in GoodLots
    BY <1>1
  <2>2. \A i \in DOMAIN tax.trades : tax.trades[i] \in GoodTrades
    BY <1>1
  <2>. QED  BY <2>1, <2>2 DEF TaxTypeOK, TaxAgreeInv, TaxInv, GoodLots, GoodTrades
<1>3. TotalPnl = FoldLeft(LAMBDA s, u : s + u.pnl, 0, Reference(taxhist).sold)
  <2>1. TotalPnl = PnlOf(tax.trades)
    BY DEF TotalPnl, PnlOf, Folded, FoldLeft, MapThenFoldSet, Advance
  <2>2. \A x : FoldLeft(LAMBDA s, u : s + u.pnl, 0, x) = PnlOf(x)
    BY DEF PnlOf, Folded, FoldLeft, MapThenFoldSet, Advance
  <2>3. PnlOf(SoldOf(tax.trades)) = PnlOf(tax.trades)
    BY <1>1, PnlSame
  <2>4. FoldLeft(LAMBDA s, u : s + u.pnl, 0, Reference(taxhist).sold) = PnlOf(Reference(taxhist).sold)
    BY <2>2
  <2>. QED  BY <1>1, <2>1, <2>3, <2>4
<1>4. ASSUME NEW c \in Coins
      PROVE  CostBasis(c) = FoldLeft(LAMBDA s, u : IF u.coin = c THEN s + u.price ELSE s,
                                     0, Reference(taxhist).units)
  <2>1. GetInventory(c) = HeldIn(c, tax.lots)
    BY DEF GetInventory, HeldIn, Folded, FoldLeft, MapThenFoldSet, Advance
  <2>2. CostBasis(c) = CostOf(GetInventory(c))
    BY DEF CostBasis, CostOf, Folded, FoldLeft, MapThenFoldSet, Advance
  <2>3. CostOf(HeldIn(c, tax.lots)) = PricesIn(c, UnitsOf(tax.lots))
    BY <1>1, CostSame
  <2>4. FoldLeft(LAMBDA s, u : IF u.coin = c THEN s + u.price ELSE s, 0, Reference(taxhist).units)
          = PricesIn(c, Reference(taxhist).units)
    BY DEF PricesIn, Folded, FoldLeft, MapThenFoldSet, Advance
  <2>. QED  BY <1>1, <2>1, <2>2, <2>3, <2>4
<1>. QED  BY <1>1, <1>2, <1>3, <1>4 DEF TaxBooksAgree

(* For all coins, prices and quantities, through every failed save, crash    *)
(* and restart, the tax book and its file are what selling unit by unit,     *)
(* oldest first, makes of the fills behind them: the lots and their fees,    *)
(* the trades and their profits, the cost basis and the total of the report  *)
(* (tax.py:110, tax.py:196).                                                 *)
THEOREM TaxBooksAlwaysAgree == BooksSpec => []TaxBooksAgree
<1>1. BooksInit => TaxAgreeInv
  BY InitTaxAgree DEF BooksInit
<1>2. TaxAgreeInv /\ [BooksNext]_<<part, recordvars, papervars>> => TaxAgreeInv'
  BY BooksStep, NextTaxAgree
<1>3. TaxAgreeInv => TaxBooksAgree
  BY SameAgrees
<1>. QED  BY <1>1, <1>2, <1>3, PTL DEF BooksSpec
==============================================================================
