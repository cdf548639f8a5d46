------------------------- MODULE PolicyRunnerProofs -------------------------
(***************************************************************************)
(* What PolicyRunner guarantees for every market, wallet, configuration    *)
(* and number of crashes: balances are never negative, a breaker whose     *)
(* latch reached the disk stays latched and nothing trades under it, a     *)
(* durable drawdown anchor never moves, the checkpointed wallet is what    *)
(* the ledger says was filled, and no rolling window is ever overrun.      *)
(***************************************************************************)
EXTENDS PolicyRunner, FiniteSetTheorems, TLAPS

-----------------------------------------------------------------------------
(* Sums over finite sets                                                   *)

(* Of some subsets of a finite set one contains no other: what induction   *)
(* over finite sets comes down to here.                                    *)
LEMMA MinimalSubset ==
  ASSUME NEW S, IsFiniteSet(S), NEW Bad, Bad \subseteq SUBSET S, Bad # {}
  PROVE  \E T \in Bad : \A U \in SUBSET T : U # T => U \notin Bad
<1>1. IsWellFoundedOn(StrictSubsetOrdering(S), FiniteSubsetsOf(S))
  BY FS_StrictSubsetOrderingWellFounded
<1>2. Bad \subseteq FiniteSubsetsOf(S)
  BY FS_FiniteSubsetsOfFinite
<1>3. PICK T \in Bad : \A U \in Bad : ~(<<U, T>> \in StrictSubsetOrdering(S))
  BY <1>1, <1>2, WFMin
<1>4. ASSUME NEW U \in SUBSET T, U # T, U \in Bad PROVE FALSE
  BY <1>3, <1>4 DEF StrictSubsetOrdering
<1>. QED BY <1>3, <1>4

(* What MapThenSumSet unfolds to: a function on the subsets, which takes   *)
(* one element after the other.                                            *)
Pick(s) == CHOOSE x \in s : TRUE
Body(it, s, field) == IF s = {} THEN 0 ELSE Pick(s)[field] + it[s \ {Pick(s)}]
IsIter(it, S, field) == it = [s \in SUBSET S |-> Body(it, s, field)]
IterOf(S, field) == CHOOSE it : IsIter(it, S, field)

LEMMA TotalIsIter == ASSUME NEW S, NEW field PROVE Total(field, S) = IterOf(S, field)[S]
  BY DEF Total, MapThenSumSet, MapThenFoldSet, IterOf, IsIter, Body, Pick

LEMMA PickIn == ASSUME NEW s, s # {} PROVE Pick(s) \in s
  BY DEF Pick

(* There is one such function at most, ...                                 *)
LEMMA IterUnique ==
  ASSUME NEW S, IsFiniteSet(S), NEW field, NEW a, NEW b, IsIter(a, S, field), IsIter(b, S, field)
  PROVE  \A s \in SUBSET S : a[s] = b[s]
<1>. DEFINE Bad == {s \in SUBSET S : a[s] # b[s]}
<1>. SUFFICES ASSUME Bad # {} PROVE FALSE
  OBVIOUS
<1>1. PICK T \in Bad : \A U \in SUBSET T : U # T => U \notin Bad
  <2>1. Bad \subseteq SUBSET S
    OBVIOUS
  <2>. HIDE DEF Bad
  <2>. QED  BY <2>1, MinimalSubset
<1>2. T \in SUBSET S /\ a[T] # b[T]
  BY <1>1
<1>3. a[T] = Body(a, T, field) /\ b[T] = Body(b, T, field)
  BY <1>2 DEF IsIter
<1>4. T # {}
  BY <1>2, <1>3 DEF Body
<1>5. Pick(T) \in T
  BY <1>4, PickIn
<1>6. a[T \ {Pick(T)}] = b[T \ {Pick(T)}]
  BY <1>1, <1>2, <1>5
<1>. QED  BY <1>2, <1>3, <1>6 DEF Body

(* ... which restricts to smaller sets, ...                                *)
LEMMA IterRestricts ==
  ASSUME NEW S, NEW T \in SUBSET S, NEW field, NEW a, IsIter(a, S, field)
  PROVE  IsIter([s \in SUBSET T |-> a[s]], T, field)
<1>. DEFINE b == [s \in SUBSET T |-> a[s]]
<1>1. ASSUME NEW s \in SUBSET T PROVE a[s] = Body(b, s, field)
  <2>1. a[s] = Body(a, s, field)
    BY DEF IsIter
  <2>2. s # {} => s \ {Pick(s)} \in SUBSET T
    OBVIOUS
  <2>. QED  BY <2>1, <2>2 DEF Body
<1>. QED  BY <1>1 DEF IsIter

(* ... and there is one.                                                   *)
LEMMA IterExists ==
  ASSUME NEW S, IsFiniteSet(S), NEW field
  PROVE  IsIter(IterOf(S, field), S, field)
<1>. DEFINE Bad == {T \in SUBSET S : ~IsIter(IterOf(T, field), T, field)}
<1>. SUFFICES ASSUME Bad # {} PROVE FALSE
  OBVIOUS
<1>1. PICK T \in Bad : \A U \in SUBSET T : U # T => U \notin Bad
  <2>1. Bad \subseteq SUBSET S
    OBVIOUS
  <2>. HIDE DEF Bad
  <2>. QED  BY <2>1, MinimalSubset
<1>2. T \in SUBSET S /\ ~IsIter(IterOf(T, field), T, field)
  BY <1>1
<1>3. \A U \in SUBSET T : U # T => IsIter(IterOf(U, field), U, field)
  BY <1>1, <1>2
<1>. DEFINE Val(s) == IterOf(s, field)[s]
            it == [s \in SUBSET T |-> IF s = {} THEN 0 ELSE Pick(s)[field] + Val(s \ {Pick(s)})]
<1>4. ASSUME NEW s \in SUBSET T, s # T PROVE it[s] = Val(s)
  <2>1. IsIter(IterOf(s, field), s, field)
    BY <1>3, <1>4
  <2>2. Val(s) = Body(IterOf(s, field), s, field)
    BY <2>1 DEF IsIter
  <2>3. CASE s = {}
    BY <2>2, <2>3 DEF Body
  <2>4. CASE s # {}
    <3>. DEFINE u == s \ {Pick(s)}
    <3>1. u \in SUBSET s /\ u \in SUBSET T /\ u # T /\ IsFiniteSet(u)
      BY <1>2, <1>4, <2>4, FS_Subset
    <3>2. IsIter(IterOf(u, field), u, field)
      BY <1>3, <3>1
    <3>3. IsIter([r \in SUBSET u |-> IterOf(s, field)[r]], u, field)
      <4>. DEFINE f == IterOf(s, field)
      <4>1. IsIter(f, s, field) /\ u \in SUBSET s
        BY <2>1, <3>1
      <4>. HIDE DEF u, f
      <4>2. IsIter([r \in SUBSET u |-> f[r]], u, field)
        BY ONLY <4>1, IterRestricts
      <4>. QED  BY <4>2 DEF f
    <3>4. IterOf(s, field)[u] = IterOf(u, field)[u]
      BY <3>1, <3>2, <3>3, IterUnique
    <3>. QED  BY <2>2, <2>4, <3>4 DEF Body
  <2>. QED  BY <2>3, <2>4
<1>5. ASSUME NEW s \in SUBSET T PROVE it[s] = Body(it, s, field)
  <2>1. CASE s = {}
    BY <2>1 DEF Body
  <2>2. CASE s # {}
    <3>1. s \ {Pick(s)} \in SUBSET T /\ s \ {Pick(s)} # T
      BY <2>2, PickIn
    <3>2. it[s \ {Pick(s)}] = Val(s \ {Pick(s)})
      BY <1>4, <3>1
    <3>. QED  BY <2>2, <3>2 DEF Body
  <2>. QED  BY <2>1, <2>2
<1>6. IsIter(it, T, field)
  <2>1. it = [s \in SUBSET T |-> it[s]]
    OBVIOUS
  <2>. HIDE DEF it
  <2>. QED  BY <1>5, <2>1 DEF IsIter
<1>7. IsIter(IterOf(T, field), T, field)
  BY <1>6 DEF IterOf
<1>. QED  BY <1>2, <1>7

LEMMA TotalEmpty == ASSUME NEW field PROVE Total(field, {}) = 0
<1>1. IsIter(IterOf({}, field), {}, field)
  BY IterExists, FS_EmptySet
<1>2. IterOf({}, field)[{}] = Body(IterOf({}, field), {}, field)
  BY <1>1 DEF IsIter
<1>. QED  BY <1>2, TotalIsIter DEF Body

LEMMA TotalStep ==
  ASSUME NEW field, NEW S, IsFiniteSet(S), S # {}
  PROVE  Total(field, S) = Pick(S)[field] + Total(field, S \ {Pick(S)})
<1>. DEFINE u == S \ {Pick(S)}
<1>1. IsIter(IterOf(S, field), S, field) /\ IsIter(IterOf(u, field), u, field) /\ IsFiniteSet(u)
  BY IterExists, FS_Subset
<1>2. IsIter([r \in SUBSET u |-> IterOf(S, field)[r]], u, field)
  BY <1>1, IterRestricts
<1>3. IterOf(S, field)[u] = IterOf(u, field)[u]
  BY <1>1, <1>2, IterUnique
<1>4. IterOf(S, field)[S] = Body(IterOf(S, field), S, field)
  BY <1>1 DEF IsIter
<1>. QED  BY <1>3, <1>4, TotalIsIter DEF Body

LEMMA TotalInt ==
  ASSUME NEW field, NEW S, IsFiniteSet(S), \A x \in S : x[field] \in Int
  PROVE  Total(field, S) \in Int
<1>. DEFINE Bad == {T \in SUBSET S : Total(field, T) \notin Int}
<1>. SUFFICES ASSUME Bad # {} PROVE FALSE
  OBVIOUS
<1>1. PICK T \in Bad : \A U \in SUBSET T : U # T => U \notin Bad
  <2>1. Bad \subseteq SUBSET S
    OBVIOUS
  <2>. HIDE DEF Bad
  <2>. QED  BY <2>1, MinimalSubset
<1>2. T # {} /\ IsFiniteSet(T)
  <2>1. T \in SUBSET S /\ Total(field, T) \notin Int
    BY <1>1
  <2>2. Total(field, {}) \in Int
    BY TotalEmpty
  <2>. QED  BY <2>1, <2>2, FS_Subset
<1>3. Pick(T) \in T
  BY <1>2, PickIn
<1>4. Total(field, T \ {Pick(T)}) \in Int
  BY <1>1, <1>3
<1>5. Pick(T)[field] \in Int
  BY <1>1, <1>3
<1>6. Total(field, T) \in Int
  BY <1>2, <1>4, <1>5, TotalStep
<1>. QED  BY <1>1, <1>6

(* Any element may be the first one taken.                                 *)
LEMMA TotalRemove ==
  ASSUME NEW field, NEW S, IsFiniteSet(S), \A x \in S : x[field] \in Int, NEW x \in S
  PROVE  Total(field, S) = x[field] + Total(field, S \ {x})
<1>. DEFINE Bad == {T \in SUBSET S : \E y \in T : Total(field, T) # y[field] + Total(field, T \ {y})}
<1>. SUFFICES ASSUME Bad # {} PROVE FALSE
  OBVIOUS
<1>1. PICK T \in Bad : \A U \in SUBSET T : U # T => U \notin Bad
  <2>1. Bad \subseteq SUBSET S
    OBVIOUS
  <2>. HIDE DEF Bad
  <2>. QED  BY <2>1, MinimalSubset
<1>2. PICK y \in T : Total(field, T) # y[field] + Total(field, T \ {y})
  BY <1>1
<1>. DEFINE p == Pick(T)
<1>3. IsFiniteSet(T) /\ p \in T /\ IsFiniteSet(T \ {p}) /\ IsFiniteSet(T \ {y})
  BY <1>1, <1>2, PickIn, FS_Subset
<1>4. Total(field, T) = p[field] + Total(field, T \ {p})
  BY <1>2, <1>3, TotalStep
<1>5. y # p
  BY <1>2, <1>4
<1>6. Total(field, T \ {p}) = y[field] + Total(field, (T \ {p}) \ {y})
  BY <1>1, <1>3, <1>5
<1>7. Total(field, T \ {y}) = p[field] + Total(field, (T \ {y}) \ {p})
  BY <1>1, <1>2, <1>3, <1>5
<1>8. (T \ {p}) \ {y} = (T \ {y}) \ {p}
  OBVIOUS
<1>9. Total(field, (T \ {p}) \ {y}) \in Int /\ y[field] \in Int /\ p[field] \in Int
  <2>1. IsFiniteSet((T \ {p}) \ {y})
    BY <1>3, FS_Subset
  <2>. QED  BY <1>1, <1>2, <1>3, <2>1, TotalInt
<1>. DEFINE c == Total(field, (T \ {p}) \ {y})
            a == y[field]
            b == p[field]
<1>10. a + (b + c) = b + (a + c)
  <2>. HIDE DEF a, b, c
  <2>. QED  BY <1>9 DEF a, b, c
<1>. QED  BY <1>2, <1>4, <1>6, <1>7, <1>8, <1>10

LEMMA TotalAdd ==
  ASSUME NEW field, NEW S, IsFiniteSet(S), \A y \in S : y[field] \in Int,
         NEW x, x \notin S, x[field] \in Int
  PROVE  Total(field, S \cup {x}) = Total(field, S) + x[field]
<1>. DEFINE T == S \cup {x}
<1>1. IsFiniteSet(T) /\ x \in T /\ T \ {x} = S /\ \A y \in T : y[field] \in Int
  BY FS_AddElement
<1>2. Total(field, T) = x[field] + Total(field, S)
  BY <1>1, TotalRemove
<1>3. Total(field, S) \in Int
  BY TotalInt
<1>. QED  BY <1>2, <1>3

LEMMA TotalNat ==
  ASSUME NEW field, NEW S, IsFiniteSet(S), \A x \in S : x[field] \in Nat
  PROVE  Total(field, S) \in Nat
<1>. DEFINE Bad == {T \in SUBSET S : Total(field, T) \notin Nat}
<1>. SUFFICES ASSUME Bad # {} PROVE FALSE
  OBVIOUS
<1>1. PICK T \in Bad : \A U \in SUBSET T : U # T => U \notin Bad
  <2>1. Bad \subseteq SUBSET S
    OBVIOUS
  <2>. HIDE DEF Bad
  <2>. QED  BY <2>1, MinimalSubset
<1>2. T # {} /\ IsFiniteSet(T)
  <2>1. T \in SUBSET S /\ Total(field, T) \notin Nat
    BY <1>1
  <2>2. Total(field, {}) \in Nat
    BY TotalEmpty
  <2>. QED  BY <2>1, <2>2, FS_Subset
<1>3. Pick(T) \in T
  BY <1>2, PickIn
<1>4. Total(field, T \ {Pick(T)}) \in Nat /\ Pick(T)[field] \in Nat
  BY <1>1, <1>3
<1>5. Total(field, T) \in Nat
  BY <1>2, <1>4, TotalStep
<1>. QED  BY <1>1, <1>5

(* What is mapped into another set, one element for element and with its   *)
(* value, has no larger total.                                             *)
LEMMA TotalInjection ==
  ASSUME NEW field, NEW S, NEW R, IsFiniteSet(S), IsFiniteSet(R),
         \A x \in S : x[field] \in Nat, \A y \in R : y[field] \in Nat,
         NEW h, \A x \in S : h[x] \in R /\ h[x][field] = x[field],
         \A x, y \in S : h[x] = h[y] => x = y
  PROVE  Total(field, S) <= Total(field, R)
<1>. DEFINE Into(T, V) == \A x \in T : h[x] \in V
            Bad == {T \in SUBSET S : \E V \in SUBSET R :
                                       Into(T, V) /\ ~(Total(field, T) <= Total(field, V))}
<1>. SUFFICES ASSUME Bad # {} PROVE FALSE
  OBVIOUS
<1>1. PICK T \in Bad : \A U \in SUBSET T : U # T => U \notin Bad
  <2>1. Bad \subseteq SUBSET S
    OBVIOUS
  <2>. HIDE DEF Bad
  <2>. QED  BY <2>1, MinimalSubset
<1>2. PICK V \in SUBSET R : Into(T, V) /\ ~(Total(field, T) <= Total(field, V))
  BY <1>1
<1>3. T \in SUBSET S /\ IsFiniteSet(T) /\ IsFiniteSet(V)
  BY <1>1, FS_Subset
<1>4. Total(field, V) \in Nat
  BY <1>3, TotalNat
<1>5. PICK x \in T : TRUE
  BY <1>2, <1>4, TotalEmpty
<1>6. Into(T \ {x}, V \ {h[x]})
  BY <1>2, <1>3
<1>7. Total(field, T \ {x}) <= Total(field, V \ {h[x]})
  <2>1. T \ {x} \in SUBSET T /\ T \ {x} # T /\ T \ {x} \in SUBSET S /\ V \ {h[x]} \in SUBSET R
    BY <1>3
  <2>2. T \ {x} \notin Bad
    BY <1>1, <2>1
  <2>. HIDE DEF Into
  <2>. QED  BY <1>6, <2>1, <2>2
<1>8. Total(field, T) = x[field] + Total(field, T \ {x})
  BY <1>3, TotalRemove
<1>9. Total(field, V) = x[field] + Total(field, V \ {h[x]})
  <2>1. h[x] \in V /\ h[x][field] = x[field] /\ \A y \in V : y[field] \in Int
    BY <1>2, <1>3
  <2>. QED  BY <1>3, <2>1, TotalRemove
<1>10. Total(field, T \ {x}) \in Nat /\ Total(field, V \ {h[x]}) \in Nat /\ x[field] \in Nat
  <2>1. IsFiniteSet(T \ {x}) /\ IsFiniteSet(V \ {h[x]})
    BY <1>3, FS_Subset
  <2>. QED  BY <1>3, <2>1, TotalNat
<1>11. Total(field, T) <= Total(field, V)
  BY <1>7, <1>8, <1>9, <1>10
<1>. QED  BY <1>2, <1>11

-----------------------------------------------------------------------------
USE MarketAssumption, WalletAssumption, ConfigAssumption, BoundsAssumption

(* An intent is pending only between the evaluation that allowed it, by an *)
(* untripped engine, and the next tick's settlement.                       *)
PendingOK ==
  /\ pc \notin {"tick", "settle"} => pending = NoIntent
  /\ pc = "settle" => pending # NoIntent
  /\ pending # NoIntent \/ pc = "append" => ~policy.tripped

(* A running process knows what the checkpoint knows of the breaker.       *)
LatchOK ==
  pc # "down" =>
    /\ disk.policy.tripped => policy.tripped
    /\ disk.policy.anchor # NoAnchor => policy.anchor = disk.policy.anchor

IInv == RunnerTypeOK /\ PendingOK /\ LatchOK

-----------------------------------------------------------------------------
(* The operators the model is built from                                   *)

LEMMA NatTimes == ASSUME NEW a \in Nat, NEW b \in Nat PROVE a * b \in Nat
  OBVIOUS

(* A settled intent makes a well-formed fill.                              *)
LEMMA FillTypes ==
  ASSUME RunnerTypeOK, NEW i \in Intents
  PROVE  FillOf(i) \in Fills
<1> DEFINE p == IF i.side = "BUY" THEN price + Slip ELSE price - Slip
           s == IF i.side = "BUY" THEN 1 ELSE -1
<1>1. price \in Nat /\ price > Slip /\ Slip \in Nat /\ Fee \in Nat /\ ts \in Nat
  BY DEF RunnerTypeOK
<1>2. i.base \in Nat
  BY DEF Intents
<1>3. p \in Nat /\ s \in Int
  BY <1>1
<1>4. i.base * p \in Nat /\ i.base * Fee \in Nat
  BY <1>1, <1>2, <1>3, NatTimes
<1>5. -s * i.base * p - i.base * Fee \in Int /\ s * i.base \in Int
  BY <1>2, <1>3, <1>4
<1> HIDE DEF p, s
<1>6. [ts |-> ts, n |-> i.base * p, dq |-> -s * i.base * p - i.base * Fee,
       db |-> s * i.base] \in Fills
  BY <1>1, <1>4, <1>5 DEF Fills
<1> QED
  BY <1>6 DEF FillOf, p, s

(* The equity of a wallet without debt is a natural number.                *)
LEMMA EquityType ==
  ASSUME RunnerTypeOK
  PROVE  Equity \in Nat /\ Anchored \in Nat
<1>1. wallet.quote \in Nat /\ wallet.base \in Nat /\ price \in Nat
  BY DEF RunnerTypeOK, Wallets
<1>2. wallet.base * price \in Nat
  BY <1>1, NatTimes
<1>3. Equity \in Nat
  BY <1>1, <1>2 DEF Equity
<1>4. policy.anchor \in Nat \cup {NoAnchor}
  BY DEF RunnerTypeOK, Policies
<1> QED
  BY <1>3, <1>4 DEF Anchored

(* What evaluate() may leave of the engine, whatever its verdict.          *)
Ruled(p) ==
  /\ p \in Policies
  /\ policy.tripped => p.tripped
  /\ policy.anchor # NoAnchor => p.anchor = policy.anchor

LEMMA RuledEngines ==
  ASSUME RunnerTypeOK
  PROVE  /\ Ruled([policy EXCEPT !.anchor = Anchored])
         /\ Ruled([policy EXCEPT !.anchor = Anchored, !.tripped = TRUE])
         /\ Ruled([policy EXCEPT !.anchor = Anchored, !.recent = Recent])
         /\ Ruled(Pruned)
         /\ Pruned.tripped = policy.tripped
<1>1. policy \in Policies /\ Anchored \in Nat
  BY EquityType DEF RunnerTypeOK
<1>2. Recent \in SUBSET Entries /\ Spend \in SUBSET Entries
  BY <1>1 DEF Recent, Spend, Prune, Policies
<1>3. policy.anchor # NoAnchor => Anchored = policy.anchor
  BY DEF Anchored
<1> QED
  BY <1>1, <1>2, <1>3 DEF Ruled, Pruned, Policies

-----------------------------------------------------------------------------
(* The invariant                                                           *)

LEMMA InitInv == Init => IInv
<1> SUFFICES ASSUME Init PROVE IInv
  OBVIOUS
<1>1. Fresh \in Policies
  BY DEF Fresh, Policies, NoAnchor
<1>2. Opening \in Wallets
  BY DEF Opening, Wallets
<1>3. NoFill \in Fills
  BY DEF NoFill, Fills
<1>4. RunnerTypeOK
  BY <1>1, <1>2, <1>3 DEF Init, RunnerTypeOK, Labels
<1> QED
  BY <1>4 DEF Init, IInv, PendingOK, LatchOK

(* An evaluation that denies.                                              *)
LEMMA DenyInv ==
  ASSUME IInv, NEW p, Ruled(p), Deny(p)
  PROVE  IInv'
<1>1. RunnerTypeOK'
  BY DEF Deny, Evaluated, Ruled, IInv, RunnerTypeOK, market, files, Labels, Policies
<1>2. PendingOK'
  BY DEF Deny, Evaluated, IInv, PendingOK
<1>3. LatchOK'
  BY DEF Deny, Evaluated, Ruled, IInv, LatchOK, files
<1> QED
  BY <1>1, <1>2, <1>3 DEF IInv

LEMMA DecideInv == ASSUME IInv, Decide PROVE IInv'
<1> USE DEF IInv
<1>1. CASE Hold
  BY <1>1 DEF Hold, RunnerTypeOK, PendingOK, LatchOK, market, files, history, Labels
<1>2. CASE DenyKilled \/ DenyBreaker
  BY <1>2, RuledEngines, DenyInv DEF DenyKilled, DenyBreaker
<1>3. ASSUME NEW i \in Intents, DenySize(i) \/ DenyRate(i) \/ DenyFunds(i) PROVE IInv'
  BY <1>3, RuledEngines, DenyInv DEF DenySize, DenyRate, DenyFunds
<1>4. ASSUME NEW i \in Intents, Allow(i) PROVE IInv'
  <2>1. Ruled(Pruned) /\ Pruned.tripped = policy.tripped /\ ~policy.tripped
    BY <1>4, RuledEngines DEF Allow, Cleared, Breached
  <2>2. RunnerTypeOK'
    BY <1>4, <2>1
    DEF Allow, Evaluated, Ruled, RunnerTypeOK, market, files, Labels, Policies
  <2>3. PendingOK' /\ LatchOK'
    BY <1>4, <2>1 DEF Allow, Evaluated, Ruled, PendingOK, LatchOK, files
  <2> QED
    BY <2>2, <2>3
<1> QED
  BY <1>1, <1>2, <1>3, <1>4 DEF Decide

(* A settlement: the guard of apply_fill keeps both balances natural.      *)
LEMMA SettleInv == ASSUME IInv, Settle PROVE IInv'
<1> DEFINE f == FillOf(pending)
<1>1. pending \in Intents
  BY DEF IInv, RunnerTypeOK, PendingOK, Settle
<1>2. f \in Fills
  BY <1>1, FillTypes DEF IInv
<1>3. /\ pc = "settle" /\ pc' = "append" /\ pending' = NoIntent /\ fill' = f
      /\ wallet' = Applied(f) /\ policy' = Registered(f) /\ Affordable(f)
      /\ UNCHANGED <<kill, market, files, history>>
  BY DEF Settle
<1> HIDE DEF f
<1>4. wallet' \in Wallets
  BY <1>2, <1>3 DEF IInv, RunnerTypeOK, Wallets, Fills, Applied, Affordable
<1>5. [ts |-> f.ts, n |-> f.n] \in Entries
  BY <1>2 DEF Fills, Entries
<1>6. policy' \in Policies /\ policy'.tripped = policy.tripped
      /\ policy'.anchor = policy.anchor
  BY <1>3, <1>5 DEF IInv, RunnerTypeOK, Policies, Registered
<1>7. RunnerTypeOK'
  BY <1>2, <1>3, <1>4, <1>6 DEF IInv, RunnerTypeOK, market, files, history, Labels
<1>8. PendingOK' /\ LatchOK'
  BY <1>1, <1>3, <1>6
  DEF IInv, PendingOK, LatchOK, files
<1> QED
  BY <1>7, <1>8 DEF IInv

LEMMA NextInv == ASSUME IInv, [Next]_vars PROVE IInv'
<1>1. CASE Tick
  BY <1>1 DEF Tick, IInv, RunnerTypeOK, PendingOK, LatchOK, files, history, Labels
<1>2. CASE Settle
  BY <1>2, SettleInv
<1>3. CASE AbortFill
  BY <1>3
  DEF AbortFill, IInv, RunnerTypeOK, PendingOK, LatchOK, market, files, history, Labels
<1>4. CASE Append
  <2>1. [ts |-> fill.ts, n |-> fill.n, dq |-> fill.dq, db |-> fill.db,
         whole |-> ~torn] \in Lines
    BY DEF IInv, RunnerTypeOK, Fills, Lines
  <2>2. RunnerTypeOK'
    BY <1>4, <2>1 DEF Append, IInv, RunnerTypeOK, market, history, Labels
  <2> QED
    BY <1>4, <2>2 DEF Append, IInv, PendingOK, LatchOK
<1>5. CASE Save
  <2>1. RunnerTypeOK'
    BY <1>5 DEF Save, IInv, RunnerTypeOK, market, history, Labels, NoFill, Fills
  <2> QED
    BY <1>5, <2>1 DEF Save, IInv, PendingOK, LatchOK
<1>6. CASE Decide
  BY <1>6, DecideInv
<1>7. CASE Crash
  <2>1. Fresh \in Policies /\ Opening \in Wallets /\ NoFill \in Fills
    BY DEF Fresh, Policies, NoAnchor, Opening, Wallets, NoFill, Fills
  <2>2. lost' \subseteq Nat
    BY <1>7 DEF Crash, IInv, RunnerTypeOK, Fills
  <2>3. torn' \in BOOLEAN
    BY <1>7 DEF Crash, IInv, RunnerTypeOK
  <2>4. RunnerTypeOK'
    BY <1>7, <2>1, <2>2, <2>3 DEF Crash, IInv, RunnerTypeOK, market, Labels
  <2>5. PendingOK' /\ LatchOK'
    BY <1>7 DEF Crash, PendingOK, LatchOK
  <2> QED
    BY <2>4, <2>5 DEF IInv
<1>8. CASE Restart
  <2>1. RunnerTypeOK'
    BY <1>8 DEF Restart, Restored, IInv, RunnerTypeOK, market, files, history, Labels
  <2>2. PendingOK' /\ LatchOK'
    BY <1>8 DEF Restart, Restored, IInv, PendingOK, LatchOK, files
  <2> QED
    BY <2>1, <2>2 DEF IInv
<1>9. CASE UNCHANGED vars
  BY <1>9
  DEF vars, process, market, files, history, IInv, RunnerTypeOK, PendingOK, LatchOK
<1> QED
  BY <1>1, <1>2, <1>3, <1>4, <1>5, <1>6, <1>7, <1>8, <1>9 DEF Next

LEMMA Invariant == Spec => []IInv
  BY InitInv, NextInv, PTL DEF Spec

-----------------------------------------------------------------------------
(* The wallet is never overdrawn and every variable keeps its type, for    *)
(* any intents a strategy may propose (wallet.py, apply_fill).             *)
THEOREM NeverOverdrawn == Spec => []RunnerTypeOK
<1>1. IInv => RunnerTypeOK
  BY DEF IInv
<1> QED
  BY <1>1, Invariant, PTL

(* A latched breaker survives every crash once it is on disk, and no fill  *)
(* is ever made under a tripped engine (policy.py, rule 2 and restore).    *)
THEOREM BreakerStaysLatched == Spec => TripIsForever
<1> DEFINE Kept == /\ disk.policy.tripped => disk'.policy.tripped
                   /\ policy.tripped \/ disk.policy.tripped => ledger' = ledger
<1>1. ASSUME IInv, [Next]_vars PROVE [Kept]_vars
  <2>1. CASE Append
    BY <1>1, <2>1 DEF Append, IInv, PendingOK, LatchOK
  <2>2. CASE Save
    BY <1>1, <2>2 DEF Save, IInv, LatchOK
  <2>3. CASE ~Append /\ ~Save
    <3>1. UNCHANGED <<disk, ledger>>
      BY <1>1, <2>3
      DEF Next, vars, files, Tick, Settle, AbortFill, Decide, Hold, DenyKilled,
          DenyBreaker, DenySize, DenyRate, DenyFunds, Deny, Allow, Evaluated, Crash,
          Restart
    <3> QED
      BY <3>1
  <2> QED
    BY <2>1, <2>2, <2>3
<1> QED
  BY <1>1, Invariant, PTL DEF Spec, TripIsForever

(* The drawdown anchor of the checkpoint is never replaced by another one  *)
(* (policy.py, snapshot).                                                  *)
THEOREM AnchorNeverMoves == Spec => AnchorIsDurable
<1> DEFINE Kept == disk.policy.anchor # NoAnchor
                     => disk'.policy.anchor = disk.policy.anchor
<1>1. ASSUME IInv, [Next]_vars PROVE [Kept]_vars
  <2>1. CASE Save
    BY <1>1, <2>1 DEF Save, IInv, LatchOK
  <2>2. CASE ~Save
    <3>1. UNCHANGED disk
      BY <1>1, <2>2
      DEF Next, vars, files, Tick, Settle, AbortFill, Append, Decide, Hold, DenyKilled,
          DenyBreaker, DenySize, DenyRate, DenyFunds, Deny, Allow, Evaluated, Crash,
          Restart
    <3> QED
      BY <3>1
  <2> QED
    BY <2>1, <2>2
<1> QED
  BY <1>1, Invariant, PTL DEF Spec, AnchorIsDurable

-----------------------------------------------------------------------------
(* What the ledger and the checkpoint hold                                 *)

(* A tick adds at most one line, and a settlement comes before it.         *)
LedgerOK ==
  /\ IsFiniteSet(ledger)
  /\ \A f \in ledger : f.ts \in 1 .. ts /\ (pc \in {"settle", "append"} => f.ts < ts)
  /\ \A f, g \in ledger : f.ts = g.ts => f = g
  /\ pc \in {"settle", "append"} => ts >= 1

(* The fill being journaled is of this tick; a fill is lost only when its  *)
(* line was written and its checkpoint was not.                            *)
FillOK ==
  /\ pc \notin {"append", "save"} => fill = NoFill
  /\ pc = "append" \/ fill # NoFill => fill.ts = ts /\ ts >= 1 /\ disk.ts < ts /\ ts \notin lost
  /\ pc \in {"settle", "append"} => disk.ts < ts /\ ts \notin lost
  /\ \A l \in lost : l <= ts
  /\ disk.ts <= ts

(* Every line is checkpointed or lost, except the one being journaled.     *)
SavedOK == \A f \in Known : f.ts <= disk.ts \/ (pc = "save" /\ fill # NoFill /\ f.ts = ts)

(* A wallet is the opening one and what was filled.                        *)
MoneyOK ==
  /\ CheckpointExplained
  /\ pc \notin {"down", "append"} =>
       wallet = [quote |-> OpenQuote + Total("dq", Known), base |-> OpenBase + Total("db", Known)]
  /\ pc = "append" =>
       wallet = [quote |-> OpenQuote + Total("dq", Known) + fill.dq,
                 base  |-> OpenBase + Total("db", Known) + fill.db]

JournalInv == IInv /\ LedgerOK /\ FillOK /\ SavedOK /\ MoneyOK

LEMMA DecideFrame ==
  ASSUME Decide
  PROVE  /\ pc = "decide" /\ pc' \in {"tick", "save"}
         /\ UNCHANGED <<wallet, fill, ts, price, disk, ledger, lost>>
  BY DEF Decide, Hold, DenyKilled, DenyBreaker, DenySize, DenyRate, DenyFunds, Deny, Allow,
         Evaluated, market, files, history

LEMMA KnownFinite ==
  ASSUME JournalInv
  PROVE  /\ IsFiniteSet(Known) /\ IsFiniteSet(Saved)
         /\ Known \subseteq Lines /\ Saved \subseteq Lines
  BY FS_Subset DEF JournalInv, LedgerOK, Known, Saved, IInv, RunnerTypeOK

LEMMA TickJournal == ASSUME JournalInv, Tick PROVE JournalInv'
<1>1. IInv'
  BY NextInv DEF JournalInv, Next
<1>2. /\ pc = "tick" /\ pc' \in {"decide", "settle"} /\ ts' = ts + 1 /\ ts \in Nat
      /\ UNCHANGED <<ledger, lost, disk, wallet, fill>>
  BY DEF Tick, JournalInv, IInv, RunnerTypeOK, files, history
<1>3. LedgerOK'
  BY <1>2 DEF JournalInv, LedgerOK
<1>4. FillOK'
  BY <1>2 DEF JournalInv, FillOK, IInv, RunnerTypeOK, NoFill
<1>5. SavedOK' /\ Known' = Known /\ Saved' = Saved
  BY <1>2 DEF JournalInv, SavedOK, Known, Saved
<1>6. MoneyOK'
  BY <1>2, <1>5 DEF JournalInv, MoneyOK, CheckpointExplained
<1>. QED  BY <1>1, <1>3, <1>4, <1>5, <1>6 DEF JournalInv

LEMMA SettleJournal == ASSUME JournalInv, Settle PROVE JournalInv'
<1>1. IInv'
  BY NextInv DEF JournalInv, Next
<1>2. /\ pc = "settle" /\ pc' = "append" /\ fill' = FillOf(pending) /\ wallet' = Applied(fill')
      /\ UNCHANGED <<ledger, lost, disk, ts>>
  BY DEF Settle, files, history, market
<1>3. fill'.ts = ts
  BY <1>2 DEF FillOf
<1>4. LedgerOK'
  BY <1>2 DEF JournalInv, LedgerOK
<1>5. FillOK'
  BY <1>2, <1>3 DEF JournalInv, FillOK, LedgerOK
<1>6. SavedOK' /\ Known' = Known /\ Saved' = Saved
  BY <1>2 DEF JournalInv, SavedOK, Known, Saved
<1>7. MoneyOK'
  BY <1>2, <1>6 DEF JournalInv, MoneyOK, CheckpointExplained, Applied
<1>. QED  BY <1>1, <1>4, <1>5, <1>6, <1>7 DEF JournalInv

LEMMA AppendJournal == ASSUME JournalInv, Append PROVE JournalInv'
<1>. DEFINE line == [ts |-> fill.ts, n |-> fill.n, dq |-> fill.dq, db |-> fill.db,
                     whole |-> ~torn]
<1>1. IInv'
  BY NextInv DEF JournalInv, Next
<1>2. /\ pc = "append" /\ pc' = "save" /\ ledger' = ledger \cup {line}
      /\ UNCHANGED <<lost, disk, ts, fill, wallet>>
  BY DEF Append, history, market
<1>3. fill \in Fills /\ fill.ts = ts /\ ts >= 1 /\ disk.ts < ts /\ ts \notin lost /\ ts \in Nat
  BY <1>2 DEF JournalInv, FillOK, IInv, RunnerTypeOK
<1>4. line.ts = ts /\ line["dq"] = fill.dq /\ line["db"] = fill.db /\ fill.dq \in Int /\ fill.db \in Int
  BY <1>3 DEF Fills
<1>. HIDE DEF line
<1>5. line \notin Known /\ Known' = Known \cup {line} /\ Saved' = Saved
  <2>1. Known' = Known \cup {line}
    BY <1>2, <1>3, <1>4 DEF Known
  <2>2. line \notin ledger
    BY <1>2, <1>4 DEF JournalInv, LedgerOK
  <2>3. ~(line.ts <= disk'.ts)
    BY <1>2, <1>3, <1>4 DEF JournalInv, IInv, RunnerTypeOK
  <2>. QED  BY <1>2, <2>1, <2>2, <2>3 DEF Known, Saved
<1>6. LedgerOK'
  <2>1. IsFiniteSet(ledger')
    BY <1>2, FS_AddElement DEF JournalInv, LedgerOK
  <2>2. \A f \in ledger' : f.ts \in 1 .. ts
    BY <1>2, <1>3, <1>4 DEF JournalInv, LedgerOK
  <2>3. \A f, g \in ledger' : f.ts = g.ts => f = g
    <3>1. \A f \in ledger : f.ts # line.ts
      BY <1>2, <1>4 DEF JournalInv, LedgerOK
    <3>. QED  BY <1>2, <3>1 DEF JournalInv, LedgerOK
  <2>. QED  BY <1>2, <2>1, <2>2, <2>3 DEF LedgerOK
<1>7. fill # NoFill
  BY <1>3 DEF NoFill
<1>8. FillOK'
  BY <1>2, <1>3 DEF JournalInv, FillOK
<1>9. SavedOK'
  BY <1>2, <1>3, <1>4, <1>5, <1>7 DEF JournalInv, SavedOK
<1>10. MoneyOK'
  <2>1. IsFiniteSet(Known) /\ \A f \in Known : f["dq"] \in Int /\ f["db"] \in Int
    BY KnownFinite DEF Lines
  <2>2. Total("dq", Known') = Total("dq", Known) + fill.dq
    BY <1>4, <1>5, <2>1, TotalAdd
  <2>3. Total("db", Known') = Total("db", Known) + fill.db
    BY <1>4, <1>5, <2>1, TotalAdd
  <2>4. Total("dq", Known) \in Int /\ Total("db", Known) \in Int
    BY <2>1, TotalInt
  <2>5. CheckpointExplained'
    BY <1>2, <1>5 DEF JournalInv, MoneyOK, CheckpointExplained
  <2>6. wallet' = [quote |-> OpenQuote + Total("dq", Known'), base |-> OpenBase + Total("db", Known')]
    BY <1>2, <1>4, <2>2, <2>3, <2>4 DEF JournalInv, MoneyOK
  <2>. QED  BY <1>2, <2>5, <2>6 DEF MoneyOK
<1>. QED  BY <1>1, <1>6, <1>8, <1>9, <1>10 DEF JournalInv

LEMMA SaveJournal == ASSUME JournalInv, Save PROVE JournalInv'
<1>1. IInv'
  BY NextInv DEF JournalInv, Next
<1>2. /\ pc = "save" /\ pc' \in {"tick", "decide"} /\ fill' = NoFill
      /\ disk'.ts = ts /\ disk'.wallet = wallet
      /\ UNCHANGED <<lost, ledger, ts, wallet>>
  BY DEF Save, history, market
<1>3. LedgerOK'
  BY <1>2 DEF JournalInv, LedgerOK
<1>4. FillOK'
  BY <1>2 DEF JournalInv, FillOK, IInv, RunnerTypeOK
<1>5. Known' = Known /\ Saved' = Known /\ SavedOK'
  <2>1. \A f \in ledger : f.ts <= ts
    BY DEF JournalInv, LedgerOK
  <2>. QED  BY <1>2, <2>1 DEF Known, Saved, SavedOK
<1>6. MoneyOK'
  BY <1>2, <1>5 DEF JournalInv, MoneyOK, CheckpointExplained
<1>. QED  BY <1>1, <1>3, <1>4, <1>5, <1>6 DEF JournalInv

LEMMA DecideJournal == ASSUME JournalInv, Decide PROVE JournalInv'
<1>1. IInv'
  BY NextInv DEF JournalInv, Next
<1>2. /\ pc = "decide" /\ pc' \in {"tick", "save"}
      /\ UNCHANGED <<wallet, fill, ts, price, disk, ledger, lost>>
  BY DecideFrame
<1>3. fill = NoFill
  BY <1>2 DEF JournalInv, FillOK
<1>4. LedgerOK' /\ FillOK'
  BY <1>2, <1>3 DEF JournalInv, LedgerOK, FillOK
<1>5. SavedOK' /\ Known' = Known /\ Saved' = Saved
  BY <1>2 DEF JournalInv, SavedOK, Known, Saved
<1>6. MoneyOK'
  BY <1>2, <1>5 DEF JournalInv, MoneyOK, CheckpointExplained
<1>. QED  BY <1>1, <1>4, <1>5, <1>6 DEF JournalInv

LEMMA CrashJournal == ASSUME JournalInv, Crash PROVE JournalInv'
<1>1. IInv'
  BY NextInv DEF JournalInv, Next
<1>2. /\ pc # "down" /\ pc' = "down" /\ fill' = NoFill /\ UNCHANGED <<ledger, ts, disk>>
      /\ lost' = IF pc = "save" /\ fill # NoFill THEN lost \cup {fill.ts} ELSE lost
  BY DEF Crash, market
<1>3. LedgerOK'
  BY <1>2 DEF JournalInv, LedgerOK
<1>4. FillOK'
  BY <1>2 DEF JournalInv, FillOK, IInv, RunnerTypeOK
<1>5. Known' \subseteq Known /\ Saved' = Saved /\ SavedOK'
  <2>1. CASE pc = "save" /\ fill # NoFill
    <3>1. fill.ts = ts /\ disk.ts < ts /\ disk.ts \in Nat /\ ts \in Nat
      BY <2>1 DEF JournalInv, FillOK, IInv, RunnerTypeOK
    <3>. QED  BY <1>2, <2>1, <3>1 DEF JournalInv, SavedOK, Known, Saved
  <2>2. CASE ~(pc = "save" /\ fill # NoFill)
    BY <1>2, <2>2 DEF JournalInv, SavedOK, Known, Saved
  <2>. QED  BY <2>1, <2>2
<1>6. MoneyOK'
  BY <1>2, <1>5 DEF JournalInv, MoneyOK, CheckpointExplained
<1>. QED  BY <1>1, <1>3, <1>4, <1>5, <1>6 DEF JournalInv

LEMMA RestartJournal == ASSUME JournalInv, Restart PROVE JournalInv'
<1>1. IInv'
  BY NextInv DEF JournalInv, Next
<1>2. /\ pc = "down" /\ pc' = "tick" /\ wallet' = disk.wallet
      /\ UNCHANGED <<ledger, ts, disk, lost, fill>>
  BY DEF Restart, market, files, history
<1>3. LedgerOK' /\ FillOK'
  BY <1>2 DEF JournalInv, LedgerOK, FillOK
<1>4. Known' = Known /\ Saved' = Saved /\ Saved = Known /\ SavedOK'
  BY <1>2 DEF JournalInv, SavedOK, Known, Saved
<1>5. MoneyOK'
  BY <1>2, <1>4 DEF JournalInv, MoneyOK, CheckpointExplained
<1>. QED  BY <1>1, <1>3, <1>4, <1>5 DEF JournalInv

LEMMA NextJournal == ASSUME JournalInv, [Next]_vars PROVE JournalInv'
<1>1. CASE AbortFill
  <2>1. IInv'
    BY <1>1, NextInv DEF JournalInv, Next
  <2>2. pc = "settle" /\ pc' = "decide" /\ UNCHANGED <<ledger, ts, disk, lost, fill, wallet>>
    BY <1>1 DEF AbortFill, market, files, history
  <2>3. LedgerOK' /\ FillOK'
    BY <2>2 DEF JournalInv, LedgerOK, FillOK
  <2>4. SavedOK' /\ Known' = Known /\ Saved' = Saved
    BY <2>2 DEF JournalInv, SavedOK, Known, Saved
  <2>5. MoneyOK'
    BY <2>2, <2>4 DEF JournalInv, MoneyOK, CheckpointExplained
  <2>. QED  BY <2>1, <2>3, <2>4, <2>5 DEF JournalInv
<1>2. CASE UNCHANGED vars
  <2>1. IInv'
    BY <1>2, NextInv DEF JournalInv
  <2>2. UNCHANGED <<pc, ledger, ts, disk, lost, fill, wallet>>
    BY <1>2 DEF vars, process, market, files, history
  <2>3. SavedOK' /\ Known' = Known /\ Saved' = Saved
    BY <2>2 DEF JournalInv, SavedOK, Known, Saved
  <2>4. MoneyOK' /\ LedgerOK' /\ FillOK'
    BY <2>2, <2>3 DEF JournalInv, MoneyOK, CheckpointExplained, LedgerOK, FillOK
  <2>. QED  BY <2>1, <2>3, <2>4 DEF JournalInv
<1>. QED
  BY <1>1, <1>2, TickJournal, SettleJournal, AppendJournal, SaveJournal, DecideJournal,
     CrashJournal, RestartJournal DEF Next

LEMMA InitJournal == Init => JournalInv
<1>. SUFFICES ASSUME Init PROVE JournalInv
  OBVIOUS
<1>1. IInv /\ ledger = {} /\ Known = {} /\ Saved = {}
  BY InitInv DEF Init, Known, Saved
<1>2. LedgerOK /\ FillOK /\ SavedOK
  BY <1>1, FS_EmptySet DEF Init, LedgerOK, FillOK, SavedOK
<1>3. MoneyOK
  BY <1>1, TotalEmpty DEF Init, MoneyOK, CheckpointExplained, Opening
<1>. QED  BY <1>1, <1>2, <1>3 DEF JournalInv

LEMMA Journaled == Spec => []JournalInv
  BY InitJournal, NextJournal, PTL DEF Spec

(* The checkpointed wallet is the opening wallet and the fills up to its   *)
(* tick, whatever was aborted, forgotten or lost (runner.py, _settle;      *)
(* journal.py, checkpoint).                                                *)
THEOREM CheckpointIsExplained == Spec => []CheckpointExplained
<1>1. JournalInv => CheckpointExplained
  BY DEF JournalInv, MoneyOK
<1>. QED  BY <1>1, Journaled, PTL
-----------------------------------------------------------------------------
(* The rolling windows                                                     *)

(* Both windows know every fill that counts, and after a restart they will *)
(* again; while a fill is under way they still know the tick before.       *)
Entry(f) == [ts |-> f.ts, n |-> f.n]
Since == IF pc \in {"settle", "append"} THEN ts - 1 ELSE ts
Covers(lines, entries, window, t) ==
  \A f \in lines : f.ts > t - window => Entry(f) \in entries

WindowOK ==
  /\ IsFiniteSet(policy.recent) /\ IsFiniteSet(policy.spend)
  /\ IsFiniteSet(disk.policy.recent) /\ IsFiniteSet(disk.policy.spend)
  /\ pc # "down" => /\ Covers(Known, policy.recent, Window, Since)
                    /\ Covers(Known, policy.spend, SpendWindow, Since)
  /\ Covers(Saved, disk.policy.recent, Window, ts)
  /\ Covers(Saved, disk.policy.spend, SpendWindow, ts)
  /\ pc = "append" => Entry(fill) \in policy.recent /\ Entry(fill) \in policy.spend

(* The room an allowed intent was left, and what it takes of it.           *)
RoomOK ==
  /\ pending # NoIntent =>
       /\ Cardinality(policy.recent) < MaxTx
       /\ \E q \in Prices : Notionals(policy.spend) + pending.base * q <= MaxSpend
  /\ pc = "append" => /\ Cardinality(policy.recent) <= MaxTx
                      /\ Notionals(policy.spend) <= MaxSpend + MaxMove

WindowsInv == JournalInv /\ WindowOK /\ RoomOK /\ WindowsKept

(* Lines of different ticks that a window knows are no more than it holds. *)
LEMMA FitsInto ==
  ASSUME NEW S \in SUBSET Lines, NEW R \in SUBSET Entries, IsFiniteSet(S), IsFiniteSet(R),
         \A f \in S : Entry(f) \in R, \A f, g \in S : f.ts = g.ts => f = g
  PROVE  Cardinality(S) <= Cardinality(R) /\ Notionals(S) <= Notionals(R)
<1>. DEFINE h == [f \in S |-> Entry(f)]
<1>1. /\ \A f \in S : h[f] = Entry(f) /\ h[f] \in R /\ h[f].n = f.n /\ h[f].ts = f.ts
      /\ h \in [S -> R]
  BY DEF Entry
<1>. HIDE DEF h
<1>2. \A f, g \in S : h[f] = h[g] => f = g
  BY <1>1
<1>3. Cardinality(S) <= Cardinality(R)
  <2>1. h \in Injection(S, R)
    BY <1>1, <1>2 DEF Injection, IsInjective
  <2>. QED  BY <2>1, FS_Injection
<1>4. \A f \in S : f["n"] \in Nat
  BY DEF Lines
<1>5. \A e \in R : e["n"] \in Nat
  BY DEF Entries
<1>6. \A f \in S : h[f] \in R /\ h[f]["n"] = f["n"]
  BY <1>1
<1>7. Total("n", S) <= Total("n", R)
  BY <1>2, <1>4, <1>5, <1>6, TotalInjection
<1>. QED  BY <1>3, <1>7 DEF Notionals

LEMMA NoMoreThan ==
  ASSUME NEW T \in SUBSET Lines, IsFiniteSet(T), NEW S \in SUBSET T
  PROVE  /\ IsFiniteSet(S) /\ Cardinality(S) <= Cardinality(T) /\ Notionals(S) <= Notionals(T)
         /\ Cardinality(S) \in Nat /\ Cardinality(T) \in Nat
         /\ Notionals(S) \in Nat /\ Notionals(T) \in Nat
<1>1. IsFiniteSet(S) /\ Cardinality(S) <= Cardinality(T)
  BY FS_Subset
<1>2. \A f \in T : f["n"] \in Nat
  BY DEF Lines
<1>. DEFINE h == [f \in S |-> f]
<1>3. (\A f \in S : h[f] \in T /\ h[f]["n"] = f["n"]) /\ (\A f, g \in S : h[f] = h[g] => f = g)
  OBVIOUS
<1>. HIDE DEF h
<1>4. Total("n", S) <= Total("n", T)
  BY <1>1, <1>2, <1>3, TotalInjection
<1>5. Total("n", S) \in Nat /\ Total("n", T) \in Nat
  BY <1>1, <1>2, TotalNat
<1>. QED  BY <1>1, <1>4, <1>5, FS_CardinalityType DEF Notionals

(* One fill may exceed what it was ruled on by the move of the price.      *)
LEMMA Extremes ==
  /\ Max(Prices) \in Prices /\ \A x \in Prices : x <= Max(Prices)
  /\ Min(Prices) \in Prices /\ \A x \in Prices : Min(Prices) <= x
  /\ Max(Amounts) \in Amounts /\ \A x \in Amounts : x <= Max(Amounts)
<1>1. \E x \in Prices : \A y \in Prices : x >= y
  OBVIOUS
<1>2. \E x \in Prices : \A y \in Prices : x <= y
  OBVIOUS
<1>3. \E x \in Amounts : \A y \in Amounts : x >= y
  OBVIOUS
<1>4. Max(Prices) \in Prices /\ \A x \in Prices : Max(Prices) >= x
  BY <1>1 DEF Max
<1>5. Min(Prices) \in Prices /\ \A x \in Prices : Min(Prices) <= x
  BY <1>2 DEF Min
<1>6. Max(Amounts) \in Amounts /\ \A x \in Amounts : Max(Amounts) >= x
  BY <1>3 DEF Max
<1>. DEFINE hi == Max(Prices)
            big == Max(Amounts)
<1>. HIDE DEF hi, big
<1>7. \A x \in Prices : x <= hi
  BY <1>4 DEF hi
<1>8. \A x \in Amounts : x <= big
  BY <1>6 DEF big
<1>. QED  BY <1>4, <1>5, <1>6, <1>7, <1>8 DEF hi, big

LEMMA MoveType == MaxMove \in Nat
<1>. DEFINE hi == Max(Prices)
            lo == Min(Prices)
            big == Max(Amounts)
<1>1. hi \in Prices /\ lo \in Prices /\ lo <= hi /\ big \in Nat
  BY Extremes
<1>. HIDE DEF hi, lo, big
<1>2. hi - lo + Slip \in Nat
  BY <1>1
<1>3. big * (hi - lo + Slip) \in Nat
  BY <1>1, <1>2, NatTimes
<1>. QED  BY <1>3 DEF MaxMove, hi, lo, big

LEMMA MoveBounds ==
  ASSUME RunnerTypeOK, NEW i \in Intents, NEW q \in Prices
  PROVE  FillOf(i).n <= i.base * q + MaxMove
<1>. DEFINE hi == Max(Prices)
            lo == Min(Prices)
            big == Max(Amounts)
            p == IF i.side = "BUY" THEN price + Slip ELSE price - Slip
            b == i.base
<1>1. /\ hi \in Nat /\ lo \in Nat /\ lo <= q /\ q <= hi
      /\ price <= hi /\ lo <= price /\ price \in Nat /\ price > Slip /\ q \in Nat
  BY Extremes DEF RunnerTypeOK
<1>2. b \in Nat /\ big \in Nat /\ b <= big
  BY Extremes DEF Intents
<1>3. MaxMove = big * (hi - lo + Slip)
  BY DEF MaxMove
<1>4. FillOf(i).n = b * p
  BY DEF FillOf
<1>. HIDE DEF hi, lo, big, b
<1>5. p \in Nat /\ p <= q + (hi - lo + Slip)
  <2>1. price + Slip \in Nat /\ price + Slip <= q + (hi - lo + Slip)
    BY <1>1
  <2>2. price - Slip \in Nat /\ price - Slip <= q + (hi - lo + Slip)
    BY <1>1
  <2>. QED  BY <2>1, <2>2
<1>. DEFINE m == hi - lo + Slip
<1>6. m \in Nat /\ p <= q + m
  BY <1>1, <1>5
<1>7. MaxMove = big * m
  BY <1>3
<1>. HIDE DEF m, p
<1>8. b * p <= b * q + b * m
  <2>1. b * p <= b * (q + m)
    BY <1>1, <1>2, <1>5, <1>6, Z3
  <2>. QED  BY <2>1, <1>1, <1>2, <1>6, Z3
<1>9. b * m <= big * m
  BY <1>2, <1>6, Z3
<1>10. b * p \in Nat /\ b * q \in Nat /\ b * m \in Nat /\ big * m \in Nat
  BY <1>1, <1>2, <1>5, <1>6, NatTimes
<1>11. b * p <= b * q + big * m
  BY <1>8, <1>9, <1>10
<1>. QED  BY <1>4, <1>7, <1>11 DEF b

(* Fewer known fills at the same tick leave both windows kept.             *)
LEMMA KeptByFewer ==
  ASSUME WindowsInv, ts' = ts, Known' \subseteq Known
  PROVE  WindowsKept'
<1>1. ASSUME NEW w \in Nat, NEW t \in 1 .. ts
      PROVE  /\ Cardinality(Within(w, t)') <= Cardinality(Within(w, t))
             /\ Notionals(Within(w, t)') <= Notionals(Within(w, t))
             /\ Cardinality(Within(w, t)) \in Nat /\ Cardinality(Within(w, t)') \in Nat
             /\ Notionals(Within(w, t)) \in Nat /\ Notionals(Within(w, t)') \in Nat
  <2>1. Within(w, t)' \subseteq Within(w, t) /\ Within(w, t) \subseteq Known
    BY DEF Within
  <2>2. IsFiniteSet(Within(w, t)) /\ Within(w, t) \in SUBSET Lines
    BY <2>1, KnownFinite, FS_Subset DEF WindowsInv
  <2>. QED  BY <2>1, <2>2, NoMoreThan
<1>2. RateKept'
  <2>. SUFFICES ASSUME NEW t \in 1 .. ts PROVE Cardinality(Within(Window + 1, t)') <= MaxTx
    BY DEF RateKept
  <2>1. Cardinality(Within(Window + 1, t)) <= MaxTx
    BY DEF WindowsInv, WindowsKept, RateKept
  <2>. QED  BY <2>1, <1>1
<1>3. SpendKept'
  <2>. SUFFICES ASSUME NEW t \in 1 .. ts PROVE Notionals(Within(SpendWindow, t)') <= MaxSpend + MaxMove
    BY DEF SpendKept, MaxMove, Within, Notionals
  <2>1. Notionals(Within(SpendWindow, t)) <= MaxSpend + MaxMove
    BY DEF WindowsInv, WindowsKept, SpendKept
  <2>. QED  BY <2>1, <1>1, MoveType
<1>. QED  BY <1>2, <1>3 DEF WindowsKept
LEMMA TickWindows == ASSUME WindowsInv, Tick PROVE WindowsInv'
<1>1. JournalInv' /\ RunnerTypeOK
  BY TickJournal DEF WindowsInv, JournalInv, IInv
<1>2. /\ pc = "tick" /\ pc' \in {"decide", "settle"} /\ ts' = ts + 1 /\ ts \in Nat
      /\ UNCHANGED <<policy, disk, fill, ledger, lost, pending>>
  BY <1>1 DEF Tick, RunnerTypeOK, files, history
<1>3. Known' = Known /\ Saved' = Saved
  BY <1>2 DEF Known, Saved
<1>4. Since = ts /\ Since' >= Since /\ Since' \in Int
  BY <1>2 DEF Since
<1>5. \A f \in Known : f.ts \in Nat
  BY KnownFinite DEF WindowsInv, Lines
<1>6. WindowOK'
  <2>1. Covers(Known, policy.recent, Window, Since)' /\ Covers(Known, policy.spend, SpendWindow, Since)'
    BY <1>2, <1>3, <1>4, <1>5 DEF WindowsInv, WindowOK, Covers, Entry
  <2>2. Covers(Saved, disk.policy.recent, Window, ts)' /\ Covers(Saved, disk.policy.spend, SpendWindow, ts)'
    <3>1. \A f \in Saved : f.ts \in Nat
      BY <1>5 DEF Saved
    <3>. QED  BY <1>2, <1>3, <3>1 DEF WindowsInv, WindowOK, Covers, Entry
  <2>. QED  BY <1>2, <2>1, <2>2 DEF WindowsInv, WindowOK
<1>7. RoomOK'
  BY <1>2 DEF WindowsInv, RoomOK, Notionals
<1>8. ASSUME NEW w \in Nat, NEW t \in 1 .. ts PROVE Within(w, t)' = Within(w, t)
  BY <1>3 DEF Within
<1>9. \A f \in Known : f.ts \in 1 .. ts
  BY DEF WindowsInv, JournalInv, LedgerOK, Known
<1>10. ASSUME NEW w \in Nat, NEW t, t = ts + 1
       PROVE  (ts = 0 => Within(w, t)' = {}) /\ (ts # 0 => Within(w, t)' \subseteq Within(w, ts))
  BY <1>2, <1>3, <1>9, <1>10 DEF Within
<1>11. ASSUME NEW t \in 1 .. ts', NEW w \in Nat
       PROVE  Within(w, t)' = {} \/ \E u \in 1 .. ts : Within(w, t)' \subseteq Within(w, u)
  <2>1. CASE t \in 1 .. ts
    BY <1>8, <2>1
  <2>2. CASE t = ts + 1 /\ ts = 0
    BY <1>10, <2>2
  <2>3. CASE t = ts + 1 /\ ts # 0
    <3>1. ts \in 1 .. ts
      BY <1>2, <2>3
    <3>. QED  BY <1>10, <2>3, <3>1
  <2>. QED  BY <1>2, <2>1, <2>2, <2>3
<1>12. ASSUME NEW w \in Nat, NEW u \in 1 .. ts
       PROVE  IsFiniteSet(Within(w, u)) /\ Within(w, u) \in SUBSET Lines
  BY KnownFinite, FS_Subset DEF WindowsInv, Within
<1>13. RateKept'
  <2>. SUFFICES ASSUME NEW t \in 1 .. ts' PROVE Cardinality(Within(Window + 1, t)') <= MaxTx
    BY DEF RateKept
  <2>. DEFINE W == Within(Window + 1, t)'
  <2>1. CASE W = {}
    BY <2>1, FS_EmptySet
  <2>2. CASE \E u \in 1 .. ts : W \subseteq Within(Window + 1, u)
    <3>1. PICK u \in 1 .. ts : W \subseteq Within(Window + 1, u)
      BY <2>2
    <3>. DEFINE V == Within(Window + 1, u)
    <3>2. IsFiniteSet(V) /\ V \in SUBSET Lines
      BY <1>12
    <3>3. Cardinality(V) <= MaxTx
      BY DEF WindowsInv, WindowsKept, RateKept
    <3>. HIDE DEF W, V
    <3>4. Cardinality(W) <= Cardinality(V) /\ Cardinality(W) \in Nat /\ Cardinality(V) \in Nat
      BY <3>1, <3>2, NoMoreThan DEF V
    <3>5. Cardinality(W) <= MaxTx
      BY <3>3, <3>4
    <3>. QED  BY <3>5 DEF W
  <2>. QED  BY <1>11, <2>1, <2>2
<1>14. SpendKept'
  <2>. SUFFICES ASSUME NEW t \in 1 .. ts' PROVE Notionals(Within(SpendWindow, t)') <= MaxSpend + MaxMove
    BY DEF SpendKept, MaxMove, Within, Notionals
  <2>. DEFINE W == Within(SpendWindow, t)'
  <2>1. CASE W = {}
    BY <2>1, TotalEmpty, MoveType DEF Notionals
  <2>2. CASE \E u \in 1 .. ts : W \subseteq Within(SpendWindow, u)
    <3>1. PICK u \in 1 .. ts : W \subseteq Within(SpendWindow, u)
      BY <2>2
    <3>. DEFINE V == Within(SpendWindow, u)
    <3>2. IsFiniteSet(V) /\ V \in SUBSET Lines
      BY <1>12
    <3>3. Notionals(V) <= MaxSpend + MaxMove
      BY DEF WindowsInv, WindowsKept, SpendKept
    <3>. HIDE DEF W, V
    <3>4. Notionals(W) <= Notionals(V) /\ Notionals(W) \in Nat /\ Notionals(V) \in Nat
      BY <3>1, <3>2, NoMoreThan DEF V
    <3>5. Notionals(W) <= MaxSpend + MaxMove
      BY <3>3, <3>4, MoveType
    <3>. QED  BY <3>5 DEF W
  <2>. QED  BY <1>11, <2>1, <2>2
<1>. QED  BY <1>1, <1>6, <1>7, <1>13, <1>14 DEF WindowsInv, WindowsKept

LEMMA SettleWindows == ASSUME WindowsInv, Settle PROVE WindowsInv'
<1>1. JournalInv' /\ RunnerTypeOK
  BY SettleJournal DEF WindowsInv, JournalInv, IInv
<1>2. /\ pc = "settle" /\ pc' = "append" /\ fill' = FillOf(pending) /\ pending' = NoIntent
      /\ policy' = Registered(fill')
      /\ UNCHANGED <<ledger, lost, disk, ts>>
  BY DEF Settle, files, history, market
<1>3. Known' = Known /\ Saved' = Saved /\ Since' = Since
  BY <1>2 DEF Known, Saved, Since
<1>4. pending \in Intents /\ pending # NoIntent
  BY <1>1, <1>2 DEF WindowsInv, JournalInv, IInv, PendingOK, RunnerTypeOK
<1>5. Entry(fill)' = Entry(fill') /\ fill' \in Fills /\ Entry(fill') \in Entries
  BY <1>1, <1>2, <1>4, FillTypes DEF Entry, Fills, Entries
<1>6. /\ policy'.recent = policy.recent \cup {Entry(fill')}
      /\ policy'.spend = policy.spend \cup {Entry(fill')}
  BY <1>1, <1>2 DEF Registered, Entry, RunnerTypeOK, Policies
<1>7. /\ IsFiniteSet(policy.recent) /\ IsFiniteSet(policy.spend)
      /\ policy.recent \subseteq Entries /\ policy.spend \subseteq Entries
  BY <1>1 DEF WindowsInv, WindowOK, RunnerTypeOK, Policies
<1>8. WindowOK'
  <2>1. IsFiniteSet(policy'.recent) /\ IsFiniteSet(policy'.spend)
    <3>1. IsFiniteSet(policy'.recent)
      BY <1>6, <1>7, FS_AddElement
    <3>2. IsFiniteSet(policy'.spend)
      BY <1>6, <1>7, FS_AddElement
    <3>. QED  BY <3>1, <3>2
  <2>2. Covers(Known, policy.recent, Window, Since)' /\ Covers(Known, policy.spend, SpendWindow, Since)'
    BY <1>2, <1>3, <1>6 DEF WindowsInv, WindowOK, Covers, Entry
  <2>3. Covers(Saved, disk.policy.recent, Window, ts)' /\ Covers(Saved, disk.policy.spend, SpendWindow, ts)'
    BY <1>2, <1>3 DEF WindowsInv, WindowOK, Covers, Entry
  <2>. QED  BY <1>2, <1>5, <1>6, <2>1, <2>2, <2>3 DEF WindowsInv, WindowOK
<1>9. Cardinality(policy'.recent) <= MaxTx
  <2>1. Cardinality(policy.recent) < MaxTx /\ Cardinality(policy.recent) \in Nat
    BY <1>4, <1>7, FS_CardinalityType DEF WindowsInv, RoomOK
  <2>2. \/ Cardinality(policy'.recent) = Cardinality(policy.recent)
        \/ Cardinality(policy'.recent) = Cardinality(policy.recent) + 1
    BY <1>6, <1>7, FS_AddElement
  <2>. QED  BY <2>1, <2>2
<1>10. Notionals(policy'.spend) <= MaxSpend + MaxMove
  <2>. DEFINE x == Entry(fill')
              a == Notionals(policy.spend)
  <2>1. PICK q \in Prices : a + pending.base * q <= MaxSpend
    BY <1>4 DEF WindowsInv, RoomOK
  <2>2. x.n <= pending.base * q + MaxMove /\ x["n"] = x.n
    BY <1>1, <1>2, <1>4, MoveBounds DEF Entry
  <2>3. x["n"] \in Nat /\ \A e \in policy.spend : e["n"] \in Nat
    BY <1>5, <1>7 DEF Entries
  <2>4. a \in Nat
    BY <1>7, <2>3, TotalNat DEF Notionals
  <2>5. pending.base * q \in Nat
    BY <1>4, NatTimes DEF Intents
  <2>6. CASE x \in policy.spend
    <3>1. policy'.spend = policy.spend
      BY <1>6, <2>6
    <3>2. Notionals(policy'.spend) = a
      BY <3>1
    <3>. HIDE DEF a, x
    <3>. QED  BY <2>1, <2>4, <2>5, <3>2, MoveType
  <2>7. CASE x \notin policy.spend
    <3>1. Total("n", policy.spend \cup {x}) = Total("n", policy.spend) + x["n"]
      <4>. HIDE DEF x
      <4>1. \A e \in policy.spend : e["n"] \in Int
        BY <2>3
      <4>. QED  BY <1>7, <2>3, <2>7, <4>1, TotalAdd
    <3>2. Notionals(policy'.spend) = a + x["n"]
      BY <1>6, <3>1 DEF Notionals
    <3>. HIDE DEF a, x
    <3>. QED  BY <2>1, <2>2, <2>3, <2>4, <2>5, <3>2, MoveType
  <2>. QED  BY <2>6, <2>7
<1>11. RoomOK'
  BY <1>2, <1>9, <1>10 DEF RoomOK, MaxMove, Notionals
<1>12. WindowsKept'
  BY <1>2, <1>3, KeptByFewer
<1>. QED  BY <1>1, <1>8, <1>11, <1>12 DEF WindowsInv

LEMMA AppendWindows == ASSUME WindowsInv, Append PROVE WindowsInv'
<1>. DEFINE line == [ts |-> fill.ts, n |-> fill.n, dq |-> fill.dq, db |-> fill.db,
                     whole |-> ~torn]
<1>1. JournalInv' /\ RunnerTypeOK
  BY AppendJournal DEF WindowsInv, JournalInv, IInv
<1>2. /\ pc = "append" /\ pc' = "save" /\ ledger' = ledger \cup {line}
      /\ UNCHANGED <<lost, disk, ts, fill, policy, pending>>
  BY DEF Append, history, market
<1>3. fill \in Fills /\ fill.ts = ts /\ ts >= 1 /\ disk.ts < ts /\ ts \notin lost /\ ts \in Nat
  BY <1>1, <1>2 DEF WindowsInv, JournalInv, FillOK, RunnerTypeOK
<1>4. line.ts = ts /\ Entry(line) = Entry(fill)
  BY <1>3 DEF Entry
<1>. HIDE DEF line
<1>5. Known' = Known \cup {line} /\ Saved' = Saved
  <2>1. Known' = Known \cup {line}
    BY <1>2, <1>3, <1>4 DEF Known
  <2>2. ~(line.ts <= disk'.ts)
    BY <1>1, <1>2, <1>3, <1>4 DEF RunnerTypeOK
  <2>. QED  BY <1>2, <2>1, <2>2 DEF Saved
<1>6. IsFiniteSet(Known') /\ Known' \subseteq Lines /\ \A f, g \in Known' : f.ts = g.ts => f = g
  <2>1. IsFiniteSet(Known') /\ Known' \subseteq Lines
    BY <1>1, FS_Subset DEF JournalInv, LedgerOK, Known, IInv, RunnerTypeOK
  <2>. QED  BY <1>1, <2>1 DEF JournalInv, LedgerOK, Known
<1>7. \A f \in Known : f.ts \in 1 .. ts /\ f.ts < ts
  BY <1>2 DEF WindowsInv, JournalInv, LedgerOK, Known
<1>8. /\ \A f \in Known' : f.ts > ts - 1 - Window => Entry(f) \in policy.recent
      /\ \A f \in Known' : f.ts > ts - 1 - SpendWindow => Entry(f) \in policy.spend
  <2>1. Since = ts - 1
    BY <1>2 DEF Since
  <2>. QED  BY <1>2, <1>4, <1>5, <2>1 DEF WindowsInv, WindowOK, Covers
<1>9. WindowOK'
  <2>1. Since' = ts
    BY <1>2 DEF Since
  <2>2. \A f \in Known' : f.ts \in Nat
    BY <1>6 DEF Lines
  <2>3. /\ \A f \in Known' : f.ts > ts - Window => Entry(f) \in policy.recent
        /\ \A f \in Known' : f.ts > ts - SpendWindow => Entry(f) \in policy.spend
    BY <1>3, <1>8, <2>2
  <2>4. Covers(Known, policy.recent, Window, Since)' /\ Covers(Known, policy.spend, SpendWindow, Since)'
    BY <1>2, <2>1, <2>3 DEF Covers, Entry
  <2>5. Covers(Saved, disk.policy.recent, Window, ts)' /\ Covers(Saved, disk.policy.spend, SpendWindow, ts)'
    BY <1>2, <1>5 DEF WindowsInv, WindowOK, Covers, Entry
  <2>. QED  BY <1>2, <2>4, <2>5 DEF WindowsInv, WindowOK
<1>10. RoomOK'
  BY <1>1, <1>2 DEF JournalInv, IInv, PendingOK, RoomOK
<1>11. /\ policy.recent \in SUBSET Entries /\ policy.spend \in SUBSET Entries
       /\ IsFiniteSet(policy.recent) /\ IsFiniteSet(policy.spend)
       /\ Cardinality(policy.recent) <= MaxTx /\ Notionals(policy.spend) <= MaxSpend + MaxMove
  BY <1>1, <1>2 DEF WindowsInv, WindowOK, RoomOK, RunnerTypeOK, Policies
<1>12. ASSUME NEW w \in Nat, NEW t \in 1 .. ts, t # ts PROVE Within(w, t)' = Within(w, t)
  BY <1>3, <1>4, <1>5, <1>12 DEF Within
<1>13. ASSUME NEW w \in Nat, NEW t, t = ts
       PROVE  /\ Within(w, t)' \in SUBSET Lines /\ IsFiniteSet(Within(w, t)')
              /\ \A f, g \in Within(w, t)' : f.ts = g.ts => f = g
              /\ \A f \in Within(w, t)' : f \in Known' /\ f.ts > ts - w /\ f.ts \in Nat
  <2>1. Within(w, t)' \subseteq Known' /\ \A f \in Within(w, t)' : ts - w < f.ts
    BY <1>2, <1>13 DEF Within
  <2>2. \A f \in Known' : f.ts \in Nat
    BY <1>6 DEF Lines
  <2>. QED  BY <1>3, <1>6, <2>1, <2>2, FS_Subset
<1>14. RateKept'
  <2>. SUFFICES ASSUME NEW t \in 1 .. ts PROVE Cardinality(Within(Window + 1, t)') <= MaxTx
    BY <1>2 DEF RateKept
  <2>1. CASE t # ts
    BY <1>12, <2>1 DEF WindowsInv, WindowsKept, RateKept
  <2>2. CASE t = ts
    <3>. DEFINE W == Within(Window + 1, t)'
    <3>1. \A f \in W : Entry(f) \in policy.recent
      BY <1>3, <1>8, <1>13, <2>2
    <3>2. W \in SUBSET Lines /\ IsFiniteSet(W) /\ \A f, g \in W : f.ts = g.ts => f = g
      BY <1>13, <2>2
    <3>. HIDE DEF W
    <3>3. Cardinality(W) <= Cardinality(policy.recent)
      BY <1>11, <3>1, <3>2, FitsInto
    <3>4. Cardinality(W) \in Nat /\ Cardinality(policy.recent) \in Nat
      BY <1>11, <3>2, FS_CardinalityType
    <3>5. Cardinality(W) <= MaxTx
      BY <1>11, <3>3, <3>4
    <3>. QED  BY <3>5 DEF W
  <2>. QED  BY <2>1, <2>2
<1>15. SpendKept'
  <2>. SUFFICES ASSUME NEW t \in 1 .. ts PROVE Notionals(Within(SpendWindow, t)') <= MaxSpend + MaxMove
    BY <1>2 DEF SpendKept, MaxMove, Within, Notionals
  <2>1. CASE t # ts
    BY <1>12, <2>1 DEF WindowsInv, WindowsKept, SpendKept
  <2>2. CASE t = ts
    <3>. DEFINE W == Within(SpendWindow, t)'
    <3>1. \A f \in W : Entry(f) \in policy.spend
      BY <1>3, <1>8, <1>13, <2>2
    <3>2. W \in SUBSET Lines /\ IsFiniteSet(W) /\ \A f, g \in W : f.ts = g.ts => f = g
      BY <1>13, <2>2
    <3>. HIDE DEF W
    <3>3. Notionals(W) <= Notionals(policy.spend)
      BY <1>11, <3>1, <3>2, FitsInto
    <3>4. Notionals(W) \in Nat /\ Notionals(policy.spend) \in Nat
      <4>1. (\A f \in W : f["n"] \in Nat) /\ (\A e \in policy.spend : e["n"] \in Nat)
        BY <1>11, <3>2 DEF Lines, Entries
      <4>. QED  BY <1>11, <3>2, <4>1, TotalNat DEF Notionals
    <3>5. Notionals(W) <= MaxSpend + MaxMove
      BY <1>11, <3>3, <3>4, MoveType
    <3>. QED  BY <3>5 DEF W
  <2>. QED  BY <2>1, <2>2
<1>. QED  BY <1>1, <1>9, <1>10, <1>14, <1>15 DEF WindowsInv, WindowsKept
LEMMA SaveWindows == ASSUME WindowsInv, Save PROVE WindowsInv'
<1>1. JournalInv' /\ JournalInv
  BY SaveJournal DEF WindowsInv
<1>2. /\ pc = "save" /\ pc' \in {"tick", "decide"} /\ disk'.ts = ts /\ disk'.policy = policy
      /\ UNCHANGED <<policy, ledger, lost, ts, pending>>
  BY DEF Save, history, market
<1>3. Known' = Known /\ Saved' = Known
  <2>1. \A f \in ledger : f.ts <= ts
    BY <1>1 DEF JournalInv, LedgerOK
  <2>. QED  BY <1>2, <2>1 DEF Known, Saved
<1>4. Since = ts /\ Since' = ts
  BY <1>2 DEF Since
<1>5. WindowOK'
  BY <1>2, <1>3, <1>4 DEF WindowsInv, WindowOK, Covers, Entry
<1>6. RoomOK'
  <2>1. pending = NoIntent
    BY <1>1, <1>2 DEF JournalInv, IInv, PendingOK
  <2>. QED  BY <1>2, <2>1 DEF RoomOK
<1>7. WindowsKept'
  BY <1>2, <1>3, KeptByFewer
<1>. QED  BY <1>1, <1>5, <1>6, <1>7 DEF WindowsInv

(* What evaluate() prunes has left the windows for good.                   *)
LEMMA DecideRules ==
  ASSUME RunnerTypeOK, Decide
  PROVE  /\ policy'.recent \in {policy.recent, Recent}
         /\ policy'.spend \in {policy.spend, Spend}
         /\ \/ pending' = pending
            \/ /\ policy'.recent = Recent /\ policy'.spend = Spend
               /\ pending' \in Intents /\ UnderRate /\ UnderSpend(pending')
<1>1. /\ policy \in [anchor : Nat \cup {NoAnchor}, tripped : BOOLEAN,
                     recent : SUBSET Entries, spend : SUBSET Entries]
  BY DEF RunnerTypeOK, Policies
<1>2. CASE Hold
  BY <1>2 DEF Hold
<1>3. CASE DenyKilled
  BY <1>1, <1>3 DEF DenyKilled, Deny, Evaluated
<1>4. CASE DenyBreaker
  BY <1>1, <1>4 DEF DenyBreaker, Deny, Evaluated
<1>5. CASE \E i \in Intents : DenySize(i)
  BY <1>1, <1>5 DEF DenySize, Deny, Evaluated
<1>6. CASE \E i \in Intents : DenyRate(i)
  BY <1>1, <1>6 DEF DenyRate, Deny, Evaluated
<1>7. CASE \E i \in Intents : DenyFunds(i)
  BY <1>1, <1>7 DEF DenyFunds, Deny, Evaluated, Pruned
<1>8. CASE \E i \in Intents : Allow(i)
  BY <1>1, <1>8 DEF Allow, Evaluated, Pruned
<1>. QED  BY <1>2, <1>3, <1>4, <1>5, <1>6, <1>7, <1>8 DEF Decide

LEMMA DecideWindows == ASSUME WindowsInv, Decide PROVE WindowsInv'
<1>1. JournalInv' /\ JournalInv /\ RunnerTypeOK
  BY DecideJournal DEF WindowsInv, JournalInv, IInv
<1>2. /\ pc = "decide" /\ pc' \in {"tick", "save"} /\ UNCHANGED <<ts, price, disk, ledger, lost>>
      /\ ts \in Nat
  BY <1>1, DecideFrame DEF RunnerTypeOK
<1>3. Known' = Known /\ Saved' = Saved /\ Since = ts /\ Since' = ts
  BY <1>2 DEF Known, Saved, Since
<1>4. IsFiniteSet(policy'.recent) /\ IsFiniteSet(policy'.spend)
  <2>1. Recent \subseteq policy.recent /\ Spend \subseteq policy.spend
    BY DEF Recent, Spend, Prune
  <2>2. IsFiniteSet(Recent) /\ IsFiniteSet(Spend)
    BY <2>1, FS_Subset DEF WindowsInv, WindowOK
  <2>. QED  BY <1>1, <2>2, DecideRules DEF WindowsInv, WindowOK
<1>5. /\ \A f \in Known : f.ts > ts - Window => Entry(f) \in policy'.recent
      /\ \A f \in Known : f.ts > ts - SpendWindow => Entry(f) \in policy'.spend
  <2>1. /\ \A f \in Known : f.ts > ts - Window => Entry(f) \in policy.recent
        /\ \A f \in Known : f.ts > ts - SpendWindow => Entry(f) \in policy.spend
    BY <1>2, <1>3 DEF WindowsInv, WindowOK, Covers
  <2>2. /\ \A f \in Known : f.ts > ts - Window => Entry(f) \in Recent
        /\ \A f \in Known : f.ts > ts - SpendWindow => Entry(f) \in Spend
    BY <2>1 DEF Recent, Spend, Prune, Entry
  <2>. QED  BY <1>1, <2>1, <2>2, DecideRules
<1>6. WindowOK'
  <2>1. Covers(Known, policy.recent, Window, Since)' /\ Covers(Known, policy.spend, SpendWindow, Since)'
    BY <1>3, <1>5 DEF Covers, Entry
  <2>2. Covers(Saved, disk.policy.recent, Window, ts)' /\ Covers(Saved, disk.policy.spend, SpendWindow, ts)'
    BY <1>2, <1>3 DEF WindowsInv, WindowOK, Covers, Entry
  <2>. QED  BY <1>2, <1>4, <2>1, <2>2 DEF WindowsInv, WindowOK
<1>7. RoomOK'
  <2>1. pending = NoIntent
    BY <1>1, <1>2 DEF JournalInv, IInv, PendingOK
  <2>2. CASE pending' = pending
    BY <1>2, <2>1, <2>2 DEF RoomOK
  <2>3. CASE /\ policy'.recent = Recent /\ policy'.spend = Spend
             /\ pending' \in Intents /\ UnderRate /\ UnderSpend(pending')
    <3>1. Cardinality(policy'.recent) < MaxTx
      BY <2>3 DEF UnderRate
    <3>2. Notionals(policy'.spend) + pending'.base * price <= MaxSpend /\ price \in Prices
      BY <1>1, <2>3 DEF UnderSpend, Notional, RunnerTypeOK
    <3>. QED  BY <1>2, <3>1, <3>2 DEF RoomOK, Notionals
  <2>. QED  BY <1>1, <2>2, <2>3, DecideRules
<1>8. WindowsKept'
  BY <1>2, <1>3, KeptByFewer
<1>. QED  BY <1>1, <1>6, <1>7, <1>8 DEF WindowsInv

LEMMA CrashWindows == ASSUME WindowsInv, Crash PROVE WindowsInv'
<1>1. JournalInv' /\ JournalInv /\ RunnerTypeOK
  BY CrashJournal DEF WindowsInv, JournalInv, IInv
<1>2. /\ pc # "down" /\ pc' = "down" /\ policy' = Fresh /\ pending' = NoIntent
      /\ UNCHANGED <<ledger, ts, disk>>
      /\ lost' = IF pc = "save" /\ fill # NoFill THEN lost \cup {fill.ts} ELSE lost
  BY DEF Crash, market
<1>3. Known' \subseteq Known
  BY <1>2 DEF Known
<1>4. Saved' \subseteq Saved
  BY <1>2, <1>3 DEF Saved
<1>5. WindowOK'
  <2>1. IsFiniteSet(policy'.recent) /\ IsFiniteSet(policy'.spend)
    BY <1>2, FS_EmptySet DEF Fresh
  <2>2. Covers(Saved, disk.policy.recent, Window, ts)' /\ Covers(Saved, disk.policy.spend, SpendWindow, ts)'
    BY <1>2, <1>4 DEF WindowsInv, WindowOK, Covers, Entry
  <2>. QED  BY <1>2, <2>1, <2>2 DEF WindowsInv, WindowOK
<1>6. RoomOK'
  BY <1>2 DEF RoomOK
<1>7. WindowsKept'
  BY <1>2, <1>3, KeptByFewer
<1>. QED  BY <1>1, <1>5, <1>6, <1>7 DEF WindowsInv

LEMMA RestartWindows == ASSUME WindowsInv, Restart PROVE WindowsInv'
<1>1. JournalInv' /\ JournalInv
  BY RestartJournal DEF WindowsInv
<1>2. /\ pc = "down" /\ pc' = "tick" /\ policy' = disk.policy
      /\ UNCHANGED <<ledger, ts, disk, lost, fill, pending>>
  BY DEF Restart, Restored, market, files, history
<1>3. Known' = Known /\ Saved' = Saved /\ Saved = Known /\ Since' = ts
  BY <1>1, <1>2 DEF JournalInv, SavedOK, Known, Saved, Since
<1>4. WindowOK'
  BY <1>2, <1>3 DEF WindowsInv, WindowOK, Covers, Entry
<1>5. RoomOK'
  <2>1. pending = NoIntent
    BY <1>1, <1>2 DEF JournalInv, IInv, PendingOK
  <2>. QED  BY <1>2, <2>1 DEF RoomOK
<1>6. WindowsKept'
  BY <1>2, <1>3, KeptByFewer
<1>. QED  BY <1>1, <1>4, <1>5, <1>6 DEF WindowsInv

LEMMA NextWindows == ASSUME WindowsInv, [Next]_vars PROVE WindowsInv'
<1>1. JournalInv' /\ JournalInv /\ RunnerTypeOK
  BY NextJournal DEF WindowsInv, JournalInv, IInv
<1>2. CASE AbortFill
  <2>1. /\ pc = "settle" /\ pc' = "decide" /\ pending' = NoIntent
        /\ UNCHANGED <<ledger, ts, disk, lost, policy>>
    BY <1>2 DEF AbortFill, market, files, history
  <2>2. Known' = Known /\ Saved' = Saved /\ Since = ts - 1 /\ Since' = ts /\ ts \in Nat
    BY <1>1, <2>1 DEF Known, Saved, Since, RunnerTypeOK
  <2>3. WindowOK'
    <3>1. \A f \in Known : f.ts \in Nat
      BY <1>1, KnownFinite DEF Lines
    <3>2. /\ \A f \in Known : f.ts > ts - Window => Entry(f) \in policy.recent
          /\ \A f \in Known : f.ts > ts - SpendWindow => Entry(f) \in policy.spend
      BY <2>1, <2>2, <3>1 DEF WindowsInv, WindowOK, Covers
    <3>3. Covers(Known, policy.recent, Window, Since)' /\ Covers(Known, policy.spend, SpendWindow, Since)'
      BY <2>1, <2>2, <3>2 DEF Covers, Entry
    <3>4. Covers(Saved, disk.policy.recent, Window, ts)' /\ Covers(Saved, disk.policy.spend, SpendWindow, ts)'
      BY <2>1, <2>2 DEF WindowsInv, WindowOK, Covers, Entry
    <3>. QED  BY <2>1, <3>3, <3>4 DEF WindowsInv, WindowOK
  <2>4. RoomOK'
    BY <2>1 DEF RoomOK
  <2>5. WindowsKept'
    BY <2>1, <2>2, KeptByFewer
  <2>. QED  BY <1>1, <2>3, <2>4, <2>5 DEF WindowsInv
<1>3. CASE UNCHANGED vars
  <2>1. UNCHANGED <<pc, ledger, ts, disk, lost, fill, policy, pending>>
    BY <1>3 DEF vars, process, market, files, history
  <2>2. Known' = Known /\ Saved' = Saved /\ Since' = Since
    BY <2>1 DEF Known, Saved, Since
  <2>3. WindowOK'
    BY <2>1, <2>2 DEF WindowsInv, WindowOK, Covers, Entry
  <2>4. RoomOK'
    BY <2>1 DEF WindowsInv, RoomOK, Notionals, MaxMove
  <2>5. WindowsKept'
    BY <2>1, <2>2, KeptByFewer
  <2>. QED  BY <1>1, <2>3, <2>4, <2>5 DEF WindowsInv
<1>. QED
  BY <1>2, <1>3, TickWindows, SettleWindows, AppendWindows, SaveWindows, DecideWindows,
     CrashWindows, RestartWindows DEF Next

LEMMA InitWindows == Init => WindowsInv
<1>. SUFFICES ASSUME Init PROVE WindowsInv
  OBVIOUS
<1>1. JournalInv /\ Known = {} /\ Saved = {}
  BY InitJournal DEF Init, Known, Saved
<1>2. WindowOK
  BY <1>1, FS_EmptySet DEF Init, WindowOK, Covers, Fresh
<1>3. RoomOK /\ WindowsKept
  BY DEF Init, RoomOK, WindowsKept, RateKept, SpendKept
<1>. QED  BY <1>1, <1>2, <1>3 DEF WindowsInv

(* No window ever holds more fills than the rate limit allows, nor more    *)
(* notional than the budget and the price move of one fill, whatever was   *)
(* filled late or restored after a crash (policy.py, rules 6 and 7;        *)
(* register_fill).                                                         *)
THEOREM WindowsAreKept == Spec => []WindowsKept
<1>1. WindowsInv => WindowsKept
  BY DEF WindowsInv
<1>. QED  BY <1>1, InitWindows, NextWindows, PTL DEF Spec
=============================================================================
