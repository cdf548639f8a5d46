-------------------------------- MODULE Sums --------------------------------
(* Facts about sums over finite sets, as SumFunctionOnSet of the community   *)
(* modules takes them: element after element, in an order nobody knows.      *)
(* Nothing here is about one component; the proofs about wallets, trade logs *)
(* and budgets rest on it.                                                   *)
EXTENDS Integers, FiniteSets, Functions, FiniteSetTheorems, TLAPS

(* A property some subset has is one that a smallest subset has: what takes  *)
(* the place of induction over finite sets.                                  *)
LEMMA MinimalSubset ==
  ASSUME NEW S, IsFiniteSet(S), NEW Bad, Bad \subseteq SUBSET S, Bad # {}
  PROVE  \E T \in Bad : \A U \in SUBSET T : U # T => U \notin Bad
<1>1. IsWellFoundedOn(StrictSubsetOrdering(S), FiniteSubsetsOf(S))
  BY FS_StrictSubsetOrderingWellFounded
<1>2. Bad \subseteq FiniteSubsetsOf(S)
  BY FS_FiniteSubsetsOfFinite
<1>3. PICK T \in Bad : \A U \in Bad : ~(<<U, T>> \in StrictSubsetOrdering(S))
  BY <1>1, <1>2, WFMin
<1>4. ASSUME NEW U \in SUBSET T, U # T, U \in Bad PROVE FALSE
  BY <1>3, <1>4 DEF StrictSubsetOrdering
<1>. QED BY <1>3, <1>4

------------------------------------------------------------------------------
(* What the fold unfolds to: a function on the subsets, which takes one      *)
(* element after the other.                                                  *)
Taken(s) == CHOOSE x \in s : TRUE
Body(it, s, w) == IF s = {} THEN 0 ELSE w[Taken(s)] + it[s \ {Taken(s)}]
IsIter(it, S, w) == it = [s \in SUBSET S |-> Body(it, s, w)]
IterOf(S, w) == CHOOSE it : IsIter(it, S, w)

LEMMA SumIsIter == ASSUME NEW S, NEW w PROVE SumFunctionOnSet(w, S) = IterOf(S, w)[S]
  BY DEF SumFunctionOnSet, FoldFunctionOnSet, MapThenFoldSet, IterOf, IsIter, Body, Taken

LEMMA TakenIn == ASSUME NEW s, s # {} PROVE Taken(s) \in s
  BY DEF Taken
(* There is one such function at most, ...                                 *)
LEMMA IterUnique ==
  ASSUME NEW S, IsFiniteSet(S), NEW w, NEW a, NEW b, IsIter(a, S, w), IsIter(b, S, w)
  PROVE  \A s \in SUBSET S : a[s] = b[s]
<1>. DEFINE Bad == {s \in SUBSET S : a[s] # b[s]}
<1>. SUFFICES ASSUME Bad # {} PROVE FALSE
  OBVIOUS
<1>1. PICK T \in Bad : \A U \in SUBSET T : U # T => U \notin Bad
  <2>1. Bad \subseteq SUBSET S
    OBVIOUS
  <2>. HIDE DEF Bad
  <2>. QED  BY <2>1, MinimalSubset
<1>2. T \in SUBSET S /\ a[T] # b[T]
  BY <1>1
<1>3. a[T] = Body(a, T, w) /\ b[T] = Body(b, T, w)
  BY <1>2 DEF IsIter
<1>4. T # {}
  BY <1>2, <1>3 DEF Body
<1>5. Taken(T) \in T
  BY <1>4, TakenIn
<1>6. a[T \ {Taken(T)}] = b[T \ {Taken(T)}]
  BY <1>1, <1>2, <1>5
<1>. QED  BY <1>2, <1>3, <1>6 DEF Body

(* ... which restricts to smaller sets, ...                                *)
LEMMA IterRestricts ==
  ASSUME NEW S, NEW T \in SUBSET S, NEW w, NEW a, IsIter(a, S, w)
  PROVE  IsIter([s \in SUBSET T |-> a[s]], T, w)
<1>. DEFINE b == [s \in SUBSET T |-> a[s]]
<1>1. ASSUME NEW s \in SUBSET T PROVE a[s] = Body(b, s, w)
  <2>1. a[s] = Body(a, s, w)
    BY DEF IsIter
  <2>2. s # {} => s \ {Taken(s)} \in SUBSET T
    OBVIOUS
  <2>. QED  BY <2>1, <2>2 DEF Body
<1>. QED  BY <1>1 DEF IsIter

(* ... and there is one.                                                   *)
LEMMA IterExists ==
  ASSUME NEW S, IsFiniteSet(S), NEW w
  PROVE  IsIter(IterOf(S, w), S, w)
<1>. DEFINE Bad == {T \in SUBSET S : ~IsIter(IterOf(T, w), T, w)}
<1>. SUFFICES ASSUME Bad # {} PROVE FALSE
  OBVIOUS
<1>1. PICK T \in Bad : \A U \in SUBSET T : U # T => U \notin Bad
  <2>1. Bad \subseteq SUBSET S
    OBVIOUS
  <2>. HIDE DEF Bad
  <2>. QED  BY <2>1, MinimalSubset
<1>2. T \in SUBSET S /\ ~IsIter(IterOf(T, w), T, w)
  BY <1>1
<1>3. \A U \in SUBSET T : U # T => IsIter(IterOf(U, w), U, w)
  BY <1>1, <1>2
<1>. DEFINE Val(s) == IterOf(s, w)[s]
            it == [s \in SUBSET T |-> IF s = {} THEN 0 ELSE w[Taken(s)] + Val(s \ {Taken(s)})]
<1>4. ASSUME NEW s \in SUBSET T, s # T PROVE it[s] = Val(s)
  <2>1. IsIter(IterOf(s, w), s, w)
    BY <1>3, <1>4
  <2>2. Val(s) = Body(IterOf(s, w), s, w)
    BY <2>1 DEF IsIter
  <2>3. CASE s = {}
    BY <2>2, <2>3 DEF Body
  <2>4. CASE s # {}
    <3>. DEFINE u == s \ {Taken(s)}
    <3>1. u \in SUBSET s /\ u \in SUBSET T /\ u # T /\ IsFiniteSet(u)
      BY <1>2, <1>4, <2>4, FS_Subset
    <3>2. IsIter(IterOf(u, w), u, w)
      BY <1>3, <3>1
    <3>3. IsIter([r \in SUBSET u |-> IterOf(s, w)[r]], u, w)
      <4>. HIDE DEF u
      <4>. QED  BY <2>1, <3>1, IterRestricts
    <3>4. IterOf(s, w)[u] = IterOf(u, w)[u]
      BY <3>1, <3>2, <3>3, IterUnique
    <3>. QED  BY <2>2, <2>4, <3>4 DEF Body
  <2>. QED  BY <2>3, <2>4
<1>5. ASSUME NEW s \in SUBSET T PROVE it[s] = Body(it, s, w)
  <2>1. CASE s = {}
    BY <2>1 DEF Body
  <2>2. CASE s # {}
    <3>1. s \ {Taken(s)} \in SUBSET T /\ s \ {Taken(s)} # T
      BY <2>2, TakenIn
    <3>2. it[s \ {Taken(s)}] = Val(s \ {Taken(s)})
      BY <1>4, <3>1
    <3>. QED  BY <2>2, <3>2 DEF Body
  <2>. QED  BY <2>1, <2>2
<1>6. IsIter(it, T, w)
  <2>1. it = [s \in SUBSET T |-> it[s]]
    OBVIOUS
  <2>. HIDE DEF it
  <2>. QED  BY <1>5, <2>1 DEF IsIter
<1>7. IsIter(IterOf(T, w), T, w)
  BY <1>6 DEF IterOf
<1>. QED  BY <1>2, <1>7

LEMMA SumEmpty == ASSUME NEW w PROVE SumFunctionOnSet(w, {}) = 0
<1>1. IsIter(IterOf({}, w), {}, w)
  BY IterExists, FS_EmptySet
<1>2. IterOf({}, w)[{}] = Body(IterOf({}, w), {}, w)
  BY <1>1 DEF IsIter
<1>. QED  BY <1>2, SumIsIter DEF Body

LEMMA SumStep ==
  ASSUME NEW w, NEW S, IsFiniteSet(S), S # {}
  PROVE  SumFunctionOnSet(w, S) = w[Taken(S)] + SumFunctionOnSet(w, S \ {Taken(S)})
<1>. DEFINE u == S \ {Taken(S)}
<1>1. IsIter(IterOf(S, w), S, w) /\ IsIter(IterOf(u, w), u, w) /\ IsFiniteSet(u)
  BY IterExists, FS_Subset
<1>2. IsIter([r \in SUBSET u |-> IterOf(S, w)[r]], u, w)
  BY <1>1, IterRestricts
<1>3. IterOf(S, w)[u] = IterOf(u, w)[u]
  BY <1>1, <1>2, IterUnique
<1>4. IterOf(S, w)[S] = Body(IterOf(S, w), S, w)
  BY <1>1 DEF IsIter
<1>. QED  BY <1>3, <1>4, SumIsIter DEF Body

LEMMA SumInt ==
  ASSUME NEW w, NEW S, IsFiniteSet(S), \A x \in S : w[x] \in Int
  PROVE  SumFunctionOnSet(w, S) \in Int
<1>. DEFINE Bad == {T \in SUBSET S : SumFunctionOnSet(w, T) \notin Int}
<1>. SUFFICES ASSUME Bad # {} PROVE FALSE
  OBVIOUS
<1>1. PICK T \in Bad : \A U \in SUBSET T : U # T => U \notin Bad
  <2>1. Bad \subseteq SUBSET S
    OBVIOUS
  <2>. HIDE DEF Bad
  <2>. QED  BY <2>1, MinimalSubset
<1>2. T # {} /\ IsFiniteSet(T)
  <2>1. T \in SUBSET S /\ SumFunctionOnSet(w, T) \notin Int
    BY <1>1
  <2>2. SumFunctionOnSet(w, {}) \in Int
    BY SumEmpty
  <2>. QED  BY <2>1, <2>2, FS_Subset
<1>3. Taken(T) \in T
  BY <1>2, TakenIn
<1>4. SumFunctionOnSet(w, T \ {Taken(T)}) \in Int
  BY <1>1, <1>3
<1>5. w[Taken(T)] \in Int
  BY <1>1, <1>3
<1>6. SumFunctionOnSet(w, T) \in Int
  BY <1>2, <1>4, <1>5, SumStep
<1>. QED  BY <1>1, <1>6

(* Any element may be the first one taken.                                 *)
LEMMA SumRemove ==
  ASSUME NEW w, NEW S, IsFiniteSet(S), \A x \in S : w[x] \in Int, NEW x \in S
  PROVE  SumFunctionOnSet(w, S) = w[x] + SumFunctionOnSet(w, S \ {x})
<1>. DEFINE Bad == {T \in SUBSET S : \E y \in T : SumFunctionOnSet(w, T) # w[y] + SumFunctionOnSet(w, T \ {y})}
<1>. SUFFICES ASSUME Bad # {} PROVE FALSE
  OBVIOUS
<1>1. PICK T \in Bad : \A U \in SUBSET T : U # T => U \notin Bad
  <2>1. Bad \subseteq SUBSET S
    OBVIOUS
  <2>. HIDE DEF Bad
  <2>. QED  BY <2>1, MinimalSubset
<1>2. PICK y \in T : SumFunctionOnSet(w, T) # w[y] + SumFunctionOnSet(w, T \ {y})
  BY <1>1
<1>. DEFINE p == Taken(T)
<1>3. IsFiniteSet(T) /\ p \in T /\ IsFiniteSet(T \ {p}) /\ IsFiniteSet(T \ {y})
  BY <1>1, <1>2, TakenIn, FS_Subset
<1>4. SumFunctionOnSet(w, T) = w[p] + SumFunctionOnSet(w, T \ {p})
  BY <1>2, <1>3, SumStep
<1>5. y # p
  BY <1>2, <1>4
<1>6. SumFunctionOnSet(w, T \ {p}) = w[y] + SumFunctionOnSet(w, (T \ {p}) \ {y})
  BY <1>1, <1>3, <1>5
<1>7. SumFunctionOnSet(w, T \ {y}) = w[p] + SumFunctionOnSet(w, (T \ {y}) \ {p})
  BY <1>1, <1>2, <1>3, <1>5
<1>8. (T \ {p}) \ {y} = (T \ {y}) \ {p}
  OBVIOUS
<1>9. SumFunctionOnSet(w, (T \ {p}) \ {y}) \in Int /\ w[y] \in Int /\ w[p] \in Int
  <2>1. IsFiniteSet((T \ {p}) \ {y})
    BY <1>3, FS_Subset
  <2>. QED  BY <1>1, <1>2, <1>3, <2>1, SumInt
<1>. DEFINE c == SumFunctionOnSet(w, (T \ {p}) \ {y})
            a == w[y]
            b == w[p]
<1>10. a + (b + c) = b + (a + c)
  <2>. HIDE DEF a, b, c
  <2>. QED  BY <1>9 DEF a, b, c
<1>. QED  BY <1>2, <1>4, <1>6, <1>7, <1>8, <1>10

LEMMA SumAdd ==
  ASSUME NEW w, NEW S, IsFiniteSet(S), \A y \in S : w[y] \in Int,
         NEW x, x \notin S, w[x] \in Int
  PROVE  SumFunctionOnSet(w, S \cup {x}) = SumFunctionOnSet(w, S) + w[x]
<1>. DEFINE T == S \cup {x}
<1>1. IsFiniteSet(T) /\ x \in T /\ T \ {x} = S /\ \A y \in T : w[y] \in Int
  BY FS_AddElement
<1>2. SumFunctionOnSet(w, T) = w[x] + SumFunctionOnSet(w, S)
  BY <1>1, SumRemove
<1>3. SumFunctionOnSet(w, S) \in Int
  BY SumInt
<1>. QED  BY <1>2, <1>3


LEMMA SumNat ==
  ASSUME NEW w, NEW S, IsFiniteSet(S), \A x \in S : w[x] \in Nat
  PROVE  SumFunctionOnSet(w, S) \in Nat
<1>. DEFINE Bad == {T \in SUBSET S : SumFunctionOnSet(w, T) \notin Nat}
<1>. SUFFICES ASSUME Bad # {} PROVE FALSE
  OBVIOUS
<1>1. PICK T \in Bad : \A U \in SUBSET T : U # T => U \notin Bad
  <2>1. Bad \subseteq SUBSET S
    OBVIOUS
  <2>. HIDE DEF Bad
  <2>. QED  BY <2>1, MinimalSubset
<1>2. T # {} /\ IsFiniteSet(T)
  <2>1. T \in SUBSET S /\ SumFunctionOnSet(w, T) \notin Nat
    BY <1>1
  <2>2. SumFunctionOnSet(w, {}) \in Nat
    BY SumEmpty
  <2>. QED  BY <2>1, <2>2, FS_Subset
<1>3. Taken(T) \in T
  BY <1>2, TakenIn
<1>4. SumFunctionOnSet(w, T \ {Taken(T)}) \in Nat /\ w[Taken(T)] \in Nat
  BY <1>1, <1>3
<1>5. SumFunctionOnSet(w, T) \in Nat
  BY <1>2, <1>4, SumStep
<1>. QED  BY <1>1, <1>5

(* A fold that takes the elements in an order of its own, one at a time,     *)
(* comes to the same sum.                                                    *)
LEMMA SumAnyOrder ==
  ASSUME NEW S, IsFiniteSet(S), NEW w, \A x \in S : w[x] \in Int, NEW it,
         it[{}] = 0,
         \A s \in SUBSET S : s # {} => \E x \in s : it[s] = w[x] + it[s \ {x}]
  PROVE  \A s \in SUBSET S : it[s] = SumFunctionOnSet(w, s)
<1>. DEFINE Bad == {T \in SUBSET S : it[T] # SumFunctionOnSet(w, T)}
<1>. SUFFICES ASSUME Bad # {} PROVE FALSE
  OBVIOUS
<1>1. PICK T \in Bad : \A U \in SUBSET T : U # T => U \notin Bad
  <2>1. Bad \subseteq SUBSET S
    OBVIOUS
  <2>. HIDE DEF Bad
  <2>. QED  BY <2>1, MinimalSubset
<1>2. T # {} /\ IsFiniteSet(T) /\ T \in SUBSET S
  BY <1>1, SumEmpty, FS_Subset
<1>3. PICK x \in T : it[T] = w[x] + it[T \ {x}]
  BY <1>2
<1>4. it[T \ {x}] = SumFunctionOnSet(w, T \ {x})
  BY <1>1, <1>2
<1>5. SumFunctionOnSet(w, T) = w[x] + SumFunctionOnSet(w, T \ {x})
  BY <1>2, SumRemove
<1>. QED  BY <1>1, <1>3, <1>4, <1>5

(* Two weights that agree, element for element under a one-to-one map, have  *)
(* the same sum.                                                             *)
LEMMA SumMap ==
  ASSUME NEW S, NEW R, IsFiniteSet(S), IsFiniteSet(R), NEW w, NEW v, NEW h,
         \A x \in S : w[x] \in Int, \A y \in R : v[y] \in Int,
         \A x \in S : h[x] \in R /\ v[h[x]] = w[x],
         \A x, y \in S : h[x] = h[y] => x = y,
         \A y \in R : \E x \in S : h[x] = y
  PROVE  SumFunctionOnSet(w, S) = SumFunctionOnSet(v, R)
<1>. DEFINE Onto(T) == {h[x] : x \in T}
            Bad == {T \in SUBSET S : SumFunctionOnSet(w, T) # SumFunctionOnSet(v, Onto(T))}
<1>. SUFFICES ASSUME Bad # {} PROVE FALSE
  <2>1. Onto(S) = R
    OBVIOUS
  <2>2. S \notin Bad
    OBVIOUS
  <2>. QED  BY <2>1, <2>2
<1>1. PICK T \in Bad : \A U \in SUBSET T : U # T => U \notin Bad
  <2>1. Bad \subseteq SUBSET S
    OBVIOUS
  <2>. HIDE DEF Bad
  <2>. QED  BY <2>1, MinimalSubset
<1>2. T \in SUBSET S /\ IsFiniteSet(T) /\ Onto(T) \subseteq R /\ IsFiniteSet(Onto(T))
  <2>1. Onto(T) \in SUBSET R
    BY <1>1
  <2>. HIDE DEF Onto
  <2>. QED  BY <1>1, <2>1, FS_Subset
<1>3. T # {}
  <2>1. Onto({}) = {}
    OBVIOUS
  <2>. QED  BY <1>1, <2>1, SumEmpty
<1>4. PICK x \in T : TRUE
  BY <1>3
<1>5. Onto(T \ {x}) = Onto(T) \ {h[x]} /\ h[x] \in Onto(T)
  BY <1>2
<1>6. SumFunctionOnSet(w, T \ {x}) = SumFunctionOnSet(v, Onto(T \ {x}))
  BY <1>1, <1>4
<1>. HIDE DEF Onto
<1>7. SumFunctionOnSet(w, T) = w[x] + SumFunctionOnSet(w, T \ {x})
  BY <1>2, SumRemove
<1>8. SumFunctionOnSet(v, Onto(T)) = v[h[x]] + SumFunctionOnSet(v, Onto(T) \ {h[x]})
  BY <1>2, <1>5, SumRemove
<1>. QED  BY <1>1, <1>2, <1>5, <1>6, <1>7, <1>8

LEMMA SumSame ==
  ASSUME NEW S, IsFiniteSet(S), NEW w, NEW v, \A x \in S : w[x] \in Int /\ v[x] = w[x]
  PROVE  SumFunctionOnSet(w, S) = SumFunctionOnSet(v, S)
<1>. DEFINE h == [x \in S |-> x]
<1>1. /\ \A x \in S : h[x] \in S /\ v[h[x]] = w[x]
      /\ \A x, y \in S : h[x] = h[y] => x = y
      /\ \A y \in S : \E x \in S : h[x] = y
  OBVIOUS
<1>2. (\A x \in S : w[x] \in Int) /\ (\A y \in S : v[y] \in Int)
  OBVIOUS
<1>. HIDE DEF h
<1>. QED  BY ONLY <1>1, <1>2, SumMap, IsFiniteSet(S)

(* Of finitely many integers one is the largest.                             *)
LEMMA Highest ==
  ASSUME NEW S, IsFiniteSet(S), S # {}, NEW f, \A v \in S : f[v] \in Int
  PROVE  \E v \in S : \A w \in S : f[w] <= f[v]
<1>. DEFINE Tops(T) == {v \in T : \A w \in T : f[w] <= f[v]}
            Bad == {T \in SUBSET S : T # {} /\ Tops(T) = {}}
<1>. SUFFICES ASSUME Bad # {} PROVE FALSE
  OBVIOUS
<1>1. PICK T \in Bad : \A U \in SUBSET T : U # T => U \notin Bad
  <2>1. Bad \subseteq SUBSET S
    OBVIOUS
  <2>. HIDE DEF Bad
  <2>. QED  BY <2>1, MinimalSubset
<1>2. PICK x \in T : TRUE
  BY <1>1
<1>3. T \ {x} \in SUBSET T /\ T \ {x} # T /\ \A w \in T : f[w] \in Int
  BY <1>1, <1>2
<1>4. CASE T \ {x} = {}
  <2>1. \A w \in T : w = x
    BY <1>4
  <2>2. x \in Tops(T)
    BY <1>2, <1>3, <2>1
  <2>. QED  BY <1>1, <2>2
<1>5. CASE T \ {x} # {}
  <2>1. Tops(T \ {x}) # {}
    BY <1>1, <1>3, <1>5
  <2>2. PICK y \in T \ {x} : \A w \in T \ {x} : f[w] <= f[y]
    BY <2>1
  <2>3. CASE f[x] <= f[y]
    <3>1. y \in Tops(T)
      BY <2>2, <2>3
    <3>. QED  BY <1>1, <3>1
  <2>4. CASE ~(f[x] <= f[y])
    <3>1. x \in Tops(T)
      BY <1>2, <1>3, <2>2, <2>4
    <3>. QED  BY <1>1, <3>1
  <2>. QED  BY <2>3, <2>4
<1>. QED  BY <1>4, <1>5

(* A sum over two sets with nothing in common.                               *)
LEMMA SumUnion ==
  ASSUME NEW w, NEW S, NEW R, IsFiniteSet(S), IsFiniteSet(R), S \cap R = {},
         \A x \in S \cup R : w[x] \in Int
  PROVE  SumFunctionOnSet(w, S \cup R) = SumFunctionOnSet(w, S) + SumFunctionOnSet(w, R)
<1>. DEFINE Bad == {T \in SUBSET R : SumFunctionOnSet(w, S \cup T)
                                     # SumFunctionOnSet(w, S) + SumFunctionOnSet(w, T)}
<1>. SUFFICES ASSUME Bad # {} PROVE FALSE
  OBVIOUS
<1>1. PICK T \in Bad : \A U \in SUBSET T : U # T => U \notin Bad
  <2>1. Bad \subseteq SUBSET R
    OBVIOUS
  <2>. HIDE DEF Bad
  <2>. QED  BY <2>1, MinimalSubset
<1>2. /\ T \in SUBSET R /\ IsFiniteSet(T)
      /\ SumFunctionOnSet(w, S \cup T) # SumFunctionOnSet(w, S) + SumFunctionOnSet(w, T)
  BY <1>1, FS_Subset
<1>3. SumFunctionOnSet(w, S) \in Int
  BY SumInt
<1>4. T # {}
  <2>1. S \cup {} = S
    OBVIOUS
  <2>. QED  BY <1>2, <1>3, <2>1, SumEmpty
<1>5. PICK x \in T : TRUE
  BY <1>4
<1>. DEFINE U == T \ {x}
<1>6. U \in SUBSET T /\ U # T /\ IsFiniteSet(U)
  BY <1>2, <1>5, FS_Subset
<1>7. SumFunctionOnSet(w, S \cup U) = SumFunctionOnSet(w, S) + SumFunctionOnSet(w, U)
  BY <1>1, <1>2, <1>6
<1>8. SumFunctionOnSet(w, T) = w[x] + SumFunctionOnSet(w, U)
  BY <1>2, <1>5, SumRemove
<1>9. SumFunctionOnSet(w, S \cup T) = w[x] + SumFunctionOnSet(w, S \cup U)
  <2>1. (S \cup T) \ {x} = S \cup U /\ x \in S \cup T
    BY <1>2, <1>5
  <2>2. IsFiniteSet(S \cup T) /\ \A y \in S \cup T : w[y] \in Int
    BY <1>2, FS_Union
  <2>. HIDE DEF U
  <2>3. SumFunctionOnSet(w, S \cup T) = w[x] + SumFunctionOnSet(w, (S \cup T) \ {x})
    BY <2>1, <2>2, SumRemove
  <2>. QED  BY <2>1, <2>3
<1>10. w[x] \in Int /\ SumFunctionOnSet(w, U) \in Int
  BY <1>2, <1>5, <1>6, SumInt
<1>. QED  BY <1>2, <1>3, <1>7, <1>8, <1>9, <1>10

(* Term by term no larger, in all no larger.                                 *)
LEMMA SumMono ==
  ASSUME NEW S, IsFiniteSet(S), NEW w, NEW v,
         \A x \in S : w[x] \in Int /\ v[x] \in Int /\ w[x] <= v[x]
  PROVE  SumFunctionOnSet(w, S) <= SumFunctionOnSet(v, S)
<1>. DEFINE Bad == {T \in SUBSET S : ~(SumFunctionOnSet(w, T) <= SumFunctionOnSet(v, T))}
<1>. SUFFICES ASSUME Bad # {} PROVE FALSE
  OBVIOUS
<1>1. PICK T \in Bad : \A U \in SUBSET T : U # T => U \notin Bad
  <2>1. Bad \subseteq SUBSET S
    OBVIOUS
  <2>. HIDE DEF Bad
  <2>. QED  BY <2>1, MinimalSubset
<1>2. /\ T \in SUBSET S /\ IsFiniteSet(T)
      /\ ~(SumFunctionOnSet(w, T) <= SumFunctionOnSet(v, T))
  BY <1>1, FS_Subset
<1>3. T # {}
  BY <1>2, SumEmpty
<1>4. PICK x \in T : TRUE
  BY <1>3
<1>. DEFINE U == T \ {x}
<1>5. U \in SUBSET T /\ U # T /\ IsFiniteSet(U)
  BY <1>2, <1>4, FS_Subset
<1>6. SumFunctionOnSet(w, U) <= SumFunctionOnSet(v, U)
  BY <1>1, <1>2, <1>5
<1>7. SumFunctionOnSet(w, T) = w[x] + SumFunctionOnSet(w, U)
  BY <1>2, <1>4, SumRemove
<1>8. SumFunctionOnSet(v, T) = v[x] + SumFunctionOnSet(v, U)
  BY <1>2, <1>4, SumRemove
<1>9. SumFunctionOnSet(w, U) \in Int /\ SumFunctionOnSet(v, U) \in Int
  BY <1>2, <1>5, SumInt
<1>10. w[x] \in Int /\ v[x] \in Int /\ w[x] <= v[x]
  BY <1>2, <1>4
<1>. QED  BY <1>2, <1>6, <1>7, <1>8, <1>9, <1>10

(* A common factor comes out of the sum.                                     *)
LEMMA SumScale ==
  ASSUME NEW S, IsFiniteSet(S), NEW w, NEW v, NEW m \in Int,
         \A x \in S : w[x] \in Int /\ v[x] = m * w[x]
  PROVE  SumFunctionOnSet(v, S) = m * SumFunctionOnSet(w, S)
<1>. DEFINE Bad == {T \in SUBSET S : SumFunctionOnSet(v, T) # m * SumFunctionOnSet(w, T)}
<1>. SUFFICES ASSUME Bad # {} PROVE FALSE
  OBVIOUS
<1>1. PICK T \in Bad : \A U \in SUBSET T : U # T => U \notin Bad
  <2>1. Bad \subseteq SUBSET S
    OBVIOUS
  <2>. HIDE DEF Bad
  <2>. QED  BY <2>1, MinimalSubset
<1>2. /\ T \in SUBSET S /\ IsFiniteSet(T)
      /\ SumFunctionOnSet(v, T) # m * SumFunctionOnSet(w, T)
  BY <1>1, FS_Subset
<1>3. T # {}
  <2>1. m * 0 = 0
    OBVIOUS
  <2>. QED  BY <1>2, <2>1, SumEmpty
<1>4. PICK x \in T : TRUE
  BY <1>3
<1>. DEFINE U == T \ {x}
<1>5. U \in SUBSET T /\ U # T /\ IsFiniteSet(U)
  BY <1>2, <1>4, FS_Subset
<1>6. SumFunctionOnSet(v, U) = m * SumFunctionOnSet(w, U)
  BY <1>1, <1>2, <1>5
<1>7. SumFunctionOnSet(w, T) = w[x] + SumFunctionOnSet(w, U)
  BY <1>2, <1>4, SumRemove
<1>8. \A y \in S : v[y] \in Int
  OBVIOUS
<1>9. SumFunctionOnSet(v, T) = v[x] + SumFunctionOnSet(v, U)
  BY <1>2, <1>4, <1>8, SumRemove
<1>10. SumFunctionOnSet(w, U) \in Int
  BY <1>2, <1>5, SumInt
<1>11. w[x] \in Int /\ v[x] = m * w[x]
  BY <1>2, <1>4
<1>. DEFINE a == w[x]
            b == SumFunctionOnSet(w, U)
<1>12. m * a + m * b = m * (a + b)
  <2>. HIDE DEF a, b
  <2>. QED  BY <1>10, <1>11, Z3 DEF a, b
<1>. QED  BY <1>2, <1>6, <1>7, <1>9, <1>11, <1>12

------------------------------------------------------------------------------
(* Folds of any kind over a finite set, the step g and the choice p of the   *)
(* next element given as functions: there is one, and it stays in Acc if     *)
(* every step does.                                                          *)
FoldBody(it, s, c, p, g) == IF s = {} THEN c ELSE g[<<p[s], it[s \ {p[s]}]>>]
IsFold(it, S, c, p, g) == it = [s \in SUBSET S |-> FoldBody(it, s, c, p, g)]
FoldOf(S, c, p, g) == CHOOSE it : IsFold(it, S, c, p, g)

LEMMA FoldUnique ==
  ASSUME NEW S, IsFiniteSet(S), NEW c, NEW p, NEW g, NEW a, NEW b,
         \A s \in SUBSET S : s # {} => p[s] \in s,
         IsFold(a, S, c, p, g), IsFold(b, S, c, p, g)
  PROVE  \A s \in SUBSET S : a[s] = b[s]
<1>. DEFINE Bad == {s \in SUBSET S : a[s] # b[s]}
<1>. SUFFICES ASSUME Bad # {} PROVE FALSE
  OBVIOUS
<1>1. PICK T \in Bad : \A U \in SUBSET T : U # T => U \notin Bad
  <2>1. Bad \subseteq SUBSET S
    OBVIOUS
  <2>. HIDE DEF Bad
  <2>. QED  BY <2>1, MinimalSubset
<1>2. T \in SUBSET S /\ a[T] # b[T]
  BY <1>1
<1>3. a[T] = FoldBody(a, T, c, p, g) /\ b[T] = FoldBody(b, T, c, p, g)
  BY <1>2 DEF IsFold
<1>4. T # {}
  BY <1>2, <1>3 DEF FoldBody
<1>5. p[T] \in T
  BY <1>2, <1>4
<1>6. a[T \ {p[T]}] = b[T \ {p[T]}]
  BY <1>1, <1>2, <1>5
<1>. QED  BY <1>2, <1>3, <1>6 DEF FoldBody

LEMMA FoldRestricts ==
  ASSUME NEW S, NEW T \in SUBSET S, NEW c, NEW p, NEW g, NEW a, IsFold(a, S, c, p, g),
         NEW b, b = [s \in SUBSET T |-> a[s]]
  PROVE  IsFold(b, T, c, p, g)
<1>1. ASSUME NEW s \in SUBSET T PROVE a[s] = FoldBody(b, s, c, p, g)
  <2>1. a[s] = FoldBody(a, s, c, p, g)
    BY DEF IsFold
  <2>2. s \ {p[s]} \in SUBSET T
    OBVIOUS
  <2>. QED  BY <2>1, <2>2 DEF FoldBody
<1>. QED  BY <1>1 DEF IsFold

LEMMA FoldExists ==
  ASSUME NEW S, IsFiniteSet(S), NEW c, NEW p, NEW g,
         \A s \in SUBSET S : s # {} => p[s] \in s
  PROVE  IsFold(FoldOf(S, c, p, g), S, c, p, g)
<1>. DEFINE Val(s) == FoldOf(s, c, p, g)[s]
            Bad == {T \in SUBSET S : ~IsFold(FoldOf(T, c, p, g), T, c, p, g)}
<1>. SUFFICES ASSUME Bad # {} PROVE FALSE
  OBVIOUS
<1>1. PICK T \in Bad : \A U \in SUBSET T : U # T => U \notin Bad
  <2>1. Bad \subseteq SUBSET S
    OBVIOUS
  <2>. HIDE DEF Bad
  <2>. QED  BY <2>1, MinimalSubset
<1>2. T \in SUBSET S /\ ~IsFold(FoldOf(T, c, p, g), T, c, p, g)
  BY <1>1
<1>3. \A U \in SUBSET T : U # T => IsFold(FoldOf(U, c, p, g), U, c, p, g)
  BY <1>1, <1>2
<1>. DEFINE it == [s \in SUBSET T |-> IF s = {} THEN c ELSE g[<<p[s], Val(s \ {p[s]})>>]]
<1>4. ASSUME NEW s \in SUBSET T, s # T PROVE it[s] = Val(s)
  <2>1. IsFold(FoldOf(s, c, p, g), s, c, p, g)
    BY <1>3, <1>4
  <2>2. Val(s) = FoldBody(FoldOf(s, c, p, g), s, c, p, g)
    BY <2>1 DEF IsFold
  <2>3. CASE s = {}
    BY <2>2, <2>3 DEF FoldBody
  <2>4. CASE s # {}
    <3>. DEFINE u == s \ {p[s]}
    <3>1. p[s] \in s
      BY <1>2, <2>4
    <3>2. u \in SUBSET s /\ u \in SUBSET T /\ u # T /\ IsFiniteSet(u) /\ u \in SUBSET S
      BY <1>2, <1>4, <3>1, FS_Subset
    <3>3. IsFold(FoldOf(u, c, p, g), u, c, p, g)
      BY <1>3, <3>2
    <3>. DEFINE f == FoldOf(s, c, p, g)
                b == [r \in SUBSET u |-> f[r]]
    <3>4. IsFold(b, u, c, p, g)
      <4>1. IsFold(f, s, c, p, g)
        BY <2>1
      <4>2. b = [r \in SUBSET u |-> f[r]]
        OBVIOUS
      <4>3. u \in SUBSET s
        BY <3>2
      <4>. HIDE DEF u, f, b
      <4>. QED  BY ONLY <4>1, <4>2, <4>3, FoldRestricts
    <3>5. \A r \in SUBSET u : r # {} => p[r] \in r
      BY <3>2
    <3>6. FoldOf(s, c, p, g)[u] = FoldOf(u, c, p, g)[u]
      <4>1. b[u] = f[u]
        OBVIOUS
      <4>2. b[u] = FoldOf(u, c, p, g)[u]
        <5>. HIDE DEF u, b, f
        <5>. QED  BY <3>2, <3>3, <3>4, <3>5, FoldUnique
      <4>. QED  BY <4>1, <4>2
    <3>. QED  BY <2>2, <2>4, <3>6 DEF FoldBody
  <2>. QED  BY <2>3, <2>4
<1>5. ASSUME NEW s \in SUBSET T PROVE it[s] = FoldBody(it, s, c, p, g)
  <2>1. CASE s = {}
    BY <2>1 DEF FoldBody
  <2>2. CASE s # {}
    <3>1. s \ {p[s]} \in SUBSET T /\ s \ {p[s]} # T
      BY <1>2, <2>2
    <3>2. it[s \ {p[s]}] = Val(s \ {p[s]})
      BY <1>4, <3>1
    <3>. QED  BY <2>2, <3>2 DEF FoldBody
  <2>. QED  BY <2>1, <2>2
<1>6. IsFold(it, T, c, p, g)
  <2>1. it = [s \in SUBSET T |-> it[s]]
    OBVIOUS
  <2>. HIDE DEF it
  <2>. QED  BY <1>5, <2>1 DEF IsFold
<1>7. IsFold(FoldOf(T, c, p, g), T, c, p, g)
  BY <1>6 DEF FoldOf
<1>. QED  BY <1>2, <1>7

LEMMA FoldTyped ==
  ASSUME NEW S, IsFiniteSet(S), NEW Acc, NEW c \in Acc, NEW p, NEW g \in [S \X Acc -> Acc],
         \A s \in SUBSET S : s # {} => p[s] \in s,
         NEW it, IsFold(it, S, c, p, g)
  PROVE  \A s \in SUBSET S : it[s] \in Acc
<1>. DEFINE Bad == {s \in SUBSET S : it[s] \notin Acc}
<1>. SUFFICES ASSUME Bad # {} PROVE FALSE
  OBVIOUS
<1>1. PICK T \in Bad : \A U \in SUBSET T : U # T => U \notin Bad
  <2>1. Bad \subseteq SUBSET S
    OBVIOUS
  <2>. HIDE DEF Bad
  <2>. QED  BY <2>1, MinimalSubset
<1>2. T \in SUBSET S /\ it[T] \notin Acc
  BY <1>1
<1>3. it[T] = FoldBody(it, T, c, p, g)
  BY <1>2 DEF IsFold
<1>4. T # {}
  BY <1>2, <1>3 DEF FoldBody
<1>5. p[T] \in T
  BY <1>2, <1>4
<1>6. it[T \ {p[T]}] \in Acc /\ p[T] \in S
  BY <1>1, <1>2, <1>5
<1>. QED  BY <1>2, <1>3, <1>4, <1>6 DEF FoldBody

(* A fold from the left over the indices 1..n, the highest taken last: its   *)
(* values on the prefixes follow each other.                                 *)
HighestIn(s) == CHOOSE x \in s : \A y \in s : x >= y

LEMMA HighestIsIn ==
  ASSUME NEW n \in Nat, NEW s \in SUBSET (1..n), s # {}
  PROVE  HighestIn(s) \in s /\ \A y \in s : HighestIn(s) >= y
<1>. DEFINE f == [i \in s |-> i]
<1>1. IsFiniteSet(s)
  <2>1. IsFiniteSet(1..n)
    BY FS_Interval
  <2>. QED  BY <2>1, FS_Subset
<1>2. \A v \in s : f[v] \in Int
  OBVIOUS
<1>3. PICK v \in s : \A w \in s : f[w] <= f[v]
  <2>. HIDE DEF f
  <2>. QED  BY <1>1, <1>2, Highest
<1>4. \A w \in s : v >= w
  BY <1>3
<1>. QED  BY <1>4 DEF HighestIn

IsLeftFold(it, n, c, g) ==
  it = [s \in SUBSET (1..n) |-> IF s = {} THEN c ELSE g[<<HighestIn(s), it[s \ {HighestIn(s)}]>>]]

LEMMA LeftFold ==
  ASSUME NEW n \in Nat, NEW Acc, NEW c \in Acc, NEW g \in [(1..n) \X Acc -> Acc]
  PROVE  \E it : /\ IsLeftFold(it, n, c, g)
                 /\ \A s \in SUBSET (1..n) : it[s] \in Acc
<1>. DEFINE S == 1..n
            p == [s \in SUBSET S |-> HighestIn(s)]
            it == FoldOf(S, c, p, g)
<1>1. IsFiniteSet(S)
  BY FS_Interval
<1>2. \A s \in SUBSET S : s # {} => p[s] \in s
  BY HighestIsIn
<1>3. IsFold(it, S, c, p, g)
  <2>. HIDE DEF S, p
  <2>. QED  BY <1>1, <1>2, FoldExists
<1>4. \A s \in SUBSET S : it[s] \in Acc
  <2>1. g \in [S \X Acc -> Acc]
    OBVIOUS
  <2>. HIDE DEF S, p, it
  <2>. QED  BY <1>1, <1>2, <1>3, <2>1, FoldTyped
<1>5. \A s \in SUBSET S : p[s] = HighestIn(s)
  OBVIOUS
<1>. HIDE DEF p, it, S
<1>6. it = [s \in SUBSET S |-> IF s = {} THEN c ELSE g[<<HighestIn(s), it[s \ {HighestIn(s)}]>>]]
  BY <1>3, <1>5 DEF IsFold, FoldBody
<1>. QED  BY <1>4, <1>6 DEF S, IsLeftFold

(* Of the interval 1..k the last is k, and what is left ends at k - 1.       *)
LEMMA HighestOfPrefix ==
  ASSUME NEW k \in Nat \ {0}
  PROVE  1..k # {} /\ HighestIn(1..k) = k /\ (1..k) \ {HighestIn(1..k)} = 1..(k - 1)
<1>1. k \in 1..k /\ 1..k \in SUBSET (1..k)
  OBVIOUS
<1>2. HighestIn(1..k) \in 1..k /\ HighestIn(1..k) >= k
  BY <1>1, HighestIsIn
<1>3. HighestIn(1..k) = k
  BY <1>2
<1>. QED  BY <1>1, <1>3

(* The first number at which something fails: the number before it does not. *)
LEMMA FirstBad ==
  ASSUME NEW n \in Nat, NEW Bad, Bad \subseteq 0..n, Bad # {}
  PROVE  \E k \in Bad : k \in 0..n /\ (k # 0 => k - 1 \in 0..n /\ k - 1 \notin Bad)
<1>. DEFINE f == [k \in Bad |-> -k]
<1>1. IsFiniteSet(Bad)
  <2>1. IsFiniteSet(0..n)
    BY FS_Interval
  <2>. QED  BY <2>1, FS_Subset
<1>2. \A k \in Bad : f[k] \in Int /\ f[k] = -k
  OBVIOUS
<1>3. PICK k \in Bad : \A j \in Bad : f[j] <= f[k]
  <2>. HIDE DEF f
  <2>. QED  BY <1>1, <1>2, Highest
<1>4. \A j \in Bad : k <= j
  BY <1>2, <1>3
<1>5. k # 0 => k - 1 \in 0..n /\ k - 1 \notin Bad
  BY <1>4
<1>. QED  BY <1>5

------------------------------------------------------------------------------
(* A fold seen as a run: what it holds after each of the n elements.         *)
IsRunOf(F, n, c, g) == F[0] = c /\ \A k \in 1..n : F[k] = g[<<k, F[k - 1]>>]

LEMMA RunTyped ==
  ASSUME NEW n \in Nat, NEW Acc, NEW c \in Acc, NEW g \in [(1..n) \X Acc -> Acc],
         NEW F, IsRunOf(F, n, c, g)
  PROVE  \A k \in 0..n : F[k] \in Acc
<1>. DEFINE Bad == {k \in 0..n : F[k] \notin Acc}
<1>. SUFFICES ASSUME Bad # {} PROVE FALSE
  OBVIOUS
<1>1. PICK k \in Bad : k \in 0..n /\ (k # 0 => k - 1 \in 0..n /\ k - 1 \notin Bad)
  <2>1. Bad \subseteq 0..n
    OBVIOUS
  <2>. HIDE DEF Bad
  <2>. QED  BY <2>1, FirstBad
<1>2. k # 0
  BY <1>1 DEF IsRunOf
<1>3. k \in 1..n /\ F[k - 1] \in Acc
  BY <1>1, <1>2
<1>4. F[k] = g[<<k, F[k - 1]>>]
  BY <1>3 DEF IsRunOf
<1>. QED  BY <1>1, <1>3, <1>4

(* Two runs that take the same steps are at the same place.                  *)
LEMMA RunsAgree ==
  ASSUME NEW n \in Nat, NEW c, NEW g, NEW h, NEW F, NEW H,
         IsRunOf(F, n, c, g), IsRunOf(H, n, c, h),
         \A k \in 1..n : g[<<k, F[k - 1]>>] = h[<<k, F[k - 1]>>]
  PROVE  \A k \in 0..n : F[k] = H[k]
<1>. DEFINE Bad == {k \in 0..n : F[k] # H[k]}
<1>. SUFFICES ASSUME Bad # {} PROVE FALSE
  OBVIOUS
<1>1. PICK k \in Bad : k \in 0..n /\ (k # 0 => k - 1 \in 0..n /\ k - 1 \notin Bad)
  <2>1. Bad \subseteq 0..n
    OBVIOUS
  <2>. HIDE DEF Bad
  <2>. QED  BY <2>1, FirstBad
<1>2. k # 0
  BY <1>1 DEF IsRunOf
<1>3. k \in 1..n /\ F[k - 1] = H[k - 1]
  BY <1>1, <1>2
<1>. QED  BY <1>1, <1>3 DEF IsRunOf

(* An iterator over the sets of indices that takes the steps of g as long as *)
(* it stays in Acc is a run on the prefixes.                                 *)
LEMMA IterIsRun ==
  ASSUME NEW n \in Nat, NEW Acc, NEW c \in Acc, NEW g \in [(1..n) \X Acc -> Acc],
         NEW it, it[{}] = c,
         \A s \in SUBSET (1..n) : s # {} /\ it[s \ {HighestIn(s)}] \in Acc
                                 => it[s] = g[<<HighestIn(s), it[s \ {HighestIn(s)}]>>],
         NEW F, F = [k \in 0..n |-> it[1..k]]
  PROVE  IsRunOf(F, n, c, g)
<1>1. F[0] = c
  <2>1. 1..0 = {} /\ 0 \in 0..n
    OBVIOUS
  <2>. QED  BY <2>1
<1>2. \A k \in 1..n : F[k - 1] \in Acc => F[k] = g[<<k, F[k - 1]>>]
  <2>. SUFFICES ASSUME NEW k \in 1..n, F[k - 1] \in Acc PROVE F[k] = g[<<k, F[k - 1]>>]
    OBVIOUS
  <2>1. 1..k \in SUBSET (1..n) /\ k \in Nat \ {0} /\ k - 1 \in 0..n /\ k \in 0..n
    OBVIOUS
  <2>2. 1..k # {} /\ HighestIn(1..k) = k /\ (1..k) \ {HighestIn(1..k)} = 1..(k - 1)
    BY <2>1, HighestOfPrefix
  <2>3. F[k - 1] = it[1..(k - 1)] /\ F[k] = it[1..k]
    BY <2>1
  <2>. QED  BY <2>1, <2>2, <2>3
<1>3. \A k \in 0..n : F[k] \in Acc
  <2>. DEFINE Bad == {k \in 0..n : F[k] \notin Acc}
  <2>. SUFFICES ASSUME Bad # {} PROVE FALSE
    OBVIOUS
  <2>1. PICK k \in Bad : k \in 0..n /\ (k # 0 => k - 1 \in 0..n /\ k - 1 \notin Bad)
    <3>1. Bad \subseteq 0..n
      OBVIOUS
    <3>. HIDE DEF Bad
    <3>. QED  BY <3>1, FirstBad
  <2>2. k # 0
    BY <1>1, <2>1
  <2>3. k \in 1..n /\ F[k - 1] \in Acc
    BY <2>1, <2>2
  <2>. QED  BY <1>2, <2>1, <2>3
<1>4. \A k \in 1..n : k - 1 \in 0..n
  OBVIOUS
<1>5. \A k \in 1..n : F[k] = g[<<k, F[k - 1]>>]
  BY <1>2, <1>3, <1>4
<1>. QED  BY <1>1, <1>5 DEF IsRunOf
==============================================================================
