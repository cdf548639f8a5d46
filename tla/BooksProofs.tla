----------------------------- MODULE BooksProofs -----------------------------
(* The records the system keeps beside its orders, and the folds and         *)
(* positions of its backtests, for every clock, entry, coin and series; then *)
(* the graveyard, the market lab's store and the ledger of picks.            *)
EXTENDS MCBooks, Sums

------------------------------------------------------------------------------
(* Nonces rise, for every number of salts.                                   *)

(* What the last nonce is good for: as long as it was handed on, it bounds   *)
(* all that are on the wire.                                                 *)
NonceInv ==
  /\ nlast \in Nat /\ nms \in Nat /\ nsent \in Seq(Nat) /\ nkept \in BOOLEAN
  /\ nkept => \A i \in DOMAIN nsent : nsent[i] <= nlast
  /\ NoncesRise

(* The next nonce is above the last one, whatever the clock shows.           *)
LEMMA NextIsAbove ==
  ASSUME NonceInv, NEW salt \in 0..(SALT_MOD - 1)
  PROVE  NextNonce(salt) \in Nat /\ NextNonce(salt) > nlast
<1>1. nms * SALT_MOD \in Nat
  BY NonceAssumption DEF NonceInv
<1>2. salt \in Nat
  BY NonceAssumption
<1>. DEFINE candidate == nms * SALT_MOD + salt
<1>3. candidate \in Nat
  BY <1>1, <1>2
<1>. HIDE DEF candidate
<1>4. NextNonce(salt) = IF candidate > nlast THEN candidate ELSE nlast + 1
  BY DEF NextNonce, candidate
<1>. QED  BY <1>3, <1>4 DEF NonceInv

(* One signed request: the new nonce goes to the end, above all others.      *)
LEMMA RequestInv ==
  ASSUME NonceInv, NEW salt \in 0..(SALT_MOD - 1), AuthHeader(salt)
  PROVE  NonceInv'
<1>. DEFINE new == NextNonce(salt)
<1>1. new \in Nat /\ new > nlast
  BY NextIsAbove
<1>2. nlast' = new /\ nsent' = Append(nsent, new) /\ nms' = nms /\ nkept' = nkept
  BY DEF AuthHeader
<1>. HIDE DEF new
<1>3. nsent' \in Seq(Nat) /\ Len(nsent') = Len(nsent) + 1
  BY <1>1, <1>2 DEF NonceInv
<1>4. \A i \in DOMAIN nsent' :
        \/ i \in DOMAIN nsent /\ nsent'[i] = nsent[i]
        \/ i = Len(nsent) + 1 /\ nsent'[i] = new
  BY <1>1, <1>2 DEF NonceInv
<1>5. nkept' => \A i \in DOMAIN nsent' : nsent'[i] <= nlast'
  BY <1>1, <1>2, <1>4 DEF NonceInv
<1>6. NoncesRise'
  <2>. SUFFICES ASSUME NEW i \in DOMAIN nsent', NEW j \in DOMAIN nsent', i < j, nkept'
                PROVE  nsent'[i] < nsent'[j]
    BY DEF NoncesRise
  <2>1. i \in DOMAIN nsent /\ nsent'[i] = nsent[i]
    BY <1>3, <1>4 DEF NonceInv
  <2>2. CASE j \in DOMAIN nsent /\ nsent'[j] = nsent[j]
    BY <1>2, <2>1, <2>2 DEF NonceInv, NoncesRise
  <2>3. CASE j = Len(nsent) + 1 /\ nsent'[j] = new
    <3>1. nsent[i] <= nlast /\ nsent[i] \in Nat
      BY <1>2, <2>1 DEF NonceInv
    <3>. QED  BY <1>1, <2>1, <2>3, <3>1 DEF NonceInv
  <2>. QED  BY <1>4, <2>2, <2>3
<1>. QED  BY <1>1, <1>2, <1>3, <1>5, <1>6 DEF NonceInv

LEMMA NextNonceInv == NonceInv /\ [NonceNext]_nvars => NonceInv'
<1>. SUFFICES ASSUME NonceInv, [NonceNext]_nvars PROVE NonceInv'
  OBVIOUS
<1>1. CASE \E salt \in 0..(SALT_MOD - 1) : AuthHeader(salt)
  BY <1>1, RequestInv
<1>2. ASSUME NEW p \in BOOLEAN, NonceRestart(p) PROVE NonceInv'
  BY <1>2 DEF NonceRestart, NonceInv, NoncesRise
<1>3. ASSUME NEW ms \in 1..MaxMs, NonceClock(ms) PROVE NonceInv'
  BY <1>3, NonceAssumption DEF NonceClock, NonceInv, NoncesRise
<1>4. CASE UNCHANGED nvars
  BY <1>4 DEF nvars, NonceInv, NoncesRise
<1>. QED  BY <1>1, <1>2, <1>3, <1>4 DEF NonceNext

LEMMA InitNonceInv == NonceInit => NonceInv
  BY DEF NonceInit, NonceInv, NoncesRise

(* No nonce is sent twice or out of order as long as every process is given  *)
(* the last one of the process before it (signer.py 37-42).                  *)
THEOREM NoncesNeverRepeat == NonceSpec => []NoncesRise
<1>1. NonceInv => NoncesRise
  BY DEF NonceInv
<1>. QED  BY <1>1, InitNonceInv, NextNonceInv, PTL DEF NonceSpec

------------------------------------------------------------------------------
(* The audit log: how a file is read, line after line.                       *)

LEMMA AppendIs ==
  ASSUME NEW S, NEW s \in Seq(S), NEW x \in S
  PROVE  /\ Len(s) \in Nat /\ s \in [1..Len(s) -> S]
         /\ Append(s, x) \in Seq(S) /\ Append(s, x) \in [1..(Len(s) + 1) -> S]
         /\ Len(Append(s, x)) = Len(s) + 1
         /\ (\A k \in 1..Len(s) : Append(s, x)[k] = s[k]) /\ Append(s, x)[Len(s) + 1] = x
<1>1. Len(s) \in Nat /\ s \in [1..Len(s) -> S]
  OBVIOUS
<1>2. Append(s, x) \in Seq(S) /\ Len(Append(s, x)) = Len(s) + 1
  OBVIOUS
<1>3. (\A k \in 1..Len(s) : Append(s, x)[k] = s[k]) /\ Append(s, x)[Len(s) + 1] = x
  OBVIOUS
<1>4. Append(s, x) \in [1..(Len(s) + 1) -> S]
  <2>1. \A t \in Seq(S) : t \in [1..Len(t) -> S]
    OBVIOUS
  <2>. QED  BY <1>2, <2>1
<1>. QED  BY <1>1, <1>2, <1>3, <1>4

AuditLines == [prev : Seq(Entries), entry : Entries, mac : Seq(Entries),
               state : {"whole", "torn", "unended", "spoilt"}]
Verdicts == [says : {"ok", "raises", "false"}, prev : Seq(Entries)]
Unread == [says |-> "ok", prev |-> GENESIS]
Verdict(file) == FoldLeft(CheckLine, Unread, file)

VerdictBody(it, s, file) ==
  IF s = {} THEN Unread ELSE CheckLine(it[s \ {HighestIn(s)}], file[HighestIn(s)])
VerdictIter(it, file) == it = [s \in SUBSET DOMAIN file |-> VerdictBody(it, s, file)]
VerdictFold(file) == CHOOSE it : VerdictIter(it, file)
VerdictStep(file, n) == [x \in (1..n) \X Verdicts |-> CheckLine(x[2], file[x[1]])]

LEMMA VerdictIsFold == ASSUME NEW file PROVE Verdict(file) = VerdictFold(file)[DOMAIN file]
  BY DEF Verdict, FoldLeft, MapThenFoldSet, Max, HighestIn, VerdictFold, VerdictIter, VerdictBody

LEMMA VerdictTyped ==
  ASSUME NEW v \in Verdicts, NEW line \in AuditLines PROVE CheckLine(v, line) \in Verdicts
  BY DEF CheckLine, Verdicts, AuditLines

LEMMA VerdictStepTyped ==
  ASSUME NEW n \in Nat, NEW file, \A k \in 1..n : file[k] \in AuditLines
  PROVE  VerdictStep(file, n) \in [(1..n) \X Verdicts -> Verdicts]
<1>1. \A x \in (1..n) \X Verdicts : x[1] \in 1..n /\ x[2] \in Verdicts
  OBVIOUS
<1>2. \A x \in (1..n) \X Verdicts : CheckLine(x[2], file[x[1]]) \in Verdicts
  BY <1>1, VerdictTyped
<1>. QED  BY <1>2 DEF VerdictStep

LEMMA UnreadTyped == Unread \in Verdicts
  BY DEF Unread, Verdicts, GENESIS

LEMMA VerdictRuns ==
  ASSUME NEW n \in Nat, NEW file \in [1..n -> AuditLines]
  PROVE  \E F : IsRunOf(F, n, Unread, VerdictStep(file, n)) /\ F[n] = Verdict(file)
<1>. DEFINE D == 1..n
            g == VerdictStep(file, n)
            it == VerdictFold(file)
            F == [k \in 0..n |-> it[1..k]]
<1>1. g \in [D \X Verdicts -> Verdicts] /\ Unread \in Verdicts
  BY VerdictStepTyped, UnreadTyped
<1>2. ASSUME NEW k \in D, NEW v \in Verdicts PROVE g[<<k, v>>] = CheckLine(v, file[k])
  BY DEF VerdictStep
<1>. HIDE DEF g
<1>3. PICK f : IsLeftFold(f, n, Unread, g) /\ \A s \in SUBSET D : f[s] \in Verdicts
  BY <1>1, LeftFold
<1>4. \A s \in SUBSET D : s # {} => HighestIn(s) \in D /\ s \ {HighestIn(s)} \in SUBSET D
  BY HighestIsIn
<1>5. DOMAIN file = D
  OBVIOUS
<1>6. VerdictIter(f, file)
  <2>1. f = [s \in SUBSET D |-> IF s = {} THEN Unread
                                ELSE g[<<HighestIn(s), f[s \ {HighestIn(s)}]>>]]
    BY <1>3 DEF IsLeftFold
  <2>2. \A s \in SUBSET D : f[s] = VerdictBody(f, s, file)
    BY <1>2, <1>3, <1>4, <2>1 DEF VerdictBody
  <2>3. f = [s \in SUBSET D |-> f[s]]
    BY <2>1
  <2>. HIDE DEF D
  <2>. QED  BY <1>5, <2>2, <2>3 DEF VerdictIter
<1>7. VerdictIter(it, file)
  BY <1>6 DEF VerdictFold
<1>. HIDE DEF it
<1>8. \A s \in SUBSET D : it[s] = VerdictBody(it, s, file)
  BY <1>5, <1>7 DEF VerdictIter
<1>9. it[{}] = Unread
  BY <1>8 DEF VerdictBody
<1>10. \A s \in SUBSET D : s # {} /\ it[s \ {HighestIn(s)}] \in Verdicts
                           => it[s] = g[<<HighestIn(s), it[s \ {HighestIn(s)}]>>]
  BY <1>2, <1>4, <1>8 DEF VerdictBody
<1>11. F = [k \in 0..n |-> it[1..k]] /\ F[n] = it[D]
  OBVIOUS
<1>12. IsRunOf(F, n, Unread, g)
  <2>. HIDE DEF F
  <2>. QED  BY <1>1, <1>9, <1>10, <1>11, IterIsRun
<1>. QED  BY <1>5, <1>11, <1>12, VerdictIsFold DEF g, it

LEMMA VerdictOfNone == Verdict(<<>>) = Unread
<1>1. PICK F : IsRunOf(F, 0, Unread, VerdictStep(<<>>, 0)) /\ F[0] = Verdict(<<>>)
  <2>1. <<>> \in [1..0 -> AuditLines] /\ 0 \in Nat
    OBVIOUS
  <2>. QED  BY <2>1, VerdictRuns
<1>. QED  BY <1>1 DEF IsRunOf

LEMMA VerdictOfAppend ==
  ASSUME NEW file \in Seq(AuditLines), NEW line \in AuditLines
  PROVE  Verdict(file) \in Verdicts /\ Verdict(Append(file, line)) = CheckLine(Verdict(file), line)
<1>. DEFINE n == Len(file)
            more == Append(file, line)
<1>1. /\ n \in Nat /\ n + 1 \in Nat /\ n + 1 \in 1..(n + 1)
      /\ file \in [1..n -> AuditLines] /\ more \in [1..(n + 1) -> AuditLines]
      /\ (\A k \in 1..n : more[k] = file[k]) /\ more[n + 1] = line
  BY AppendIs
<1>. HIDE DEF n, more
<1>2. PICK F : IsRunOf(F, n, Unread, VerdictStep(file, n)) /\ F[n] = Verdict(file)
  BY <1>1, VerdictRuns
<1>3. PICK H : IsRunOf(H, n + 1, Unread, VerdictStep(more, n + 1)) /\ H[n + 1] = Verdict(more)
  BY <1>1, VerdictRuns
<1>4. \A k \in 0..n : F[k] \in Verdicts
  <2>1. VerdictStep(file, n) \in [(1..n) \X Verdicts -> Verdicts]
    BY <1>1, VerdictStepTyped
  <2>. QED  BY <1>1, <1>2, <2>1, UnreadTyped, RunTyped
<1>5. \A k \in 0..n : F[k] = H[k]
  <2>1. IsRunOf(H, n, Unread, VerdictStep(more, n + 1))
    BY <1>1, <1>3 DEF IsRunOf
  <2>2. \A k \in 1..n : VerdictStep(file, n)[<<k, F[k - 1]>>]
                         = VerdictStep(more, n + 1)[<<k, F[k - 1]>>]
    <3>1. \A k \in 1..n : k - 1 \in 0..n /\ k \in 1..(n + 1)
      BY <1>1
    <3>. QED  BY <1>1, <1>4, <3>1 DEF VerdictStep
  <2>. QED  BY <1>1, <1>2, <2>1, <2>2, RunsAgree
<1>6. H[n + 1] = CheckLine(H[n], more[n + 1])
  <2>1. n + 1 - 1 = n /\ n \in 0..n
    BY <1>1
  <2>2. H[n] \in Verdicts
    BY <1>4, <1>5, <2>1
  <2>3. H[n + 1] = VerdictStep(more, n + 1)[<<n + 1, H[n]>>]
    BY <1>1, <1>3, <2>1 DEF IsRunOf
  <2>. QED  BY <1>1, <2>2, <2>3 DEF VerdictStep
<1>7. n \in 0..n
  BY <1>1
<1>. QED  BY <1>1, <1>2, <1>3, <1>4, <1>5, <1>6, <1>7 DEF more

------------------------------------------------------------------------------
(* Which of the acknowledged entries a file holds.                           *)

FindNext(said, n, line) == IF n < Len(said) /\ said[n + 1] = line.entry THEN n + 1 ELSE n
FoundIn(said, file) == FoldLeft(LAMBDA n, line : FindNext(said, n, line), 0, file)

LEMMA FoundIs == Found = FoundIn(audsaid, audfile)
  BY DEF Found, FoundIn, FindNext, FoldLeft, MapThenFoldSet

FoundBody(it, s, said, file) ==
  IF s = {} THEN 0 ELSE FindNext(said, it[s \ {HighestIn(s)}], file[HighestIn(s)])
FoundIter(it, said, file) == it = [s \in SUBSET DOMAIN file |-> FoundBody(it, s, said, file)]
FoundFold(said, file) == CHOOSE it : FoundIter(it, said, file)
FoundStep(said, file, n) ==
  [x \in (1..n) \X (0..Len(said)) |-> FindNext(said, x[2], file[x[1]])]

LEMMA FoundIsFold ==
  ASSUME NEW said, NEW file PROVE FoundIn(said, file) = FoundFold(said, file)[DOMAIN file]
  BY DEF FoundIn, FoldLeft, MapThenFoldSet, Max, HighestIn, FoundFold, FoundIter, FoundBody

LEMMA FoundTyped ==
  ASSUME NEW said \in Seq(Entries), NEW k \in 0..Len(said), NEW line
  PROVE  FindNext(said, k, line) \in 0..Len(said)
  BY DEF FindNext

LEMMA FoundStepTyped ==
  ASSUME NEW said \in Seq(Entries), NEW n \in Nat, NEW file
  PROVE  FoundStep(said, file, n) \in [(1..n) \X (0..Len(said)) -> 0..Len(said)]
<1>1. \A x \in (1..n) \X (0..Len(said)) : x[1] \in 1..n /\ x[2] \in 0..Len(said)
  OBVIOUS
<1>2. \A x \in (1..n) \X (0..Len(said)) : FindNext(said, x[2], file[x[1]]) \in 0..Len(said)
  BY <1>1, FoundTyped
<1>. QED  BY <1>2 DEF FoundStep

LEMMA FoundRuns ==
  ASSUME NEW said \in Seq(Entries), NEW n \in Nat, NEW file \in [1..n -> AuditLines]
  PROVE  \E F : /\ IsRunOf(F, n, 0, FoundStep(said, file, n)) /\ F[n] = FoundIn(said, file)
                /\ \A k \in 0..n : F[k] \in 0..Len(said)
<1>. DEFINE D == 1..n
            Acc == 0..Len(said)
            g == FoundStep(said, file, n)
            it == FoundFold(said, file)
            F == [k \in 0..n |-> it[1..k]]
<1>1. g \in [D \X Acc -> Acc] /\ 0 \in Acc
  <2>1. 0 \in Acc
    OBVIOUS
  <2>2. g \in [D \X Acc -> Acc]
    BY FoundStepTyped
  <2>. QED  BY <2>1, <2>2
<1>2. ASSUME NEW k \in D, NEW a \in Acc PROVE g[<<k, a>>] = FindNext(said, a, file[k])
  BY DEF FoundStep
<1>. HIDE DEF g, Acc
<1>3. PICK f : IsLeftFold(f, n, 0, g) /\ \A s \in SUBSET D : f[s] \in Acc
  BY <1>1, LeftFold
<1>4. \A s \in SUBSET D : s # {} => HighestIn(s) \in D /\ s \ {HighestIn(s)} \in SUBSET D
  BY HighestIsIn
<1>5. DOMAIN file = D
  OBVIOUS
<1>6. FoundIter(f, said, file)
  <2>1. f = [s \in SUBSET D |-> IF s = {} THEN 0
                                ELSE g[<<HighestIn(s), f[s \ {HighestIn(s)}]>>]]
    BY <1>3 DEF IsLeftFold
  <2>2. \A s \in SUBSET D : f[s] = FoundBody(f, s, said, file)
    BY <1>2, <1>3, <1>4, <2>1 DEF FoundBody
  <2>3. f = [s \in SUBSET D |-> f[s]]
    BY <2>1
  <2>. HIDE DEF D
  <2>. QED  BY <1>5, <2>2, <2>3 DEF FoundIter
<1>7. FoundIter(it, said, file)
  BY <1>6 DEF FoundFold
<1>. HIDE DEF it
<1>8. \A s \in SUBSET D : it[s] = FoundBody(it, s, said, file)
  BY <1>5, <1>7 DEF FoundIter
<1>9. it[{}] = 0
  BY <1>8 DEF FoundBody
<1>10. \A s \in SUBSET D : s # {} /\ it[s \ {HighestIn(s)}] \in Acc
                           => it[s] = g[<<HighestIn(s), it[s \ {HighestIn(s)}]>>]
  BY <1>2, <1>4, <1>8 DEF FoundBody
<1>11. F = [k \in 0..n |-> it[1..k]] /\ F[n] = it[D]
  OBVIOUS
<1>12. IsRunOf(F, n, 0, g)
  <2>. DEFINE none == 0
  <2>1. none \in Acc /\ it[{}] = none
    BY <1>1, <1>9
  <2>2. IsRunOf(F, n, none, g)
    <3>. HIDE DEF F, none
    <3>. QED  BY <1>1, <2>1, <1>10, <1>11, IterIsRun
  <2>. QED  BY <2>2
<1>13. \A k \in 0..n : F[k] \in Acc
  <2>. HIDE DEF F
  <2>. QED  BY <1>1, <1>12, RunTyped
<1>. QED  BY <1>5, <1>11, <1>12, <1>13, FoundIsFold DEF g, it, Acc

LEMMA FoundOfNone == ASSUME NEW said \in Seq(Entries) PROVE FoundIn(said, <<>>) = 0
<1>1. PICK F : IsRunOf(F, 0, 0, FoundStep(said, <<>>, 0)) /\ F[0] = FoundIn(said, <<>>)
  <2>1. <<>> \in [1..0 -> AuditLines] /\ 0 \in Nat
    OBVIOUS
  <2>. QED  BY <2>1, FoundRuns
<1>. QED  BY <1>1 DEF IsRunOf

LEMMA FoundOfAppend ==
  ASSUME NEW said \in Seq(Entries), NEW file \in Seq(AuditLines), NEW line \in AuditLines
  PROVE  /\ FoundIn(said, file) \in 0..Len(said)
         /\ FoundIn(said, Append(file, line)) = FindNext(said, FoundIn(said, file), line)
<1>. DEFINE n == Len(file)
            more == Append(file, line)
            Acc == 0..Len(said)
<1>1. /\ n \in Nat /\ n + 1 \in Nat /\ n + 1 \in 1..(n + 1)
      /\ file \in [1..n -> AuditLines] /\ more \in [1..(n + 1) -> AuditLines]
      /\ (\A k \in 1..n : more[k] = file[k]) /\ more[n + 1] = line
  BY AppendIs
<1>. HIDE DEF n, more
<1>2. PICK F : /\ IsRunOf(F, n, 0, FoundStep(said, file, n)) /\ F[n] = FoundIn(said, file)
               /\ \A k \in 0..n : F[k] \in Acc
  BY <1>1, FoundRuns
<1>3. PICK H : /\ IsRunOf(H, n + 1, 0, FoundStep(said, more, n + 1))
               /\ H[n + 1] = FoundIn(said, more)
  BY <1>1, FoundRuns
<1>. HIDE DEF Acc
<1>4. \A k \in 0..n : F[k] = H[k]
  <2>1. IsRunOf(H, n, 0, FoundStep(said, more, n + 1))
    BY <1>1, <1>3 DEF IsRunOf
  <2>2. \A k \in 1..n : FoundStep(said, file, n)[<<k, F[k - 1]>>]
                         = FoundStep(said, more, n + 1)[<<k, F[k - 1]>>]
    <3>1. \A k \in 1..n : k - 1 \in 0..n /\ k \in 1..(n + 1)
      BY <1>1
    <3>. QED  BY <1>1, <1>2, <3>1 DEF FoundStep, Acc
  <2>. QED  BY <1>1, <1>2, <2>1, <2>2, RunsAgree
<1>5. H[n + 1] = FindNext(said, H[n], more[n + 1])
  <2>1. n + 1 - 1 = n /\ n \in 0..n
    BY <1>1
  <2>2. H[n] \in Acc
    BY <1>2, <1>4, <2>1
  <2>3. H[n + 1] = FoundStep(said, more, n + 1)[<<n + 1, H[n]>>]
    BY <1>1, <1>3, <2>1 DEF IsRunOf
  <2>. QED  BY <1>1, <2>2, <2>3 DEF FoundStep, Acc
<1>6. n \in 0..n
  BY <1>1
<1>. QED  BY <1>1, <1>2, <1>3, <1>4, <1>5, <1>6 DEF more, Acc

(* With one entry more to look for, a file that held all of them holds all   *)
(* of them still.                                                            *)
LEMMA FoundOfMore ==
  ASSUME NEW said \in Seq(Entries), NEW e \in Entries, NEW file \in Seq(AuditLines),
         FoundIn(said, file) = Len(said)
  PROVE  FoundIn(Append(said, e), file) \in {Len(said), Len(said) + 1}
<1>. DEFINE n == Len(file)
            L == Len(said)
            more == Append(said, e)
<1>1. n \in Nat /\ L \in Nat /\ file \in [1..n -> AuditLines]
  OBVIOUS
<1>2. /\ more \in Seq(Entries) /\ Len(more) = L + 1
      /\ \A k \in 1..L : more[k] = said[k]
  BY AppendIs
<1>3. FoundIn(said, file) = L
  OBVIOUS
<1>. HIDE DEF n, L, more
<1>4. PICK F : /\ IsRunOf(F, n, 0, FoundStep(said, file, n)) /\ F[n] = FoundIn(said, file)
               /\ \A k \in 0..n : F[k] \in 0..L
  BY <1>1, FoundRuns DEF L
<1>5. PICK H : /\ IsRunOf(H, n, 0, FoundStep(more, file, n)) /\ H[n] = FoundIn(more, file)
               /\ \A k \in 0..n : H[k] \in 0..(L + 1)
  BY <1>1, <1>2, FoundRuns
<1>. DEFINE Same(k) == H[k] = F[k] \/ (F[k] = L /\ H[k] = L + 1)
            Bad == {k \in 0..n : ~Same(k)}
<1>6. ASSUME Bad # {} PROVE FALSE
  <2>1. PICK k \in Bad : k \in 0..n /\ (k # 0 => k - 1 \in 0..n /\ k - 1 \notin Bad)
    <3>1. Bad \subseteq 0..n
      OBVIOUS
    <3>. HIDE DEF Bad
    <3>. QED  BY <1>1, <1>6, <3>1, FirstBad
  <2>2. k # 0
    <3>1. F[0] = 0 /\ H[0] = 0
      BY <1>4, <1>5 DEF IsRunOf
    <3>2. Same(0)
      BY <3>1
    <3>3. ~Same(k)
      BY <2>1
    <3>. QED  BY <3>2, <3>3
  <2>3. k \in 1..n /\ k - 1 \in 0..n /\ Same(k - 1)
    BY <2>1, <2>2
  <2>4. F[k] = FindNext(said, F[k - 1], file[k])
    <3>1. F[k] = FoundStep(said, file, n)[<<k, F[k - 1]>>]
      BY <1>4, <2>3 DEF IsRunOf
    <3>2. F[k - 1] \in 0..Len(said)
      BY <1>4, <2>3 DEF L
    <3>. QED  BY <2>3, <3>1, <3>2 DEF FoundStep
  <2>5. H[k] = FindNext(more, H[k - 1], file[k])
    <3>1. H[k] = FoundStep(more, file, n)[<<k, H[k - 1]>>]
      BY <1>5, <2>3 DEF IsRunOf
    <3>2. H[k - 1] \in 0..Len(more)
      BY <1>2, <1>5, <2>3
    <3>. QED  BY <2>3, <3>1, <3>2 DEF FoundStep
  <2>. DEFINE a == F[k - 1]
              b == H[k - 1]
  <2>6. a \in 0..L /\ b \in 0..(L + 1) /\ (b = a \/ (a = L /\ b = L + 1))
    BY <1>4, <1>5, <2>3
  <2>7. Len(said) = L
    BY DEF L
  <2>. HIDE DEF a, b, Bad
  <2>8. a < L => more[a + 1] = said[a + 1]
    BY <1>1, <1>2, <2>6
  <2>9. Same(k)
    BY <1>1, <1>2, <2>4, <2>5, <2>6, <2>7, <2>8 DEF FindNext, a, b
  <2>. QED  BY <2>1, <2>9 DEF Bad
<1>7. n \in 0..n
  BY <1>1
<1>8. Same(n)
  BY <1>6, <1>7
<1>. QED  BY <1>3, <1>4, <1>5, <1>8 DEF L, more

------------------------------------------------------------------------------
(* The log the API makes for a sample, line after line.                      *)

SampleNext(f, e) == Append(f, Line(IF f = <<>> THEN GENESIS ELSE Last(f).mac, e))
SampleOf(entries) == FoldLeft(LAMBDA f, e : SampleNext(f, e), <<>>, entries)
SampleBody(it, s, entries) ==
  IF s = {} THEN <<>> ELSE SampleNext(it[s \ {HighestIn(s)}], entries[HighestIn(s)])
SampleIter(it, entries) == it = [s \in SUBSET DOMAIN entries |-> SampleBody(it, s, entries)]
SampleFold(entries) == CHOOSE it : SampleIter(it, entries)
SampleStep(entries, n) ==
  [x \in (1..n) \X Seq(AuditLines) |-> SampleNext(x[2], entries[x[1]])]

LEMMA SampleIsFold ==
  ASSUME NEW entries PROVE SampleOf(entries) = SampleFold(entries)[DOMAIN entries]
  BY DEF SampleOf, FoldLeft, MapThenFoldSet, Max, HighestIn, SampleFold, SampleIter, SampleBody

LEMMA LineTyped ==
  ASSUME NEW prev \in Seq(Entries), NEW e \in Entries
  PROVE  /\ Line(prev, e) \in AuditLines /\ Line(prev, e).prev = prev
         /\ Line(prev, e).entry = e /\ Line(prev, e).mac = Append(prev, e)
         /\ Line(prev, e).state = "whole"
<1>1. Append(prev, e) \in Seq(Entries)
  OBVIOUS
<1>. QED  BY <1>1 DEF Line, Seal, AuditLines

LEMMA LastIs ==
  ASSUME NEW S, NEW f \in Seq(S), f # <<>>
  PROVE  Len(f) \in 1..Len(f) /\ Last(f) = f[Len(f)] /\ Last(f) \in S
  BY DEF Last

LEMMA SampleTyped ==
  ASSUME NEW f \in Seq(AuditLines), NEW e \in Entries
  PROVE  SampleNext(f, e) \in Seq(AuditLines)
<1>. DEFINE prev == IF f = <<>> THEN GENESIS ELSE Last(f).mac
<1>1. prev \in Seq(Entries)
  <2>1. CASE f = <<>>
    BY <2>1 DEF GENESIS
  <2>2. CASE f # <<>>
    <3>1. Last(f) \in AuditLines
      BY <2>2, LastIs
    <3>. QED  BY <2>2, <3>1 DEF AuditLines
  <2>. QED  BY <2>1, <2>2
<1>2. SampleNext(f, e) = Append(f, Line(prev, e))
  BY DEF SampleNext
<1>. HIDE DEF prev
<1>3. Line(prev, e) \in AuditLines
  BY <1>1, LineTyped
<1>. QED  BY <1>2, <1>3, AppendIs

LEMMA SampleRuns ==
  ASSUME NEW n \in Nat, NEW entries \in [1..n -> Entries]
  PROVE  \E F : /\ IsRunOf(F, n, <<>>, SampleStep(entries, n)) /\ F[n] = SampleOf(entries)
                /\ \A k \in 0..n : F[k] \in Seq(AuditLines)
<1>. DEFINE D == 1..n
            Acc == Seq(AuditLines)
            g == SampleStep(entries, n)
            it == SampleFold(entries)
            F == [k \in 0..n |-> it[1..k]]
<1>1. g \in [D \X Acc -> Acc]
  <2>1. \A x \in D \X Acc : x[1] \in D /\ x[2] \in Acc
    OBVIOUS
  <2>2. \A x \in D \X Acc : SampleNext(x[2], entries[x[1]]) \in Acc
    BY <2>1, SampleTyped
  <2>. QED  BY <2>2 DEF SampleStep
<1>2. ASSUME NEW k \in D, NEW a \in Acc PROVE g[<<k, a>>] = SampleNext(a, entries[k])
  BY DEF SampleStep
<1>3. <<>> \in Acc
  OBVIOUS
<1>. HIDE DEF g, Acc
<1>4. PICK f : IsLeftFold(f, n, <<>>, g) /\ \A s \in SUBSET D : f[s] \in Acc
  BY <1>1, <1>3, LeftFold
<1>5. \A s \in SUBSET D : s # {} => HighestIn(s) \in D /\ s \ {HighestIn(s)} \in SUBSET D
  BY HighestIsIn
<1>6. DOMAIN entries = D
  OBVIOUS
<1>7. SampleIter(f, entries)
  <2>1. f = [s \in SUBSET D |-> IF s = {} THEN <<>>
                                ELSE g[<<HighestIn(s), f[s \ {HighestIn(s)}]>>]]
    BY <1>4 DEF IsLeftFold
  <2>2. \A s \in SUBSET D : f[s] = SampleBody(f, s, entries)
    BY <1>2, <1>4, <1>5, <2>1 DEF SampleBody
  <2>3. f = [s \in SUBSET D |-> f[s]]
    BY <2>1
  <2>. HIDE DEF D
  <2>. QED  BY <1>6, <2>2, <2>3 DEF SampleIter
<1>8. SampleIter(it, entries)
  BY <1>7 DEF SampleFold
<1>. HIDE DEF it
<1>9. \A s \in SUBSET D : it[s] = SampleBody(it, s, entries)
  BY <1>6, <1>8 DEF SampleIter
<1>10. it[{}] = <<>>
  BY <1>9 DEF SampleBody
<1>11. \A s \in SUBSET D : s # {} /\ it[s \ {HighestIn(s)}] \in Acc
                           => it[s] = g[<<HighestIn(s), it[s \ {HighestIn(s)}]>>]
  BY <1>2, <1>5, <1>9 DEF SampleBody
<1>12. F = [k \in 0..n |-> it[1..k]] /\ F[n] = it[D]
  OBVIOUS
<1>13. IsRunOf(F, n, <<>>, g)
  <2>. HIDE DEF F
  <2>. QED  BY <1>1, <1>3, <1>10, <1>11, <1>12, IterIsRun
<1>14. \A k \in 0..n : F[k] \in Acc
  <2>. HIDE DEF F
  <2>. QED  BY <1>1, <1>3, <1>13, RunTyped
<1>. QED  BY <1>6, <1>12, <1>13, <1>14, SampleIsFold DEF g, it, Acc

(* A sample is one line, or two of which the second is sealed on the first.  *)
LEMMA SampleIs ==
  ASSUME NEW n \in 1..2, NEW entries \in [1..n -> Entries],
         NEW one, one = Append(<<>>, Line(GENESIS, entries[1]))
  PROVE  SampleOf(entries) = IF n = 1 THEN one
                             ELSE Append(one, Line(Append(GENESIS, entries[1]), entries[2]))
<1>1. PICK F : /\ IsRunOf(F, n, <<>>, SampleStep(entries, n)) /\ F[n] = SampleOf(entries)
               /\ \A k \in 0..n : F[k] \in Seq(AuditLines)
  BY SampleRuns
<1>2. ASSUME NEW k \in 1..n PROVE F[k] = SampleNext(F[k - 1], entries[k])
  <2>1. F[k - 1] \in Seq(AuditLines)
    BY <1>1
  <2>2. F[k] = SampleStep(entries, n)[<<k, F[k - 1]>>]
    BY <1>1 DEF IsRunOf
  <2>. QED  BY <2>1, <2>2 DEF SampleStep
<1>3. F[0] = <<>>
  BY <1>1 DEF IsRunOf
<1>4. F[1] = one
  <2>1. F[1] = SampleNext(F[0], entries[1])
    <3>1. 1 \in 1..n /\ 1 - 1 = 0
      OBVIOUS
    <3>. QED  BY <1>2, <3>1
  <2>. QED  BY <1>3, <2>1 DEF SampleNext
<1>5. CASE n = 1
  BY <1>1, <1>4, <1>5
<1>6. CASE n = 2
  <2>1. F[2] = SampleNext(F[1], entries[2])
    <3>1. 2 \in 1..n /\ 2 - 1 = 1
      BY <1>6
    <3>. QED  BY <1>2, <3>1
  <2>2. entries[1] \in Entries /\ GENESIS \in Seq(Entries)
    BY DEF GENESIS
  <2>3. Line(GENESIS, entries[1]) \in AuditLines /\ Line(GENESIS, entries[1]).mac = Append(GENESIS, entries[1])
    BY <2>2, LineTyped
  <2>. DEFINE first == Line(GENESIS, entries[1])
  <2>4. one # <<>> /\ Last(one) = first
    <3>1. one = <<first>>
      OBVIOUS
    <3>. HIDE DEF first
    <3>. QED  BY <3>1 DEF Last
  <2>. QED  BY <1>1, <1>4, <1>6, <2>1, <2>3, <2>4 DEF SampleNext
<1>. QED  BY <1>5, <1>6

------------------------------------------------------------------------------
(* What a file that verifies is.                                             *)

IsOk(file) == Verdict(file).says = "ok"
Ents(file) == [k \in 1..Len(file) |-> file[k].entry]

(* It holds every acknowledged entry in its order, and every line is sealed  *)
(* over the entries so far.                                                  *)
Sound(said, file) ==
  IsOk(file) =>
    /\ FoundIn(said, file) = Len(said)
    /\ Verdict(file).prev = Ents(file)
    /\ \A i \in DOMAIN file : file[i].mac = [k \in 1..i |-> file[k].entry]

AuditTypes ==
  /\ audfile \in Seq(AuditLines) /\ audprev \in Seq(Entries) /\ audsaid \in Seq(Entries)
  /\ audup \in BOOLEAN /\ audslips \in BOOLEAN /\ audbad \in BOOLEAN
  /\ audtouched \in BOOLEAN /\ audsealed \in SUBSET Seq(Entries)

AllWhole(file) == \A i \in DOMAIN file : file[i].state = "whole"

(* Whose the seals in a file are: without the key nobody makes one more.     *)
MacsIn(sealed, file) == \A i \in DOMAIN file : file[i].mac \in sealed

Begins(h, said) == Len(h) <= Len(said) /\ \A k \in 1..Len(h) : h[k] = said[k]

(* As long as nothing slipped, what was sealed is the beginning of what was  *)
(* acknowledged, whoever changes the file.                                   *)
OneHistory ==
  ~audslips => audprev = audsaid /\ \A h \in audsealed : Begins(h, audsaid)

(* As long as nobody else touched the file either, it is all of it.          *)
Unslipped ==
  ~audslips => IsOk(audfile) /\ AllWhole(audfile) /\ audprev = Ents(audfile)

Untouched ==
  /\ Unslipped /\ Sound(audsaid, audfile)
  /\ audbad => ~IsOk(audfile)

AuditInv ==
  /\ AuditTypes /\ MacsIn(audsealed, audfile) /\ OneHistory
  /\ ~audtouched => Untouched

LEMMA VerifyIs == ASSUME NEW file PROVE VerifyChain(file) = Verdict(file).says
  BY DEF VerifyChain, Verdict, Unread

LEMMA CheckedOk ==
  ASSUME NEW v \in Verdicts, NEW line \in AuditLines, CheckLine(v, line).says = "ok"
  PROVE  /\ v.says = "ok" /\ line.state \notin {"torn", "spoilt"}
         /\ line.prev = v.prev /\ line.mac = Append(v.prev, line.entry)
         /\ CheckLine(v, line).prev = line.mac
  BY DEF CheckLine, Verdicts, AuditLines, Seal

LEMMA EntsOfAppend ==
  ASSUME NEW file \in Seq(AuditLines), NEW line \in AuditLines
  PROVE  /\ Ents(file) \in Seq(Entries)
         /\ Ents(Append(file, line)) = Append(Ents(file), line.entry)
<1>. DEFINE n == Len(file)
            more == Append(file, line)
<1>1. /\ n \in Nat /\ more \in Seq(AuditLines) /\ Len(more) = n + 1
      /\ (\A k \in 1..n : more[k] = file[k]) /\ more[n + 1] = line
  BY AppendIs
<1>2. \A k \in 1..n : file[k].entry \in Entries
  <2>1. \A k \in 1..n : file[k] \in AuditLines
    OBVIOUS
  <2>. QED  BY <2>1 DEF AuditLines
<1>3. Ents(file) \in Seq(Entries) /\ Len(Ents(file)) = n /\ \A k \in 1..n : Ents(file)[k] = file[k].entry
  BY <1>2 DEF Ents
<1>4. line.entry \in Entries
  BY DEF AuditLines
<1>. HIDE DEF n, more
<1>. DEFINE a == Append(Ents(file), line.entry)
            b == Ents(more)
<1>5. /\ a \in Seq(Entries) /\ Len(a) = n + 1 /\ a[n + 1] = line.entry
      /\ \A k \in 1..n : a[k] = file[k].entry
  BY <1>3, <1>4, AppendIs
<1>6. /\ b \in Seq(Entries) /\ Len(b) = n + 1
      /\ \A k \in 1..(n + 1) : b[k] = more[k].entry
  <2>1. \A k \in 1..(n + 1) : more[k].entry \in Entries
    <3>1. \A k \in 1..(n + 1) : more[k] \in AuditLines
      BY <1>1
    <3>. QED  BY <3>1 DEF AuditLines
  <2>. QED  BY <1>1, <2>1 DEF Ents
<1>7. \A k \in 1..(n + 1) : a[k] = b[k]
  BY <1>1, <1>5, <1>6
<1>8. a = b
  <2>. HIDE DEF a, b
  <2>. QED  BY <1>1, <1>5, <1>6, <1>7
<1>. QED  BY <1>3, <1>8 DEF more

(* A line more: it still verifies only if it did and the line fits.          *)
LEMMA OkOfAppend ==
  ASSUME NEW file \in Seq(AuditLines), NEW line \in AuditLines, IsOk(Append(file, line))
  PROVE  /\ IsOk(file) /\ line.prev = Verdict(file).prev
         /\ line.mac = Append(Verdict(file).prev, line.entry)
         /\ Verdict(Append(file, line)).prev = line.mac
  BY VerdictOfAppend, CheckedOk DEF IsOk

(* Every line of a file that verifies is sealed over the entries so far.     *)
LEMMA OkIsChain ==
  ASSUME NEW file \in Seq(AuditLines), IsOk(file)
  PROVE  /\ Verdict(file).prev = Ents(file)
         /\ \A i \in DOMAIN file : file[i].mac = [k \in 1..i |-> file[k].entry]
<1>. DEFINE n == Len(file)
            E(k) == [j \in 1..k |-> file[j].entry]
<1>1. n \in Nat /\ file \in [1..n -> AuditLines] /\ DOMAIN file = 1..n
  OBVIOUS
<1>2. \A k \in 1..n : file[k] \in AuditLines /\ file[k].entry \in Entries
  BY <1>1 DEF AuditLines
<1>3. Ents(file) = E(n)
  BY DEF Ents
<1>. HIDE DEF n
<1>4. PICK F : IsRunOf(F, n, Unread, VerdictStep(file, n)) /\ F[n] = Verdict(file)
  BY <1>1, VerdictRuns
<1>5. \A k \in 0..n : F[k] \in Verdicts
  <2>1. VerdictStep(file, n) \in [(1..n) \X Verdicts -> Verdicts]
    BY <1>1, <1>2, VerdictStepTyped
  <2>. QED  BY <1>1, <1>4, <2>1, UnreadTyped, RunTyped
<1>6. ASSUME NEW k \in 1..n PROVE k - 1 \in 0..n /\ F[k] = CheckLine(F[k - 1], file[k])
  <2>1. k - 1 \in 0..n
    BY <1>1
  <2>2. F[k] = VerdictStep(file, n)[<<k, F[k - 1]>>]
    BY <1>4 DEF IsRunOf
  <2>. QED  BY <1>5, <2>1, <2>2 DEF VerdictStep
<1>7. ASSUME NEW k \in 1..n PROVE E(k) = Append(E(k - 1), file[k].entry)
  <2>. DEFINE a == E(k - 1)
              x == file[k].entry
              b == Append(a, x)
  <2>1. k - 1 \in Nat /\ 1..(k - 1) \subseteq 1..n
    BY <1>1
  <2>2. a \in Seq(Entries) /\ Len(a) = k - 1 /\ \A j \in 1..(k - 1) : a[j] = file[j].entry
    BY <1>2, <2>1
  <2>3. x \in Entries
    BY <1>2
  <2>. HIDE DEF a, x
  <2>4. b \in [1..k -> Entries] /\ b[k] = x /\ \A j \in 1..(k - 1) : b[j] = a[j]
    <3>1. k - 1 + 1 = k
      BY <1>1
    <3>. QED  BY <2>2, <2>3, <3>1, AppendIs
  <2>5. \A j \in 1..k : b[j] = file[j].entry
    <3>1. \A j \in 1..k : j = k \/ j \in 1..(k - 1)
      BY <1>1
    <3>. QED  BY <2>2, <2>4, <3>1 DEF x
  <2>6. b = E(k)
    <3>. HIDE DEF b
    <3>. QED  BY <2>4, <2>5
  <2>. QED  BY <2>6 DEF a, x
<1>8. \A k \in 0..n : 1..k \subseteq 1..n
  BY <1>1
<1>9. E(0) = GENESIS
  <2>1. 1..0 = {}
    OBVIOUS
  <2>. QED  BY <2>1 DEF GENESIS
<1>. DEFINE Chained(k) == F[k].says = "ok" =>
                            F[k].prev = E(k) /\ \A i \in 1..k : file[i].mac = E(i)
            Bad == {k \in 0..n : ~Chained(k)}
<1>. HIDE DEF E
<1>10. ASSUME Bad # {} PROVE FALSE
  <2>1. PICK k \in Bad : k \in 0..n /\ (k # 0 => k - 1 \in 0..n /\ k - 1 \notin Bad)
    <3>1. Bad \subseteq 0..n
      OBVIOUS
    <3>. HIDE DEF Bad
    <3>. QED  BY <1>1, <1>10, <3>1, FirstBad
  <2>2. ~Chained(k)
    BY <2>1
  <2>3. k # 0
    <3>1. F[0].prev = GENESIS
      BY <1>4 DEF IsRunOf, Unread
    <3>2. \A i \in 1..0 : FALSE
      OBVIOUS
    <3>3. Chained(0)
      BY <1>9, <3>1, <3>2
    <3>. QED  BY <2>2, <3>3
  <2>4. k \in 1..n /\ k - 1 \in 0..n /\ Chained(k - 1)
    BY <2>1, <2>3
  <2>. HIDE DEF Bad
  <2>5. F[k].says = "ok"
    BY <2>2
  <2>6. /\ F[k - 1].says = "ok" /\ file[k].mac = Append(F[k - 1].prev, file[k].entry)
        /\ F[k].prev = file[k].mac
    <3>1. F[k - 1] \in Verdicts /\ file[k] \in AuditLines /\ F[k] = CheckLine(F[k - 1], file[k])
      BY <1>2, <1>5, <1>6, <2>4
    <3>. QED  BY <2>5, <3>1, CheckedOk
  <2>7. file[k].mac = E(k) /\ F[k].prev = E(k)
    BY <1>7, <2>4, <2>6
  <2>8. \A i \in 1..k : i = k \/ i \in 1..(k - 1)
    BY <2>4
  <2>9. \A i \in 1..k : file[i].mac = E(i)
    BY <2>4, <2>6, <2>7, <2>8
  <2>. QED  BY <2>2, <2>7, <2>9
<1>11. Chained(n)
  <2>1. n \in 0..n
    BY <1>1
  <2>. QED  BY <1>10, <2>1
<1>. QED  BY <1>1, <1>3, <1>4, <1>11 DEF E, IsOk

LEMMA ChainOfAppend ==
  ASSUME NEW file \in Seq(AuditLines), NEW line \in AuditLines, IsOk(Append(file, line))
  PROVE  /\ Verdict(Append(file, line)).prev = Ents(Append(file, line))
         /\ \A i \in DOMAIN Append(file, line) :
              Append(file, line)[i].mac = [k \in 1..i |-> Append(file, line)[k].entry]
<1>1. Append(file, line) \in Seq(AuditLines)
  BY AppendIs
<1>. QED  BY <1>1, OkIsChain

LEMMA WrittenIs ==
  ASSUME NEW file \in Seq(AuditLines), NEW line \in AuditLines
  PROVE  /\ Written(file, line) \in Seq(AuditLines)
         /\ IsOk(Written(file, line)) => Written(file, line) = Append(file, line)
         /\ AllWhole(file) => Written(file, line) = Append(file, line)
         /\ \A sealed : MacsIn(sealed, file) /\ line.mac \in sealed
                         => MacsIn(sealed, Written(file, line))
<1>1. CASE ~(file # <<>> /\ Last(file).state \in {"torn", "unended"})
  <2>1. Written(file, line) = Append(file, line)
    BY <1>1 DEF Written
  <2>2. ASSUME NEW sealed, MacsIn(sealed, file), line.mac \in sealed
        PROVE  MacsIn(sealed, Append(file, line))
    <3>1. /\ Len(file) \in Nat /\ Append(file, line) \in [1..(Len(file) + 1) -> AuditLines]
          /\ (\A k \in 1..Len(file) : Append(file, line)[k] = file[k])
          /\ Append(file, line)[Len(file) + 1] = line /\ DOMAIN file = 1..Len(file)
      BY AppendIs
    <3>2. \A k \in 1..(Len(file) + 1) : k = Len(file) + 1 \/ k \in 1..Len(file)
      BY <3>1
    <3>. QED  BY <2>2, <3>1, <3>2 DEF MacsIn
  <2>. QED  BY <2>1, <2>2, AppendIs
<1>2. CASE file # <<>> /\ Last(file).state \in {"torn", "unended"}
  <2>. DEFINE n == Len(file)
              x == IF line.state = "whole" THEN "spoilt" ELSE "torn"
              bad == [file[n] EXCEPT !.state = x]
              front == [k \in 1..(n - 1) |-> file[k]]
              w == Written(file, line)
  <2>1. n \in Nat \ {0} /\ n \in 1..n /\ Last(file) = file[n] /\ file[n] \in AuditLines
    BY <1>2, LastIs
  <2>2. w = [file EXCEPT ![n] = bad]
    BY <1>2 DEF Written
  <2>3. ~AllWhole(file)
    BY <1>2, <2>1 DEF AllWhole
  <2>4. bad \in AuditLines /\ bad.state \in {"torn", "spoilt"}
    BY <2>1 DEF AuditLines
  <2>. HIDE DEF bad, w
  <2>5. w \in Seq(AuditLines) /\ Len(w) = n /\ w[n] = bad /\ \A k \in 1..(n - 1) : w[k] = file[k]
    BY <2>1, <2>2, <2>4
  <2>6. /\ front \in Seq(AuditLines) /\ Len(front) = n - 1
        /\ \A k \in 1..(n - 1) : front[k] = file[k]
    BY <2>1
  <2>. HIDE DEF front, n
  <2>7. w = Append(front, bad)
    <3>. DEFINE a == Append(front, bad)
    <3>1. /\ a \in Seq(AuditLines) /\ Len(a) = n - 1 + 1 /\ a[n - 1 + 1] = bad
          /\ \A k \in 1..(n - 1) : a[k] = front[k]
      BY <2>4, <2>6, AppendIs
    <3>2. n - 1 + 1 = n
      BY <2>1
    <3>3. \A k \in 1..n : a[k] = w[k]
      BY <2>1, <2>5, <2>6, <3>1, <3>2
    <3>. HIDE DEF a
    <3>4. a = w
      BY <2>1, <2>5, <3>1, <3>2, <3>3
    <3>. QED  BY <3>4 DEF a
  <2>8. ~IsOk(w)
    <3>1. Verdict(w) = CheckLine(Verdict(front), bad) /\ Verdict(front) \in Verdicts
      BY <2>4, <2>6, <2>7, VerdictOfAppend
    <3>. QED  BY <2>4, <3>1, CheckedOk DEF IsOk
  <2>9. ASSUME NEW sealed, MacsIn(sealed, file) PROVE MacsIn(sealed, w)
    <3>1. bad.mac = file[n].mac
      BY <2>1 DEF bad, AuditLines
    <3>2. DOMAIN w = 1..n /\ DOMAIN file = 1..n
      BY <2>1, <2>5 DEF n
    <3>3. \A k \in 1..n : k = n \/ k \in 1..(n - 1)
      BY <2>1
    <3>. QED  BY <2>5, <2>9, <3>1, <3>2, <3>3 DEF MacsIn
  <2>. QED  BY <2>5, <2>8, <2>9, <2>3 DEF w
<1>. QED  BY <1>1, <1>2

(* A line that landed without an answer.                                     *)
LEMMA SoundWritten ==
  ASSUME NEW said \in Seq(Entries), NEW file \in Seq(AuditLines), NEW line \in AuditLines,
         Sound(said, file)
  PROVE  /\ Sound(said, Written(file, line))
         /\ IsOk(Written(file, line)) => IsOk(file)
<1>. SUFFICES ASSUME IsOk(Written(file, line))
              PROVE  Sound(said, Written(file, line)) /\ IsOk(file)
  BY DEF Sound
<1>1. Written(file, line) = Append(file, line)
  BY WrittenIs
<1>2. IsOk(file) /\ IsOk(Append(file, line))
  BY <1>1, OkOfAppend
<1>3. FoundIn(said, file) = Len(said) /\ Len(said) \in Nat
  BY <1>2 DEF Sound
<1>4. FoundIn(said, Append(file, line)) = Len(said)
  <2>1. FoundIn(said, Append(file, line)) = FindNext(said, FoundIn(said, file), line)
    BY FoundOfAppend
  <2>. QED  BY <1>3, <2>1 DEF FindNext
<1>5. Sound(said, Append(file, line))
  <2>1. /\ Verdict(Append(file, line)).prev = Ents(Append(file, line))
        /\ \A i \in DOMAIN Append(file, line) :
              Append(file, line)[i].mac = [k \in 1..i |-> Append(file, line)[k].entry]
    BY <1>2, ChainOfAppend
  <2>. QED  BY <1>4, <2>1 DEF Sound
<1>. QED  BY <1>1, <1>2, <1>5

(* A line that was acknowledged.                                             *)
LEMMA SoundRecorded ==
  ASSUME NEW said \in Seq(Entries), NEW file \in Seq(AuditLines), NEW prev \in Seq(Entries),
         NEW e \in Entries, Sound(said, file), IsOk(Append(file, Line(prev, e)))
  PROVE  Sound(Append(said, e), Append(file, Line(prev, e)))
<1>. DEFINE line == Line(prev, e)
            more == Append(said, e)
            L == Len(said)
<1>1. line \in AuditLines /\ line.entry = e
  BY LineTyped
<1>2. more \in Seq(Entries) /\ Len(more) = L + 1 /\ more[L + 1] = e /\ L \in Nat
  BY AppendIs
<1>3. IsOk(file)
  BY <1>1, OkOfAppend
<1>4. FoundIn(more, file) \in {L, L + 1}
  BY <1>3, FoundOfMore DEF Sound
<1>. HIDE DEF line, more, L
<1>5. FoundIn(more, Append(file, line)) = FindNext(more, FoundIn(more, file), line)
  BY <1>1, <1>2, FoundOfAppend
<1>6. FoundIn(more, Append(file, line)) = Len(more)
  BY <1>1, <1>2, <1>4, <1>5 DEF FindNext
<1>7. IsOk(Append(file, line))
  BY DEF line
<1>8. /\ Verdict(Append(file, line)).prev = Ents(Append(file, line))
      /\ \A i \in DOMAIN Append(file, line) :
            Append(file, line)[i].mac = [k \in 1..i |-> Append(file, line)[k].entry]
  BY <1>1, <1>7, ChainOfAppend
<1>9. Sound(more, Append(file, line))
  BY <1>6, <1>8 DEF Sound
<1>. QED  BY <1>9 DEF line, more

(* A line sealed on the last one.                                            *)
LEMMA OkOfNext ==
  ASSUME NEW file \in Seq(AuditLines), NEW prev \in Seq(Entries), NEW e \in Entries,
         IsOk(file), prev = Verdict(file).prev, AllWhole(file)
  PROVE  IsOk(Append(file, Line(prev, e))) /\ AllWhole(Append(file, Line(prev, e)))
<1>. DEFINE line == Line(prev, e)
            v == Verdict(file)
<1>1. /\ line \in AuditLines /\ line.prev = prev /\ line.entry = e
      /\ line.mac = Append(prev, e) /\ line.state = "whole"
  BY LineTyped
<1>2. v \in Verdicts /\ v.says = "ok" /\ v.prev = prev
  BY <1>1, VerdictOfAppend DEF IsOk
<1>3. Verdict(Append(file, line)) = CheckLine(v, line)
  BY <1>1, VerdictOfAppend
<1>. HIDE DEF line, v
<1>4. CheckLine(v, line).says = "ok"
  BY <1>1, <1>2 DEF CheckLine, Verdicts, AuditLines, Seal
<1>5. AllWhole(Append(file, line))
  <2>1. /\ Len(file) \in Nat /\ Len(Append(file, line)) = Len(file) + 1
        /\ Append(file, line) \in Seq(AuditLines)
        /\ (\A k \in 1..Len(file) : Append(file, line)[k] = file[k])
        /\ Append(file, line)[Len(file) + 1] = line
    BY <1>1, AppendIs
  <2>2. DOMAIN Append(file, line) = 1..(Len(file) + 1) /\ DOMAIN file = 1..Len(file)
    BY <2>1
  <2>3. ASSUME NEW k \in 1..(Len(file) + 1) PROVE Append(file, line)[k].state = "whole"
    <3>1. CASE k = Len(file) + 1
      BY <1>1, <2>1, <3>1
    <3>2. CASE k # Len(file) + 1
      <4>1. k \in 1..Len(file)
        BY <2>1, <3>2
      <4>. QED  BY <2>1, <2>2, <4>1 DEF AllWhole
    <3>. QED  BY <3>1, <3>2
  <2>. QED  BY <2>2, <2>3 DEF AllWhole
<1>. QED  BY <1>3, <1>4, <1>5 DEF IsOk, line

LEMMA NothingIsSound ==
  /\ IsOk(<<>>) /\ AllWhole(<<>>) /\ Sound(<<>>, <<>>)
  /\ Ents(<<>>) = GENESIS /\ Verdict(<<>>).prev = GENESIS
<1>1. Verdict(<<>>) = Unread
  BY VerdictOfNone
<1>2. IsOk(<<>>) /\ Verdict(<<>>).prev = GENESIS
  BY <1>1 DEF Unread, IsOk
<1>3. Ents(<<>>) = GENESIS
  <2>1. Len(<<>>) = 0 /\ 1..0 = {}
    OBVIOUS
  <2>. QED  BY <2>1 DEF Ents, GENESIS
<1>4. FoundIn(<<>>, <<>>) = Len(<<>>)
  <2>1. <<>> \in Seq(Entries) /\ Len(<<>>) = 0
    OBVIOUS
  <2>. QED  BY <2>1, FoundOfNone
<1>5. DOMAIN <<>> = {}
  OBVIOUS
<1>. QED  BY <1>2, <1>3, <1>4, <1>5 DEF Sound, AllWhole

------------------------------------------------------------------------------
(* The steps of the log.                                                     *)

LEMMA InitAuditInv == AuditInit => AuditInv
<1>. SUFFICES ASSUME AuditInit PROVE AuditInv
  OBVIOUS
<1>1. audfile = <<>> /\ audprev = GENESIS /\ audsaid = <<>> /\ audslips = FALSE /\ audbad = FALSE
      /\ audup \in BOOLEAN /\ audsealed = {} /\ audtouched = FALSE
  BY DEF AuditInit
<1>2. AuditTypes
  <2>1. <<>> \in Seq(AuditLines) /\ <<>> \in Seq(Entries)
    OBVIOUS
  <2>. QED  BY <1>1, <2>1 DEF AuditTypes, GENESIS
<1>3. MacsIn(audsealed, audfile) /\ OneHistory
  <2>1. DOMAIN <<>> = {}
    OBVIOUS
  <2>. QED  BY <1>1, <2>1 DEF MacsIn, OneHistory, GENESIS
<1>. QED  BY <1>1, <1>2, <1>3, NothingIsSound DEF AuditInv, Untouched, Unslipped

(* One entry more was acknowledged, and its seal made.                       *)
LEMMA BeginsOfMore ==
  ASSUME NEW said \in Seq(Entries), NEW e \in Entries
  PROVE  /\ Begins(Append(said, e), Append(said, e))
         /\ \A h \in Seq(Entries) : Begins(h, said) => Begins(h, Append(said, e))
<1>. DEFINE more == Append(said, e)
            L == Len(said)
<1>1. L \in Nat /\ Len(more) = L + 1 /\ \A k \in 1..L : more[k] = said[k]
  BY AppendIs
<1>. HIDE DEF more, L
<1>2. Begins(more, more)
  BY <1>1 DEF Begins
<1>3. ASSUME NEW h \in Seq(Entries), Begins(h, said) PROVE Begins(h, more)
  <2>1. Len(h) <= L /\ \A k \in 1..Len(h) : h[k] = said[k]
    BY <1>3 DEF Begins, L
  <2>. QED  BY <1>1, <2>1 DEF Begins
<1>. QED  BY <1>2, <1>3 DEF more

LEMMA RecordInv == ASSUME AuditInv, NEW e \in Entries, Record(e) PROVE AuditInv'
<1>. DEFINE line == Line(audprev, e)
<1>1. /\ audup /\ audfile' = Written(audfile, line) /\ audprev' = Append(audprev, e)
      /\ audsaid' = Append(audsaid, e) /\ audup' = audup /\ audslips' = audslips
      /\ audbad' = (audbad \/ ~IsOk(audfile'))
      /\ audsealed' = audsealed \cup {Append(audprev, e)} /\ audtouched' = audtouched
  BY VerifyIs DEF Record, Seal, IsOk
<1>2. AuditTypes /\ MacsIn(audsealed, audfile) /\ OneHistory
  BY DEF AuditInv
<1>3. /\ audfile \in Seq(AuditLines) /\ audprev \in Seq(Entries) /\ audsaid \in Seq(Entries)
      /\ audsealed \in SUBSET Seq(Entries)
  BY <1>2 DEF AuditTypes
<1>4. line \in AuditLines /\ line.mac = Append(audprev, e) /\ line.entry = e
  BY <1>3, LineTyped
<1>5. AuditTypes'
  <2>1. audprev' \in Seq(Entries) /\ audsaid' \in Seq(Entries) /\ audfile' \in Seq(AuditLines)
    BY <1>1, <1>3, <1>4, AppendIs, WrittenIs
  <2>2. audup' \in BOOLEAN /\ audslips' \in BOOLEAN /\ audbad' \in BOOLEAN /\ audtouched' \in BOOLEAN
    BY <1>1, <1>2 DEF AuditTypes
  <2>3. audsealed' \in SUBSET Seq(Entries)
    BY <1>1, <1>3, <2>1
  <2>. QED  BY <2>1, <2>2, <2>3 DEF AuditTypes
<1>6. MacsIn(audsealed', audfile')
  <2>1. MacsIn(audsealed', audfile)
    BY <1>1, <1>2 DEF MacsIn
  <2>2. line.mac \in audsealed'
    BY <1>1, <1>4
  <2>. HIDE DEF line
  <2>. QED  BY <1>1, <1>3, <1>4, <2>1, <2>2, WrittenIs
<1>7. OneHistory'
  <2>. SUFFICES ASSUME ~audslips
                PROVE  audprev' = audsaid' /\ \A h \in audsealed' : Begins(h, audsaid')
    BY <1>1 DEF OneHistory
  <2>1. audprev = audsaid /\ \A h \in audsealed : Begins(h, audsaid)
    BY <1>2 DEF OneHistory
  <2>2. ASSUME NEW h \in audsealed' PROVE Begins(h, audsaid')
    <3>1. h = Append(audsaid, e) \/ (h \in audsealed /\ h \in Seq(Entries))
      BY <1>1, <1>3, <2>1
    <3>. QED  BY <1>1, <1>3, <2>1, <3>1, BeginsOfMore
  <2>. QED  BY <1>1, <2>1, <2>2
<1>8. ASSUME ~audtouched PROVE Untouched'
  <2>1. Unslipped /\ Sound(audsaid, audfile) /\ (audbad => ~IsOk(audfile))
    BY <1>8 DEF AuditInv, Untouched
  <2>2. IsOk(audfile') => audfile' = Append(audfile, line) /\ IsOk(audfile)
    BY <1>1, <2>1, <1>3, <1>4, WrittenIs, SoundWritten
  <2>3. Sound(audsaid, audfile)'
    <3>. SUFFICES ASSUME IsOk(audfile') PROVE Sound(audsaid', audfile')
      BY DEF Sound
    <3>. QED  BY <1>1, <1>3, <2>1, <2>2, SoundRecorded
  <2>4. Unslipped'
    <3>. SUFFICES ASSUME ~audslips PROVE IsOk(audfile') /\ AllWhole(audfile') /\ audprev' = Ents(audfile')
      BY <1>1 DEF Unslipped
    <3>1. IsOk(audfile) /\ AllWhole(audfile) /\ audprev = Ents(audfile)
      BY <2>1 DEF Unslipped
    <3>2. Verdict(audfile).prev = audprev
      BY <2>1, <3>1 DEF Sound
    <3>3. audfile' = Append(audfile, line)
      BY <1>1, <1>3, <1>4, <3>1, WrittenIs
    <3>. QED  BY <1>1, <1>3, <1>4, <3>1, <3>2, <3>3, OkOfNext, EntsOfAppend
  <2>5. (audbad => ~IsOk(audfile))'
    BY <1>1, <2>1, <2>2
  <2>. QED  BY <2>3, <2>4, <2>5 DEF Untouched
<1>. QED  BY <1>1, <1>5, <1>6, <1>7, <1>8 DEF AuditInv

(* What a write that did not return has left.                                *)
LEMMA LandedInv ==
  ASSUME AuditInv, NEW e \in Entries, Slips(e), audup' \in {audup, FALSE}
  PROVE  AuditInv'
<1>1. /\ audfile' \in Landed(audfile, Line(audprev, e))
      /\ audslips' = (audslips \/ audfile' # audfile) /\ audtouched' = audtouched
      /\ audsealed' = audsealed \cup {s \in {Append(audprev, e)} : audfile' # audfile}
      /\ audbad' = (audbad \/ ~IsOk(audfile')) /\ audprev' = audprev /\ audsaid' = audsaid
  BY VerifyIs DEF Slips, Seal, IsOk
<1>2. AuditTypes /\ MacsIn(audsealed, audfile) /\ OneHistory
  BY DEF AuditInv
<1>3. /\ audfile \in Seq(AuditLines) /\ audprev \in Seq(Entries) /\ audsaid \in Seq(Entries)
      /\ audsealed \in SUBSET Seq(Entries) /\ Append(audprev, e) \in Seq(Entries)
  BY <1>2, AppendIs DEF AuditTypes
<1>4. \/ audfile' = audfile
      \/ \E s \in {"torn", "unended", "whole"} :
           audfile' = Written(audfile, [Line(audprev, e) EXCEPT !.state = s])
  BY <1>1 DEF Landed
<1>5. ASSUME NEW s \in {"torn", "unended", "whole"}
      PROVE  /\ [Line(audprev, e) EXCEPT !.state = s] \in AuditLines
             /\ [Line(audprev, e) EXCEPT !.state = s].mac = Append(audprev, e)
  <2>1. Line(audprev, e) \in AuditLines /\ Line(audprev, e).mac = Append(audprev, e)
    BY <1>3, LineTyped
  <2>. QED  BY <2>1 DEF AuditLines
<1>6. audfile' \in Seq(AuditLines)
  BY <1>3, <1>4, <1>5, WrittenIs
<1>7. AuditTypes'
  <2>1. audsealed' \in SUBSET Seq(Entries)
    BY <1>1, <1>3
  <2>. QED  BY <1>1, <1>2, <1>6, <2>1 DEF AuditTypes
<1>8. MacsIn(audsealed', audfile')
  <2>1. CASE audfile' = audfile
    BY <1>1, <1>2, <2>1 DEF MacsIn
  <2>2. CASE audfile' # audfile
    <3>1. PICK s \in {"torn", "unended", "whole"} :
            audfile' = Written(audfile, [Line(audprev, e) EXCEPT !.state = s])
      BY <1>4, <2>2
    <3>. DEFINE line == [Line(audprev, e) EXCEPT !.state = s]
    <3>2. line \in AuditLines /\ line.mac \in audsealed'
      BY <1>1, <1>5, <2>2
    <3>3. MacsIn(audsealed', audfile)
      BY <1>1, <1>2 DEF MacsIn
    <3>4. audfile' = Written(audfile, line)
      BY <3>1
    <3>. HIDE DEF line
    <3>. QED  BY <1>3, <3>2, <3>3, <3>4, WrittenIs
  <2>. QED  BY <2>1, <2>2
<1>9. OneHistory'
  BY <1>1, <1>2 DEF OneHistory
<1>10. ASSUME ~audtouched PROVE Untouched'
  <2>1. Unslipped /\ Sound(audsaid, audfile) /\ (audbad => ~IsOk(audfile))
    BY <1>10 DEF AuditInv, Untouched
  <2>2. Sound(audsaid, audfile') /\ (IsOk(audfile') => IsOk(audfile))
    <3>1. CASE audfile' = audfile
      BY <2>1, <3>1
    <3>2. CASE audfile' # audfile
      BY <1>3, <1>4, <1>5, <2>1, <3>2, SoundWritten
    <3>. QED  BY <3>1, <3>2
  <2>3. Unslipped'
    BY <1>1, <2>1 DEF Unslipped
  <2>. QED  BY <1>1, <2>1, <2>2, <2>3 DEF Untouched
<1>. QED  BY <1>1, <1>7, <1>8, <1>9, <1>10 DEF AuditInv

LEMMA AuditOpenInv ==
  ASSUME AuditInv, NEW p \in {GENESIS} \cup {audfile[i].mac : i \in DOMAIN audfile}, AuditOpen(p)
  PROVE  AuditInv'
<1>1. /\ audup' = TRUE /\ audprev' = p /\ audslips' = (audslips \/ p # audprev)
      /\ audfile' = audfile /\ audsaid' = audsaid /\ audbad' = audbad
      /\ audsealed' = audsealed /\ audtouched' = audtouched
  BY DEF AuditOpen
<1>2. AuditTypes /\ MacsIn(audsealed, audfile) /\ OneHistory
  BY DEF AuditInv
<1>3. p \in Seq(Entries)
  <2>1. CASE p = GENESIS
    BY <2>1 DEF GENESIS
  <2>2. CASE p # GENESIS
    <3>1. PICK i \in DOMAIN audfile : p = audfile[i].mac
      BY <2>2
    <3>2. p \in audsealed /\ audsealed \in SUBSET Seq(Entries)
      BY <1>2, <3>1 DEF MacsIn, AuditTypes
    <3>. QED  BY <3>2
  <2>. QED  BY <2>1, <2>2
<1>4. AuditTypes'
  BY <1>1, <1>2, <1>3 DEF AuditTypes
<1>5. OneHistory'
  BY <1>1, <1>2 DEF OneHistory
<1>6. Untouched => Untouched'
  BY <1>1 DEF Untouched, Unslipped
<1>. QED  BY <1>1, <1>2, <1>4, <1>5, <1>6 DEF AuditInv

(* The file after a change by somebody who has no key.                       *)
LEMMA TamperInv == ASSUME AuditInv, Tamper PROVE AuditInv'
<1>. DEFINE n == Len(audfile)
            at == DOMAIN audfile
<1>1. /\ audfile' \in Changed(audfile) /\ audtouched' = TRUE /\ audprev' = audprev
      /\ audsaid' = audsaid /\ audup' = audup /\ audslips' = audslips /\ audsealed' = audsealed
      /\ audbad' = (audbad \/ ~IsOk(audfile'))
  BY VerifyIs DEF Tamper, IsOk
<1>2. AuditTypes /\ MacsIn(audsealed, audfile) /\ OneHistory
  BY DEF AuditInv
<1>. DEFINE Known == {l \in AuditLines : l.mac \in audsealed}
<1>3. /\ audfile \in Seq(Known) /\ n \in Nat /\ at = 1..n
      /\ \A i \in at : audfile[i] \in Known
  <2>1. audfile \in Seq(AuditLines)
    BY <1>2 DEF AuditTypes
  <2>2. \A i \in 1..n : audfile[i] \in Known
    BY <1>2, <2>1 DEF MacsIn
  <2>3. n \in Nat /\ audfile = [i \in 1..n |-> audfile[i]] /\ at = 1..n
    BY <2>1
  <2>. HIDE DEF Known, n
  <2>. QED  BY <2>2, <2>3
<1>4. Forged \subseteq Known
  <2>1. audsealed \in SUBSET Seq(Entries) /\ GENESIS \in Seq(Entries)
    BY <1>2 DEF AuditTypes, GENESIS
  <2>. QED  BY <2>1 DEF Forged, AuditLines
<1>. HIDE DEF Known
<1>5. audfile' \in Seq(Known)
  <2>1. ASSUME NEW i \in at, NEW l \in Forged PROVE [audfile EXCEPT ![i] = l] \in Seq(Known)
    BY <1>3, <1>4
  <2>2. ASSUME NEW i \in 1..(n + 1), NEW l \in Forged PROVE InsertAt(audfile, i, l) \in Seq(Known)
    <3>1. SubSeq(audfile, 1, i - 1) \in Seq(Known) /\ SubSeq(audfile, i, n) \in Seq(Known)
      BY <1>3
    <3>2. <<l>> \in Seq(Known)
      BY <1>4
    <3>. QED  BY <3>1, <3>2 DEF InsertAt
  <2>3. ASSUME NEW i \in at PROVE RemoveAt(audfile, i) \in Seq(Known)
    <3>1. SubSeq(audfile, 1, i - 1) \in Seq(Known) /\ SubSeq(audfile, i + 1, n) \in Seq(Known)
      BY <1>3
    <3>. QED  BY <3>1 DEF RemoveAt
  <2>4. ASSUME NEW i \in at, NEW k \in at
        PROVE  [audfile EXCEPT ![i] = audfile[k], ![k] = audfile[i]] \in Seq(Known)
    BY <1>3
  <2>5. \/ \E i \in at, l \in Forged : audfile' = [audfile EXCEPT ![i] = l]
        \/ \E i \in 1..(n + 1), l \in Forged : audfile' = InsertAt(audfile, i, l)
        \/ \E i \in at : audfile' = RemoveAt(audfile, i)
        \/ \E i \in at, k \in at : audfile' = [audfile EXCEPT ![i] = audfile[k], ![k] = audfile[i]]
    BY <1>1 DEF Changed
  <2>. HIDE DEF at, n
  <2>6. CASE \E i \in at, l \in Forged : audfile' = [audfile EXCEPT ![i] = l]
    BY <2>1, <2>6
  <2>7. CASE \E i \in 1..(n + 1), l \in Forged : audfile' = InsertAt(audfile, i, l)
    BY <2>2, <2>7
  <2>8. CASE \E i \in at : audfile' = RemoveAt(audfile, i)
    BY <2>3, <2>8
  <2>9. CASE \E i \in at, k \in at : audfile' = [audfile EXCEPT ![i] = audfile[k], ![k] = audfile[i]]
    BY <2>4, <2>9
  <2>. QED  BY <2>5, <2>6, <2>7, <2>8, <2>9
<1>6. audfile' \in Seq(AuditLines) /\ MacsIn(audsealed, audfile')
  <2>1. \A i \in DOMAIN audfile' : audfile'[i] \in AuditLines /\ audfile'[i].mac \in audsealed
    BY <1>5 DEF Known
  <2>2. Len(audfile') \in Nat /\ audfile' = [i \in 1..Len(audfile') |-> audfile'[i]]
    BY <1>5
  <2>. QED  BY <2>1, <2>2 DEF MacsIn
<1>7. AuditTypes' /\ OneHistory'
  BY <1>1, <1>2, <1>6 DEF AuditTypes, OneHistory
<1>. QED  BY <1>1, <1>6, <1>7 DEF AuditInv

LEMMA ApiSampleInv ==
  ASSUME AuditInv, NEW s \in UNION {[1..n -> Entries] : n \in 1..2}, ApiSample(s)
  PROVE  AuditInv'
<1>1. /\ ~audup /\ audup' = audup /\ audsaid' = s /\ audprev' = Last(audfile').mac
      /\ audslips' = audslips /\ audbad' = ~IsOk(audfile') /\ audfile' = SampleOf(s)
      /\ audsealed' = {audfile'[i].mac : i \in DOMAIN audfile'} /\ audtouched' = audtouched
  <2>1. audfile' = SampleOf(s)
    BY DEF ApiSample, SampleOf, SampleNext, FoldLeft, MapThenFoldSet
  <2>. QED  BY <2>1, VerifyIs DEF ApiSample, IsOk
<1>2. PICK n \in 1..2 : s \in [1..n -> Entries]
  OBVIOUS
<1>. DEFINE e1 == s[1]
            e2 == s[2]
            none == GENESIS
            one == Append(<<>>, Line(GENESIS, e1))
            two == Append(one, Line(Append(GENESIS, e1), e2))
            said1 == Append(<<>>, e1)
            said2 == Append(said1, e2)
<1>3. audfile' = IF n = 1 THEN one ELSE two
  BY <1>1, <1>2, SampleIs
<1>4. e1 \in Entries /\ (n = 2 => e2 \in Entries) /\ GENESIS \in Seq(Entries) /\ <<>> \in Seq(AuditLines)
  BY <1>2 DEF GENESIS
<1>5. /\ one \in Seq(AuditLines) /\ IsOk(one) /\ AllWhole(one) /\ Sound(said1, one)
      /\ said1 \in Seq(Entries) /\ Ents(one) = said1 /\ one # <<>>
  <2>1. <<>> \in Seq(Entries)
    OBVIOUS
  <2>2. Line(GENESIS, e1) \in AuditLines /\ Line(GENESIS, e1).entry = e1
    BY <1>4, LineTyped
  <2>3. IsOk(one) /\ AllWhole(one)
    BY <1>4, NothingIsSound, OkOfNext
  <2>4. Sound(said1, one)
    BY <1>4, <2>1, <2>3, NothingIsSound, SoundRecorded
  <2>5. Ents(one) = Append(GENESIS, e1)
    BY <1>4, <2>2, NothingIsSound, EntsOfAppend
  <2>6. one \in Seq(AuditLines) /\ Len(one) = 1
    <3>1. Len(<<>>) = 0
      OBVIOUS
    <3>. QED  BY <1>4, <2>2, <3>1, AppendIs
  <2>7. one # <<>>
    BY <2>6
  <2>8. said1 \in Seq(Entries)
    BY <1>4, <2>1, AppendIs
  <2>. QED  BY <2>3, <2>4, <2>5, <2>6, <2>7, <2>8 DEF GENESIS
<1>6. ASSUME n = 2
      PROVE  /\ two \in Seq(AuditLines) /\ IsOk(two) /\ AllWhole(two) /\ Sound(said2, two)
             /\ two # <<>> /\ Ents(two) = said2
  <2>. DEFINE p == Append(GENESIS, e1)
  <2>1. p \in Seq(Entries) /\ e2 \in Entries
    BY <1>4, <1>6, AppendIs
  <2>2. Verdict(one).prev = p
    BY <1>5 DEF Sound, GENESIS
  <2>3. /\ one \in Seq(AuditLines) /\ IsOk(one) /\ AllWhole(one) /\ Sound(said1, one)
        /\ said1 \in Seq(Entries) /\ two = Append(one, Line(p, e2)) /\ said2 = Append(said1, e2)
        /\ Ents(one) = said1
    BY <1>5
  <2>. HIDE DEF p, one, two, said1, said2
  <2>4. IsOk(two) /\ AllWhole(two)
    BY <2>1, <2>2, <2>3, OkOfNext
  <2>5. Sound(said2, two)
    BY <2>1, <2>3, <2>4, SoundRecorded
  <2>6. Line(p, e2) \in AuditLines /\ Line(p, e2).entry = e2
    BY <2>1, LineTyped
  <2>7. two \in Seq(AuditLines) /\ Len(two) = Len(one) + 1 /\ Len(one) \in Nat
    BY <2>3, <2>6, AppendIs
  <2>8. two # <<>>
    BY <2>7
  <2>9. Ents(two) = said2
    BY <2>3, <2>6, EntsOfAppend
  <2>. QED  BY <2>4, <2>5, <2>7, <2>8, <2>9
<1>7. s = IF n = 1 THEN said1 ELSE said2
  <2>1. CASE n = 1
    BY <1>2, <2>1
  <2>2. CASE n = 2
    BY <1>2, <2>2
  <2>. QED  BY <2>1, <2>2
<1>. HIDE DEF one, two, said1, said2
<1>8. n = 1 \/ n = 2
  OBVIOUS
<1>9. /\ audfile' \in Seq(AuditLines) /\ IsOk(audfile') /\ AllWhole(audfile')
      /\ Sound(s, audfile') /\ audfile' # <<>> /\ Ents(audfile') = s
  BY <1>3, <1>5, <1>6, <1>7, <1>8
<1>. DEFINE file == audfile'
            L == Len(file)
<1>11. /\ DOMAIN file = 1..L /\ L \in 1..L /\ Last(file) = file[L]
       /\ \A i \in 1..L : file[i] \in AuditLines /\ file[i].mac = [k \in 1..i |-> file[k].entry]
       /\ s = [k \in 1..L |-> file[k].entry] /\ s \in Seq(Entries) /\ Len(s) = L
  <2>1. DOMAIN file = 1..L /\ L \in 1..L /\ Last(file) = file[L]
    BY <1>9, LastIs
  <2>2. \A i \in DOMAIN file : file[i].mac = [k \in 1..i |-> file[k].entry]
    BY <1>9, OkIsChain
  <2>3. s = [k \in 1..L |-> file[k].entry]
    BY <1>9 DEF Ents
  <2>4. s \in Seq(Entries)
    BY <1>2
  <2>5. \A i \in DOMAIN file : file[i] \in AuditLines
    BY <1>9
  <2>6. Len(s) = L
    BY <2>1, <2>3
  <2>. QED  BY <2>1, <2>2, <2>3, <2>4, <2>5, <2>6
<1>. HIDE DEF file, L
<1>12. audprev' = s
  BY <1>1, <1>11 DEF file
<1>13. ASSUME NEW i \in 1..L PROVE Begins(file[i].mac, s) /\ file[i].mac \in Seq(Entries)
  <2>1. file[i].mac \in Seq(Entries)
    BY <1>11 DEF AuditLines
  <2>2. i \in Nat /\ i <= L /\ 1..i \subseteq 1..L
    BY <1>11
  <2>3. file[i].mac = [k \in 1..i |-> file[k].entry] /\ \A k \in 1..L : s[k] = file[k].entry
    BY <1>11
  <2>4. Len(file[i].mac) = i /\ \A k \in 1..i : file[i].mac[k] = file[k].entry
    BY <2>2, <2>3
  <2>. QED  BY <1>11, <2>1, <2>2, <2>3, <2>4 DEF Begins
<1>10. AuditTypes'
  <2>1. audsealed' \in SUBSET Seq(Entries)
    BY <1>1, <1>11, <1>13 DEF file
  <2>2. AuditTypes
    BY DEF AuditInv
  <2>. QED  BY <1>1, <1>9, <1>11, <1>12, <2>1, <2>2 DEF AuditTypes
<1>14. MacsIn(audsealed', audfile') /\ OneHistory'
  <2>1. MacsIn(audsealed', audfile')
    BY <1>1 DEF MacsIn
  <2>2. \A h \in audsealed' : Begins(h, s)
    BY <1>1, <1>11, <1>13 DEF file
  <2>. QED  BY <1>1, <1>12, <2>1, <2>2 DEF OneHistory
<1>15. Untouched'
  BY <1>1, <1>9, <1>12 DEF Untouched, Unslipped
<1>. QED  BY <1>10, <1>14, <1>15 DEF AuditInv

LEMMA NextAuditInv == AuditInv /\ [AuditNext]_audvars => AuditInv'
<1>. SUFFICES ASSUME AuditInv, [AuditNext]_audvars PROVE AuditInv'
  OBVIOUS
<1>1. ASSUME NEW e \in Entries, Record(e) PROVE AuditInv'
  BY <1>1, RecordInv
<1>2. ASSUME NEW e \in Entries, RecordRaises(e) PROVE AuditInv'
  BY <1>2, LandedInv DEF RecordRaises
<1>3. ASSUME NEW e \in Entries, AuditCrash(e) PROVE AuditInv'
  BY <1>3, LandedInv DEF AuditCrash
<1>4. ASSUME NEW p \in {GENESIS} \cup {audfile[i].mac : i \in DOMAIN audfile}, AuditOpen(p)
      PROVE  AuditInv'
  BY <1>4, AuditOpenInv
<1>5. ASSUME NEW s \in UNION {[1..n -> Entries] : n \in 1..2}, ApiSample(s) PROVE AuditInv'
  BY <1>5, ApiSampleInv
<1>6. CASE Tamper
  BY <1>6, TamperInv
<1>7. CASE UNCHANGED audvars
  BY <1>7 DEF audvars, AuditInv, AuditTypes, OneHistory, Untouched, Unslipped
<1>. QED  BY <1>1, <1>2, <1>3, <1>4, <1>5, <1>6, <1>7 DEF AuditNext

LEMMA AuditInvTells == AuditInv => AuditTells
<1>. SUFFICES ASSUME AuditInv PROVE AuditTells
  OBVIOUS
<1>1. (VerifyChain(audfile) = "ok") <=> IsOk(audfile)
  BY VerifyIs DEF IsOk
<1>2. AuditTypes /\ MacsIn(audsealed, audfile) /\ OneHistory /\ (~audtouched => Untouched)
  BY DEF AuditInv
<1>3. audfile \in Seq(AuditLines) /\ audsaid \in Seq(Entries)
  BY <1>2 DEF AuditTypes
<1>. DEFINE n == Len(audfile)
<1>4. ASSUME IsOk(audfile)
      PROVE  \A i \in DOMAIN audfile : audfile[i].mac = [k \in 1..i |-> audfile[k].entry]
  BY <1>3, <1>4, OkIsChain
<1>5. ASSUME IsOk(audfile), ~audslips
      PROVE  n <= Len(audsaid) /\ \A i \in DOMAIN audfile : audfile[i].entry = audsaid[i]
  <2>1. n \in Nat /\ Len(audsaid) \in Nat /\ DOMAIN audfile = 1..n
    BY <1>3
  <2>2. CASE n = 0
    BY <2>1, <2>2
  <2>3. CASE n # 0
    <3>1. n \in DOMAIN audfile
      BY <2>1, <2>3
    <3>. DEFINE h == audfile[n].mac
    <3>2. h = [k \in 1..n |-> audfile[k].entry] /\ h \in audsealed
      BY <1>2, <1>4, <1>5, <3>1 DEF MacsIn
    <3>3. Len(h) = n /\ \A k \in 1..n : h[k] = audfile[k].entry
      <4>1. h \in Seq(Entries)
        BY <1>2, <3>2 DEF AuditTypes
      <4>. QED  BY <2>1, <3>2, <4>1
    <3>4. Begins(h, audsaid)
      BY <1>2, <1>5, <3>2 DEF OneHistory
    <3>. HIDE DEF h, n
    <3>. QED  BY <2>1, <3>3, <3>4 DEF Begins
  <2>. QED  BY <2>2, <2>3
<1>6. ~audtouched => Unslipped /\ Sound(audsaid, audfile) /\ (audbad => ~IsOk(audfile))
  BY <1>2 DEF Untouched
<1>7. Found = FoundIn(audsaid, audfile)
  BY FoundIs
<1>. QED  BY <1>1, <1>4, <1>5, <1>6, <1>7 DEF AuditTells, Unslipped, Sound

------------------------------------------------------------------------------
(* The tax ledger: whose sale was acknowledged is among the fills behind the *)
(* file, and behind the book whenever a process runs.                        *)

NamedFills == [coin : Coins, side : {"BUY", "SELL"}, qty : TaxQtys, price : TaxPrices,
               unit : {0, 1}, id : Nat]
IsIn(id, h) == \E i \in DOMAIN h : h[i].id = id

TaxInv ==
  /\ taxids \in Nat /\ taxhist \in Seq(NamedFills) /\ taxkept \in Seq(NamedFills)
  /\ taxspoilt \in BOOLEAN /\ taxat \in {"idle", "save", "down"}
  /\ taxat = "save" => taxhist # <<>>
  /\ ~taxspoilt => \A id \in taxacked : IsIn(id, taxkept) /\ (taxat # "down" => IsIn(id, taxhist))

LEMMA InitTaxInv == TaxInit => TaxInv
<1>. SUFFICES ASSUME TaxInit PROVE TaxInv
  OBVIOUS
<1>1. <<>> \in Seq(NamedFills)
  OBVIOUS
<1>. QED  BY <1>1 DEF TaxInit, TaxInv

(* A fill more stands behind the book.                                       *)
LEMMA EnteredInv ==
  ASSUME TaxInv, NEW f \in Fills, taxat = "idle", taxhist' = Append(taxhist, Named(f)),
         taxat' = "save", taxids' = Fresh, taxkept' = taxkept, taxacked' = taxacked,
         taxspoilt' = taxspoilt
  PROVE  TaxInv'
<1>1. Named(f) \in NamedFills /\ Fresh \in Nat
  BY DEF Named, NamedFills, Fills, Fresh, TaxInv
<1>. DEFINE more == Append(taxhist, Named(f))
<1>2. /\ more \in Seq(NamedFills) /\ Len(more) = Len(taxhist) + 1 /\ Len(taxhist) \in Nat
      /\ \A k \in 1..Len(taxhist) : more[k] = taxhist[k]
  BY <1>1, AppendIs DEF TaxInv
<1>3. more # <<>> /\ taxhist' = more
  BY <1>2
<1>. HIDE DEF more
<1>4. \A id : IsIn(id, taxhist) => IsIn(id, more)
  <2>. SUFFICES ASSUME NEW id, NEW i \in DOMAIN taxhist, taxhist[i].id = id PROVE IsIn(id, more)
    BY DEF IsIn
  <2>1. DOMAIN taxhist = 1..Len(taxhist) /\ DOMAIN more = 1..(Len(taxhist) + 1)
    BY <1>2 DEF TaxInv
  <2>2. i \in DOMAIN more /\ more[i] = taxhist[i]
    BY <1>2, <2>1
  <2>. QED  BY <2>2 DEF IsIn
<1>. QED  BY <1>1, <1>2, <1>3, <1>4 DEF TaxInv

LEMMA TaxSaveInv == ASSUME TaxInv, TaxSave PROVE TaxInv'
<1>1. /\ taxat = "save" /\ taxat' = "idle" /\ taxkept' = taxhist /\ taxhist' = taxhist
      /\ taxacked' = taxacked \cup {taxhist[Len(taxhist)].id}
      /\ taxids' = taxids /\ taxspoilt' = taxspoilt
  BY DEF TaxSave
<1>2. Len(taxhist) \in DOMAIN taxhist
  <2>1. taxhist \in Seq(NamedFills) /\ taxhist # <<>>
    BY <1>1 DEF TaxInv
  <2>. QED  BY <2>1, LastIs
<1>3. IsIn(taxhist[Len(taxhist)].id, taxhist)
  BY <1>2 DEF IsIn
<1>. QED  BY <1>1, <1>3 DEF TaxInv

LEMMA NextTaxInv == TaxInv /\ [TaxNext]_taxvars => TaxInv'
<1>. SUFFICES ASSUME TaxInv, [TaxNext]_taxvars PROVE TaxInv'
  OBVIOUS
<1>1. ASSUME NEW f \in Fills, TaxBuy(f) PROVE TaxInv'
  BY <1>1, EnteredInv DEF TaxBuy
<1>2. ASSUME NEW f \in Fills, TaxSell(f) PROVE TaxInv'
  BY <1>2, EnteredInv DEF TaxSell
<1>3. ASSUME NEW f \in Fills \cup BadFills, TaxRefuse(f) PROVE TaxInv'
  BY <1>3 DEF TaxRefuse, taxvars, TaxInv
<1>4. CASE TaxSave
  BY <1>4, TaxSaveInv
<1>5. CASE TaxSaveFails
  BY <1>5 DEF TaxSaveFails, TaxInv
<1>6. CASE TaxCrash
  <2>1. <<>> \in Seq(NamedFills)
    OBVIOUS
  <2>. QED  BY <1>6, <2>1 DEF TaxCrash, TaxInv
<1>7. CASE TaxSpoil
  <2>1. <<>> \in Seq(NamedFills)
    OBVIOUS
  <2>2. /\ taxat = "down" /\ taxat' = taxat /\ taxkept' = <<>> /\ taxspoilt' = TRUE
        /\ taxids' = taxids /\ taxhist' = taxhist /\ taxacked' = taxacked
    BY <1>7 DEF TaxSpoil
  <2>. QED  BY <2>1, <2>2 DEF TaxInv
<1>8. CASE TaxLoad
  BY <1>8 DEF TaxLoad, TaxInv
<1>9. CASE TaxLoadRaises
  BY <1>9 DEF TaxLoadRaises, taxvars, TaxInv
<1>10. CASE UNCHANGED taxvars
  BY <1>10 DEF taxvars, TaxInv
<1>. QED  BY <1>1, <1>2, <1>3, <1>4, <1>5, <1>6, <1>7, <1>8, <1>9, <1>10 DEF TaxNext

------------------------------------------------------------------------------
(* The records together: a step is one of one part, and the others stay.     *)

RecordsInv == TaxInv /\ AuditInv /\ NonceInv

LEMMA BooksStep ==
  ASSUME [BooksNext]_<<part, recordvars, papervars>>
  PROVE  /\ part' = part
         /\ [TaxNext]_taxvars /\ [AuditNext]_audvars /\ [NonceNext]_nvars
<1>1. CASE BooksNext
  <2>1. CASE RecordsNext
    BY <1>1, <2>1 DEF BooksNext, RecordsNext
  <2>2. CASE UNCHANGED recordvars
    BY <1>1, <2>2 DEF BooksNext, recordvars
  <2>. QED  BY <1>1, <2>1, <2>2 DEF BooksNext
<1>2. CASE UNCHANGED <<part, recordvars, papervars>>
  BY <1>2 DEF recordvars
<1>. QED  BY <1>1, <1>2

(* What the tax ledger acknowledged outlives every crash; an audit file that *)
(* verifies is the acknowledged history or the beginning of it, whatever was *)
(* edited, inserted, exchanged or removed without the key; and no nonce is   *)
(* sent twice: for all coins, entries and clocks (tax.py:196, audit.py:48,   *)
(* signer.py:37).                                                            *)
THEOREM AcknowledgedSurvives == BooksSpec => []RecordsSurvive
<1>1. BooksInit => RecordsInv
  BY InitTaxInv, InitAuditInv, InitNonceInv DEF BooksInit, RecordsInv
<1>2. RecordsInv /\ [BooksNext]_<<part, recordvars, papervars>> => RecordsInv'
  BY BooksStep, NextTaxInv, NextAuditInv, NextNonceInv DEF RecordsInv
<1>3. RecordsInv => RecordsSurvive
  <2>1. TaxInv => TaxAckedIsKept
    BY DEF TaxInv, TaxAckedIsKept, IsIn
  <2>2. NonceInv => NoncesRise
    BY DEF NonceInv
  <2>. QED  BY <2>1, <2>2, AuditInvTells DEF RecordsInv, RecordsSurvive
<1>. QED  BY <1>1, <1>2, <1>3, PTL DEF BooksSpec

------------------------------------------------------------------------------
(* The folds: where each of them begins and ends.                            *)

LEMMA DivMod ==
  ASSUME NEW n \in Nat, NEW k \in Nat \ {0}
  PROVE  /\ n \div k \in Nat /\ n % k \in 0..(k - 1)
         /\ n = k * (n \div k) + (n % k)
  BY Z3

LEMMA TimesRises == \A a, b, q \in Nat : a <= b => a * q <= b * q
  BY Z3
LEMMA TimesNext == \A a, q \in Nat : (a + 1) * q = a * q + q /\ a * q \in Nat /\ 0 * q = 0
  BY Z3

(* The width of fold i, and that bounds rise from 0 to n.                    *)
LEMMA BoundsRise ==
  ASSUME NEW k \in Nat \ {0}, NEW n \in Nat, n >= k
  PROVE  /\ Bound(n, k, 0) = 0 /\ Bound(n, k, k) = n
         /\ \A i \in 0..k : Bound(n, k, i) \in Nat
         /\ \A i, j \in 0..k : i <= j => Bound(n, k, i) <= Bound(n, k, j)
         /\ \A i \in 1..k : Bound(n, k, i) - Bound(n, k, i - 1)
                              \in {n \div k, n \div k + 1}
         /\ n \div k >= 1
<1>. DEFINE q == n \div k
            r == n % k
            extra(i) == IF i < r THEN i ELSE r
<1>1. q \in Nat /\ r \in 0..(k - 1) /\ n = k * q + r
  BY DivMod
<1>2. \A i \in 0..k : Bound(n, k, i) = i * q + extra(i)
  BY DEF Bound
<1>. HIDE DEF q, r
<1>3. q >= 1
  <2>1. q = 0 => k * q = 0
    BY Z3
  <2>. QED  BY <1>1, <2>1
<1>4. \A i \in 0..k : i \in Nat /\ i * q \in Nat /\ extra(i) \in Nat
  BY <1>1, TimesNext
<1>5. \A i, j \in 0..k : i <= j => extra(i) <= extra(j)
  BY <1>1
<1>6. \A i, j \in 0..k : i <= j => i * q <= j * q
  BY <1>1, <1>4, TimesRises
<1>7. \A i \in 1..k : i * q = (i - 1) * q + q /\ extra(i) - extra(i - 1) \in {0, 1}
                      /\ i - 1 \in 0..k /\ i \in 0..k
  <2>. SUFFICES ASSUME NEW i \in 1..k
                PROVE  i * q = (i - 1) * q + q /\ extra(i) - extra(i - 1) \in {0, 1}
                       /\ i - 1 \in 0..k /\ i \in 0..k
    OBVIOUS
  <2>1. i - 1 \in Nat /\ i - 1 + 1 = i
    OBVIOUS
  <2>2. i * q = (i - 1) * q + q
    BY <1>1, <2>1, TimesNext
  <2>3. extra(i) - extra(i - 1) \in {0, 1}
    BY <1>1
  <2>4. i - 1 \in 0..k /\ i \in 0..k
    OBVIOUS
  <2>. QED  BY ONLY <2>2, <2>3, <2>4
<1>8. 0 * q = 0 /\ extra(0) = 0 /\ extra(k) = r /\ 0 \in 0..k /\ k \in 0..k
  BY <1>1, TimesNext
<1>. HIDE DEF extra
<1>9. \A i \in 1..k : Bound(n, k, i) - Bound(n, k, i - 1) \in {q, q + 1}
  <2>. SUFFICES ASSUME NEW i \in 1..k PROVE Bound(n, k, i) - Bound(n, k, i - 1) \in {q, q + 1}
    OBVIOUS
  <2>1. /\ Bound(n, k, i) = i * q + extra(i)
        /\ Bound(n, k, i - 1) = (i - 1) * q + extra(i - 1)
    BY <1>2, <1>7
  <2>2. extra(i) \in Nat /\ extra(i - 1) \in Nat /\ (i - 1) * q \in Nat
    BY <1>4, <1>7
  <2>. QED  BY <1>1, <1>7, <2>1, <2>2
<1>10. \A i, j \in 0..k : i <= j => Bound(n, k, i) <= Bound(n, k, j)
  <2>. SUFFICES ASSUME NEW i \in 0..k, NEW j \in 0..k, i <= j PROVE Bound(n, k, i) <= Bound(n, k, j)
    OBVIOUS
  <2>. DEFINE a == i * q
              b == j * q
  <2>1. a <= b /\ extra(i) <= extra(j) /\ a \in Nat /\ b \in Nat /\ extra(i) \in Nat /\ extra(j) \in Nat
    BY <1>4, <1>5, <1>6
  <2>2. Bound(n, k, i) = a + extra(i) /\ Bound(n, k, j) = b + extra(j)
    BY <1>2
  <2>. HIDE DEF a, b
  <2>. QED  BY <2>1, <2>2
<1>11. \A i \in 0..k : Bound(n, k, i) \in Nat
  BY <1>2, <1>4
<1>12. Bound(n, k, 0) = 0 /\ Bound(n, k, k) = n
  BY <1>1, <1>2, <1>8
<1>. QED  BY <1>3, <1>9, <1>10, <1>11, <1>12 DEF q

(* Whatever lies between two bounds lies in one of the folds.                *)
LEMMA BoundsCover ==
  ASSUME NEW k \in Nat \ {0}, NEW n \in Nat, n >= k, NEW x \in 0..(n - 1)
  PROVE  \E i \in 1..k : Bound(n, k, i - 1) <= x /\ x < Bound(n, k, i)
<1>1. /\ Bound(n, k, 0) = 0 /\ Bound(n, k, k) = n
      /\ \A i \in 0..k : Bound(n, k, i) \in Nat
  BY BoundsRise
<1>. DEFINE Bad == {i \in 0..k : x < Bound(n, k, i)}
<1>2. Bad \subseteq 0..k /\ k \in Bad /\ k \in Nat
  BY <1>1
<1>3. PICK i \in Bad : i \in 0..k /\ (i # 0 => i - 1 \in 0..k /\ i - 1 \notin Bad)
  <2>. HIDE DEF Bad
  <2>1. Bad # {}
    BY <1>2
  <2>. QED  BY <1>2, <2>1, FirstBad
<1>4. i # 0
  BY <1>1, <1>3
<1>5. i \in 1..k /\ Bound(n, k, i - 1) <= x /\ x < Bound(n, k, i)
  BY <1>1, <1>3, <1>4
<1>. QED  BY <1>5

LEMMA FoldsHold ==
  ASSUME NEW k \in Nat \ {0}, NEW n \in Nat, n >= k, NEW embargo \in Nat,
         NEW fs, fs = Folds(n, k, embargo)
  PROVE  CleanFolds(n, k, embargo, fs)
<1>. DEFINE B(i) == Bound(n, k, i)
            q == n \div k
<1>1. \A i \in 1..k : /\ fs[i].test = B(i - 1)..(B(i) - 1)
                      /\ fs[i].train = {j \in 0..(n - 1) : j < B(i - 1)
                                                     \/ j >= PurgeEnd(n, B(i), embargo)}
  BY DEF Folds
<1>2. /\ B(0) = 0 /\ B(k) = n /\ q \in Nat /\ q >= 1
      /\ \A i \in 0..k : B(i) \in Nat
      /\ \A i, j \in 0..k : i <= j => B(i) <= B(j)
      /\ \A i \in 1..k : B(i) - B(i - 1) \in {q, q + 1}
  BY BoundsRise, DivMod
<1>3. \A x \in 0..(n - 1) : \E i \in 1..k : B(i - 1) <= x /\ x < B(i)
  BY BoundsCover
<1>tests. \A i \in 1..k : fs[i].test = B(i - 1)..(B(i) - 1)
  BY <1>1
<1>. HIDE DEF B, q
<1>4. \A i \in 1..k : /\ i - 1 \in 0..k /\ i \in 0..k /\ 0 \in 0..k /\ k \in 0..k
                      /\ B(i) \in Nat /\ B(i - 1) \in Nat /\ B(i) <= n /\ B(i - 1) < B(i)
  <2>. SUFFICES ASSUME NEW i \in 1..k
                PROVE  /\ i - 1 \in 0..k /\ i \in 0..k /\ 0 \in 0..k /\ k \in 0..k
                       /\ B(i) \in Nat /\ B(i - 1) \in Nat /\ B(i) <= n /\ B(i - 1) < B(i)
    OBVIOUS
  <2>1. i - 1 \in 0..k /\ i \in 0..k /\ 0 \in 0..k /\ k \in 0..k /\ i <= k
    OBVIOUS
  <2>2. B(i) \in Nat /\ B(i - 1) \in Nat /\ B(i) <= B(k) /\ B(i) - B(i - 1) \in {q, q + 1}
    BY <1>2, <2>1
  <2>. QED  BY <1>2, <2>1, <2>2
<1>5. UNION {fs[i].test : i \in 1..k} = 0..(n - 1)
  <2>1. ASSUME NEW i \in 1..k, NEW x \in fs[i].test PROVE x \in 0..(n - 1)
    <3>1. x \in B(i - 1)..(B(i) - 1)
      BY <1>tests, <2>1
    <3>. QED  BY <1>4, <3>1
  <2>2. ASSUME NEW x \in 0..(n - 1) PROVE \E i \in 1..k : x \in fs[i].test
    <3>1. PICK i \in 1..k : B(i - 1) <= x /\ x < B(i)
      BY <1>3
    <3>2. x \in B(i - 1)..(B(i) - 1)
      BY <1>4, <3>1
    <3>. QED  BY <1>tests, <3>2
  <2>. QED  BY <2>1, <2>2
<1>6. ASSUME NEW i \in 1..k, NEW j \in 1..k, i < j, NEW x \in fs[i].test, NEW y \in fs[j].test
      PROVE  x < y
  <2>1. x < B(i) /\ B(j - 1) <= y /\ x \in Int /\ y \in Int
    <3>1. x \in B(i - 1)..(B(i) - 1) /\ y \in B(j - 1)..(B(j) - 1)
      BY <1>tests, <1>6
    <3>. QED  BY <1>4, <3>1
  <2>2. B(i) <= B(j - 1)
    <3>1. i <= j - 1
      BY <1>6
    <3>. QED  BY <1>2, <1>4, <3>1
  <2>. QED  BY <1>4, <2>1, <2>2
<1>7. \A i, j \in 1..k : Cardinality(fs[i].test) <= Cardinality(fs[j].test) + 1
  <2>1. ASSUME NEW i \in 1..k PROVE Cardinality(fs[i].test) \in {q, q + 1}
    <3>. DEFINE a == B(i - 1)
                b == B(i) - 1
    <3>1. fs[i].test = a..b /\ a \in Int /\ b \in Int /\ a <= b /\ b - a + 1 \in {q, q + 1}
      <4>1. fs[i].test = a..b
        BY <1>tests
      <4>2. B(i) - B(i - 1) \in {q, q + 1} /\ B(i) \in Nat /\ B(i - 1) \in Nat /\ B(i - 1) < B(i)
        BY <1>2, <1>4
      <4>. QED  BY <1>2, <4>1, <4>2
    <3>. HIDE DEF a, b
    <3>2. Cardinality(a..b) = b - a + 1
      BY <3>1, FS_Interval
    <3>. QED  BY <3>1, <3>2
  <2>2. ASSUME NEW i \in 1..k, NEW j \in 1..k PROVE Cardinality(fs[i].test) <= Cardinality(fs[j].test) + 1
    <3>1. Cardinality(fs[i].test) \in {q, q + 1} /\ Cardinality(fs[j].test) \in {q, q + 1}
      BY <2>1
    <3>. QED  BY <1>2, <3>1
  <2>. QED  BY <2>2
<1>8. ASSUME NEW i \in 1..k, NEW x \in 0..(n - 1)
      PROVE  x \in fs[i].train <=> x < B(i - 1) \/ x >= B(i) + embargo
  <2>1. x \in fs[i].train <=> x < B(i - 1) \/ x >= PurgeEnd(n, B(i), embargo)
    BY <1>1
  <2>2. B(i) \in Nat /\ B(i) <= n
    BY <1>4
  <2>3. x >= PurgeEnd(n, B(i), embargo) <=> x >= B(i) + embargo
    BY <2>2 DEF PurgeEnd
  <2>. QED  BY <2>1, <2>3
<1>9. ASSUME NEW i \in 1..k, NEW h \in 0..embargo, NEW x \in fs[i].train, NEW y \in fs[i].test,
             Overlap(x, y, h)
      PROVE  x < y
  <2>. DEFINE a == B(i - 1)
              b == B(i)
  <2>1. a \in Nat /\ b \in Nat /\ a < b /\ b <= n /\ y \in a..(b - 1)
    BY <1>4, <1>tests
  <2>2. x \in 0..(n - 1)
    BY <1>1
  <2>3. x < a \/ x >= b + embargo
    BY <1>8, <2>2
  <2>4. PICK z : z \in x..(x + h) /\ z \in y..(y + h)
    BY <1>9 DEF Overlap
  <2>. HIDE DEF a, b
  <2>5. x <= y + h /\ x \in Int /\ y \in Int /\ h <= embargo /\ h \in Int
    BY <2>1, <2>2, <2>4
  <2>. QED  BY <2>1, <2>3, <2>5
<1>10. ASSUME NEW i \in 1..k, NEW x \in 0..(n - 1)
       PROVE  \/ x \in fs[i].train \/ x \in fs[i].test
              \/ \E y \in fs[i].test : y < x /\ x <= y + embargo
  <2>. DEFINE a == B(i - 1)
              b == B(i)
  <2>1. a \in Nat /\ b \in Nat /\ a < b /\ fs[i].test = a..(b - 1)
    BY <1>4, <1>tests
  <2>2. x \in fs[i].train <=> x < a \/ x >= b + embargo
    BY <1>8
  <2>. HIDE DEF a, b
  <2>3. CASE x \in a..(b - 1)
    BY <2>1, <2>3
  <2>4. CASE x >= b /\ x < b + embargo
    <3>1. b - 1 \in a..(b - 1) /\ b - 1 < x /\ x <= b - 1 + embargo
      BY <2>1, <2>4
    <3>. QED  BY <2>1, <3>1
  <2>. QED  BY <2>1, <2>2, <2>3, <2>4
<1>. QED  BY <1>5, <1>6, <1>7, <1>9, <1>10 DEF CleanFolds

------------------------------------------------------------------------------
(* The momentum backtest: a position depends on the closes up to it.         *)

LEMMA SubSeqIs ==
  ASSUME NEW S, NEW s \in Seq(S), NEW n \in 0..Len(s)
  PROVE  /\ SubSeq(s, 1, n) \in Seq(S) /\ Len(SubSeq(s, 1, n)) = n
         /\ \A i \in 1..n : SubSeq(s, 1, n)[i] = s[i]
  OBVIOUS

Flat0 == [sign |-> 0, of |-> 0, over |-> 1]
LongShort(closes, n) == TargetPosition(closes, n, TRUE)
LongOnly(closes, n) == TargetPosition(closes, n, FALSE)
BothWays(closes) == BacktestTsmom(closes, TRUE)
OneWay(closes) == BacktestTsmom(closes, FALSE)

LEMMA TargetOfPrefix ==
  ASSUME NEW closes, NEW prefix, NEW n \in Nat, n > Lookback,
         \A i \in 1..n : prefix[i] = closes[i]
  PROVE  LongShort(prefix, n) = LongShort(closes, n)
<1>1. n \in 1..n /\ n - Lookback \in 1..n
  BY SeriesAssumption
<1>2. MomentumSign(prefix, n) = MomentumSign(closes, n)
  <2>1. prefix[n] = closes[n] /\ prefix[n - Lookback] = closes[n - Lookback]
    BY <1>1
  <2>. QED  BY <2>1 DEF MomentumSign
<1>3. Returns(prefix, n) = Returns(closes, n)
  <2>1. \A i \in 2..n : i \in 1..n /\ i - 1 \in 1..n
    OBVIOUS
  <2>2. \A i \in 2..n : prefix[i] = closes[i] /\ prefix[i - 1] = closes[i - 1]
    BY <2>1
  <2>. QED  BY <2>2 DEF Returns
<1>. QED  BY <1>2, <1>3 DEF LongShort, TargetPosition

LEMMA TargetIs ==
  ASSUME NEW closes, NEW n \in Nat, closes[n] - closes[n - Lookback] \in Int
  PROVE  \E sign \in {-1, 0, 1} : \E of, over :
           /\ sign = MomentumSign(closes, n)
           /\ LongShort(closes, n)
                \in {Flat0, [sign |-> sign, of |-> of, over |-> over]}
           /\ LongOnly(closes, n)
                = IF LongShort(closes, n).sign = 1
                  THEN LongShort(closes, n) ELSE Flat0
           /\ of <= MaxLevVar * over
<1>. DEFINE sign == MomentumSign(closes, n)
            var == RealizedVar(Returns(closes, n), n)
            sized == TargetVar * Lookback * Lookback
            of == IF sized <= MaxLevVar * var THEN sized ELSE MaxLevVar
            over == IF sized <= MaxLevVar * var THEN var ELSE 1
            tt == LongShort(closes, n)
            ff == LongOnly(closes, n)
            full == [sign |-> sign, of |-> of, over |-> over]
<1>1. sign \in {-1, 0, 1}
  BY DEF MomentumSign, Sign
<1>2. /\ tt = IF sign = 0 \/ var <= 0 THEN Flat0 ELSE full
      /\ ff = IF sign = 0 \/ sign < 0 \/ var <= 0 THEN Flat0 ELSE full
  BY DEF LongShort, LongOnly, TargetPosition, Flat0
<1>3. of <= MaxLevVar * over
  <2>1. MaxLevVar \in Nat
    BY SeriesAssumption
  <2>2. MaxLevVar * 1 = MaxLevVar /\ MaxLevVar <= MaxLevVar
    BY <2>1
  <2>. HIDE DEF sized, var
  <2>. QED  BY <2>2
<1>4. Flat0.sign = 0 /\ full.sign = sign
  BY DEF Flat0
<1>. HIDE DEF sign, full, var, tt, ff
<1>5. ff = IF tt.sign = 1 THEN tt ELSE Flat0
  <2>1. CASE sign = 1
    BY <1>2, <1>4, <2>1
  <2>2. CASE sign = 0 \/ sign = -1
    BY <1>2, <1>4, <2>2
  <2>. QED  BY <1>1, <2>1, <2>2
<1>6. tt \in {Flat0, full}
  BY <1>2
<1>. QED  BY <1>1, <1>3, <1>5, <1>6 DEF sign, tt, ff, full

LEMMA PositionsHold ==
  ASSUME spread \in Seq(Spreads) PROVE PositionsLookBack
<1>. DEFINE N == Len(spread)
            closes == [i \in DOMAIN spread |-> spread[i] + 1]
            Size(m) == IF m > Lookback + 2 THEN m - Lookback - 2 ELSE 0
            now == BothWays(closes)
            long == OneWay(closes)
<1>1. N \in Nat /\ closes \in Seq(Int) /\ Len(closes) = N
  <2>1. N \in Nat /\ DOMAIN spread = 1..N /\ \A i \in 1..N : spread[i] \in Spreads
    OBVIOUS
  <2>2. \A i \in 1..N : spread[i] + 1 \in Int
    <3>1. Spreads \subseteq Int
      BY SeriesAssumption
    <3>2. ASSUME NEW i \in 1..N PROVE spread[i] + 1 \in Int
      <4>1. spread[i] \in Int
        BY <2>1, <3>1
      <4>. QED  BY <4>1
    <3>. QED  BY <3>2
  <2>3. closes \in [1..N -> Int]
    BY <2>1, <2>2
  <2>. HIDE DEF closes
  <2>. QED  BY <2>1, <2>3
<1>2. \A m \in Nat : Size(m) \in Nat /\ Lookback \in Nat /\ \A k \in 1..Size(m) : k \in Nat /\ k + Lookback + 1 \in 1..m
                       /\ k + 1 \in 1..m /\ k + Lookback + 1 > Lookback
                       /\ k + Lookback + 1 - Lookback = k + 1
  BY SeriesAssumption
<1>3. \A c : /\ BothWays(c) = [k \in 1..Size(Len(c)) |-> LongShort(c, k + Lookback + 1)]
            /\ OneWay(c) = [k \in 1..Size(Len(c)) |-> LongOnly(c, k + Lookback + 1)]
  BY DEF BothWays, OneWay, LongShort, LongOnly, BacktestTsmom, DecidedAt
<1>. HIDE DEF N, closes, Size
<1>4. ASSUME NEW k \in DOMAIN now, NEW x \in Spreads
      PROVE  LET other == BothWays(Append(SubSeq(closes, 1, DecidedAt(k)), x + 1))
             IN Len(other) = k /\ other[k] = now[k]
  <2>. DEFINE m == k + Lookback + 1
              sub == SubSeq(closes, 1, m)
              series == Append(sub, x + 1)
              other == BothWays(series)
  <2>1. k \in 1..Size(N)
    BY <1>1, <1>3
  <2>2. k \in Nat /\ k >= 1 /\ m \in 1..N /\ m \in Nat /\ m > Lookback /\ m = k + Lookback + 1
    <3>1. N \in Nat
      BY <1>1
    <3>2. Size(N) \in Nat /\ Lookback \in Nat
      BY ONLY <1>2, <3>1
    <3>3. m \in 1..N /\ m > Lookback
      BY ONLY <1>2, <2>1, <3>1
    <3>. HIDE DEF Size
    <3>4. k \in Nat /\ k >= 1
      BY ONLY <2>1, <3>2
    <3>. QED  BY ONLY <3>2, <3>3, <3>4
  <2>. HIDE DEF m
  <2>3. sub \in Seq(Int) /\ Len(sub) = m /\ \A i \in 1..m : sub[i] = closes[i]
    <3>1. m \in 0..Len(closes)
      BY <1>1, <2>2
    <3>. QED  BY <1>1, <3>1, SubSeqIs
  <2>. HIDE DEF sub
  <2>4. x + 1 \in Int
    BY SeriesAssumption
  <2>5. Len(series) = m + 1 /\ \A i \in 1..m : series[i] = sub[i]
    BY <2>2, <2>3, <2>4, AppendIs
  <2>. HIDE DEF series
  <2>6. Size(m + 1) = k
    BY <2>2, SeriesAssumption DEF Size
  <2>7. \A i \in 1..m : series[i] = closes[i]
    BY <2>3, <2>5
  <2>8. LongShort(series, m) = LongShort(closes, m)
    BY <2>2, <2>7, TargetOfPrefix
  <2>9. other = [i \in 1..k |-> LongShort(series, i + Lookback + 1)]
    BY <1>3, <2>5, <2>6
  <2>10. now[k] = LongShort(closes, m)
    BY <1>1, <1>3, <2>1 DEF m
  <2>. HIDE DEF other, now
  <2>11. other[k] = LongShort(series, m)
    BY <2>2, <2>9
  <2>12. Len(other) = k
    <3>1. DOMAIN other = 1..k
      BY <2>9
    <3>. DEFINE T == {LongShort(series, i + Lookback + 1) : i \in 1..k}
    <3>2. other \in [1..k -> T]
      BY <2>9
    <3>. HIDE DEF T
    <3>. QED  BY <2>2, <3>2
  <2>. QED  BY <2>8, <2>10, <2>11, <2>12 DEF other, series, sub, m, DecidedAt
<1>5. DOMAIN now = 1..Size(N)
  BY <1>1, <1>3
<1>6. ASSUME NEW k \in DOMAIN now
      PROVE  /\ long[k] = IF now[k].sign = 1 THEN now[k] ELSE Flat0
             /\ now[k].sign * (closes[k + Lookback + 1] - closes[k + 1]) >= 0
             /\ now[k].of <= MaxLevVar * now[k].over
  <2>. DEFINE n == k + Lookback + 1
              d == closes[n] - closes[n - Lookback]
  <2>1. k \in 1..Size(N) /\ n \in 1..N /\ n \in Nat /\ n - Lookback = k + 1 /\ k + 1 \in 1..N
    <3>1. k \in 1..Size(N)
      BY <1>5
    <3>2. N \in Nat
      BY <1>1
    <3>. QED  BY ONLY <1>2, <3>1, <3>2
  <2>2. d \in Int
    BY <1>1, <2>1
  <2>3. now[k] = LongShort(closes, n) /\ long[k] = LongOnly(closes, n)
    BY <1>1, <1>3, <2>1
  <2>4. closes[k + Lookback + 1] - closes[k + 1] = d
    BY <2>1
  <2>. HIDE DEF n, now, long
  <2>s. MomentumSign(closes, n) \in {0, Sign(d)}
    BY DEF MomentumSign
  <2>5. \E sign \in {-1, 0, 1} : \E of, over :
           /\ sign = MomentumSign(closes, n)
           /\ LongShort(closes, n) \in {Flat0, [sign |-> sign, of |-> of, over |-> over]}
           /\ LongOnly(closes, n)
                = IF LongShort(closes, n).sign = 1
                  THEN LongShort(closes, n) ELSE Flat0
           /\ of <= MaxLevVar * over
    BY <2>1, <2>2, TargetIs
  <2>. HIDE DEF d
  <2>6. PICK of, over :
           /\ now[k] \in {Flat0, [sign |-> MomentumSign(closes, n), of |-> of, over |-> over]}
           /\ long[k] = IF now[k].sign = 1 THEN now[k] ELSE Flat0
           /\ of <= MaxLevVar * over
    BY <2>3, <2>5
  <2>7. now[k] = Flat0 \/ now[k] = [sign |-> MomentumSign(closes, n), of |-> of, over |-> over]
    BY <2>6
  <2>8. (now[k].sign = 0 \/ now[k].sign = MomentumSign(closes, n)) /\ now[k].of <= MaxLevVar * now[k].over
    <3>1. CASE now[k] = Flat0
      BY <3>1, SeriesAssumption DEF Flat0
    <3>2. CASE now[k] = [sign |-> MomentumSign(closes, n), of |-> of, over |-> over]
      BY <2>6, <3>2
    <3>. QED  BY <2>7, <3>1, <3>2
  <2>9. now[k].sign * d >= 0
    <3>1. Sign(d) * d >= 0 /\ 0 * d >= 0
      BY <2>2 DEF Sign
    <3>. QED  BY <2>s, <2>8, <3>1
  <2>. QED  BY <2>4, <2>6, <2>8, <2>9
<1>7. DOMAIN spread = 1..N
  BY DEF N
<1>. QED  BY <1>4, <1>6 DEF PositionsLookBack, DecidedAt, closes, now, long, BothWays, OneWay, N, Flat0

LEMMA NextPairTyped ==
  spread \in Seq(Spreads) /\ [PairNext]_pairvars => (spread \in Seq(Spreads))'
<1>. SUFFICES ASSUME spread \in Seq(Spreads), [PairNext]_pairvars PROVE spread' \in Seq(Spreads)
  OBVIOUS
<1>1. ASSUME NEW x \in Spreads, NEW ok \in BOOLEAN, PairObserve(x, ok)
      PROVE  spread' \in Seq(Spreads)
  BY <1>1 DEF PairObserve
<1>2. CASE UNCHANGED pairvars
  BY <1>2 DEF pairvars
<1>. QED  BY <1>1, <1>2 DEF PairNext

LEMMA PapersStep ==
  ASSUME [BooksNext]_<<part, recordvars, papervars>> PROVE [PairNext]_pairvars
<1>1. CASE BooksNext
  <2>1. CASE PaperNext
    BY <1>1, <2>1 DEF BooksNext, PaperNext
  <2>2. CASE UNCHANGED papervars
    BY <1>1, <2>2 DEF BooksNext, papervars
  <2>. QED  BY <1>1, <2>1, <2>2 DEF BooksNext
<1>2. CASE UNCHANGED <<part, recordvars, papervars>>
  BY <1>2 DEF papervars
<1>. QED  BY <1>1, <1>2

LEMMA FoldsAre ==
  \A k \in Nat \ {0}, n \in Nat, embargo \in Nat :
     n >= k => CleanFolds(n, k, embargo, Folds(n, k, embargo))
<1>. SUFFICES ASSUME NEW k \in Nat \ {0}, NEW n \in Nat, NEW embargo \in Nat, n >= k
              PROVE  CleanFolds(n, k, embargo, Folds(n, k, embargo))
  OBVIOUS
<1>. DEFINE fs == Folds(n, k, embargo)
<1>1. fs = Folds(n, k, embargo)
  OBVIOUS
<1>. HIDE DEF fs
<1>2. CleanFolds(n, k, embargo, fs)
  BY <1>1, FoldsHold
<1>. QED  BY <1>2 DEF fs

(* For every series: no fold of the cross-validation trains, at or after its *)
(* test, on a sample whose label reads what a test label reads within the    *)
(* embargo, and no sample is lost but to it; no position of the momentum     *)
(* backtest depends on the close that pays it or a later one, or exceeds the *)
(* leverage (cv.py:16, tsmom_backtest.py:64).                                *)
THEOREM NothingLooksAheadEver == BooksSpec => []NothingLooksAhead
<1>1. BooksInit => spread \in Seq(Spreads)
  <2>1. <<>> \in Seq(Spreads)
    OBVIOUS
  <2>. QED  BY <2>1 DEF BooksInit, PairInit
<1>2. spread \in Seq(Spreads) /\ [BooksNext]_<<part, recordvars, papervars>>
        => (spread \in Seq(Spreads))'
  BY PapersStep, NextPairTyped
<1>3. spread \in Seq(Spreads) => NothingLooksAhead
  <2>. SUFFICES ASSUME spread \in Seq(Spreads) PROVE FoldsAreClean /\ PositionsLookBack
    BY DEF NothingLooksAhead
  <2>1. ASSUME NEW k \in 2..4, NEW embargo \in 0..2
        PROVE  CleanFolds(Len(spread) + k, k, embargo, Folds(Len(spread) + k, k, embargo))
    <3>1. /\ k \in Nat \ {0} /\ embargo \in Nat
          /\ Len(spread) + k \in Nat /\ Len(spread) + k >= k
      OBVIOUS
    <3>. QED  BY <3>1, FoldsAre
  <2>2. FoldsAreClean
    BY <2>1 DEF FoldsAreClean
  <2>. QED  BY <2>2, PositionsHold
<1>. QED  BY <1>1, <1>2, <1>3, PTL DEF BooksSpec

------------------------------------------------------------------------------
(* The maker backtest: what it counts, and what it holds.                    *)

MrTrades == [from : Nat, to : Nat, entry : Nat \ {0}, reason : {"SL", "TP", "ZEXIT", "TIME"},
             px : Nat, fee : Nat]
MrStates == [pos : [in : BOOLEAN, entry : Nat, at : Nat], bid : Nat, says : Says,
             trades : Seq(MrTrades), signaled : Nat, skipped : Nat, placed : Nat,
             filled : Nat, missed : Nat]

(* What bar i would have said to a position entered at a price on bar at.    *)
Touched(bs, entry, at, i) ==
  ExitReason([in |-> TRUE, entry |-> entry, at |-> at], bs[i], i, bs[i - 1].says).reason

TradeOK(bs, t) ==
  /\ t.from >= 1 /\ t.from < t.to /\ t.to <= Len(bs) /\ t.to - t.from <= MaxHoldBars
  /\ \A i \in (t.from + 1)..(t.to - 1) : Touched(bs, t.entry, t.from, i) = "NONE"
  /\ bs[t.to].l * 100 * 100 <= StopLoss(t.entry) => t.reason = "SL"
  /\ t.reason = "SL" => ~Gains(t)
  /\ t.reason = "TP" => Gains(t)

HeldOK(bs, s) ==
  s.pos.in => /\ s.pos.entry > 0 /\ s.pos.at >= 1 /\ s.pos.at <= Len(bs) /\ s.bid = 0
              /\ \A i \in (s.pos.at + 1)..Len(bs) : Touched(bs, s.pos.entry, s.pos.at, i) = "NONE"
              /\ \A k \in DOMAIN s.trades : s.trades[k].to < s.pos.at

Resting(s) == IF s.bid # 0 THEN 1 ELSE 0
Holding(s) == IF s.pos.in THEN 1 ELSE 0
CountsOK(s) ==
  /\ s.signaled = s.skipped + s.placed
  /\ s.placed = s.filled + s.missed + Resting(s)
  /\ s.filled = Len(s.trades) + Holding(s)

MrBody(bs, s) ==
  /\ bs \in Seq(MrBars) /\ s \in MrStates
  /\ CountsOK(s) /\ HeldOK(bs, s)
  /\ \A k \in DOMAIN s.trades : TradeOK(bs, s.trades[k])
  /\ \A k \in DOMAIN s.trades : k > 1 => s.trades[k - 1].to < s.trades[k].from

MrOK(bs, s) == MrBody(bs, s) /\ (bs # <<>> => s.says = bs[Len(bs)].says)

(* The stop's price is below the entry, whatever the slippage and the fees.  *)
LEMMA StopNeverGains ==
  ASSUME NEW t, t.entry \in Nat, t.px = StopLoss(t.entry) * (100 - SlipPct), t.fee = TakerPct
  PROVE  t.px \in Nat /\ ~Gains(t)
<1>. DEFINE e == t.entry
            u == 100 - SlPct
            v == 100 - SlipPct
            w == 100 - TakerPct
            q == t.px \div 100
<1>1. e \in Nat /\ u \in 0..100 /\ v \in 0..100 /\ w \in 0..100 /\ MakerPct \in Nat
  BY CostsAssumption
<1>2. t.px = e * u * v
  BY DEF StopLoss
<1>. HIDE DEF e, u, v, w
<1>3. \A a \in Nat, b, c \in 0..100 : a * b * c \in Nat /\ a * b * c <= a * 100 * 100
  <2>1. \A a \in Nat, b \in 0..100 : a * b \in Nat /\ a * b <= a * 100
    BY Z3
  <2>2. ASSUME NEW a \in Nat, NEW b \in 0..100, NEW c \in 0..100
        PROVE  a * b * c \in Nat /\ a * b * c <= a * 100 * 100
    <3>1. PICK k \in Nat : k = a * b /\ k <= a * 100
      BY <2>1
    <3>2. k * c \in Nat /\ k * c <= k * 100
      BY <2>1
    <3>. QED  BY <3>1, <3>2
  <2>. QED  BY <2>2
<1>4. t.px \in Nat /\ t.px <= e * 100 * 100
  BY <1>1, <1>2, <1>3
<1>5. q \in Nat /\ q <= e * 100
  <2>. HIDE DEF e
  <2>1. \A p, a \in Nat : p <= a * 100 => p \div 100 \in Nat /\ p \div 100 <= a
    BY Z3
  <2>2. e * 100 \in Nat
    BY <1>1
  <2>. QED  BY <1>4, <2>1, <2>2
<1>. HIDE DEF q
<1>6. q * w <= e * 100 * (100 + MakerPct)
  <2>1. \A a \in Nat, c \in 0..100 : a * c <= a * 100
    BY Z3
  <2>2. \A a, m \in Nat : a * 100 <= a * (100 + m)
    BY Z3
  <2>3. q * w <= q * 100
    BY <1>1, <1>5, <2>1
  <2>4. q * 100 <= e * 100 * 100
    BY <1>1, <1>5
  <2>5. (e * 100) * 100 <= (e * 100) * (100 + MakerPct)
    <3>1. e * 100 \in Nat
      BY <1>1
    <3>. QED  BY <1>1, <2>2, <3>1
  <2>6. q * w \in Int /\ (e * 100) * (100 + MakerPct) \in Int
    <3>1. \A a, c \in Int : a * c \in Int
      OBVIOUS
    <3>. QED  BY <1>1, <1>5, <3>1
  <2>. QED  BY <1>1, <1>5, <2>3, <2>4, <2>5, <2>6
<1>7. Gains(t) <=> q * w > e * 100 * (100 + MakerPct)
  BY DEF Gains, q, w, e
<1>8. q * w \in Int /\ e * 100 * (100 + MakerPct) \in Int
  <2>1. \A a, c \in Int : a * c \in Int
    OBVIOUS
  <2>2. e * 100 \in Int /\ 100 + MakerPct \in Int
    BY <1>1
  <2>. QED  BY <1>1, <1>5, <2>1, <2>2
<1>. QED  BY <1>4, <1>6, <1>7, <1>8

LEMMA TargetNeverLoses ==
  ASSUME NEW t, t.entry \in Nat \ {0}, t.px = TakeProfit(t.entry) * 100, t.fee = MakerPct
  PROVE  t.px \in Nat /\ Gains(t)
<1>. DEFINE e == t.entry
            m == MakerPct
            g == TpPct
            a == e * (100 + g + 2 * m)
<1>1. e \in Nat /\ e > 0 /\ m \in Nat /\ m <= 99 /\ g \in Nat /\ g * (100 - m) > 2 * m * m
  BY CostsAssumption
<1>2. t.px = a * 100
  BY DEF TakeProfit
<1>. HIDE DEF e, m, g
<1>3. a \in Nat
  BY <1>1
<1>4. t.px \in Nat /\ t.px \div 100 = a
  <2>. HIDE DEF a
  <2>1. \A x \in Nat : x * 100 \in Nat /\ (x * 100) \div 100 = x
    BY Z3
  <2>. QED  BY <1>2, <1>3, <2>1
<1>5. (100 + g + 2 * m) * (100 - m) > 100 * (100 + m)
  <2>1. \A x, y \in Nat : (100 + x + 2 * y) * (100 - y) = 100 * (100 + y) + (x * (100 - y) - 2 * y * y)
    BY Z3
  <2>2. g * (100 - m) \in Int /\ 2 * m * m \in Int /\ 100 * (100 + m) \in Int
    BY <1>1
  <2>. QED  BY <1>1, <2>1, <2>2
<1>6. a * (100 - m) > e * 100 * (100 + m)
  <2>1. \A x, y, z \in Int : x > 0 /\ y > z => x * y > x * z
    BY Z3
  <2>2. \A x, y, z \in Int : (x * y) * z = x * (y * z) /\ y * z \in Int
    BY Z3
  <2>3. 100 + g + 2 * m \in Int /\ 100 - m \in Int /\ 100 + m \in Int
    BY <1>1
  <2>. QED  BY <1>1, <1>5, <2>1, <2>2, <2>3
<1>. QED  BY <1>4, <1>6 DEF Gains, e, m

(* The five outcomes for a position on a bar, in the order they are tried.   *)
LEMMA ExitKinds ==
  ASSUME NEW pos, pos.entry \in Nat \ {0}, pos.at \in Nat, NEW b \in MrBars, NEW i \in Nat,
         NEW says, NEW x, x = ExitReason(pos, b, i, says)
  PROVE  /\ x.reason \in {"SL", "TP", "ZEXIT", "TIME", "NONE"}
         /\ x.reason # "NONE" => x.px \in Nat /\ x.fee \in Nat
         /\ x.reason = "SL" => x.px = StopLoss(pos.entry) * (100 - SlipPct) /\ x.fee = TakerPct
         /\ x.reason = "TP" => x.px = TakeProfit(pos.entry) * 100 /\ x.fee = MakerPct
         /\ b.l * 100 * 100 <= StopLoss(pos.entry) => x.reason = "SL"
         /\ x.reason = "NONE" => i - pos.at < MaxHoldBars
<1>1. b.l \in Nat /\ b.h \in Nat /\ b.c \in Nat
  BY CostsAssumption DEF MrBars
<1>2. MakerPct \in Nat /\ TakerPct \in Nat /\ 100 - SlipPct \in Nat /\ 100 - SlPct \in Nat /\ TpPct \in Nat
  BY CostsAssumption
<1>. DEFINE sp == StopLoss(pos.entry)
            tp == TakeProfit(pos.entry)
            cp == b.c * 100 * 100 * (100 - SlipPct)
<1>3. sp \in Nat /\ tp \in Nat /\ cp \in Nat /\ sp * (100 - SlipPct) \in Nat /\ tp * 100 \in Nat
  <2>1. \A u, v \in Nat : u * v \in Nat
    OBVIOUS
  <2>2. pos.entry * (100 - SlPct) \in Nat /\ b.c * 100 * 100 \in Nat /\ 100 + TpPct + 2 * MakerPct \in Nat
    BY <1>1, <1>2, <2>1
  <2>3. sp \in Nat /\ tp \in Nat
    BY <1>2, <2>1, <2>2 DEF StopLoss, TakeProfit
  <2>. HIDE DEF sp, tp
  <2>. QED  BY <1>2, <2>1, <2>2, <2>3
<1>. DEFINE S1 == b.l * 100 * 100 <= sp
            S2 == b.h * 100 * 100 >= tp
            S3 == says = "reverted"
            S4 == i - pos.at >= MaxHoldBars
<1>4. x = IF S1 THEN [reason |-> "SL", px |-> sp * (100 - SlipPct), fee |-> TakerPct]
          ELSE IF S2 THEN [reason |-> "TP", px |-> tp * 100, fee |-> MakerPct]
          ELSE IF S3 THEN [reason |-> "ZEXIT", px |-> cp, fee |-> TakerPct]
          ELSE IF S4 THEN [reason |-> "TIME", px |-> cp, fee |-> TakerPct]
          ELSE [reason |-> "NONE", px |-> 0, fee |-> 0]
  BY DEF ExitReason
<1>5. ~S4 => i - pos.at < MaxHoldBars
  BY CostsAssumption
<1>. HIDE DEF S1, S2, S3, S4, cp
<1>6. /\ S1 => x.reason = "SL" /\ x.px = sp * (100 - SlipPct) /\ x.fee = TakerPct
      /\ ~S1 /\ S2 => x.reason = "TP" /\ x.px = tp * 100 /\ x.fee = MakerPct
      /\ ~S1 /\ ~S2 /\ S3 => x.reason = "ZEXIT" /\ x.px = cp /\ x.fee = TakerPct
      /\ ~S1 /\ ~S2 /\ ~S3 /\ S4 => x.reason = "TIME" /\ x.px = cp /\ x.fee = TakerPct
      /\ ~S1 /\ ~S2 /\ ~S3 /\ ~S4 => x.reason = "NONE"
  <2>. HIDE DEF sp, tp
  <2>1. S1 => x.reason = "SL" /\ x.px = sp * (100 - SlipPct) /\ x.fee = TakerPct
    BY <1>4
  <2>2. ~S1 /\ S2 => x.reason = "TP" /\ x.px = tp * 100 /\ x.fee = MakerPct
    BY <1>4
  <2>3. ~S1 /\ ~S2 /\ S3 => x.reason = "ZEXIT" /\ x.px = cp /\ x.fee = TakerPct
    BY <1>4
  <2>4. ~S1 /\ ~S2 /\ ~S3 /\ S4 => x.reason = "TIME" /\ x.px = cp /\ x.fee = TakerPct
    BY <1>4
  <2>5. ~S1 /\ ~S2 /\ ~S3 /\ ~S4 => x.reason = "NONE"
    BY <1>4
  <2>. QED  BY <2>1, <2>2, <2>3, <2>4, <2>5
<1>7. S1 <=> b.l * 100 * 100 <= sp
  BY DEF S1
<1>. HIDE DEF sp, tp
<1>8. /\ x.reason \in {"SL", "TP", "ZEXIT", "TIME", "NONE"}
      /\ x.reason # "NONE" => x.px \in Nat /\ x.fee \in Nat
      /\ x.reason = "SL" => x.px = sp * (100 - SlipPct) /\ x.fee = TakerPct
      /\ x.reason = "TP" => x.px = tp * 100 /\ x.fee = MakerPct
      /\ S1 => x.reason = "SL"
      /\ x.reason = "NONE" => ~S4
  <2>1. CASE S1
    BY <1>2, <1>3, <1>6, <2>1
  <2>2. CASE ~S1 /\ S2
    BY <1>2, <1>3, <1>6, <2>2
  <2>3. CASE ~S1 /\ ~S2 /\ S3
    BY <1>2, <1>3, <1>6, <2>3
  <2>4. CASE ~S1 /\ ~S2 /\ ~S3
    BY <1>2, <1>3, <1>6, <2>4
  <2>. QED  BY <2>1, <2>2, <2>3, <2>4
<1>. QED  BY <1>5, <1>7, <1>8 DEF sp, tp

(* What a history of bars says does not change when a bar is added.          *)
LEMMA TouchedBefore ==
  ASSUME NEW bs \in Seq(MrBars), NEW b \in MrBars, NEW entry, NEW at,
         NEW i \in 2..Len(bs)
  PROVE  Touched(Append(bs, b), entry, at, i) = Touched(bs, entry, at, i)
<1>1. Append(bs, b)[i] = bs[i] /\ Append(bs, b)[i - 1] = bs[i - 1]
  OBVIOUS
<1>. QED  BY <1>1 DEF Touched

LEMMA TradeStays ==
  ASSUME NEW bs \in Seq(MrBars), NEW b \in MrBars, NEW t \in MrTrades, TradeOK(bs, t)
  PROVE  TradeOK(Append(bs, b), t)
<1>. DEFINE more == Append(bs, b)
<1>1. Len(more) = Len(bs) + 1 /\ Len(bs) \in Nat
  OBVIOUS
<1>2. t.from \in Nat /\ t.to \in Nat /\ t.from >= 1 /\ t.to <= Len(bs) /\ t.from < t.to
  BY DEF TradeOK, MrTrades
<1>3. \A i \in (t.from + 1)..(t.to - 1) : Touched(more, t.entry, t.from, i) = "NONE"
  <2>. SUFFICES ASSUME NEW i \in (t.from + 1)..(t.to - 1)
                PROVE  Touched(more, t.entry, t.from, i) = "NONE"
    OBVIOUS
  <2>1. i \in 2..Len(bs)
    BY <1>1, <1>2
  <2>2. Touched(bs, t.entry, t.from, i) = "NONE"
    BY DEF TradeOK
  <2>. QED  BY <2>1, <2>2, TouchedBefore
<1>4. more[t.to] = bs[t.to]
  BY <1>1, <1>2
<1>. HIDE DEF more
<1>5. t.to <= Len(more)
  BY <1>1, <1>2
<1>6. TradeOK(more, t)
  BY <1>3, <1>4, <1>5 DEF TradeOK
<1>. QED  BY <1>6 DEF more

LEMMA BarsGrow ==
  ASSUME NEW bs \in Seq(MrBars), NEW b \in MrBars
  PROVE  /\ Append(bs, b) \in Seq(MrBars) /\ Len(Append(bs, b)) = Len(bs) + 1 /\ Len(bs) \in Nat
         /\ Append(bs, b)[Len(bs) + 1] = b
         /\ bs # <<>> => Len(bs) >= 1 /\ Append(bs, b)[Len(bs)] = bs[Len(bs)]
  OBVIOUS

(* An exit closes the position with the trade that the bars so far explain.  *)
LEMMA LeavingOK ==
  ASSUME NEW bs, NEW s, MrOK(bs, s), s.pos.in, NEW b \in MrBars,
         NEW x, x = ExitReason(s.pos, b, Len(bs) + 1, s.says), x.reason # "NONE",
         NEW t, t = [from |-> s.pos.at, to |-> Len(bs) + 1, entry |-> s.pos.entry,
                     reason |-> x.reason, px |-> x.px, fee |-> x.fee]
  PROVE  t \in MrTrades /\ TradeOK(Append(bs, b), t)
<1>. DEFINE more == Append(bs, b)
            n == Len(bs)
            at == s.pos.at
            entry == s.pos.entry
<1>1. /\ bs \in Seq(MrBars) /\ n \in Nat /\ at \in Nat /\ at >= 1 /\ at <= n /\ entry \in Nat \ {0}
      /\ \A i \in (at + 1)..n : Touched(bs, entry, at, i) = "NONE"
  BY DEF MrOK, MrBody, HeldOK, MrStates
<1>2. Len(more) = n + 1 /\ more[n + 1] = b
  BY <1>1, BarsGrow
<1>3. /\ t.from = at /\ t.to = n + 1 /\ t.entry = entry
      /\ t.reason = x.reason /\ t.px = x.px /\ t.fee = x.fee
  OBVIOUS
<1>4. /\ x.reason \in {"SL", "TP", "ZEXIT", "TIME"} /\ x.px \in Nat /\ x.fee \in Nat
      /\ x.reason = "SL" => x.px = StopLoss(entry) * (100 - SlipPct) /\ x.fee = TakerPct
      /\ x.reason = "TP" => x.px = TakeProfit(entry) * 100 /\ x.fee = MakerPct
      /\ b.l * 100 * 100 <= StopLoss(entry) => x.reason = "SL"
  <2>1. n + 1 \in Nat
    BY <1>1
  <2>. QED  BY <1>1, <2>1, ExitKinds
<1>5. t \in MrTrades
  BY <1>1, <1>4 DEF MrTrades
<1>6. n + 1 - at <= MaxHoldBars
  <2>1. CASE at = n
    BY <1>1, <2>1, CostsAssumption
  <2>2. CASE at < n
    <3>1. n \in (at + 1)..n /\ n \in Nat
      BY <1>1, <2>2
    <3>2. Touched(bs, entry, at, n) = "NONE"
      BY <1>1, <3>1
    <3>3. ExitReason([in |-> TRUE, entry |-> entry, at |-> at], bs[n], n, bs[n - 1].says).reason = "NONE"
      BY <3>2 DEF Touched
    <3>4. bs[n] \in MrBars
      BY <1>1, <3>1
    <3>. DEFINE p == [in |-> TRUE, entry |-> entry, at |-> at]
    <3>5. p.entry = entry /\ p.at = at
      OBVIOUS
    <3>. HIDE DEF p, n, at, entry
    <3>6. n - p.at < MaxHoldBars
      BY <1>1, <3>3, <3>4, <3>5, ExitKinds, SMTT(30) DEF p
    <3>. QED  BY <1>1, <3>5, <3>6, CostsAssumption
  <2>. QED  BY <1>1, <2>1, <2>2
<1>7. \A i \in (t.from + 1)..(t.to - 1) : Touched(more, t.entry, t.from, i) = "NONE"
  <2>. SUFFICES ASSUME NEW i \in (t.from + 1)..(t.to - 1)
                PROVE  Touched(more, t.entry, t.from, i) = "NONE"
    OBVIOUS
  <2>1. i \in 2..n /\ i \in (at + 1)..n
    BY <1>1, <1>3
  <2>. QED  BY <1>1, <1>3, <2>1, TouchedBefore
<1>8. t.reason = "SL" => ~Gains(t)
  BY <1>1, <1>3, <1>4, StopNeverGains
<1>9. t.reason = "TP" => Gains(t)
  BY <1>1, <1>3, <1>4, TargetNeverLoses
<1>10. more[t.to].l * 100 * 100 <= StopLoss(t.entry) => t.reason = "SL"
  BY <1>2, <1>3, <1>4
<1>11. t.from >= 1 /\ t.from < t.to /\ t.to <= Len(more) /\ t.to - t.from <= MaxHoldBars
  BY <1>1, <1>2, <1>3, <1>6
<1>. HIDE DEF more
<1>12. TradeOK(more, t)
  BY <1>7, <1>8, <1>9, <1>10, <1>11 DEF TradeOK
<1>. QED  BY <1>5, <1>12 DEF more

(* What the exits leave: the same position over one bar more, or its trade.  *)
LEMMA ExitsBody ==
  ASSUME NEW bs, NEW s, MrOK(bs, s), NEW b \in MrBars, NEW e, e = Exits(s, b, Len(bs) + 1)
  PROVE  /\ MrBody(Append(bs, b), e)
         /\ e.bid # 0 => \A k \in DOMAIN e.trades : e.trades[k].to < Len(Append(bs, b))
<1>. DEFINE more == Append(bs, b)
            n == Len(bs)
            x == ExitReason(s.pos, b, n + 1, s.says)
            Grown(k) == /\ s.trades[k].to \in Nat /\ s.trades[k].to <= n
                        /\ TradeOK(more, s.trades[k])
<1>1. /\ bs \in Seq(MrBars) /\ s \in MrStates /\ CountsOK(s) /\ HeldOK(bs, s)
      /\ \A k \in DOMAIN s.trades : TradeOK(bs, s.trades[k])
      /\ \A k \in DOMAIN s.trades : k > 1 => s.trades[k - 1].to < s.trades[k].from
      /\ bs # <<>> => s.says = bs[n].says
  BY DEF MrOK, MrBody
<1>2. /\ more \in Seq(MrBars) /\ Len(more) = n + 1 /\ n \in Nat /\ more[n + 1] = b
      /\ bs # <<>> => n >= 1 /\ more[n] = bs[n]
  BY <1>1, BarsGrow
<1>3. \A k \in DOMAIN s.trades : Grown(k)
  <2>. SUFFICES ASSUME NEW k \in DOMAIN s.trades PROVE Grown(k)
    OBVIOUS
  <2>1. s.trades[k] \in MrTrades
    <3>1. s.trades \in Seq(MrTrades)
      BY <1>1 DEF MrStates
    <3>. QED  BY <3>1
  <2>2. TradeOK(bs, s.trades[k])
    BY <1>1
  <2>3. TradeOK(more, s.trades[k])
    BY <1>1, <2>1, <2>2, TradeStays
  <2>. QED  BY <2>1, <2>2, <2>3 DEF TradeOK, MrTrades
<1>4. ASSUME ~s.pos.in \/ x.reason = "NONE"
      PROVE  MrBody(more, e) /\ (e.bid # 0 => \A k \in DOMAIN e.trades : e.trades[k].to < Len(more))
  <2>1. e = s
    BY <1>4 DEF Exits
  <2>2. HeldOK(more, s)
    <3>. SUFFICES ASSUME s.pos.in
                  PROVE  /\ s.pos.entry > 0 /\ s.pos.at >= 1 /\ s.pos.at <= Len(more) /\ s.bid = 0
                         /\ \A i \in (s.pos.at + 1)..Len(more) :
                               Touched(more, s.pos.entry, s.pos.at, i) = "NONE"
                         /\ \A k \in DOMAIN s.trades : s.trades[k].to < s.pos.at
      BY DEF HeldOK
    <3>1. /\ s.pos.entry > 0 /\ s.pos.at >= 1 /\ s.pos.at <= n /\ s.bid = 0 /\ s.pos.at \in Nat
          /\ \A i \in (s.pos.at + 1)..n : Touched(bs, s.pos.entry, s.pos.at, i) = "NONE"
          /\ \A k \in DOMAIN s.trades : s.trades[k].to < s.pos.at
      BY <1>1 DEF HeldOK, MrStates
    <3>2. s.pos = [in |-> TRUE, entry |-> s.pos.entry, at |-> s.pos.at]
      <4>1. \A p \in [in : BOOLEAN, entry : Nat, at : Nat] :
               p.in => p = [in |-> TRUE, entry |-> p.entry, at |-> p.at]
        OBVIOUS
      <4>2. s.pos \in [in : BOOLEAN, entry : Nat, at : Nat]
        BY <1>1 DEF MrStates
      <4>. QED  BY <4>1, <4>2
    <3>3. bs # <<>> /\ n >= 1
      BY <1>1, <1>2, <3>1
    <3>4. Touched(more, s.pos.entry, s.pos.at, n + 1) = "NONE"
      <4>1. n + 1 - 1 = n /\ more[n].says = s.says /\ more[n + 1] = b
        BY <1>1, <1>2, <3>3
      <4>2. ExitReason([in |-> TRUE, entry |-> s.pos.entry, at |-> s.pos.at], b, n + 1, s.says) = x
        BY <3>2
      <4>3. x.reason = "NONE"
        BY <1>4
      <4>. HIDE DEF more, n, x
      <4>. DEFINE p == [in |-> TRUE, entry |-> s.pos.entry, at |-> s.pos.at]
                  j == n + 1
      <4>4. Touched(more, s.pos.entry, s.pos.at, j) = ExitReason(p, more[j], j, more[j - 1].says).reason
        BY DEF Touched
      <4>5. more[j] = b /\ more[j - 1].says = s.says
        <5>1. j - 1 = n /\ j = n + 1
          BY <1>2
        <5>. HIDE DEF j
        <5>. QED  BY <4>1, <5>1
      <4>6. ExitReason(p, b, j, s.says) = x
        BY <4>2
      <4>. HIDE DEF p, j
      <4>7. Touched(more, s.pos.entry, s.pos.at, j) = "NONE"
        BY <4>3, <4>4, <4>5, <4>6
      <4>. QED  BY <4>7 DEF j
    <3>5. \A i \in (s.pos.at + 1)..Len(more) : Touched(more, s.pos.entry, s.pos.at, i) = "NONE"
      <4>. SUFFICES ASSUME NEW i \in (s.pos.at + 1)..Len(more)
                    PROVE  Touched(more, s.pos.entry, s.pos.at, i) = "NONE"
        OBVIOUS
      <4>1. CASE i = n + 1
        BY <3>4, <4>1
      <4>2. CASE i # n + 1
        <5>1. i \in 2..n /\ i \in (s.pos.at + 1)..n
          BY <1>2, <3>1, <4>2
        <5>. QED  BY <1>1, <3>1, <5>1, TouchedBefore
      <4>. QED  BY <4>1, <4>2
    <3>. QED  BY <1>2, <3>1, <3>5
  <2>3. \A k \in DOMAIN s.trades : TradeOK(more, s.trades[k]) /\ s.trades[k].to < Len(more)
    BY <1>2, <1>3
  <2>. HIDE DEF more
  <2>. QED  BY <1>1, <1>2, <2>1, <2>2, <2>3 DEF MrBody
<1>5. ASSUME s.pos.in, x.reason # "NONE"
      PROVE  MrBody(more, e) /\ (e.bid # 0 => \A k \in DOMAIN e.trades : e.trades[k].to < Len(more))
  <2>. DEFINE t == [from |-> s.pos.at, to |-> n + 1, entry |-> s.pos.entry,
                    reason |-> x.reason, px |-> x.px, fee |-> x.fee]
              m == Len(s.trades)
  <2>1. t \in MrTrades /\ TradeOK(more, t)
    BY <1>5, LeavingOK
  <2>2. e = [s EXCEPT !.pos = NoPos, !.trades = Append(@, t)]
    BY <1>5 DEF Exits
  <2>3. /\ e.pos = NoPos /\ e.trades = Append(s.trades, t) /\ e.bid = s.bid /\ e.says = s.says
        /\ e.signaled = s.signaled /\ e.skipped = s.skipped /\ e.placed = s.placed
        /\ e.filled = s.filled /\ e.missed = s.missed
        /\ e = [pos |-> NoPos, bid |-> s.bid, says |-> s.says, trades |-> Append(s.trades, t),
                signaled |-> s.signaled, skipped |-> s.skipped, placed |-> s.placed,
                filled |-> s.filled, missed |-> s.missed]
    <3>. HIDE DEF t
    <3>. QED  BY <1>1, <2>2 DEF MrStates
  <2>4. t.from = s.pos.at /\ t.to = n + 1
    OBVIOUS
  <2>5. /\ s.bid = 0 /\ \A k \in DOMAIN s.trades : s.trades[k].to < s.pos.at
    BY <1>1, <1>5 DEF HeldOK
  <2>. HIDE DEF t, more, n, x
  <2>6. /\ s.trades \in Seq(MrTrades) /\ m \in Nat /\ DOMAIN s.trades = 1..m
        /\ e.trades \in Seq(MrTrades) /\ Len(e.trades) = m + 1 /\ DOMAIN e.trades = 1..(m + 1)
        /\ e.trades[m + 1] = t /\ \A k \in 1..m : e.trades[k] = s.trades[k]
    <3>1. s.trades \in Seq(MrTrades)
      BY <1>1 DEF MrStates
    <3>. QED  BY <2>1, <2>3, <3>1
  <2>7. e \in MrStates
    <3>1. NoPos \in [in : BOOLEAN, entry : Nat, at : Nat]
      BY DEF NoPos
    <3>2. e.pos \in [in : BOOLEAN, entry : Nat, at : Nat]
      BY <2>3, <3>1
    <3>3. Append(s.trades, t) \in Seq(MrTrades)
      BY <2>3, <2>6
    <3>. QED  BY <1>1, <2>3, <3>1, <3>3 DEF MrStates
  <2>8. ~e.pos.in
    BY <2>3 DEF NoPos
  <2>9. CountsOK(e)
    <3>1. Holding(s) = 1 /\ Holding(e) = 0 /\ Resting(e) = Resting(s)
      BY <1>5, <2>3, <2>8 DEF Holding, Resting
    <3>. QED  BY <1>1, <2>3, <2>6, <3>1 DEF CountsOK
  <2>10. HeldOK(more, e)
    BY <2>8 DEF HeldOK
  <2>11. \A k \in DOMAIN e.trades : TradeOK(more, e.trades[k])
    <3>. SUFFICES ASSUME NEW k \in 1..(m + 1) PROVE TradeOK(more, e.trades[k])
      BY <2>6
    <3>1. CASE k = m + 1
      <4>1. TradeOK(more, t)
        BY <2>1
      <4>2. e.trades[k] = t
        BY <2>6, <3>1
      <4>. QED  BY <4>1, <4>2
    <3>2. CASE k # m + 1
      <4>1. k \in 1..m
        BY <2>6, <3>2
      <4>2. e.trades[k] = s.trades[k] /\ TradeOK(more, s.trades[k])
        BY <1>3, <2>6, <4>1
      <4>. QED  BY <4>2
    <3>. QED  BY <3>1, <3>2
  <2>12. \A k \in DOMAIN e.trades : k > 1 => e.trades[k - 1].to < e.trades[k].from
    <3>. SUFFICES ASSUME NEW k \in 1..(m + 1), k > 1 PROVE e.trades[k - 1].to < e.trades[k].from
      BY <2>6
    <3>1. CASE k = m + 1
      <4>1. k - 1 \in 1..m /\ e.trades[k - 1] = s.trades[k - 1] /\ e.trades[k] = t
        BY <2>6, <3>1
      <4>. QED  BY <2>4, <2>5, <2>6, <4>1
    <3>2. CASE k # m + 1
      <4>1. k \in 1..m /\ k - 1 \in 1..m
        BY <2>6, <3>2
      <4>2. s.trades[k - 1].to < s.trades[k].from
        BY <1>1, <2>6, <4>1
      <4>. QED  BY <2>6, <4>1, <4>2
    <3>. QED  BY <3>1, <3>2
  <2>. QED  BY <1>2, <2>3, <2>5, <2>7, <2>9, <2>10, <2>11, <2>12 DEF MrBody
<1>6. s.pos.in \in BOOLEAN
  BY <1>1 DEF MrStates
<1>. QED  BY <1>4, <1>5

LEMMA MrTyped ==
  ASSUME NEW s \in MrStates
  PROVE  /\ s.signaled \in Nat /\ s.skipped \in Nat /\ s.placed \in Nat /\ s.filled \in Nat
         /\ s.missed \in Nat /\ s.bid \in Nat /\ s.trades \in Seq(MrTrades) /\ Len(s.trades) \in Nat
         /\ s.pos \in [in : BOOLEAN, entry : Nat, at : Nat] /\ s.says \in Says
<1>1. s.trades \in Seq(MrTrades)
  BY DEF MrStates
<1>2. Len(s.trades) \in Nat
  BY <1>1
<1>. QED  BY <1>1, <1>2 DEF MrStates

(* The changes to the state, field by field.                                 *)
LEMMA MrMissed ==
  ASSUME NEW s \in MrStates, NEW u, u = [s EXCEPT !.bid = 0, !.missed = @ + 1]
  PROVE  /\ u \in MrStates
         /\ u.pos = s.pos /\ u.bid = 0 /\ u.says = s.says /\ u.trades = s.trades
         /\ u.signaled = s.signaled /\ u.skipped = s.skipped /\ u.placed = s.placed
         /\ u.filled = s.filled /\ u.missed = s.missed + 1
<1>1. u = [pos |-> s.pos, bid |-> 0, says |-> s.says, trades |-> s.trades, signaled |-> s.signaled,
          skipped |-> s.skipped, placed |-> s.placed, filled |-> s.filled, missed |-> s.missed + 1]
  BY DEF MrStates
<1>2. 0 \in Nat /\ s.signaled \in Nat /\ s.skipped \in Nat /\ s.placed \in Nat /\ s.filled \in Nat /\ s.missed + 1 \in Nat
  BY MrTyped
<1>3. s.pos \in [in : BOOLEAN, entry : Nat, at : Nat] /\ s.says \in Says /\ s.trades \in Seq(MrTrades)
  BY MrTyped
<1>. QED  BY <1>1, <1>2, <1>3 DEF MrStates

LEMMA MrSkipped ==
  ASSUME NEW s \in MrStates, NEW u, u = [s EXCEPT !.signaled = @ + 1, !.skipped = @ + 1]
  PROVE  /\ u \in MrStates
         /\ u.pos = s.pos /\ u.bid = s.bid /\ u.says = s.says /\ u.trades = s.trades
         /\ u.signaled = s.signaled + 1 /\ u.skipped = s.skipped + 1 /\ u.placed = s.placed
         /\ u.filled = s.filled /\ u.missed = s.missed
<1>1. u = [pos |-> s.pos, bid |-> s.bid, says |-> s.says, trades |-> s.trades, signaled |-> s.signaled + 1,
          skipped |-> s.skipped + 1, placed |-> s.placed, filled |-> s.filled, missed |-> s.missed]
  BY DEF MrStates
<1>2. s.bid \in Nat /\ s.signaled + 1 \in Nat /\ s.skipped + 1 \in Nat /\ s.placed \in Nat /\ s.filled \in Nat /\ s.missed \in Nat
  BY MrTyped
<1>3. s.pos \in [in : BOOLEAN, entry : Nat, at : Nat] /\ s.says \in Says /\ s.trades \in Seq(MrTrades)
  BY MrTyped
<1>. QED  BY <1>1, <1>2, <1>3 DEF MrStates

(* The resting bid is gone after its bar: filled on it, or missed.           *)
LEMMA BidBody ==
  ASSUME NEW bs, NEW e, MrBody(bs, e), Len(bs) >= 1, NEW b,
         e.bid # 0 => \A k \in DOMAIN e.trades : e.trades[k].to < Len(bs),
         NEW f, f = Bid(e, b, Len(bs))
  PROVE  MrBody(bs, f) /\ f.bid = 0
<1>. DEFINE n == Len(bs)
            hit == [in |-> TRUE, entry |-> e.bid, at |-> n]
<1>1. /\ bs \in Seq(MrBars) /\ n \in Nat /\ e \in MrStates /\ CountsOK(e) /\ HeldOK(bs, e)
      /\ \A k \in DOMAIN e.trades : TradeOK(bs, e.trades[k])
      /\ \A k \in DOMAIN e.trades : k > 1 => e.trades[k - 1].to < e.trades[k].from
  BY DEF MrBody
<1>2. e.pos.in \in BOOLEAN /\ e.bid \in Nat /\ e.pos \in [in : BOOLEAN, entry : Nat, at : Nat]
  BY <1>1 DEF MrStates
<1>3. CASE e.pos.in \/ e.bid = 0
  <2>1. f = e
    BY <1>3 DEF Bid, NoBid
  <2>2. e.bid = 0
    BY <1>1, <1>3 DEF HeldOK
  <2>. QED  BY <2>1, <2>2
<1>4. CASE ~e.pos.in /\ e.bid # 0 /\ b.l * 100 <= e.bid
  <2>1. f = [e EXCEPT !.pos = hit, !.bid = 0, !.filled = @ + 1]
    BY <1>4 DEF Bid, NoBid
  <2>2. hit \in [in : BOOLEAN, entry : Nat, at : Nat]
    BY <1>1, <1>2
  <2>3. hit.in /\ hit.entry = e.bid /\ hit.at = n
    OBVIOUS
  <2>. HIDE DEF hit
  <2>4. /\ f.pos = hit /\ f.bid = 0 /\ f.filled = e.filled + 1 /\ f.trades = e.trades
        /\ f.signaled = e.signaled /\ f.skipped = e.skipped /\ f.placed = e.placed
        /\ f.missed = e.missed /\ f \in MrStates
    <3>1. e \in MrStates
      BY <1>1
    <3>2. f = [pos |-> hit, bid |-> 0, says |-> e.says, trades |-> e.trades,
               signaled |-> e.signaled, skipped |-> e.skipped, placed |-> e.placed,
               filled |-> e.filled + 1, missed |-> e.missed]
      BY ONLY <2>1, <3>1 DEF MrStates
    <3>3. e.filled + 1 \in Nat /\ 0 \in Nat
      BY <3>1, MrTyped
    <3>4. f \in MrStates
      BY ONLY <2>2, <3>1, <3>2, <3>3 DEF MrStates
    <3>. QED  BY ONLY <3>2, <3>4
  <2>5. CountsOK(f)
    <3>1. Holding(e) = 0 /\ Holding(f) = 1 /\ Resting(e) = 1 /\ Resting(f) = 0
      BY <1>4, <2>3, <2>4 DEF Holding, Resting
    <3>. QED  BY <1>1, <2>4, <3>1, MrTyped DEF CountsOK
  <2>6. HeldOK(bs, f)
    BY <1>1, <1>2, <1>4, <2>3, <2>4 DEF HeldOK
  <2>. QED  BY <1>1, <2>4, <2>5, <2>6 DEF MrBody
<1>5. CASE ~e.pos.in /\ e.bid # 0 /\ ~(b.l * 100 <= e.bid)
  <2>1. f = [e EXCEPT !.bid = 0, !.missed = @ + 1]
    BY <1>5 DEF Bid, NoBid
  <2>2. /\ f.pos = e.pos /\ f.bid = 0 /\ f.filled = e.filled /\ f.trades = e.trades
        /\ f.signaled = e.signaled /\ f.skipped = e.skipped /\ f.placed = e.placed
        /\ f.missed = e.missed + 1 /\ f \in MrStates
    BY <1>1, <2>1, MrMissed
  <2>3. CountsOK(f)
    <3>1. Holding(f) = Holding(e) /\ Resting(e) = 1 /\ Resting(f) = 0
      BY <1>5, <2>2 DEF Holding, Resting
    <3>2. /\ e.placed = e.filled + e.missed + 1 /\ e.signaled = e.skipped + e.placed
          /\ e.filled = Len(e.trades) + Holding(e) /\ e.filled \in Nat /\ e.missed \in Nat
      BY <1>1, <3>1, MrTyped DEF CountsOK
    <3>. QED  BY ONLY <2>2, <3>1, <3>2 DEF CountsOK
  <2>4. HeldOK(bs, f)
    BY <1>5, <2>2 DEF HeldOK
  <2>. QED  BY <1>1, <2>2, <2>3, <2>4 DEF MrBody
<1>. QED  BY <1>2, <1>3, <1>4, <1>5

(* A signal rests a bid for the next bar, above nothing.                     *)
LEMMA SignalBody ==
  ASSUME NEW bs, NEW f, MrBody(bs, f), Len(bs) >= 1, f.bid = 0,
         NEW b \in MrBars, b = bs[Len(bs)], NEW g, g = Signal(f, b)
  PROVE  MrOK(bs, g)
<1>. DEFINE bid == b.c * (100 - HalfSpreadPct)
<1>1. /\ bs \in Seq(MrBars) /\ f \in MrStates /\ CountsOK(f) /\ HeldOK(bs, f)
      /\ \A k \in DOMAIN f.trades : TradeOK(bs, f.trades[k])
      /\ \A k \in DOMAIN f.trades : k > 1 => f.trades[k - 1].to < f.trades[k].from
  BY DEF MrBody
<1>2. f.pos.in \in BOOLEAN /\ b.says \in Says
  BY <1>1 DEF MrStates, MrBars
<1>3. bid \in Nat /\ bid # 0
  <2>1. \A u, v \in Nat : u > 0 /\ v > 0 => u * v \in Nat /\ u * v > 0
    BY Z3
  <2>2. b.c \in MrPrices
    BY DEF MrBars
  <2>3. b.c \in Nat /\ b.c > 0
    <3>1. MrPrices \subseteq Nat \ {0}
      BY CostsAssumption
    <3>2. b.c \in Nat \ {0}
      BY ONLY <2>2, <3>1
    <3>. QED  BY ONLY <3>2
  <2>4. 100 - HalfSpreadPct \in Nat /\ 100 - HalfSpreadPct > 0
    BY CostsAssumption
  <2>. QED  BY <2>1, <2>3, <2>4
<1>. HIDE DEF bid
<1>. DEFINE t == [f EXCEPT !.says = b.says]
<1>4. /\ t \in MrStates /\ t.pos = f.pos /\ t.bid = 0 /\ t.says = b.says /\ t.trades = f.trades
      /\ t.signaled = f.signaled /\ t.skipped = f.skipped /\ t.placed = f.placed
      /\ t.filled = f.filled /\ t.missed = f.missed
  BY <1>1, <1>2 DEF MrStates
<1>. HIDE DEF t
<1>5. ASSUME NEW s, s \in MrStates, s.pos = f.pos, s.trades = f.trades, s.says = b.says, CountsOK(s),
             s.pos.in => s.bid = 0
      PROVE  MrOK(bs, s)
  <2>1. HeldOK(bs, s)
    BY <1>1, <1>5 DEF HeldOK
  <2>2. MrBody(bs, s)
    BY <1>1, <1>5, <2>1 DEF MrBody
  <2>. QED  BY <1>5, <2>2 DEF MrOK
<1>6. /\ f.signaled = f.skipped + f.placed /\ f.placed = f.filled + f.missed
      /\ f.filled = Len(f.trades) + Holding(f)
      /\ f.signaled \in Nat /\ f.skipped \in Nat /\ f.placed \in Nat /\ f.filled \in Nat /\ f.missed \in Nat
  <2>1. Resting(f) = 0
    BY DEF Resting
  <2>. QED  BY <1>1, <2>1, MrTyped DEF CountsOK
<1>7. CASE f.pos.in \/ b.says \notin {"entry", "thin entry"}
  <2>1. g = t
    BY <1>7 DEF Signal, t
  <2>2. CountsOK(t)
    <3>1. Holding(t) = Holding(f) /\ Resting(t) = 0
      BY <1>4 DEF Holding, Resting
    <3>. QED  BY <1>4, <1>6, <3>1 DEF CountsOK
  <2>. QED  BY <1>4, <1>5, <2>1, <2>2
<1>8. CASE ~f.pos.in /\ b.says = "entry"
  <2>1. g = [t EXCEPT !.signaled = @ + 1, !.placed = @ + 1, !.bid = bid]
    BY <1>8 DEF Signal, t, bid, NoBid
  <2>2. /\ g \in MrStates /\ g.pos = f.pos /\ g.trades = f.trades /\ g.says = b.says /\ g.bid = bid
        /\ g.signaled = f.signaled + 1 /\ g.placed = f.placed + 1 /\ g.skipped = f.skipped
        /\ g.filled = f.filled /\ g.missed = f.missed
    <3>1. /\ g \in MrStates /\ g.pos = t.pos /\ g.trades = t.trades /\ g.says = t.says /\ g.bid = bid
          /\ g.signaled = t.signaled + 1 /\ g.placed = t.placed + 1 /\ g.skipped = t.skipped
          /\ g.filled = t.filled /\ g.missed = t.missed
      <4>1. t \in MrStates /\ bid \in Nat
        BY <1>3, <1>4
      <4>2. g = [pos |-> t.pos, bid |-> bid, says |-> t.says, trades |-> t.trades,
                 signaled |-> t.signaled + 1, skipped |-> t.skipped, placed |-> t.placed + 1,
                 filled |-> t.filled, missed |-> t.missed]
        BY ONLY <2>1, <4>1 DEF MrStates
      <4>3. t.signaled + 1 \in Nat /\ t.placed + 1 \in Nat
        BY <4>1, MrTyped
      <4>4. g \in MrStates
        BY ONLY <4>1, <4>2, <4>3 DEF MrStates
      <4>. QED  BY ONLY <4>2, <4>4
    <3>. QED  BY <1>4, <3>1
  <2>3. CountsOK(g)
    <3>1. Holding(g) = Holding(f) /\ Resting(g) = 1
      BY <1>3, <2>2 DEF Holding, Resting
    <3>. QED  BY <1>6, <2>2, <3>1 DEF CountsOK
  <2>. QED  BY <1>5, <1>8, <2>2, <2>3
<1>9. CASE ~f.pos.in /\ b.says = "thin entry"
  <2>1. g = [t EXCEPT !.signaled = @ + 1, !.skipped = @ + 1]
    BY <1>9 DEF Signal, t, NoBid
  <2>2. /\ g \in MrStates /\ g.pos = f.pos /\ g.trades = f.trades /\ g.says = b.says /\ g.bid = 0
        /\ g.signaled = f.signaled + 1 /\ g.placed = f.placed /\ g.skipped = f.skipped + 1
        /\ g.filled = f.filled /\ g.missed = f.missed
    <3>1. /\ g \in MrStates /\ g.pos = t.pos /\ g.trades = t.trades /\ g.says = t.says /\ g.bid = t.bid
          /\ g.signaled = t.signaled + 1 /\ g.placed = t.placed /\ g.skipped = t.skipped + 1
          /\ g.filled = t.filled /\ g.missed = t.missed
      <4>1. t \in MrStates
        BY <1>4
      <4>. QED  BY ONLY <2>1, <4>1, MrSkipped
    <3>. QED  BY <1>4, <3>1
  <2>3. CountsOK(g)
    <3>1. Holding(g) = Holding(f) /\ Resting(g) = 0
      BY <2>2 DEF Holding, Resting
    <3>. QED  BY <1>6, <2>2, <3>1 DEF CountsOK
  <2>. QED  BY <1>5, <2>2, <2>3
<1>. QED  BY <1>2, <1>7, <1>8, <1>9

LEMMA InitMrOK == MrInit => MrOK(mrbars, mr)
<1>. SUFFICES ASSUME MrInit PROVE MrOK(mrbars, mr)
  OBVIOUS
<1>1. mrbars = <<>> /\ mr = Start
  BY DEF MrInit
<1>2. /\ Start.pos = NoPos /\ Start.bid = 0 /\ Start.says = "warming" /\ Start.trades = <<>>
      /\ Start.signaled = 0 /\ Start.skipped = 0 /\ Start.placed = 0 /\ Start.filled = 0 /\ Start.missed = 0
  BY DEF Start, NoBid
<1>3. NoPos \in [in : BOOLEAN, entry : Nat, at : Nat] /\ ~NoPos.in
  BY DEF NoPos
<1>4. <<>> \in Seq(MrTrades) /\ <<>> \in Seq(MrBars) /\ Len(<<>>) = 0 /\ DOMAIN <<>> = {}
  OBVIOUS
<1>5. Start \in MrStates
  BY <1>3, <1>4 DEF Start, MrStates, Says, NoBid
<1>6. CountsOK(Start) /\ HeldOK(mrbars, Start)
  BY <1>2, <1>3, <1>4 DEF CountsOK, HeldOK, Resting, Holding
<1>7. \A k \in DOMAIN Start.trades : FALSE
  BY <1>2, <1>4
<1>. QED  BY <1>1, <1>4, <1>5, <1>6, <1>7 DEF MrOK, MrBody

LEMMA NextMrOK == MrOK(mrbars, mr) /\ [MrNext]_mrvars => MrOK(mrbars, mr)'
<1>. SUFFICES ASSUME MrOK(mrbars, mr), [MrNext]_mrvars PROVE MrOK(mrbars', mr')
  OBVIOUS
<1>1. CASE UNCHANGED mrvars
  BY <1>1 DEF mrvars
<1>2. CASE MrNext
  <2>1. PICK b \in MrBars : mrbars' = Append(mrbars, b) /\ mr' = Step(mr, b, Len(mrbars) + 1)
    BY <1>2 DEF MrNext
  <2>. DEFINE n == Len(mrbars) + 1
              e == Exits(mr, b, n)
              f == Bid(e, b, n)
  <2>2. mrbars \in Seq(MrBars)
    BY DEF MrOK, MrBody
  <2>3. Len(mrbars') = n /\ n \in Nat /\ n >= 1 /\ mrbars'[n] = b
    BY <2>1, <2>2, BarsGrow
  <2>4. mr' = Signal(f, b)
    BY <2>1 DEF Step
  <2>5. MrBody(mrbars', e) /\ (e.bid # 0 => \A k \in DOMAIN e.trades : e.trades[k].to < Len(mrbars'))
    BY <2>1, ExitsBody
  <2>. HIDE DEF e
  <2>6. MrBody(mrbars', f) /\ f.bid = 0
    BY <2>3, <2>5, BidBody
  <2>. HIDE DEF f, n
  <2>. QED  BY <2>3, <2>4, <2>6, SignalBody
<1>. QED  BY <1>1, <1>2

LEMMA AccountsHold == MrOK(mrbars, mr) => ScalpAccounts
<1>. SUFFICES ASSUME MrOK(mrbars, mr) PROVE ScalpAccounts
  OBVIOUS
<1>1. /\ mr \in MrStates /\ CountsOK(mr) /\ HeldOK(mrbars, mr)
      /\ \A k \in DOMAIN mr.trades : TradeOK(mrbars, mr.trades[k])
      /\ \A k \in DOMAIN mr.trades : k > 1 => mr.trades[k - 1].to < mr.trades[k].from
  BY DEF MrOK, MrBody
<1>2. ~(mr.pos.in /\ mr.bid # 0)
  BY <1>1 DEF HeldOK
<1>3. /\ mr.signaled = mr.skipped + mr.placed
      /\ mr.placed = mr.filled + mr.missed + (IF mr.bid # 0 THEN 1 ELSE 0)
      /\ mr.filled = Len(mr.trades) + (IF mr.pos.in THEN 1 ELSE 0)
  BY <1>1 DEF CountsOK, Resting, Holding
<1>4. ASSUME NEW k \in DOMAIN mr.trades
      PROVE  /\ mr.trades[k].from < mr.trades[k].to
             /\ mr.trades[k].to - mr.trades[k].from <= MaxHoldBars
             /\ k > 1 => mr.trades[k - 1].to < mr.trades[k].from
             /\ \A i \in (mr.trades[k].from + 1)..(mr.trades[k].to - 1) :
                   ExitReason([in |-> TRUE, entry |-> mr.trades[k].entry, at |-> mr.trades[k].from],
                              mrbars[i], i, mrbars[i - 1].says).reason = "NONE"
             /\ mrbars[mr.trades[k].to].l * 100 * 100 <= StopLoss(mr.trades[k].entry)
                   => mr.trades[k].reason = "SL"
             /\ mr.trades[k].reason = "SL" => ~Gains(mr.trades[k])
             /\ mr.trades[k].reason = "TP" => Gains(mr.trades[k])
  BY <1>1 DEF TradeOK, Touched
<1>. QED  BY <1>2, <1>3, <1>4 DEF ScalpAccounts, NoBid

LEMMA MakerStep ==
  ASSUME [BooksNext]_<<part, recordvars, papervars>> PROVE [MrNext]_mrvars
<1>1. CASE BooksNext
  <2>1. CASE PaperNext
    BY <1>1, <2>1 DEF BooksNext, PaperNext
  <2>2. CASE UNCHANGED papervars
    BY <1>1, <2>2 DEF BooksNext, papervars
  <2>. QED  BY <1>1, <2>1, <2>2 DEF BooksNext
<1>2. CASE UNCHANGED <<part, recordvars, papervars>>
  BY <1>2 DEF papervars
<1>. QED  BY <1>1, <1>2

(* For every series and every cost: the counters of the maker backtest add   *)
(* up, its trades do not overlap, each left at the first bar that let it, a  *)
(* stop never gains and a target never loses (mr_scalp_backtest.py:115).     *)
THEOREM MakerAccountsHold == BooksSpec => []ScalpAccounts
<1>1. BooksInit => MrOK(mrbars, mr)
  BY InitMrOK DEF BooksInit
<1>2. MrOK(mrbars, mr) /\ [BooksNext]_<<part, recordvars, papervars>> => MrOK(mrbars, mr)'
  BY MakerStep, NextMrOK
<1>. QED  BY <1>1, <1>2, AccountsHold, PTL DEF BooksSpec

------------------------------------------------------------------------------
(* The pairs backtest: its trades, and what they earn.                       *)

Held == {-1, 0, 1}
IsTr(pp, i, j) ==
  /\ i <= j /\ pp[i] # 0
  /\ \A k \in i..j : pp[k] = pp[i]
  /\ i = 1 \/ pp[i - 1] = 0
  /\ j = Len(pp) \/ pp[j + 1] # pp[i]
TradesIn(pp) == {r \in (1..Len(pp)) \X (1..Len(pp)) : IsTr(pp, r[1], r[2])}
Fin(sp, r) == IF r[2] = Len(sp) THEN r[2] ELSE r[2] + 1
Gained(sp, pp, r) == pp[r[1]] * (sp[Fin(sp, r)] - sp[r[1]])
Gainings(sp, pp) == [r \in TradesIn(pp) |-> Gained(sp, pp, r)]
Earned(sp, pp) == SumFunctionOnSet(Gainings(sp, pp), TradesIn(pp))

LEMMA TradesFinite == ASSUME NEW pp, Len(pp) \in Nat PROVE IsFiniteSet(TradesIn(pp))
<1>1. IsFiniteSet(1..Len(pp))
  BY FS_Interval
<1>2. IsFiniteSet((1..Len(pp)) \X (1..Len(pp)))
  BY <1>1, FS_Product
<1>. QED  BY <1>2, FS_Subset DEF TradesIn

LEMMA HeldAppend ==
  ASSUME NEW pp \in Seq(Held), NEW p \in Held
  PROVE  /\ Append(pp, p) \in Seq(Held) /\ Len(pp) \in Nat /\ Len(Append(pp, p)) = Len(pp) + 1
         /\ Append(pp, p)[Len(pp) + 1] = p
         /\ \A k \in 1..Len(pp) : Append(pp, p)[k] = pp[k] /\ pp[k] \in Held
  OBVIOUS

(* A trade that ended stays; the one still open goes on or ends; a new one   *)
(* begins from flat.                                                         *)
TradesGrown(pp, p, q, n) ==
  /\ \A i, j \in 1..n : IsTr(q, i, j) <=> IsTr(pp, i, j) /\ (j = n => p # pp[i])
  /\ \A i \in 1..n : IsTr(q, i, n + 1) <=> IsTr(pp, i, n) /\ p = pp[i]
  /\ IsTr(q, n + 1, n + 1) <=> p # 0 /\ (n = 0 \/ pp[n] = 0)
LEMMA TradesGrow ==
  ASSUME NEW pp \in Seq(Held), NEW p \in Held, NEW q, q = Append(pp, p), NEW n, n = Len(pp)
  PROVE  TradesGrown(pp, p, q, n)
<1>1. n \in Nat /\ Len(q) = n + 1 /\ q[n + 1] = p /\ \A k \in 1..n : q[k] = pp[k]
  BY HeldAppend
<1>2. ASSUME NEW i \in 1..n, NEW j \in 1..n
      PROVE  IsTr(q, i, j) <=> IsTr(pp, i, j) /\ (j = n => p # pp[i])
  <2>1. (\A k \in i..j : q[k] = q[i]) <=> (\A k \in i..j : pp[k] = pp[i])
    <3>1. \A k \in i..j : k \in 1..n
      OBVIOUS
    <3>. QED  BY <1>1, <3>1
  <2>2. (i = 1 \/ q[i - 1] = 0) <=> (i = 1 \/ pp[i - 1] = 0)
    <3>1. i = 1 \/ i - 1 \in 1..n
      BY <1>1
    <3>. QED  BY <1>1, <3>1
  <2>3. (j = n + 1 \/ q[j + 1] # q[i]) <=> (j = n => p # pp[i]) /\ (j = n \/ pp[j + 1] # pp[i])
    <3>1. CASE j = n
      BY <1>1, <3>1
    <3>2. CASE j # n
      <4>1. j + 1 \in 1..n /\ j # n + 1
        BY <1>1, <3>2
      <4>. QED  BY <1>1, <3>2, <4>1
    <3>. QED  BY <3>1, <3>2
  <2>4. q[i] = pp[i]
    BY <1>1
  <2>. QED  BY <1>1, <2>1, <2>2, <2>3, <2>4 DEF IsTr
<1>3. ASSUME NEW i \in 1..n
      PROVE  IsTr(q, i, n + 1) <=> IsTr(pp, i, n) /\ p = pp[i]
  <2>1. (\A k \in i..(n + 1) : q[k] = q[i]) <=> (\A k \in i..n : pp[k] = pp[i]) /\ p = pp[i]
    <3>1. \A k \in i..n : k \in 1..n /\ k \in i..(n + 1)
      BY <1>1
    <3>2. \A k \in i..(n + 1) : k = n + 1 \/ k \in i..n
      BY <1>1
    <3>3. n + 1 \in i..(n + 1) /\ q[i] = pp[i]
      BY <1>1
    <3>. QED  BY <1>1, <3>1, <3>2, <3>3
  <2>2. (i = 1 \/ q[i - 1] = 0) <=> (i = 1 \/ pp[i - 1] = 0)
    <3>1. i = 1 \/ i - 1 \in 1..n
      BY <1>1
    <3>. QED  BY <1>1, <3>1
  <2>3. q[i] = pp[i] /\ i <= n /\ i <= n + 1
    BY <1>1
  <2>. QED  BY <1>1, <2>1, <2>2, <2>3 DEF IsTr
<1>4. IsTr(q, n + 1, n + 1) <=> p # 0 /\ (n = 0 \/ pp[n] = 0)
  <2>1. \A k \in (n + 1)..(n + 1) : k = n + 1
    BY <1>1
  <2>2. n + 1 - 1 = n /\ (n + 1 = 1 <=> n = 0) /\ n + 1 <= n + 1 /\ (n # 0 => n \in 1..n)
    BY <1>1
  <2>. QED  BY <1>1, <2>1, <2>2 DEF IsTr
<1>. QED  BY <1>2, <1>3, <1>4 DEF TradesGrown

(* No two trades are open at once.                                           *)
LEMMA OneIsOpen ==
  ASSUME NEW pp \in Seq(Held), NEW n, n = Len(pp), NEW i \in 1..n, NEW j \in 1..n,
         IsTr(pp, i, n), IsTr(pp, j, n)
  PROVE  i = j
<1>1. n \in Nat
  OBVIOUS
<1>2. \A u, v \in 1..n : u < v /\ IsTr(pp, u, n) /\ IsTr(pp, v, n) => FALSE
  <2>. SUFFICES ASSUME NEW u \in 1..n, NEW v \in 1..n, u < v, IsTr(pp, u, n), IsTr(pp, v, n)
                PROVE  FALSE
    OBVIOUS
  <2>1. v - 1 \in u..n /\ v # 1
    BY <1>1
  <2>2. pp[u] # 0 /\ pp[v - 1] = pp[u] /\ pp[v - 1] = 0
    BY <2>1 DEF IsTr
  <2>. QED  BY <2>2
<1>. QED  BY <1>1, <1>2

(* Trades still going on after the last observation, at most one.            *)
Ended(pp) == {r \in TradesIn(pp) : r[2] # Len(pp)}

LEMMA TradesMembers ==
  ASSUME NEW pp \in Seq(Held), NEW n, n = Len(pp)
  PROVE  /\ \A r : r \in TradesIn(pp) <=> \E i, j \in 1..n : r = <<i, j>> /\ IsTr(pp, i, j)
         /\ \A r : r \in Ended(pp) <=> \E i, j \in 1..n : r = <<i, j>> /\ IsTr(pp, i, j) /\ j # n
<1>1. ASSUME NEW r PROVE r \in TradesIn(pp) <=> \E i, j \in 1..n : r = <<i, j>> /\ IsTr(pp, i, j)
  BY DEF TradesIn
<1>2. ASSUME NEW r
      PROVE  r \in Ended(pp) <=> \E i, j \in 1..n : r = <<i, j>> /\ IsTr(pp, i, j) /\ j # n
  BY <1>1 DEF Ended
<1>. QED  BY <1>1, <1>2

(* What the trades are after one more observation, by what was held.         *)
LEMMA TradesFromFlat ==
  ASSUME NEW pp \in Seq(Held), NEW p \in Held, NEW n, n = Len(pp), n = 0 \/ pp[n] = 0
  PROVE  /\ TradesIn(pp) = Ended(pp)
         /\ TradesIn(Append(pp, p)) = IF p = 0 THEN Ended(pp) ELSE Ended(pp) \cup {<<n + 1, n + 1>>}
<1>. DEFINE q == Append(pp, p)
<1>0. q = Append(pp, p)
  OBVIOUS
<1>1. n \in Nat /\ Len(q) = n + 1 /\ q \in Seq(Held)
  BY HeldAppend
<1>2. \A i \in 1..n : ~IsTr(pp, i, n)
  BY <1>1 DEF IsTr
<1>3. \A r : r \in TradesIn(pp) <=> \E i, j \in 1..n : r = <<i, j>> /\ IsTr(pp, i, j)
  BY TradesMembers
<1>4. \A r : r \in Ended(pp) <=> \E i, j \in 1..n : r = <<i, j>> /\ IsTr(pp, i, j) /\ j # n
  BY TradesMembers
<1>5. \A r : r \in TradesIn(q) <=> \E i, j \in 1..(n + 1) : r = <<i, j>> /\ IsTr(q, i, j)
  BY <1>1, TradesMembers
<1>6. TradesIn(pp) = Ended(pp)
  <2>1. ASSUME NEW r PROVE r \in TradesIn(pp) <=> r \in Ended(pp)
    BY <1>2, <1>3, <1>4
  <2>. QED  BY <2>1
<1>. HIDE DEF q
<1>20. /\ \A i, j \in 1..n : IsTr(q, i, j) <=> IsTr(pp, i, j) /\ (j = n => p # pp[i])
       /\ \A i \in 1..n : IsTr(q, i, n + 1) <=> IsTr(pp, i, n) /\ p = pp[i]
       /\ IsTr(q, n + 1, n + 1) <=> p # 0 /\ (n = 0 \/ pp[n] = 0)
  <2>1. TradesGrown(pp, p, q, n)
    BY <1>0, TradesGrow
  <2>. QED  BY <2>1 DEF TradesGrown
<1>7. \A i, j \in 1..n : IsTr(q, i, j) <=> IsTr(pp, i, j) /\ (j = n => p # pp[i])
  BY <1>20
<1>8. \A i \in 1..n : ~IsTr(q, i, n + 1)
  BY <1>2, <1>20
<1>9. IsTr(q, n + 1, n + 1) <=> p # 0
  BY <1>20
<1>10. \A i \in 1..(n + 1) : i \in 1..n \/ i = n + 1
  BY <1>1
<1>11. \A j \in 1..n : ~IsTr(q, n + 1, j)
  <2>1. \A j \in 1..n : ~(n + 1 <= j)
    BY <1>1
  <2>. QED  BY <2>1 DEF IsTr
<1>12. \A i, j \in 1..n : IsTr(q, i, j) <=> IsTr(pp, i, j) /\ j # n
  BY <1>2, <1>7
<1>13. 1..n \subseteq 1..(n + 1) /\ n + 1 \in 1..(n + 1)
  BY <1>1
<1>14. ASSUME NEW r PROVE r \in TradesIn(q) <=> r \in Ended(pp) \/ (p # 0 /\ r = <<n + 1, n + 1>>)
  <2>1. ASSUME r \in TradesIn(q) PROVE r \in Ended(pp) \/ (p # 0 /\ r = <<n + 1, n + 1>>)
    <3>1. PICK i, j \in 1..(n + 1) : r = <<i, j>> /\ IsTr(q, i, j)
      BY <1>5, <2>1
    <3>2. (i \in 1..n \/ i = n + 1) /\ (j \in 1..n \/ j = n + 1)
      BY <1>10
    <3>. QED  BY <1>4, <1>8, <1>9, <1>11, <1>12, <3>1, <3>2
  <2>2. ASSUME r \in Ended(pp) PROVE r \in TradesIn(q)
    <3>1. PICK i, j \in 1..n : r = <<i, j>> /\ IsTr(pp, i, j) /\ j # n
      BY <1>4, <2>2
    <3>. QED  BY <1>5, <1>12, <1>13, <3>1
  <2>3. ASSUME p # 0, r = <<n + 1, n + 1>> PROVE r \in TradesIn(q)
    BY <1>5, <1>9, <1>13, <2>3
  <2>. QED  BY <2>1, <2>2, <2>3
<1>. QED  BY <1>0, <1>6, <1>14

HeldTrades(pp, p, i0, n) ==
  /\ TradesIn(pp) = Ended(pp) \cup {<<i0, n>>} /\ <<i0, n>> \notin Ended(pp)
  /\ pp[i0] = pp[n]
  /\ TradesIn(Append(pp, p)) = Ended(pp) \cup {IF p = 0 THEN <<i0, n>> ELSE <<i0, n + 1>>}
  /\ <<i0, n + 1>> \notin Ended(pp)

LEMMA TradesFromHeld ==
  ASSUME NEW pp \in Seq(Held), NEW p \in Held, NEW n, n = Len(pp), n # 0, pp[n] # 0,
         p \in {0, pp[n]}, NEW i0 \in 1..n, IsTr(pp, i0, n)
  PROVE  HeldTrades(pp, p, i0, n)
<1>. DEFINE q == Append(pp, p)
<1>0. q = Append(pp, p)
  OBVIOUS
<1>1. n \in Nat /\ Len(q) = n + 1 /\ q \in Seq(Held)
  BY HeldAppend
<1>2. \A i \in 1..n : IsTr(pp, i, n) <=> i = i0
  BY OneIsOpen
<1>3. \A r : r \in TradesIn(pp) <=> \E i, j \in 1..n : r = <<i, j>> /\ IsTr(pp, i, j)
  BY TradesMembers
<1>4. \A r : r \in Ended(pp) <=> \E i, j \in 1..n : r = <<i, j>> /\ IsTr(pp, i, j) /\ j # n
  BY TradesMembers
<1>5. \A r : r \in TradesIn(q) <=> \E i, j \in 1..(n + 1) : r = <<i, j>> /\ IsTr(q, i, j)
  BY <1>1, TradesMembers
<1>6. pp[i0] = pp[n]
  BY <1>1 DEF IsTr
<1>. HIDE DEF q
<1>20. /\ \A i, j \in 1..n : IsTr(q, i, j) <=> IsTr(pp, i, j) /\ (j = n => p # pp[i])
       /\ \A i \in 1..n : IsTr(q, i, n + 1) <=> IsTr(pp, i, n) /\ p = pp[i]
       /\ IsTr(q, n + 1, n + 1) <=> p # 0 /\ (n = 0 \/ pp[n] = 0)
  <2>1. TradesGrown(pp, p, q, n)
    BY <1>0, TradesGrow
  <2>. QED  BY <2>1 DEF TradesGrown
<1>7. n \in 1..n
  BY <1>1
<1>8. \A i, j \in 1..n : IsTr(q, i, j) <=> IsTr(pp, i, j) /\ (j = n => p # pp[i])
  BY <1>20
<1>9. \A i \in 1..n : IsTr(q, i, n + 1) <=> i = i0 /\ p = pp[n]
  BY <1>2, <1>6, <1>20
<1>10. ~IsTr(q, n + 1, n + 1)
  BY <1>20
<1>11. \A i \in 1..(n + 1) : i \in 1..n \/ i = n + 1
  BY <1>1
<1>12. \A j \in 1..n : ~IsTr(q, n + 1, j)
  <2>1. \A j \in 1..n : ~(n + 1 <= j)
    BY <1>1
  <2>. QED  BY <2>1 DEF IsTr
<1>13. \A i, j \in 1..n : IsTr(q, i, j) <=> (IsTr(pp, i, j) /\ j # n) \/ (i = i0 /\ j = n /\ p = 0)
  BY <1>2, <1>6, <1>8
<1>14. 1..n \subseteq 1..(n + 1) /\ n + 1 \in 1..(n + 1)
  BY <1>1
<1>15. <<i0, n>> \notin Ended(pp) /\ <<i0, n + 1>> \notin Ended(pp)
  BY <1>1, <1>4
<1>16. TradesIn(pp) = Ended(pp) \cup {<<i0, n>>}
  BY <1>2, <1>3, <1>4, <1>7
<1>17. ASSUME NEW r
       PROVE  r \in TradesIn(q) <=> r \in Ended(pp) \/ (p = 0 /\ r = <<i0, n>>) \/ (p = pp[n] /\ r = <<i0, n + 1>>)
  BY <1>4, <1>5, <1>7, <1>9, <1>10, <1>11, <1>12, <1>13, <1>14
<1>18. TradesIn(q) = Ended(pp) \cup {IF p = 0 THEN <<i0, n>> ELSE <<i0, n + 1>>}
  BY <1>17
<1>. QED  BY <1>0, <1>6, <1>15, <1>16, <1>18 DEF HeldTrades

Moves(a, b, c, d) ==
  /\ a * b \in Int /\ a * (d - c) \in Int /\ a * (b - b) = 0
  /\ a * (c - b) + a * (d - c) = a * (d - b)

LEMMA HeldTimes == \A a \in Held, b, c, d \in Int : Moves(a, b, c, d)
<1>. SUFFICES ASSUME NEW a \in Held, NEW b \in Int, NEW c \in Int, NEW d \in Int
              PROVE  Moves(a, b, c, d)
  OBVIOUS
<1>1. CASE a = -1
  BY <1>1 DEF Moves
<1>2. CASE a = 0
  BY <1>2 DEF Moves
<1>3. CASE a = 1
  BY <1>3 DEF Moves
<1>. QED  BY <1>1, <1>2, <1>3 DEF Held

LEMMA GainIs ==
  ASSUME NEW sp \in Seq(Int), NEW pp \in Seq(Held), Len(sp) = Len(pp), NEW r \in TradesIn(pp)
  PROVE  Gainings(sp, pp)[r] = Gained(sp, pp, r) /\ Gained(sp, pp, r) \in Int
<1>1. PICK i, j \in 1..Len(pp) : r = <<i, j>>
  BY TradesMembers
<1>2. r[1] = i /\ r[2] = j /\ Len(pp) \in Nat
  BY <1>1
<1>3. Fin(sp, r) \in 1..Len(sp)
  BY <1>2 DEF Fin
<1>. DEFINE b == sp[Fin(sp, r)] - sp[r[1]]
<1>4. b \in Int /\ pp[r[1]] \in Held
  BY <1>2, <1>3
<1>. HIDE DEF b
<1>5. pp[r[1]] * b \in Int
  <2>1. Moves(pp[r[1]], b, b, b)
    BY <1>4, HeldTimes
  <2>. QED  BY <2>1 DEF Moves
<1>. QED  BY <1>5 DEF b, Gained, Gainings

LEMMA SpreadAppend ==
  ASSUME NEW sp \in Seq(Int), NEW x \in Int
  PROVE  /\ Append(sp, x) \in Seq(Int) /\ Len(Append(sp, x)) = Len(sp) + 1
         /\ Append(sp, x)[Len(sp) + 1] = x
         /\ \A k \in 1..Len(sp) : Append(sp, x)[k] = sp[k] /\ sp[k] \in Int
  OBVIOUS

(* What an ended trade earned stays what it was.                             *)
LEMMA EndedKeep ==
  ASSUME NEW sp \in Seq(Int), NEW pp \in Seq(Held), Len(sp) = Len(pp), NEW x \in Int, NEW p \in Held,
         NEW r \in Ended(pp)
  PROVE  Gained(Append(sp, x), Append(pp, p), r) = Gained(sp, pp, r)
<1>1. PICK i, j \in 1..Len(pp) : r = <<i, j>> /\ j # Len(pp)
  BY TradesMembers
<1>2. r[1] = i /\ r[2] = j /\ Len(pp) \in Nat /\ j + 1 \in 1..Len(sp) /\ j # Len(sp) + 1
  BY <1>1
<1>. DEFINE u == Append(sp, x)
            q == Append(pp, p)
<1>3. Len(u) = Len(sp) + 1 /\ u[j + 1] = sp[j + 1] /\ u[i] = sp[i] /\ q[i] = pp[i]
  <2>1. i \in 1..Len(sp) /\ i \in 1..Len(pp)
    BY <1>1
  <2>2. Len(u) = Len(sp) + 1 /\ \A k \in 1..Len(sp) : u[k] = sp[k]
    BY SpreadAppend
  <2>3. \A k \in 1..Len(pp) : q[k] = pp[k]
    BY HeldAppend
  <2>. HIDE DEF u, q
  <2>. QED  BY <1>2, <2>1, <2>2, <2>3
<1>. HIDE DEF u, q
<1>4. Fin(u, r) = j + 1 /\ Fin(sp, r) = j + 1
  BY <1>1, <1>2, <1>3 DEF Fin
<1>5. Gained(u, q, r) = Gained(sp, pp, r)
  BY <1>2, <1>3, <1>4 DEF Gained
<1>. QED  BY <1>5 DEF u, q

LEMMA EndedFinite ==
  ASSUME NEW pp \in Seq(Held) PROVE IsFiniteSet(Ended(pp)) /\ Ended(pp) \subseteq TradesIn(pp)
<1>1. IsFiniteSet(TradesIn(pp))
  <2>1. Len(pp) \in Nat
    OBVIOUS
  <2>. QED  BY <2>1, TradesFinite
<1>. QED  BY <1>1, FS_Subset DEF Ended

EndedWorth(sp, pp) == SumFunctionOnSet(Gainings(sp, pp), Ended(pp))

(* All trades but one are ended: what is earned is theirs and its own.       *)
Split(sp, pp, C, o) ==
  /\ Earned(sp, pp) = SumFunctionOnSet(Gainings(sp, pp), C) + Gained(sp, pp, o)
  /\ SumFunctionOnSet(Gainings(sp, pp), C) \in Int /\ Gained(sp, pp, o) \in Int
  /\ Cardinality(TradesIn(pp)) = Cardinality(C) + 1 /\ Cardinality(C) \in Nat
LEMMA EarnedSplit ==
  ASSUME NEW sp \in Seq(Int), NEW pp \in Seq(Held), Len(sp) = Len(pp),
         NEW C, IsFiniteSet(C), NEW o, o \notin C, TradesIn(pp) = C \cup {o}
  PROVE  Split(sp, pp, C, o)
<1>. DEFINE w == Gainings(sp, pp)
<1>1. \A r \in TradesIn(pp) : w[r] = Gained(sp, pp, r) /\ Gained(sp, pp, r) \in Int
  BY GainIs
<1>2. (\A r \in C : w[r] \in Int) /\ w[o] \in Int /\ w[o] = Gained(sp, pp, o)
  BY <1>1
<1>3. Earned(sp, pp) = SumFunctionOnSet(w, TradesIn(pp))
  BY DEF Earned
<1>. HIDE DEF w
<1>4. SumFunctionOnSet(w, C \cup {o}) = SumFunctionOnSet(w, C) + w[o]
  BY <1>2, SumAdd
<1>5. SumFunctionOnSet(w, C) \in Int
  BY <1>2, SumInt
<1>6. Cardinality(C \cup {o}) = Cardinality(C) + 1 /\ Cardinality(C) \in Nat
  BY FS_AddElement, FS_CardinalityType
<1>. QED  BY <1>2, <1>3, <1>4, <1>5, <1>6 DEF w, Split

(* Between two observations, the ended trades' worth does not change.        *)
LEMMA EndedWorthKept ==
  ASSUME NEW sp \in Seq(Int), NEW pp \in Seq(Held), Len(sp) = Len(pp), NEW x \in Int, NEW p \in Held,
         Ended(pp) \subseteq TradesIn(Append(pp, p))
  PROVE  /\ SumFunctionOnSet(Gainings(Append(sp, x), Append(pp, p)), Ended(pp)) = EndedWorth(sp, pp)
         /\ EndedWorth(sp, pp) \in Int
<1>. DEFINE w == Gainings(sp, pp)
            v == Gainings(Append(sp, x), Append(pp, p))
<1>1. IsFiniteSet(Ended(pp)) /\ Ended(pp) \subseteq TradesIn(pp)
  BY EndedFinite
<1>2. /\ Append(sp, x) \in Seq(Int) /\ Append(pp, p) \in Seq(Held)
      /\ Len(Append(sp, x)) = Len(Append(pp, p))
  BY SpreadAppend, HeldAppend
<1>3. ASSUME NEW r \in Ended(pp) PROVE v[r] = w[r] /\ w[r] \in Int
  <2>1. r \in TradesIn(pp) /\ r \in TradesIn(Append(pp, p))
    BY <1>1
  <2>2. w[r] = Gained(sp, pp, r) /\ Gained(sp, pp, r) \in Int
    BY <2>1, GainIs
  <2>3. v[r] = Gained(Append(sp, x), Append(pp, p), r)
    BY <1>2, <2>1, GainIs
  <2>4. Gained(Append(sp, x), Append(pp, p), r) = Gained(sp, pp, r)
    BY EndedKeep
  <2>. QED  BY <2>2, <2>3, <2>4
<1>. HIDE DEF w, v
<1>4. SumFunctionOnSet(v, Ended(pp)) = SumFunctionOnSet(w, Ended(pp))
  BY <1>1, <1>3, SumSame
<1>5. SumFunctionOnSet(w, Ended(pp)) \in Int
  BY <1>1, <1>3, SumInt
<1>. QED  BY <1>4, <1>5 DEF w, v, EndedWorth

(* One observation more: the position held into it earns the move.           *)
LEMMA EarnedFromFlat ==
  ASSUME NEW sp \in Seq(Int), NEW pp \in Seq(Held), Len(sp) = Len(pp), NEW x \in Int, NEW p \in Held,
         Len(pp) = 0 \/ pp[Len(pp)] = 0
  PROVE  /\ Earned(Append(sp, x), Append(pp, p)) = Earned(sp, pp) /\ Earned(sp, pp) \in Int
         /\ Cardinality(TradesIn(pp)) \in Nat
         /\ p = 0 => Cardinality(TradesIn(Append(pp, p))) = Cardinality(TradesIn(pp))
         /\ p # 0 => Cardinality(TradesIn(Append(pp, p))) = Cardinality(TradesIn(pp)) + 1
<1>. DEFINE n == Len(pp)
            u == Append(sp, x)
            q == Append(pp, p)
            C == Ended(pp)
            o == <<n + 1, n + 1>>
<1>1. /\ TradesIn(pp) = C
      /\ TradesIn(q) = IF p = 0 THEN C ELSE C \cup {o}
  BY TradesFromFlat
<1>2. IsFiniteSet(C) /\ n \in Nat
  BY EndedFinite
<1>3. SumFunctionOnSet(Gainings(u, q), C) = EndedWorth(sp, pp) /\ EndedWorth(sp, pp) \in Int
  BY <1>1, EndedWorthKept
<1>4. Earned(sp, pp) = EndedWorth(sp, pp)
  BY <1>1 DEF Earned, EndedWorth
<1>5. Cardinality(C) \in Nat
  BY <1>2, FS_CardinalityType
<1>6. CASE p = 0
  <2>1. TradesIn(q) = C
    BY <1>1, <1>6
  <2>2. Earned(u, q) = SumFunctionOnSet(Gainings(u, q), C)
    BY <2>1 DEF Earned
  <2>. QED  BY <1>1, <1>3, <1>4, <1>5, <1>6, <2>1, <2>2
<1>7. CASE p # 0
  <2>1. TradesIn(q) = C \cup {o}
    BY <1>1, <1>7
  <2>2. o \notin C
    <3>1. \A r \in C : \E i, j \in 1..n : r = <<i, j>>
      BY TradesMembers
    <3>2. n + 1 \notin 1..n
      BY <1>2
    <3>. QED  BY <3>1, <3>2
  <2>3. u \in Seq(Int) /\ q \in Seq(Held) /\ Len(u) = Len(q) /\ Len(u) = n + 1 /\ u[n + 1] = x /\ q[n + 1] = p
    BY SpreadAppend, HeldAppend
  <2>. HIDE DEF u, q, C
  <2>4. /\ Earned(u, q) = SumFunctionOnSet(Gainings(u, q), C) + Gained(u, q, o)
        /\ Cardinality(TradesIn(q)) = Cardinality(C) + 1
    <3>. HIDE DEF o
    <3>1. Split(u, q, C, o)
      BY <1>2, <2>1, <2>2, <2>3, EarnedSplit
    <3>. QED  BY <3>1 DEF Split
  <2>5. Gained(u, q, o) = 0
    <3>1. Fin(u, o) = n + 1 /\ o[1] = n + 1
      BY <2>3 DEF Fin
    <3>2. Moves(p, x, x, x)
      BY HeldTimes
    <3>. QED  BY <2>3, <3>1, <3>2 DEF Gained, Moves
  <2>. QED  BY <1>1, <1>3, <1>4, <1>5, <1>7, <2>4, <2>5 DEF u, q
<1>. QED  BY <1>6, <1>7

EarnedMore(sp, pp, x, p, n) ==
  /\ Earned(Append(sp, x), Append(pp, p)) = Earned(sp, pp) + pp[n] * (x - sp[n])
  /\ Earned(sp, pp) \in Int /\ Cardinality(TradesIn(pp)) \in Nat
  /\ Cardinality(TradesIn(Append(pp, p))) = Cardinality(TradesIn(pp))

LEMMA EarnedFromHeld ==
  ASSUME NEW sp \in Seq(Int), NEW pp \in Seq(Held), Len(sp) = Len(pp), NEW x \in Int, NEW p \in Held,
         NEW n, n = Len(pp), n # 0, pp[n] # 0, p \in {0, pp[n]}, NEW i0 \in 1..n, IsTr(pp, i0, n)
  PROVE  EarnedMore(sp, pp, x, p, n)
<1>. DEFINE u == Append(sp, x)
            q == Append(pp, p)
            C == Ended(pp)
            o == <<i0, n>>
            k == IF p = 0 THEN n ELSE n + 1
<1>1. n \in Nat /\ n \in 1..n /\ IsFiniteSet(C)
  BY EndedFinite
<1>2. /\ TradesIn(pp) = C \cup {o} /\ o \notin C /\ pp[i0] = pp[n] /\ <<i0, n + 1>> \notin C
      /\ TradesIn(q) = C \cup {IF p = 0 THEN o ELSE <<i0, n + 1>>}
  <2>1. HeldTrades(pp, p, i0, n)
    BY TradesFromHeld
  <2>. QED  BY <2>1 DEF HeldTrades
<1>3. TradesIn(q) = C \cup {<<i0, k>>} /\ <<i0, k>> \notin C
  BY <1>2
<1>4. SumFunctionOnSet(Gainings(u, q), C) = EndedWorth(sp, pp) /\ EndedWorth(sp, pp) \in Int
  BY <1>3, EndedWorthKept
<1>5. u \in Seq(Int) /\ q \in Seq(Held) /\ Len(u) = Len(q) /\ Len(u) = n + 1
  <2>1. u \in Seq(Int) /\ Len(u) = Len(sp) + 1
    BY SpreadAppend
  <2>2. q \in Seq(Held) /\ Len(q) = Len(pp) + 1
    BY HeldAppend
  <2>. HIDE DEF u, q
  <2>. QED  BY <2>1, <2>2
<1>6. u[n + 1] = x /\ u[i0] = sp[i0] /\ sp[i0] \in Int /\ sp[n] \in Int
  BY <1>1, SpreadAppend
<1>7. q[i0] = pp[n] /\ pp[n] \in Held
  BY <1>1, <1>2, HeldAppend
<1>8. /\ Earned(sp, pp) = SumFunctionOnSet(Gainings(sp, pp), C) + Gained(sp, pp, o)
      /\ SumFunctionOnSet(Gainings(sp, pp), C) \in Int /\ Gained(sp, pp, o) \in Int
      /\ Cardinality(TradesIn(pp)) = Cardinality(C) + 1 /\ Cardinality(C) \in Nat
  <2>. HIDE DEF C, o
  <2>1. Split(sp, pp, C, o)
    BY <1>1, <1>2, EarnedSplit
  <2>. QED  BY <2>1 DEF Split
<1>9. SumFunctionOnSet(Gainings(sp, pp), C) = EndedWorth(sp, pp)
  BY DEF EndedWorth
<1>10. k \in {n, n + 1}
  OBVIOUS
<1>. DEFINE e == <<i0, k>>
<1>. HIDE DEF u, q, C, k
<1>11. /\ Earned(u, q) = SumFunctionOnSet(Gainings(u, q), C) + Gained(u, q, e)
       /\ Cardinality(TradesIn(q)) = Cardinality(C) + 1
  <2>1. e \notin C /\ TradesIn(q) = C \cup {e}
    BY <1>3
  <2>. HIDE DEF e
  <2>2. Split(u, q, C, e)
    BY <1>1, <1>5, <2>1, EarnedSplit
  <2>. QED  BY <2>2 DEF Split
<1>12. Gained(u, q, e) = pp[n] * (x - sp[i0])
  <2>1. Fin(u, e) = n + 1 /\ e[1] = i0
    <3>1. e[1] = i0 /\ e[2] = k
      OBVIOUS
    <3>. QED  BY <1>1, <1>5, <1>10, <3>1 DEF Fin
  <2>. HIDE DEF e
  <2>. QED  BY <1>6, <1>7, <2>1 DEF Gained
<1>13. Gained(sp, pp, o) = pp[n] * (sp[n] - sp[i0])
  <2>1. Fin(sp, o) = n /\ o[1] = i0
    BY <1>1 DEF Fin
  <2>. HIDE DEF o
  <2>. QED  BY <1>2, <2>1 DEF Gained
<1>14. pp[n] * (sp[n] - sp[i0]) + pp[n] * (x - sp[n]) = pp[n] * (x - sp[i0])
       /\ pp[n] * (x - sp[n]) \in Int
  <2>1. Moves(pp[n], sp[i0], sp[n], x)
    BY <1>6, <1>7, HeldTimes
  <2>. QED  BY <2>1 DEF Moves
<1>15. Earned(u, q) = Earned(sp, pp) + pp[n] * (x - sp[n]) /\ Earned(sp, pp) \in Int
  <2>. DEFINE m0 == pp[n] * (sp[n] - sp[i0])
              m1 == pp[n] * (x - sp[n])
              m2 == pp[n] * (x - sp[i0])
              w == EndedWorth(sp, pp)
  <2>1. m0 + m1 = m2 /\ m1 \in Int /\ Gained(sp, pp, o) = m0 /\ m0 \in Int
    BY <1>8, <1>13, <1>14
  <2>2. Earned(u, q) = w + m2 /\ w \in Int
    BY <1>4, <1>11, <1>12
  <2>3. Earned(sp, pp) = w + m0
    BY <1>8, <1>9, <1>13
  <2>. HIDE DEF m0, m1, m2, w
  <2>4. Earned(u, q) = Earned(sp, pp) + m1 /\ Earned(sp, pp) \in Int
    BY ONLY <2>1, <2>2, <2>3
  <2>. QED  BY <2>4 DEF m1
<1>16. Cardinality(TradesIn(q)) = Cardinality(TradesIn(pp)) /\ Cardinality(TradesIn(pp)) \in Nat
  BY <1>8, <1>11
<1>. QED  BY <1>15, <1>16 DEF u, q, EarnedMore

Open(pp) == IF Len(pp) = 0 \/ pp[Len(pp)] = 0 THEN 0 ELSE 1
Before(pp) == IF Len(pp) = 0 THEN 0 ELSE pp[Len(pp)]
InBands(sp, pp, i) ==
  /\ i > 1 => pp[i] * pp[i - 1] # -1
  /\ pp[i] # 0 => /\ i > ZWarmup /\ Abs(sp[i] - Mid) > ExitZ
                  /\ i > 1 /\ pp[i - 1] # 0 => pp[i] * (sp[i] - Mid) > 0 - StopZ
OpenSince(pp) == Before(pp) # 0 => \E i \in 1..Len(pp) : IsTr(pp, i, Len(pp))

PairOK(sp, pp, pd) ==
  /\ sp \in Seq(Spreads) /\ pp \in Seq(Held) /\ Len(sp) = Len(pp) /\ pd \in [pnl : Int, cost : Int]
  /\ \A i \in 1..Len(pp) : InBands(sp, pp, i)
  /\ OpenSince(pp)
  /\ pd.pnl = Earned(sp, pp)
  /\ pd.cost = PairFee * (2 * Cardinality(TradesIn(pp)) - Open(pp))

LEMMA InitPairOK == PairInit => PairOK(spread, pairpos, paid)
<1>. SUFFICES PairOK(<<>>, <<>>, [pnl |-> 0, cost |-> 0])
  BY DEF PairInit
<1>1. <<>> \in Seq(Spreads) /\ <<>> \in Seq(Held) /\ Len(<<>>) = 0 /\ 1..0 = {}
  OBVIOUS
<1>2. TradesIn(<<>>) = {}
  BY <1>1 DEF TradesIn
<1>3. Earned(<<>>, <<>>) = 0
  BY <1>2, SumEmpty DEF Earned
<1>4. Cardinality(TradesIn(<<>>)) = 0
  BY <1>2, FS_EmptySet
<1>5. PairFee * (2 * 0 - 0) = 0
  BY BandsAssumption
<1>6. Before(<<>>) = 0 /\ Open(<<>>) = 0
  BY <1>1 DEF Before, Open
<1>. QED  BY <1>1, <1>3, <1>4, <1>5, <1>6 DEF PairOK, OpenSince

(* What the signal and the gate decide: hold on, leave, or enter from flat.  *)
Decided(p, was, z, n) ==
  /\ p \in Held /\ (was # 0 => p \in {0, was})
  /\ p # 0 => n >= ZWarmup /\ Abs(z) > ExitZ
  /\ p # 0 /\ was # 0 => p * z > 0 - StopZ

LEMMA DecidedSo ==
  ASSUME NEW was \in Held, NEW z \in Int, NEW n \in Nat, was # 0 => n >= ZWarmup,
         NEW ok \in BOOLEAN, NEW new, new = (IF n < ZWarmup THEN was ELSE Update(was, z)),
         NEW p, p = (IF was = 0 /\ new # 0 /\ ~ok THEN 0 ELSE new)
  PROVE  Decided(p, was, z, n)
<1>1. Abs(z) \in Int /\ Abs(z) >= z /\ Abs(z) >= 0 - z
  BY DEF Abs
<1>2. CASE was = 0
  <2>1. new \in Held /\ (new # 0 => n >= ZWarmup /\ Abs(z) > ExitZ)
    BY <1>1, <1>2, BandsAssumption DEF Update, Held
  <2>. QED  BY <1>2, <2>1 DEF Decided, Held
<1>3. CASE was = 1
  <2>1. new \in {0, 1} /\ (new # 0 => n >= ZWarmup /\ Abs(z) > ExitZ /\ z > 0 - StopZ)
    BY <1>1, <1>3, BandsAssumption DEF Update
  <2>2. p = new
    BY <1>3
  <2>. QED  BY <1>3, <2>1, <2>2 DEF Decided, Held
<1>4. CASE was = -1
  <2>1. new \in {0, -1} /\ (new # 0 => n >= ZWarmup /\ Abs(z) > ExitZ /\ 0 - z > 0 - StopZ)
    BY <1>1, <1>4, BandsAssumption DEF Update
  <2>2. p = new
    BY <1>4
  <2>3. -1 * z = 0 - z
    OBVIOUS
  <2>. QED  BY <1>4, <2>1, <2>2, <2>3 DEF Decided, Held
<1>. QED  BY <1>2, <1>3, <1>4 DEF Held

LEMMA FeeTimes ==
  \A f \in Nat, k \in Nat :
    /\ f * (2 * (k + 1) - 1) = f * (2 * k - 0) + f * 1
    /\ f * (2 * k - 0) = f * (2 * k - 1) + f * 1
    /\ f * 0 = 0 /\ f * 1 = f /\ f * (2 * k - 0) \in Int /\ f * (2 * k - 1) \in Int
  BY Z3

(* The books after one observation, given what was decided on it.            *)
LEMMA ObserveOK ==
  ASSUME NEW sp, NEW pp, NEW pd, PairOK(sp, pp, pd), NEW x \in Spreads, NEW p,
         Decided(p, Before(pp), x - Mid, Len(pp)),
         NEW pe, pe = (IF Len(sp) = 0 THEN pd
                       ELSE [pnl |-> pd.pnl + Before(pp) * (x - sp[Len(sp)]),
                             cost |-> pd.cost + PairFee * Abs(p - Before(pp))])
  PROVE  PairOK(Append(sp, x), Append(pp, p), pe)
<1>. DEFINE n == Len(pp)
            u == Append(sp, x)
            q == Append(pp, p)
            was == Before(pp)
            K == Cardinality(TradesIn(pp))
            L == Cardinality(TradesIn(q))
<1>1. /\ sp \in Seq(Spreads) /\ pp \in Seq(Held) /\ Len(sp) = n /\ n \in Nat
      /\ pd \in [pnl : Int, cost : Int] /\ x \in Int /\ sp \in Seq(Int) /\ Spreads \subseteq Int
      /\ PairFee \in Nat /\ ZWarmup \in Nat \ {0} /\ Mid \in Int
  <2>1. Spreads \subseteq Int /\ PairFee \in Nat /\ ZWarmup \in Nat \ {0} /\ Mid \in Int
    BY SeriesAssumption, BandsAssumption
  <2>2. /\ sp \in Seq(Spreads) /\ pp \in Seq(Held) /\ Len(sp) = Len(pp)
        /\ pd \in [pnl : Int, cost : Int]
    BY DEF PairOK
  <2>3. sp \in Seq(Int)
    <3>1. Len(sp) \in Nat /\ sp \in [1..Len(sp) -> Spreads]
      BY <2>2
    <3>2. sp \in [1..Len(sp) -> Int]
      BY <2>1, <3>1
    <3>. QED  BY <3>1, <3>2
  <2>. QED  BY <2>1, <2>2, <2>3
<1>2. p \in Held /\ was \in Held /\ (was # 0 => p \in {0, was})
  <2>1. was \in Held
    <3>1. n # 0 => pp[n] \in Held
      BY <1>1
    <3>. QED  BY <3>1 DEF Before, Held
  <2>. QED  BY <2>1 DEF Decided
<1>3. /\ u \in Seq(Spreads) /\ Len(u) = n + 1 /\ u[n + 1] = x
      /\ \A k \in 1..n : u[k] = sp[k]
  BY <1>1
<1>4. /\ q \in Seq(Held) /\ Len(q) = n + 1 /\ q[n + 1] = p
      /\ \A k \in 1..n : q[k] = pp[k] /\ pp[k] \in Held
  BY <1>1, <1>2, HeldAppend
<1>5. n # 0 => was = pp[n] /\ n \in 1..n
  BY <1>1 DEF Before
<1>6. Before(q) = p /\ Open(q) = IF p = 0 THEN 0 ELSE 1
  BY <1>1, <1>4 DEF Before, Open
<1>7. Open(pp) = IF was = 0 THEN 0 ELSE 1
  BY <1>1 DEF Before, Open
<1>8. ASSUME NEW i \in 1..(n + 1) PROVE InBands(u, q, i)
  <2>1. CASE i \in 1..n
    <3>1. InBands(sp, pp, i)
      BY <1>1, <2>1 DEF PairOK
    <3>2. q[i] = pp[i] /\ u[i] = sp[i] /\ (i > 1 => q[i - 1] = pp[i - 1])
      <4>1. i > 1 => i - 1 \in 1..n
        BY <1>1, <2>1
      <4>. HIDE DEF u, q
      <4>. QED  BY <1>3, <1>4, <2>1, <4>1
    <3>. QED  BY <3>1, <3>2 DEF InBands
  <2>2. CASE i = n + 1
    <3>1. q[i] = p /\ u[i] = x /\ (i > 1 => q[i - 1] = was) /\ i - 1 = n
      <4>1. i - 1 = n /\ (i > 1 => n # 0)
        BY <1>1, <2>2
      <4>2. n # 0 => q[n] = pp[n]
        BY <1>4, <1>5
      <4>. HIDE DEF u, q
      <4>. QED  BY <1>3, <1>4, <1>5, <2>2, <4>1, <4>2
    <3>2. p * was # -1
      BY <1>2 DEF Held
    <3>3. p # 0 => /\ i > ZWarmup /\ Abs(x - Mid) > ExitZ
                   /\ was # 0 => p * (x - Mid) > 0 - StopZ
      BY <1>1, <2>2 DEF Decided
    <3>. HIDE DEF u, q, was
    <3>. QED  BY <3>1, <3>2, <3>3 DEF InBands
  <2>. QED  BY <1>1, <2>1, <2>2
<1>9. CASE was = 0
  <2>1. n = 0 \/ pp[n] = 0
    BY <1>5, <1>9
  <2>2. /\ Earned(u, q) = Earned(sp, pp) /\ Earned(sp, pp) \in Int /\ K \in Nat
        /\ p = 0 => L = K
        /\ p # 0 => L = K + 1
    <3>1. sp \in Seq(Int) /\ pp \in Seq(Held) /\ Len(sp) = Len(pp) /\ x \in Int /\ p \in Held
      BY <1>1, <1>2
    <3>2. Len(pp) = 0 \/ pp[Len(pp)] = 0
      BY <2>1
    <3>. QED  BY <3>1, <3>2, EarnedFromFlat, Zenon
  <2>3. OpenSince(q)
    <3>1. p # 0 => IsTr(q, n + 1, n + 1)
      <4>1. TradesGrown(pp, p, q, n)
        BY <1>1, <1>2, TradesGrow
      <4>. QED  BY <2>1, <4>1 DEF TradesGrown
    <3>. QED  BY <1>1, <1>4, <1>6, <3>1 DEF OpenSince
  <2>4. pe.pnl = Earned(u, q) /\ pe \in [pnl : Int, cost : Int] /\ pe.cost = PairFee * (2 * L - Open(q))
    <3>1. pd.pnl = Earned(sp, pp) /\ pd.cost = PairFee * (2 * K - 0)
      BY <1>7, <1>9 DEF PairOK
    <3>2. n = 0 => p = 0
      BY <1>1 DEF Decided
    <3>3. Before(pp) * (x - sp[Len(sp)]) = 0 \/ n = 0
      <4>1. CASE n # 0
        <5>1. sp[n] \in Int
          BY <1>1, <1>5, <4>1
        <5>. QED  BY <1>1, <1>9, <5>1
      <4>. QED  BY <4>1
    <3>4. Abs(p - was) = IF p = 0 THEN 0 ELSE 1
      BY <1>2, <1>9 DEF Abs, Held
    <3>5. /\ PairFee * (2 * (K + 1) - 1) = PairFee * (2 * K - 0) + PairFee * 1
          /\ PairFee * 0 = 0 /\ PairFee * 1 = PairFee
      BY <1>1, <2>2, FeeTimes
    <3>9. pd.pnl \in Int /\ pd.cost \in Int /\ pd.pnl = Earned(u, q)
      BY <1>1, <2>2, <3>1
    <3>10. p = 0 => pd.cost = PairFee * (2 * L - Open(q))
      BY <1>6, <2>2, <3>1
    <3>11. p # 0 => pd.cost + PairFee = PairFee * (2 * L - Open(q))
      <4>1. p # 0 => L = K + 1 /\ Open(q) = 1
        BY <1>6, <2>2
      <4>. QED  BY <3>1, <3>5, <4>1
    <3>6. CASE n = 0
      <4>1. pe = pd /\ p = 0
        BY <1>1, <3>2, <3>6
      <4>. QED  BY <1>1, <3>9, <3>10, <4>1
    <3>7. CASE n # 0
      <4>1. pe = [pnl |-> pd.pnl + Before(pp) * (x - sp[Len(sp)]),
                  cost |-> pd.cost + PairFee * Abs(p - was)]
        BY <1>1, <3>7
      <4>2. pe.pnl = pd.pnl
        BY <3>3, <3>7, <3>9, <4>1
      <4>3. pe.cost = pd.cost + (IF p = 0 THEN 0 ELSE PairFee)
        BY <3>4, <3>5, <4>1
      <4>4. pe.pnl = Earned(u, q) /\ pe.cost = PairFee * (2 * L - Open(q)) /\ pe.cost \in Int
        BY <1>1, <3>9, <3>10, <3>11, <4>2, <4>3
      <4>5. pe.pnl \in Int
        BY <3>9, <4>2
      <4>. QED  BY <4>1, <4>4, <4>5
    <3>. QED  BY <3>6, <3>7
  <2>. QED  BY <1>3, <1>4, <1>8, <2>3, <2>4 DEF PairOK
<1>10. CASE was # 0
  <2>1. n # 0 /\ pp[n] = was /\ n \in 1..n
    BY <1>5, <1>10 DEF Before
  <2>2. PICK i0 \in 1..n : IsTr(pp, i0, n)
    BY <1>10 DEF PairOK, OpenSince
  <2>3. EarnedMore(sp, pp, x, p, n)
    <3>1. p \in {0, pp[n]} /\ pp[n] # 0
      BY <1>2, <1>10, <2>1
    <3>. QED  BY <1>1, <1>2, <2>1, <2>2, <3>1, EarnedFromHeld
  <2>6. /\ Earned(u, q) = Earned(sp, pp) + was * (x - sp[n])
        /\ Earned(sp, pp) \in Int /\ K \in Nat /\ L = K
    BY <2>1, <2>3 DEF EarnedMore
  <2>4. OpenSince(q)
    <3>1. p # 0 => IsTr(q, i0, n + 1)
      <4>1. TradesGrown(pp, p, q, n)
        BY <1>1, <1>2, TradesGrow
      <4>2. pp[i0] = pp[n]
        BY <2>1, <2>2 DEF IsTr
      <4>. QED  BY <1>2, <1>10, <2>1, <2>2, <4>1, <4>2 DEF TradesGrown
    <3>2. i0 \in 1..(n + 1)
      BY <1>1
    <3>. QED  BY <1>1, <1>4, <1>6, <3>1, <3>2 DEF OpenSince
  <2>5. pe.pnl = Earned(u, q) /\ pe \in [pnl : Int, cost : Int] /\ pe.cost = PairFee * (2 * L - Open(q))
    <3>1. pd.pnl = Earned(sp, pp) /\ pd.cost = PairFee * (2 * K - 1)
      BY <1>7, <1>10 DEF PairOK
    <3>2. was * (x - sp[n]) \in Int
      <4>1. sp[n] \in Int
        BY <1>1, <2>1
      <4>2. Moves(was, x, sp[n], x)
        BY <1>1, <1>2, <4>1, HeldTimes
      <4>. QED  BY <4>2 DEF Moves
    <3>3. Abs(p - was) = IF p = 0 THEN 1 ELSE 0
      BY <1>2, <1>10 DEF Abs, Held
    <3>4. /\ PairFee * (2 * K - 0) = PairFee * (2 * K - 1) + PairFee * 1
          /\ PairFee * 0 = 0 /\ PairFee * 1 = PairFee
      BY <1>1, <2>6, FeeTimes
    <3>5. pe = [pnl |-> pd.pnl + was * (x - sp[n]), cost |-> pd.cost + PairFee * Abs(p - was)]
      BY <1>1, <2>1
    <3>6. pd.pnl \in Int /\ pd.cost \in Int
      BY <1>1
    <3>7. pe.cost = pd.cost + (IF p = 0 THEN PairFee ELSE 0)
      BY <3>3, <3>4, <3>5
    <3>8. p = 0 => pd.cost + PairFee = PairFee * (2 * L - Open(q))
      <4>1. p = 0 => L = K /\ Open(q) = 0
        BY <1>6, <2>6
      <4>. QED  BY <3>1, <3>4, <4>1
    <3>9. p # 0 => pd.cost = PairFee * (2 * L - Open(q))
      <4>1. p # 0 => L = K /\ Open(q) = 1
        BY <1>6, <2>6
      <4>. QED  BY <3>1, <4>1
    <3>10. pe.cost = PairFee * (2 * L - Open(q)) /\ pe.cost \in Int
      BY <1>1, <3>6, <3>7, <3>8, <3>9
    <3>. DEFINE m == was * (x - sp[n])
    <3>11. m \in Int /\ pe.pnl = pd.pnl + m /\ Earned(u, q) = Earned(sp, pp) + m
      BY <2>6, <3>2, <3>5
    <3>. HIDE DEF m
    <3>12. pe.pnl = Earned(u, q) /\ pe.pnl \in Int
      BY <2>6, <3>1, <3>6, <3>11
    <3>. QED  BY <3>5, <3>10, <3>12
  <2>. QED  BY <1>3, <1>4, <1>8, <2>4, <2>5 DEF PairOK
<1>. QED  BY <1>9, <1>10

LEMMA NextPairOK ==
  PairOK(spread, pairpos, paid) /\ [PairNext]_pairvars => PairOK(spread, pairpos, paid)'
<1>. SUFFICES ASSUME PairOK(spread, pairpos, paid), [PairNext]_pairvars
              PROVE  PairOK(spread', pairpos', paid')
  OBVIOUS
<1>1. ASSUME NEW x \in Spreads, NEW ok \in BOOLEAN, PairObserve(x, ok)
      PROVE  PairOK(spread', pairpos', paid')
  <2>. DEFINE was == Before(pairpos)
              z   == x - Mid
              n   == Len(pairpos)
              new == IF n < ZWarmup THEN was ELSE Update(was, z)
              p   == IF was = 0 /\ new # 0 /\ ~ok THEN 0 ELSE new
  <2>1. /\ spread \in Seq(Spreads) /\ pairpos \in Seq(Held) /\ Len(spread) = n /\ n \in Nat
        /\ z \in Int /\ ZWarmup \in Nat
    <3>1. /\ spread \in Seq(Spreads) /\ pairpos \in Seq(Held) /\ Len(spread) = Len(pairpos)
      BY <1>1 DEF PairOK
    <3>2. x \in Int /\ Mid \in Int /\ ZWarmup \in Nat
      BY SeriesAssumption, BandsAssumption
    <3>. QED  BY <3>1, <3>2
  <2>2. PosBefore = was
    BY <2>1 DEF PosBefore, Before, Last
  <2>3. spread = <<>> <=> Len(spread) = 0
    BY <2>1
  <2>4. Last(spread) = spread[Len(spread)]
    BY DEF Last
  <2>5. /\ spread' = Append(spread, x) /\ pairpos' = Append(pairpos, p)
        /\ paid' = IF Len(spread) = 0 THEN paid
                   ELSE [pnl |-> paid.pnl + was * (x - spread[Len(spread)]),
                         cost |-> paid.cost + PairFee * Abs(p - was)]
    <3>. HIDE DEF was
    <3>. QED  BY <1>1, <2>1, <2>2, <2>3, <2>4 DEF PairObserve
  <2>6. was \in Held
    <3>1. n # 0 => pairpos[n] \in Held
      BY <2>1
    <3>. QED  BY <3>1 DEF Before, Held
  <2>7. was # 0 => n >= ZWarmup
    <3>1. was # 0 => n # 0 /\ was = pairpos[n]
      BY DEF Before
    <3>2. n # 0 => InBands(spread, pairpos, n)
      BY <2>1 DEF PairOK
    <3>. QED  BY <2>1, <3>1, <3>2 DEF InBands
  <2>8. Decided(p, was, z, n)
    <3>. HIDE DEF was, z, n
    <3>. QED  BY <2>1, <2>6, <2>7, DecidedSo
  <2>. HIDE DEF p
  <2>. QED  BY <2>5, <2>8, ObserveOK
<1>2. CASE UNCHANGED pairvars
  BY <1>2 DEF pairvars
<1>. QED  BY <1>1, <1>2 DEF PairNext

LEMMA GainsSum ==
  ASSUME NEW S, IsFiniteSet(S)
  PROVE  MapThenSumSet(LAMBDA r : Gained(spread, pairpos, r), S)
           = SumFunctionOnSet([r \in S |-> Gained(spread, pairpos, r)], S)
<1>. DEFINE w == [r \in S |-> Gained(spread, pairpos, r)]
            P(it) == it = [s \in SUBSET S |->
                             IF s = {} THEN 0
                             ELSE Gained(spread, pairpos, Taken(s)) + it[s \ {Taken(s)}]]
            c == CHOOSE it : P(it)
<1>1. MapThenSumSet(LAMBDA r : Gained(spread, pairpos, r), S) = c[S]
  BY DEF MapThenSumSet, MapThenFoldSet, Taken
<1>2. ASSUME NEW it PROVE P(it) <=> IsIter(it, S, w)
  <2>1. ASSUME NEW s \in SUBSET S
        PROVE  (IF s = {} THEN 0 ELSE Gained(spread, pairpos, Taken(s)) + it[s \ {Taken(s)}])
                 = Body(it, s, w)
    BY TakenIn DEF Body
  <2>. QED  BY <2>1 DEF IsIter
<1>3. P(IterOf(S, w))
  <2>. HIDE DEF w, P
  <2>. QED  BY <1>2, IterExists
<1>4. P(c)
  <2>. HIDE DEF P
  <2>. QED  BY <1>3
<1>5. IsIter(c, S, w)
  <2>. HIDE DEF P, c, w
  <2>. QED  BY <1>2, <1>4
<1>6. c[S] = IterOf(S, w)[S]
  <2>. HIDE DEF c, w
  <2>. QED  BY <1>5, IterExists, IterUnique
<1>. QED  BY <1>1, <1>6, SumIsIter

LEMMA PairTelescopes == PairOK(spread, pairpos, paid) => PairsTelescope
<1>. SUFFICES ASSUME PairOK(spread, pairpos, paid) PROVE PairsTelescope
  OBVIOUS
<1>1. /\ spread \in Seq(Spreads) /\ pairpos \in Seq(Held) /\ Len(spread) = Len(pairpos)
      /\ DOMAIN pairpos = 1..Len(pairpos) /\ Len(pairpos) \in Nat
  BY DEF PairOK
<1>2. Runs = TradesIn(pairpos)
  BY <1>1 DEF Runs, IsTrade, TradesIn, IsTr
<1>3. PosBefore = Before(pairpos)
  BY <1>1 DEF PosBefore, Before, Last
<1>4. MapThenSumSet(LAMBDA r : Gained(spread, pairpos, r), Runs) = Earned(spread, pairpos)
  <2>1. IsFiniteSet(Runs)
    BY <1>1, <1>2, TradesFinite
  <2>2. MapThenSumSet(LAMBDA r : Gained(spread, pairpos, r), Runs)
          = SumFunctionOnSet([r \in Runs |-> Gained(spread, pairpos, r)], Runs)
    BY <2>1, GainsSum
  <2>. QED  BY <1>2, <2>2 DEF Earned, Gainings
<1>5. MapThenSumSet(LAMBDA r : Gained(spread, pairpos, r), Runs)
        = MapThenSumSet(LAMBDA r : pairpos[r[1]] * (spread[IF r[2] = Len(spread) THEN r[2] ELSE r[2] + 1]
                                                      - spread[r[1]]), Runs)
  BY DEF Gained, Fin
<1>6. paid.pnl = Earned(spread, pairpos)
  BY DEF PairOK
<1>7. paid.cost = PairFee * (2 * Cardinality(Runs) - (IF PosBefore # 0 THEN 1 ELSE 0))
  <2>1. (IF PosBefore # 0 THEN 1 ELSE 0) = Open(pairpos)
    BY <1>3 DEF Before, Open
  <2>. QED  BY <1>2, <2>1 DEF PairOK
<1>8. ASSUME NEW i \in DOMAIN pairpos PROVE InBands(spread, pairpos, i)
  BY <1>1 DEF PairOK
<1>. QED  BY <1>4, <1>5, <1>6, <1>7, <1>8 DEF PairsTelescope, InBands

(* For every series and every decision of the gate: what the pairs backtest  *)
(* earned and paid is the sum over its trades, no trade turns over, and none *)
(* outlives the observation that should have ended it (pairs_backtest.py:42).*)
THEOREM PairTradesTelescope == BooksSpec => []PairsTelescope
<1>1. BooksInit => PairOK(spread, pairpos, paid)
  BY InitPairOK DEF BooksInit
<1>2. PairOK(spread, pairpos, paid) /\ [BooksNext]_<<part, recordvars, papervars>>
        => PairOK(spread, pairpos, paid)'
  BY PapersStep, NextPairOK
<1>. QED  BY <1>1, <1>2, PairTelescopes, PTL DEF BooksSpec

------------------------------------------------------------------------------
(* A ledger read line by line: the totals of the basis book from its lines,  *)
(* the bets from those of the ledger of picks, and the products and sums     *)
(* over the rows and trades of the paper scalper.                            *)

(* What one more line x makes of a.                                          *)
Combine(kind, a, x) ==
  IF kind = "stored" THEN ApplyStored(a, x)
  ELSE IF kind = "replay" THEN Replayed(a, x)
  ELSE IF kind = "level" THEN a * x.level
  ELSE a * (x.entry * 10)
Reading(kind, base, s) == FoldLeft(LAMBDA a, x : Combine(kind, a, x), base, s)
Combines(kind, A, S) == \A a \in A, x \in S : Combine(kind, a, x) \in A

ReadBody(it, set, kind, base, s) ==
  IF set = {} THEN base ELSE Combine(kind, it[set \ {HighestIn(set)}], s[HighestIn(set)])
ReadIter(it, kind, base, s) ==
  it = [set \in SUBSET DOMAIN s |-> ReadBody(it, set, kind, base, s)]
ReadFold(kind, base, s) == CHOOSE it : ReadIter(it, kind, base, s)
ReadStep(kind, s, n, A) == [x \in (1..n) \X A |-> Combine(kind, x[2], s[x[1]])]

LEMMA ReadingIsFold ==
  ASSUME NEW kind, NEW base, NEW s
  PROVE  Reading(kind, base, s) = ReadFold(kind, base, s)[DOMAIN s]
  BY DEF Reading, FoldLeft, MapThenFoldSet, Max, HighestIn, ReadFold, ReadIter, ReadBody

LEMMA ReadStepTyped ==
  ASSUME NEW kind, NEW A, NEW S, Combines(kind, A, S), NEW n \in Nat, NEW s, \A k \in 1..n : s[k] \in S
  PROVE  ReadStep(kind, s, n, A) \in [(1..n) \X A -> A]
<1>1. \A x \in (1..n) \X A : x[1] \in 1..n /\ x[2] \in A
  OBVIOUS
<1>2. \A x \in (1..n) \X A : Combine(kind, x[2], s[x[1]]) \in A
  BY <1>1 DEF Combines
<1>. QED  BY <1>2 DEF ReadStep

LEMMA ReadRuns ==
  ASSUME NEW kind, NEW A, NEW S, Combines(kind, A, S), NEW base \in A,
         NEW n \in Nat, NEW s \in [1..n -> S]
  PROVE  \E F : IsRunOf(F, n, base, ReadStep(kind, s, n, A)) /\ F[n] = Reading(kind, base, s)
<1>. DEFINE D == 1..n
            g == ReadStep(kind, s, n, A)
            it == ReadFold(kind, base, s)
            F == [k \in 0..n |-> it[1..k]]
<1>1. g \in [D \X A -> A]
  BY ReadStepTyped
<1>2. ASSUME NEW k \in D, NEW a \in A PROVE g[<<k, a>>] = Combine(kind, a, s[k])
  BY DEF ReadStep
<1>. HIDE DEF g
<1>3. PICK f : IsLeftFold(f, n, base, g) /\ \A set \in SUBSET D : f[set] \in A
  BY <1>1, LeftFold
<1>4. \A set \in SUBSET D : set # {} => HighestIn(set) \in D /\ set \ {HighestIn(set)} \in SUBSET D
  BY HighestIsIn
<1>5. DOMAIN s = D
  OBVIOUS
<1>6. ReadIter(f, kind, base, s)
  <2>1. f = [set \in SUBSET D |-> IF set = {} THEN base
                                  ELSE g[<<HighestIn(set), f[set \ {HighestIn(set)}]>>]]
    BY <1>3 DEF IsLeftFold
  <2>2. \A set \in SUBSET D : f[set] = ReadBody(f, set, kind, base, s)
    BY <1>2, <1>3, <1>4, <2>1 DEF ReadBody
  <2>3. f = [set \in SUBSET D |-> f[set]]
    BY <2>1
  <2>. HIDE DEF D
  <2>. QED  BY <1>5, <2>2, <2>3 DEF ReadIter
<1>7. ReadIter(it, kind, base, s)
  BY <1>6 DEF ReadFold
<1>. HIDE DEF it
<1>8. \A set \in SUBSET D : it[set] = ReadBody(it, set, kind, base, s)
  BY <1>5, <1>7 DEF ReadIter
<1>9. it[{}] = base
  BY <1>8 DEF ReadBody
<1>10. \A set \in SUBSET D : set # {} /\ it[set \ {HighestIn(set)}] \in A
                             => it[set] = g[<<HighestIn(set), it[set \ {HighestIn(set)}]>>]
  BY <1>2, <1>4, <1>8 DEF ReadBody
<1>11. F = [k \in 0..n |-> it[1..k]] /\ F[n] = it[D]
  OBVIOUS
<1>12. IsRunOf(F, n, base, g)
  <2>. HIDE DEF F
  <2>. QED  BY <1>1, <1>9, <1>10, <1>11, IterIsRun
<1>. QED  BY <1>5, <1>11, <1>12, ReadingIsFold DEF g, it

LEMMA ReadingNone ==
  ASSUME NEW kind, NEW A, NEW S, Combines(kind, A, S), NEW base \in A
  PROVE  Reading(kind, base, <<>>) = base
<1>1. PICK F : IsRunOf(F, 0, base, ReadStep(kind, <<>>, 0, A)) /\ F[0] = Reading(kind, base, <<>>)
  <2>1. <<>> \in [1..0 -> S] /\ 0 \in Nat
    OBVIOUS
  <2>. QED  BY <2>1, ReadRuns
<1>. QED  BY <1>1 DEF IsRunOf

ReadsOn(kind, base, s, x) ==
  Reading(kind, base, Append(s, x)) = Combine(kind, Reading(kind, base, s), x)

LEMMA ReadingAppend ==
  ASSUME NEW kind, NEW A, NEW S, Combines(kind, A, S), NEW base \in A,
         NEW s \in Seq(S), NEW x \in S
  PROVE  ReadsOn(kind, base, s, x)
<1>. DEFINE n == Len(s)
            more == Append(s, x)
<1>1. /\ n \in Nat /\ n + 1 \in Nat /\ n + 1 \in 1..(n + 1)
      /\ s \in [1..n -> S] /\ more \in [1..(n + 1) -> S]
      /\ (\A k \in 1..n : more[k] = s[k]) /\ more[n + 1] = x
  BY AppendIs
<1>. HIDE DEF n, more
<1>2. PICK F : IsRunOf(F, n, base, ReadStep(kind, s, n, A)) /\ F[n] = Reading(kind, base, s)
  BY <1>1, ReadRuns
<1>3. PICK H : /\ IsRunOf(H, n + 1, base, ReadStep(kind, more, n + 1, A))
               /\ H[n + 1] = Reading(kind, base, more)
  BY <1>1, ReadRuns
<1>4. \A k \in 0..n : F[k] \in A
  <2>1. ReadStep(kind, s, n, A) \in [(1..n) \X A -> A]
    BY <1>1, ReadStepTyped
  <2>. QED  BY <1>1, <1>2, <2>1, RunTyped
<1>5. \A k \in 0..n : F[k] = H[k]
  <2>1. IsRunOf(H, n, base, ReadStep(kind, more, n + 1, A))
    BY <1>1, <1>3 DEF IsRunOf
  <2>2. \A k \in 1..n : ReadStep(kind, s, n, A)[<<k, F[k - 1]>>]
                         = ReadStep(kind, more, n + 1, A)[<<k, F[k - 1]>>]
    <3>1. \A k \in 1..n : k - 1 \in 0..n /\ k \in 1..(n + 1)
      BY <1>1
    <3>. QED  BY <1>1, <1>4, <3>1 DEF ReadStep
  <2>. QED  BY <1>1, <1>2, <2>1, <2>2, RunsAgree
<1>6. H[n + 1] = Combine(kind, H[n], more[n + 1])
  <2>1. n + 1 - 1 = n /\ n \in 0..n
    BY <1>1
  <2>2. H[n] \in A
    BY <1>4, <1>5, <2>1
  <2>3. H[n + 1] = ReadStep(kind, more, n + 1, A)[<<n + 1, H[n]>>]
    BY <1>1, <1>3, <2>1 DEF IsRunOf
  <2>. QED  BY <1>1, <2>2, <2>3 DEF ReadStep
<1>7. n \in 0..n
  BY <1>1
<1>. QED  BY <1>1, <1>2, <1>3, <1>4, <1>5, <1>6, <1>7 DEF more, ReadsOn

LEMMA ReadingTyped ==
  ASSUME NEW kind, NEW A, NEW S, Combines(kind, A, S), NEW base \in A, NEW s \in Seq(S)
  PROVE  Reading(kind, base, s) \in A
<1>. DEFINE n == Len(s)
<1>1. n \in Nat /\ s \in [1..n -> S] /\ n \in 0..n
  OBVIOUS
<1>. HIDE DEF n
<1>2. PICK F : IsRunOf(F, n, base, ReadStep(kind, s, n, A)) /\ F[n] = Reading(kind, base, s)
  BY <1>1, ReadRuns
<1>3. ReadStep(kind, s, n, A) \in [(1..n) \X A -> A]
  BY <1>1, ReadStepTyped
<1>4. \A k \in 0..n : F[k] \in A
  BY <1>1, <1>2, <1>3, RunTyped
<1>. QED  BY <1>1, <1>2, <1>4

------------------------------------------------------------------------------
(* A journal: what an append, whatever it leaves, makes of the lines that    *)
(* read, and of their number against the appends that returned.              *)

LedgerOK(f, S) ==
  /\ f.lines \in Seq(S) /\ f.tail \in {"none", "part", "unended"}
  /\ IF f.tail = "unended" THEN \E e \in S : f.open = <<e>> ELSE f.open = <<>>
Unended(f) == IF f.tail = "none" THEN 0 ELSE 1
CountOK(f, returned, faults) ==
  /\ returned \in Nat /\ faults \in Nat
  /\ returned + Unended(f) <= Len(f.lines) + faults
  /\ Len(f.lines) + Len(f.open) <= returned + faults
Counted(returned, faults, returned2, faults2) ==
  (returned2 = returned + 1 /\ faults2 = faults) \/ (returned2 = returned /\ faults2 = faults + 1)

(* The lines stand or one is added, and so do those a reader is given.       *)
KeptLines(f, g) == g.lines = f.lines /\ (ReadLedger(g) = ReadLedger(f) \/ ReadLedger(g) = f.lines)
Added(f, e, g) ==
  /\ f.tail = "none" /\ ReadLedger(f) = f.lines /\ ReadLedger(g) = Append(f.lines, e)
  /\ g.lines = f.lines \/ g.lines = Append(f.lines, e)

LandsIn(f, e, left, g, S) ==
  /\ LedgerOK(g, S)
  /\ KeptLines(f, g) \/ Added(f, e, g)
  /\ left = "line" => g.tail = "none" /\ (f.tail = "none" => ReadLedger(g) = Append(ReadLedger(f), e))

LEMMA NewLedgerOK ==
  ASSUME NEW S PROVE LedgerOK(NewLedger, S) /\ CountOK(NewLedger, 0, 0) /\ ReadLedger(NewLedger) = <<>>
BY DEF NewLedger, LedgerOK, CountOK, Unended, ReadLedger

LEMMA LedgerRead ==
  ASSUME NEW S, NEW f, LedgerOK(f, S)
  PROVE  /\ ReadLedger(f) \in Seq(S) /\ Len(ReadLedger(f)) = Len(f.lines) + Len(f.open)
         /\ f.tail # "unended" => ReadLedger(f) = f.lines
<1>1. f.lines \in Seq(S)
  BY DEF LedgerOK
<1>2. CASE f.tail = "unended"
  <2>1. PICK e \in S : f.open = <<e>>
    BY <1>2 DEF LedgerOK
  <2>. QED  BY <1>1, <1>2, <2>1 DEF ReadLedger
<1>3. CASE f.tail # "unended"
  <2>1. f.open = <<>>
    BY <1>3 DEF LedgerOK
  <2>. QED  BY <1>1, <1>3, <2>1 DEF ReadLedger
<1>. QED  BY <1>2, <1>3

LEMMA AppendedOK ==
  ASSUME NEW S, NEW f, LedgerOK(f, S), NEW e \in S, NEW left \in Leavings,
         NEW g, g = Appended(f, e, left)
  PROVE  LandsIn(f, e, left, g, S)
<1>1. f.lines \in Seq(S) /\ Append(f.lines, e) \in Seq(S) /\ <<e>> \in Seq(S) /\ <<>> \in Seq(S)
      /\ f.tail \in {"none", "part", "unended"}
  BY DEF LedgerOK
<1>2. f.lines \o <<>> = f.lines /\ f.lines \o <<e>> = Append(f.lines, e)
      /\ Append(f.lines, e) \o <<>> = Append(f.lines, e)
  BY <1>1
<1>3. f.tail = "none" => ReadLedger(f) = f.lines
  BY <1>2 DEF LedgerOK, ReadLedger
<1>4. CASE left = "nothing"
  <2>1. g = f
    BY <1>4 DEF Appended
  <2>. QED  BY <1>4, <2>1 DEF KeptLines, LandsIn
<1>5. CASE left = "part"
  <2>1. g = [lines |-> f.lines, tail |-> "part", open |-> <<>>]
    BY <1>5 DEF Appended
  <2>2. g.lines = f.lines /\ g.tail = "part" /\ g.open = <<>>
    BY <2>1
  <2>. HIDE <2>1
  <2>. QED  BY <1>1, <1>2, <1>5, <2>2 DEF LedgerOK, KeptLines, ReadLedger, LandsIn
<1>6. CASE left = "unended"
  <2>1. CASE f.tail = "none"
    <3>1. g = [lines |-> f.lines, tail |-> "unended", open |-> <<e>>]
      BY <1>6, <2>1 DEF Appended
    <3>2. g.lines = f.lines /\ g.tail = "unended" /\ g.open = <<e>>
      BY <3>1
    <3>3. LedgerOK(g, S)
      BY <1>1, <3>2 DEF LedgerOK
    <3>4. Added(f, e, g)
      BY <1>2, <1>3, <2>1, <3>2 DEF Added, ReadLedger
    <3>. QED  BY <1>6, <3>3, <3>4 DEF LandsIn
  <2>2. CASE f.tail # "none"
    <3>1. g = [lines |-> f.lines, tail |-> "part", open |-> <<>>]
      BY <1>6, <2>2 DEF Appended
    <3>2. g.lines = f.lines /\ g.tail = "part" /\ g.open = <<>>
      BY <3>1
    <3>. QED  BY <1>1, <1>2, <1>6, <3>2 DEF LedgerOK, KeptLines, ReadLedger, LandsIn
  <2>. QED  BY <2>1, <2>2
<1>7. CASE left = "line"
  <2>1. g = [lines |-> IF f.tail = "none" THEN Append(f.lines, e) ELSE f.lines,
             tail |-> "none", open |-> <<>>]
    BY <1>7 DEF Appended
  <2>2. CASE f.tail = "none"
    <3>1. g.lines = Append(f.lines, e) /\ g.tail = "none" /\ g.open = <<>>
      BY <2>1, <2>2
    <3>2. ReadLedger(g) = Append(f.lines, e)
      BY <1>2, <3>1 DEF ReadLedger
    <3>3. LedgerOK(g, S) /\ Added(f, e, g)
      BY <1>1, <1>3, <2>2, <3>1, <3>2 DEF LedgerOK, Added
    <3>. QED  BY <1>3, <2>2, <3>1, <3>2, <3>3 DEF LandsIn
  <2>3. CASE f.tail # "none"
    <3>1. g.lines = f.lines /\ g.tail = "none" /\ g.open = <<>>
      BY <2>1, <2>3
    <3>2. LedgerOK(g, S) /\ KeptLines(f, g)
      BY <1>1, <1>2, <3>1 DEF LedgerOK, KeptLines, ReadLedger
    <3>. QED  BY <2>3, <3>1, <3>2 DEF LandsIn
  <2>. QED  BY <2>2, <2>3
<1>. QED  BY <1>4, <1>5, <1>6, <1>7 DEF Leavings

LEMMA TailIs ==
  ASSUME NEW S, NEW f, LedgerOK(f, S)
  PROVE  Len(f.open) = (IF f.tail = "unended" THEN 1 ELSE 0) /\ f.tail \in {"none", "part", "unended"}
<1>1. f.tail \in {"none", "part", "unended"}
  BY DEF LedgerOK
<1>2. CASE f.tail = "unended"
  <2>1. PICK e \in S : f.open = <<e>>
    BY <1>2 DEF LedgerOK
  <2>2. Len(<<e>>) = 1
    OBVIOUS
  <2>. QED  BY <1>1, <1>2, <2>1, <2>2
<1>3. CASE f.tail # "unended"
  <2>1. f.open = <<>>
    BY <1>3 DEF LedgerOK
  <2>. QED  BY <1>1, <1>3, <2>1
<1>. QED  BY <1>2, <1>3

LEMMA AppendedCounts ==
  ASSUME NEW S, NEW f, LedgerOK(f, S), NEW e \in S, NEW left \in Leavings,
         NEW g, g = Appended(f, e, left),
         NEW returned, NEW faults, CountOK(f, returned, faults), NEW returned2, NEW faults2,
         Counted(returned, faults, returned2, faults2), returned2 # returned => left = "line"
  PROVE  CountOK(g, returned2, faults2)
<1>. DEFINE n == Len(f.lines)
            o == Len(f.open)
            u == Unended(f)
<1>1. f.lines \in Seq(S) /\ n \in Nat /\ Len(Append(f.lines, e)) = n + 1
  BY DEF LedgerOK
<1>2. o = (IF f.tail = "unended" THEN 1 ELSE 0) /\ f.tail \in {"none", "part", "unended"}
      /\ u = (IF f.tail = "none" THEN 0 ELSE 1)
  BY TailIs DEF Unended
<1>3. /\ returned \in Nat /\ faults \in Nat
      /\ returned + u <= n + faults /\ n + o <= returned + faults
  BY DEF CountOK
<1>4. Len(<<e>>) = 1 /\ Len(<<>>) = 0
  OBVIOUS
<1>5. /\ g.lines = (IF left = "line" /\ f.tail = "none" THEN Append(f.lines, e) ELSE f.lines)
      /\ g.tail = (CASE left = "nothing" -> f.tail
                     [] left = "part" -> "part"
                     [] left = "unended" -> IF f.tail = "none" THEN "unended" ELSE "part"
                     [] left = "line" -> "none")
      /\ g.open = (CASE left = "nothing" -> f.open
                     [] left = "part" -> <<>>
                     [] left = "unended" -> IF f.tail = "none" THEN <<e>> ELSE <<>>
                     [] left = "line" -> <<>>)
  <2>1. CASE left = "nothing"
    BY <2>1 DEF Appended
  <2>2. CASE left = "part"
    BY <2>2 DEF Appended
  <2>3. CASE left = "unended"
    BY <2>3 DEF Appended
  <2>4. CASE left = "line"
    BY <2>4 DEF Appended
  <2>. QED  BY <2>1, <2>2, <2>3, <2>4 DEF Leavings
<1>. DEFINE n2 == Len(g.lines)
            o2 == Len(g.open)
            u2 == Unended(g)
<1>6. /\ n2 = (IF left = "line" /\ f.tail = "none" THEN n + 1 ELSE n)
      /\ o2 = (IF left = "nothing" THEN o ELSE IF left = "unended" /\ f.tail = "none" THEN 1 ELSE 0)
      /\ u2 = (IF left = "nothing" THEN u ELSE IF left = "line" THEN 0 ELSE 1)
  <2>1. n2 = (IF left = "line" /\ f.tail = "none" THEN n + 1 ELSE n)
    BY <1>1, <1>5
  <2>2. o2 = (IF left = "nothing" THEN o ELSE IF left = "unended" /\ f.tail = "none" THEN 1 ELSE 0)
    BY <1>4, <1>5 DEF Leavings
  <2>3. u2 = (IF left = "nothing" THEN u ELSE IF left = "line" THEN 0 ELSE 1)
    BY <1>5 DEF Unended, Leavings
  <2>. QED  BY <2>1, <2>2, <2>3
<1>. HIDE DEF n, o, u, n2, o2, u2
<1>7. /\ returned2 \in Nat /\ faults2 \in Nat
      /\ returned2 + u2 <= n2 + faults2 /\ n2 + o2 <= returned2 + faults2
  <2>1. CASE returned2 = returned + 1 /\ faults2 = faults
    BY <1>1, <1>2, <1>3, <1>6, <2>1
  <2>2. CASE returned2 = returned /\ faults2 = faults + 1
    BY <1>1, <1>2, <1>3, <1>6, <2>2
  <2>. QED  BY <2>1, <2>2 DEF Counted
<1>. QED  BY <1>7 DEF CountOK, n2, o2, u2

LEMMA CountHolds ==
  ASSUME NEW S, NEW f, LedgerOK(f, S), NEW returned, NEW faults, CountOK(f, returned, faults)
  PROVE  OffByOneEach(f, returned, faults)
<1>1. Len(ReadLedger(f)) = Len(f.lines) + Len(f.open) /\ Len(f.lines) \in Nat /\ Len(f.open) \in Nat
  <2>1. Len(f.lines) \in Nat
    BY DEF LedgerOK
  <2>2. Len(f.open) \in Nat
    BY TailIs
  <2>. QED  BY <2>1, <2>2, LedgerRead
<1>. DEFINE n == Len(f.lines)
            o == Len(f.open)
            u == Unended(f)
            k == Len(ReadLedger(f))
<1>2. u \in {0, 1} /\ n \in Nat /\ o \in Nat /\ k = n + o
  BY <1>1 DEF Unended
<1>3. /\ returned \in Nat /\ faults \in Nat /\ returned + u <= n + faults /\ n + o <= returned + faults
  BY DEF CountOK
<1>. HIDE DEF n, o, u, k
<1>4. returned <= k + faults /\ k <= returned + faults
  BY <1>2, <1>3
<1>. QED  BY <1>4 DEF OffByOneEach, k

------------------------------------------------------------------------------
(* The paper scalper: what a row, and what accrues, is the return of.        *)

Equities == [num : Int, den : Int, halves : Int]
Trades == [entry : Int, level : Int, held : Int]
Scalps == [prev2 : Int, prev : Int, pos : [in : BOOLEAN, entry : Int, peak : Int, held : Int]]

Entered(s) == IF s.pos.in THEN s.pos.entry ELSE 1
Seen(s) == IF s.pos.in THEN s.prev ELSE 1
InTrade(s) == IF s.pos.in THEN 1 ELSE 0

(* What accrues, against the prices of its trades and of the open one.       *)
Balanced(e, U, w, d, T, q) == e * (U * w) = d * (T * q)
ReturnOK(e, ds, w, q, k) ==
  /\ e \in Equities /\ ds \in Seq(Trades)
  /\ Balanced(e.num, Reading("entry", 1, ds), w, e.den, Reading("level", 1, ds), q)
  /\ e.halves = 2 * Len(ds) + k
ScalpOK(s, e, ds) == s \in Scalps /\ ReturnOK(e, ds, Entered(s), Seen(s), InTrade(s))
GoodRows == {r \in [eq : Equities, of : Seq(Trades)] : ReturnOK(r.eq, r.of, 1, 1, 0)}

LEMMA TimesOver ==
  /\ \A e, U, w, l \in Int : (e * l) * (U * w) = (e * (U * w)) * l
  /\ \A e, U, w, l \in Int : (e * l) * (U * (w * 10)) = (e * (U * w)) * (10 * l)
  /\ \A d, T, q, c \in Int : (d * (10 * q)) * (T * c) = (d * (T * q)) * (c * 10)
  /\ \A d, T, q, l \in Int : (d * (10 * q)) * (T * l) = (d * (T * q)) * (10 * l)
  /\ \A e, U, c \in Int : e * (U * c) = (e * (U * 1)) * c
  /\ \A a, b \in Int : a * 1 = a /\ a * b \in Int /\ a * (b * 1) = a * b /\ 1 * a = a
<1>1. \A e, U, w, l \in Int : (e * l) * (U * w) = (e * (U * w)) * l
  BY Z3
<1>2. \A e, U, w, l \in Int : (e * l) * (U * (w * 10)) = (e * (U * w)) * (10 * l)
  BY Z3
<1>3. \A d, T, q, c \in Int : (d * (10 * q)) * (T * c) = (d * (T * q)) * (c * 10)
  BY Z3
<1>4. \A d, T, q, l \in Int : (d * (10 * q)) * (T * l) = (d * (T * q)) * (10 * l)
  BY Z3
<1>5. \A e, U, c \in Int : e * (U * c) = (e * (U * 1)) * c
  BY Z3
<1>6. \A a, b \in Int : a * 1 = a /\ a * b \in Int /\ a * (b * 1) = a * b /\ 1 * a = a
  BY Z3
<1>. QED  BY <1>1, <1>2, <1>3, <1>4, <1>5, <1>6

(* A bar held through, a trade entered, and a trade that ends.               *)
LEMMA BalanceHeld ==
  ASSUME NEW e \in Int, NEW U \in Int, NEW w \in Int, NEW d \in Int, NEW T \in Int, NEW q \in Int,
         NEW c \in Int, Balanced(e, U, w, d, T, q)
  PROVE  Balanced(e * (c * 10), U, w, d * (10 * q), T, c)
<1>1. c * 10 \in Int
  OBVIOUS
<1>. DEFINE l == c * 10
<1>. HIDE DEF l
<1>2. (e * l) * (U * w) = (e * (U * w)) * l
  BY <1>1, TimesOver DEF l
<1>3. (d * (10 * q)) * (T * c) = (d * (T * q)) * l
  BY TimesOver DEF l
<1>. QED  BY <1>2, <1>3 DEF Balanced, l

LEMMA BalanceEntered ==
  ASSUME NEW e \in Int, NEW U \in Int, NEW d \in Int, NEW T \in Int, NEW c \in Int,
         Balanced(e, U, 1, d, T, 1)
  PROVE  Balanced(e * 1, U, c, d * 1, T, c)
<1>1. e * 1 = e /\ d * 1 = d
  BY TimesOver
<1>2. e * (U * c) = (e * (U * 1)) * c /\ d * (T * c) = (d * (T * 1)) * c
  BY TimesOver
<1>. QED  BY <1>1, <1>2 DEF Balanced

LEMMA BalanceEnded ==
  ASSUME NEW e \in Int, NEW U \in Int, NEW w \in Int, NEW d \in Int, NEW T \in Int, NEW q \in Int,
         NEW l \in Int, Balanced(e, U, w, d, T, q)
  PROVE  Balanced(e * l, U * (w * 10), 1, d * (10 * q), T * l, 1)
<1>1. (e * l) * (U * (w * 10)) = (e * (U * w)) * (10 * l)
  BY TimesOver
<1>2. (d * (10 * q)) * (T * l) = (d * (T * q)) * (10 * l)
  BY TimesOver
<1>3. T * l \in Int /\ U * (w * 10) \in Int
  <2>1. w * 10 \in Int
    OBVIOUS
  <2>. QED  BY <2>1, TimesOver
<1>4. (T * l) * 1 = T * l /\ (U * (w * 10)) * 1 = U * (w * 10)
  BY <1>3, TimesOver
<1>. QED  BY <1>1, <1>2, <1>4 DEF Balanced

LEMMA TradesCombine == Combines("level", Int, Trades) /\ Combines("entry", Int, Trades)
<1>1. \A a \in Int, x \in Trades : a * x.level \in Int /\ a * (x.entry * 10) \in Int
  <2>1. \A x \in Trades : x.level \in Int /\ x.entry * 10 \in Int
    BY DEF Trades
  <2>. QED  BY <2>1, TimesOver
<1>. QED  BY <1>1 DEF Combines, Combine

LEMMA TradesTyped ==
  ASSUME NEW ds \in Seq(Trades)
  PROVE  Reading("level", 1, ds) \in Int /\ Reading("entry", 1, ds) \in Int
<1>. DEFINE one == 1
<1>1. one \in Int
  OBVIOUS
<1>. HIDE DEF one
<1>2. Reading("level", one, ds) \in Int
  BY <1>1, TradesCombine, ReadingTyped
<1>3. Reading("entry", one, ds) \in Int
  BY <1>1, TradesCombine, ReadingTyped
<1>. QED  BY <1>2, <1>3 DEF one

LEMMA TradesMore ==
  ASSUME NEW ds \in Seq(Trades), NEW d \in Trades
  PROVE  /\ Reading("level", 1, Append(ds, d)) = Reading("level", 1, ds) * d.level
         /\ Reading("entry", 1, Append(ds, d)) = Reading("entry", 1, ds) * (d.entry * 10)
<1>. DEFINE one == 1
<1>1. one \in Int
  OBVIOUS
<1>. HIDE DEF one
<1>2. Reading("level", one, Append(ds, d)) = Combine("level", Reading("level", one, ds), d)
  <2>1. ReadsOn("level", one, ds, d)
    BY <1>1, TradesCombine, ReadingAppend
  <2>. QED  BY <2>1 DEF ReadsOn
<1>3. Reading("entry", one, Append(ds, d)) = Combine("entry", Reading("entry", one, ds), d)
  <2>1. ReadsOn("entry", one, ds, d)
    BY <1>1, TradesCombine, ReadingAppend
  <2>. QED  BY <2>1 DEF ReadsOn
<1>. QED  BY <1>2, <1>3 DEF Combine, one

LEMMA NoTrades == Reading("level", 1, <<>>) = 1 /\ Reading("entry", 1, <<>>) = 1
<1>. DEFINE one == 1
<1>1. one \in Int
  OBVIOUS
<1>. HIDE DEF one
<1>2. Reading("level", one, <<>>) = one
  BY <1>1, TradesCombine, ReadingNone
<1>3. Reading("entry", one, <<>>) = one
  BY <1>1, TradesCombine, ReadingNone
<1>. QED  BY <1>2, <1>3 DEF one

(* A book that is flat has nothing accrued since trade_eq was 1.0.           *)
LEMMA EvenOK == ASSUME NEW s \in Scalps, ~s.pos.in PROVE ScalpOK(s, Even, <<>>)
<1>1. Even \in Equities /\ Even.num = 1 /\ Even.den = 1 /\ Even.halves = 0
  BY DEF Even, Equities
<1>2. <<>> \in Seq(Trades) /\ Len(<<>>) = 0
  OBVIOUS
<1>3. Entered(s) = 1 /\ Seen(s) = 1 /\ InTrade(s) = 0
  BY DEF Entered, Seen, InTrade
<1>. QED  BY <1>1, <1>2, <1>3, NoTrades DEF ScalpOK, ReturnOK, Balanced

LEMMA NewBookOK == NewBook \in Scalps /\ ~NewBook.pos.in /\ ScalpOK(NewBook, Even, <<>>)
<1>1. NewBook \in Scalps /\ ~NewBook.pos.in
  BY DEF NewBook, Scalps, Flat
<1>. QED  BY <1>1, EvenOK

LEMMA AccrueIs ==
  ASSUME NEW e \in Equities, NEW a \in Int, NEW b \in Int, NEW h \in Int
  PROVE  /\ Accrue(e, a, b, h) \in Equities
         /\ Accrue(e, a, b, h).num = e.num * a /\ Accrue(e, a, b, h).den = e.den * b
         /\ Accrue(e, a, b, h).halves = e.halves + h
<1>1. e.num \in Int /\ e.den \in Int /\ e.halves + h \in Int
  BY DEF Equities
<1>2. e.num * a \in Int /\ e.den * b \in Int
  BY <1>1, TimesOver
<1>. QED  BY <1>1, <1>2 DEF Accrue, Equities

LEMMA AccruedTyped ==
  ASSUME NEW s, NEW e, NEW ds, ScalpOK(s, e, ds)
  PROVE  /\ s \in Scalps /\ e \in Equities /\ ds \in Seq(Trades) /\ Len(ds) \in Nat
         /\ s.prev \in Int /\ s.pos.entry \in Int /\ 10 * s.prev \in Int
         /\ e.num \in Int /\ e.den \in Int /\ e.halves \in Int
<1>1. s \in Scalps /\ e \in Equities /\ ds \in Seq(Trades)
  BY DEF ScalpOK, ReturnOK
<1>2. e.num \in Int /\ e.den \in Int /\ e.halves \in Int
  BY <1>1 DEF Equities
<1>3. s.prev \in Int /\ s.pos.entry \in Int
  BY <1>1 DEF Scalps
<1>. QED  BY <1>1, <1>2, <1>3

(* A bar the position is held through.                                       *)
LEMMA HeldBar ==
  ASSUME NEW s, NEW e, NEW ds, ScalpOK(s, e, ds), s.pos.in,
         NEW c \in Int, NEW s2 \in Scalps, s2.pos.in, s2.pos.entry = s.pos.entry, s2.prev = c,
         NEW e2, e2 = Accrue(e, c * 10, 10 * s.prev, 0)
  PROVE  ScalpOK(s2, e2, ds)
<1>1. /\ s \in Scalps /\ e \in Equities /\ ds \in Seq(Trades) /\ Len(ds) \in Nat
      /\ s.prev \in Int /\ s.pos.entry \in Int /\ 10 * s.prev \in Int /\ c * 10 \in Int
      /\ e.num \in Int /\ e.den \in Int /\ e.halves \in Int
  BY AccruedTyped
<1>2. /\ Entered(s) = s.pos.entry /\ Seen(s) = s.prev /\ InTrade(s) = 1
      /\ Entered(s2) = s.pos.entry /\ Seen(s2) = c /\ InTrade(s2) = 1
  BY DEF Entered, Seen, InTrade
<1>3. /\ e2 \in Equities /\ e2.num = e.num * (c * 10) /\ e2.den = e.den * (10 * s.prev)
      /\ e2.halves = e.halves
  <2>. DEFINE l == c * 10
              m == 10 * s.prev
              none == 0
  <2>1. l \in Int /\ m \in Int /\ none \in Int /\ e2 = Accrue(e, l, m, none)
    BY <1>1
  <2>0. e \in Equities
    BY <1>1
  <2>. HIDE DEF l, m, none
  <2>2. e2 \in Equities /\ e2.num = e.num * l /\ e2.den = e.den * m /\ e2.halves = e.halves + none
    BY <2>0, <2>1, AccrueIs
  <2>3. e.halves + none = e.halves
    BY <1>1 DEF none
  <2>. QED  BY <2>2, <2>3 DEF l, m
<1>4. Balanced(e.num * (c * 10), Reading("entry", 1, ds), s.pos.entry,
               e.den * (10 * s.prev), Reading("level", 1, ds), c)
  <2>1. Balanced(e.num, Reading("entry", 1, ds), s.pos.entry, e.den, Reading("level", 1, ds), s.prev)
    BY <1>2 DEF ScalpOK, ReturnOK
  <2>. QED  BY <1>1, <2>1, TradesTyped, BalanceHeld
<1>5. e.halves = 2 * Len(ds) + 1
  BY <1>2 DEF ScalpOK, ReturnOK
<1>. QED  BY <1>1, <1>2, <1>3, <1>4, <1>5 DEF ScalpOK, ReturnOK

(* A bar on which a position is entered.                                     *)
LEMMA EnteredBar ==
  ASSUME NEW s, NEW e, NEW ds, ScalpOK(s, e, ds), ~s.pos.in,
         NEW c \in Int, NEW s2 \in Scalps, s2.pos.in, s2.pos.entry = c, s2.prev = c,
         NEW e2, e2 = Accrue(e, 1, 1, 1)
  PROVE  ScalpOK(s2, e2, ds)
<1>1. /\ s \in Scalps /\ e \in Equities /\ ds \in Seq(Trades) /\ Len(ds) \in Nat
      /\ e.num \in Int /\ e.den \in Int /\ e.halves \in Int
  BY AccruedTyped
<1>2. /\ Entered(s) = 1 /\ Seen(s) = 1 /\ InTrade(s) = 0
      /\ Entered(s2) = c /\ Seen(s2) = c /\ InTrade(s2) = 1
  BY DEF Entered, Seen, InTrade
<1>3. e2 \in Equities /\ e2.num = e.num * 1 /\ e2.den = e.den * 1 /\ e2.halves = e.halves + 1
  <2>. DEFINE one == 1
  <2>1. one \in Int /\ e2 = Accrue(e, one, one, one)
    OBVIOUS
  <2>. HIDE DEF one
  <2>2. e2 \in Equities /\ e2.num = e.num * one /\ e2.den = e.den * one /\ e2.halves = e.halves + one
    BY <1>1, <2>1, AccrueIs
  <2>. QED  BY <2>2 DEF one
<1>4. Balanced(e.num * 1, Reading("entry", 1, ds), c, e.den * 1, Reading("level", 1, ds), c)
  <2>1. Balanced(e.num, Reading("entry", 1, ds), 1, e.den, Reading("level", 1, ds), 1)
    BY <1>2 DEF ScalpOK, ReturnOK
  <2>. QED  BY <1>1, <2>1, TradesTyped, BalanceEntered
<1>5. e2.halves = 2 * Len(ds) + 1
  <2>1. e.halves = 2 * Len(ds) + 0
    BY <1>2 DEF ScalpOK, ReturnOK
  <2>. QED  BY <1>1, <1>3, <2>1
<1>. QED  BY <1>1, <1>2, <1>3, <1>4, <1>5 DEF ScalpOK, ReturnOK

(* A bar on which nothing is held or entered.                                *)
LEMMA IdleBar ==
  ASSUME NEW s, NEW e, NEW ds, ScalpOK(s, e, ds), ~s.pos.in, NEW s2 \in Scalps, ~s2.pos.in
  PROVE  ScalpOK(s2, e, ds)
<1>1. Entered(s2) = Entered(s) /\ Seen(s2) = Seen(s) /\ InTrade(s2) = InTrade(s)
  BY DEF Entered, Seen, InTrade
<1>. QED  BY <1>1 DEF ScalpOK

(* A bar that ends the trade: what accrued is the return of one trade more.  *)
LEMMA EndedBar ==
  ASSUME NEW s, NEW e, NEW ds, ScalpOK(s, e, ds), s.pos.in,
         NEW l \in Int, NEW t, t = Accrue(e, l, 10 * s.prev, 1),
         NEW d \in Trades, d.level = l, d.entry = s.pos.entry
  PROVE  ReturnOK(t, Append(ds, d), 1, 1, 0)
<1>. DEFINE U == Reading("entry", 1, ds)
            T == Reading("level", 1, ds)
            ds2 == Append(ds, d)
<1>1. /\ s \in Scalps /\ e \in Equities /\ ds \in Seq(Trades) /\ Len(ds) \in Nat
      /\ s.prev \in Int /\ s.pos.entry \in Int /\ 10 * s.prev \in Int
      /\ e.num \in Int /\ e.den \in Int /\ e.halves \in Int
  BY AccruedTyped
<1>2. Entered(s) = s.pos.entry /\ Seen(s) = s.prev /\ InTrade(s) = 1
  BY DEF Entered, Seen, InTrade
<1>3. U \in Int /\ T \in Int
  BY <1>1, TradesTyped
<1>4. /\ t \in Equities /\ t.num = e.num * l /\ t.den = e.den * (10 * s.prev)
      /\ t.halves = e.halves + 1
  <2>. DEFINE m == 10 * s.prev
              one == 1
  <2>1. m \in Int /\ one \in Int /\ t = Accrue(e, l, m, one)
    BY <1>1
  <2>0. e \in Equities
    BY <1>1
  <2>. HIDE DEF m, one
  <2>2. t \in Equities /\ t.num = e.num * l /\ t.den = e.den * m /\ t.halves = e.halves + one
    BY <2>0, <2>1, AccrueIs
  <2>. QED  BY <2>2 DEF m, one
<1>5. Reading("level", 1, ds2) = T * l /\ Reading("entry", 1, ds2) = U * (s.pos.entry * 10)
  BY <1>1, TradesMore
<1>6. ds2 \in Seq(Trades) /\ Len(ds2) = Len(ds) + 1
  BY <1>1
<1>7. Balanced(e.num, U, s.pos.entry, e.den, T, s.prev) /\ e.halves = 2 * Len(ds) + 1
  BY <1>2 DEF ScalpOK, ReturnOK
<1>. HIDE DEF U, T, ds2
<1>8. Balanced(e.num * l, U * (s.pos.entry * 10), 1, e.den * (10 * s.prev), T * l, 1)
  BY <1>1, <1>3, <1>7, BalanceEnded
<1>9. t.halves = 2 * Len(ds2) + 0
  BY <1>1, <1>4, <1>6, <1>7
<1>10. ReturnOK(t, ds2, 1, 1, 0)
  BY <1>4, <1>5, <1>6, <1>8, <1>9 DEF ReturnOK
<1>. QED  BY <1>10 DEF ds2

(* What every bar leaves of the book's types.                                *)
LEMMA ExitTyped ==
  ASSUME NEW p \in [in : BOOLEAN, entry : Int, peak : Int, held : Int], NEW b \in Bars
  PROVE  /\ ExitOf(p, b).level \in Int /\ b.c \in Int /\ b.h \in Int
         /\ ExitOf(p, b).action = "HOLD" => ExitOf(p, b).level = b.c * 10
<1>1. b.c \in Int /\ b.h \in Int /\ Trail \in Int /\ HardStop \in Int
  <2>1. b.c \in Prices /\ b.h \in Prices
    BY DEF Bars
  <2>2. Trail \in Int /\ HardStop \in Int
    BY ScalpAssumption
  <2>3. \A x : x \in Prices => x \in Int
    BY ScalpAssumption
  <2>. QED  BY <2>1, <2>2, <2>3, Zenon
<1>2. p.peak \in Int /\ p.entry \in Int
  OBVIOUS
<1>3. 10 - Trail \in Int /\ 10 - HardStop \in Int
  BY <1>1
<1>4. p.peak * (10 - Trail) \in Int /\ p.entry * (10 - HardStop) \in Int
  BY <1>2, <1>3, TimesOver
<1>5. TrailNow(p, b) \in Int /\ StopLevel(p.entry) \in Int /\ b.c * 10 \in Int
  BY <1>1, <1>4 DEF TrailNow, TrailLevel, StopLevel
<1>6. ExitOf(p, b).level \in {TrailNow(p, b), StopLevel(p.entry), b.c * 10}
  BY DEF ExitOf
<1>7. ExitOf(p, b).action = "HOLD" => ExitOf(p, b).level = b.c * 10
  BY DEF ExitOf
<1>. QED  BY <1>1, <1>5, <1>6, <1>7

ScalpInv ==
  /\ ScalpOK(scalp, eq, since) /\ done \in Seq(Trades)
  /\ LedgerOK(rowfile, GoodRows) /\ CountOK(rowfile, told, rfaults)
  /\ rfaults = 0 => /\ since = <<>> /\ rowfile.tail = "none" /\ Len(rows) = Len(done)
                     /\ \A k \in 1..Len(done) : rows[k].of = <<done[k]>>

LEMMA InitScalpInv == ScalpInit => ScalpInv
<1>. SUFFICES ASSUME ScalpInit PROVE ScalpInv
  OBVIOUS
<1>1. ScalpOK(scalp, eq, since) /\ done = <<>> /\ since = <<>>
  BY NewBookOK DEF ScalpInit
<1>2. /\ LedgerOK(rowfile, GoodRows) /\ CountOK(rowfile, told, rfaults) /\ rows = <<>>
      /\ rowfile.tail = "none"
  <2>1. rowfile = NewLedger /\ told = 0 /\ rfaults = 0
    BY DEF ScalpInit
  <2>. QED  BY <2>1, NewLedgerOK DEF rows, NewLedger
<1>. QED  BY <1>1, <1>2 DEF ScalpInv

(* A bar that ends no trade writes nothing.                                  *)
QuietBar ==
  /\ done' = done /\ since' = since /\ rowfile' = rowfile /\ told' = told /\ rfaults' = rfaults
LEMMA QuietKeeps ==
  ASSUME ScalpInv, QuietBar, ScalpOK(scalp', eq', since) PROVE ScalpInv'
BY DEF ScalpInv, QuietBar, rows

(* A trade that ends: its row, whatever becomes of it.                       *)
RowWritten(row, ended, left, returned) ==
  /\ done' = Append(done, ended) /\ rowfile' = Appended(rowfile, row, left)
  /\ since' = (IF returned THEN <<>> ELSE row.of)
  /\ eq' = (IF returned THEN Even ELSE row.eq)
  /\ told' = (IF returned THEN told + 1 ELSE told)
  /\ rfaults' = (IF returned THEN rfaults ELSE rfaults + 1)

LEMMA RowKeeps ==
  ASSUME ScalpInv, NEW ended \in Trades, NEW row \in GoodRows, row.of = Append(since, ended),
         NEW left \in Leavings, NEW returned \in BOOLEAN, returned => left = "line",
         RowWritten(row, ended, left, returned), scalp' \in Scalps, ~scalp'.pos.in
  PROVE  ScalpInv'
<1>. DEFINE ds == Append(done, ended)
            g == Appended(rowfile, row, left)
<1>1. /\ done \in Seq(Trades) /\ LedgerOK(rowfile, GoodRows) /\ CountOK(rowfile, told, rfaults)
      /\ told \in Nat /\ rfaults \in Nat
  BY DEF ScalpInv, CountOK
<1>2. /\ done' = ds /\ rowfile' = g /\ ds \in Seq(Trades) /\ Len(ds) = Len(done) + 1
      /\ Len(done) \in Nat /\ ds[Len(done) + 1] = ended /\ \A k \in 1..Len(done) : ds[k] = done[k]
  BY <1>1 DEF RowWritten
<1>. HIDE DEF ds, g
<1>3. LandsIn(rowfile, row, left, g, GoodRows)
  BY <1>1, AppendedOK DEF g
<1>4. CountOK(g, told', rfaults')
  <2>1. Counted(told, rfaults, told', rfaults') /\ (told' # told => left = "line")
    BY <1>1 DEF RowWritten, Counted
  <2>. QED  BY <1>1, <2>1, AppendedCounts DEF g
<1>5. ScalpOK(scalp', eq', since')
  <2>1. CASE returned
    BY <2>1, EvenOK DEF RowWritten
  <2>2. CASE ~returned
    <3>1. eq' = row.eq /\ since' = row.of /\ ReturnOK(row.eq, row.of, 1, 1, 0)
      BY <2>2 DEF RowWritten, GoodRows
    <3>2. Entered(scalp') = 1 /\ Seen(scalp') = 1 /\ InTrade(scalp') = 0
      BY DEF Entered, Seen, InTrade
    <3>. QED  BY <3>1, <3>2 DEF ScalpOK
  <2>. QED  BY <2>1, <2>2
<1>6. ASSUME rfaults' = 0
      PROVE  /\ since' = <<>> /\ g.tail = "none" /\ Len(ReadLedger(g)) = Len(ds)
             /\ \A k \in 1..Len(ds) : ReadLedger(g)[k].of = <<ds[k]>>
  <2>1. returned /\ rfaults = 0 /\ left = "line"
    BY <1>1, <1>6 DEF RowWritten
  <2>. DEFINE rs == ReadLedger(rowfile)
  <2>2. /\ since = <<>> /\ rowfile.tail = "none" /\ Len(rs) = Len(done)
        /\ \A k \in 1..Len(done) : rs[k].of = <<done[k]>>
    BY <2>1 DEF ScalpInv, rows
  <2>3. ReadLedger(g) = Append(rs, row) /\ g.tail = "none" /\ rs \in Seq(GoodRows)
    BY <1>1, <1>3, <2>1, <2>2, LedgerRead DEF LandsIn
  <2>. HIDE DEF rs
  <2>4. Len(Append(rs, row)) = Len(done) + 1 /\ Append(rs, row)[Len(done) + 1] = row
        /\ \A k \in 1..Len(done) : Append(rs, row)[k] = rs[k]
    BY <2>2, <2>3
  <2>5. row.of = <<ended>>
    BY <2>2
  <2>6. since' = <<>>
    BY <2>1 DEF RowWritten
  <2>7. \A k \in 1..Len(ds) : k \in 1..Len(done) \/ k = Len(done) + 1
    BY <1>2
  <2>. QED  BY <1>2, <2>2, <2>3, <2>4, <2>5, <2>6, <2>7
<1>7. LedgerOK(g, GoodRows)
  BY <1>3 DEF LandsIn
<1>. QED  BY <1>2, <1>4, <1>5, <1>6, <1>7 DEF ScalpInv, rows

LEMMA BarScalpInv ==
  ASSUME ScalpInv, NEW b \in Bars, NEW left \in Leavings, NEW returned \in BOOLEAN,
         Bar(b, left, returned)
  PROVE  ScalpInv'
<1>. DEFINE prev == scalp.prev
            p == scalp.pos
            exit == ExitOf(p, b)
            ends == p.in /\ exit.action # "HOLD"
            enter == ~p.in /\ EntryOk(scalp.prev2, prev, b.c)
            P == [in : BOOLEAN, entry : Int, peak : Int, held : Int]
            d == [entry |-> p.entry, level |-> exit.level, held |-> p.held + 1]
            t == Accrue(eq, exit.level, 10 * prev, 1)
            row == [eq |-> t, of |-> Append(since, d)]
<1>1. /\ scalp \in Scalps /\ p \in P /\ prev \in Int /\ scalp.prev2 \in Int
      /\ ScalpOK(scalp, eq, since) /\ since \in Seq(Trades)
  BY DEF ScalpInv, ScalpOK, ReturnOK, Scalps
<1>2. exit.level \in Int /\ b.c \in Int /\ b.h \in Int
      /\ (exit.action = "HOLD" => exit.level = b.c * 10)
  BY <1>1, ExitTyped
<1>3. p.in \in BOOLEAN /\ p.entry \in Int /\ p.peak \in Int /\ p.held \in Int
  BY <1>1
<1>4. d \in Trades /\ d.level = exit.level /\ d.entry = p.entry
  BY <1>2, <1>3 DEF Trades
<1>5. ~ends => returned
  BY DEF Bar
<1>. HIDE DEF exit
<1>6. CASE p.in /\ exit.action = "HOLD"
  <2>. DEFINE s2 == [prev2 |-> prev, prev |-> b.c,
                     pos |-> [p EXCEPT !.held = @ + 1, !.peak = Larger(@, b.h)]]
  <2>1. scalp' = s2 /\ eq' = Accrue(eq, b.c * 10, 10 * prev, 0) /\ QuietBar
    BY <1>2, <1>5, <1>6 DEF Bar, exit, QuietBar
  <2>2. s2.pos = [in |-> p.in, entry |-> p.entry, peak |-> Larger(p.peak, b.h), held |-> p.held + 1]
    BY <1>1
  <2>3. Larger(p.peak, b.h) \in Int
    BY <1>2, <1>3 DEF Larger
  <2>4. s2.pos \in P
    <3>1. [in |-> p.in, entry |-> p.entry, peak |-> Larger(p.peak, b.h), held |-> p.held + 1] \in P
      BY <1>3, <2>3
    <3>. HIDE DEF P
    <3>. QED  BY <2>2, <3>1
  <2>5. s2 \in Scalps /\ s2.pos.in /\ s2.pos.entry = p.entry /\ s2.prev = b.c
    BY <1>1, <1>2, <1>6, <2>2, <2>4 DEF Scalps
  <2>. HIDE DEF s2
  <2>6. ScalpOK(scalp', eq', since)
    BY <1>1, <1>2, <1>6, <2>1, <2>5, HeldBar
  <2>. QED  BY <2>1, <2>6, QuietKeeps
<1>7. CASE ends
  <2>. DEFINE s2 == [prev2 |-> prev, prev |-> b.c, pos |-> Flat]
  <2>1. scalp' = s2 /\ RowWritten(row, d, left, returned)
    BY <1>7 DEF Bar, exit, RowWritten
  <2>2. s2 \in Scalps /\ ~s2.pos.in
    BY <1>1, <1>2 DEF Scalps, Flat
  <2>3. row \in GoodRows /\ row.of = Append(since, d)
    <3>. HIDE DEF d, t
    <3>1. ReturnOK(t, Append(since, d), 1, 1, 0)
      BY <1>1, <1>2, <1>4, <1>7, EndedBar DEF t
    <3>. QED  BY <3>1 DEF GoodRows, ReturnOK
  <2>4. returned => left = "line"
    BY DEF Bar
  <2>. HIDE DEF s2, d, row
  <2>. QED  BY <1>4, <2>1, <2>2, <2>3, <2>4, RowKeeps
<1>8. CASE enter
  <2>. DEFINE s2 == [prev2 |-> prev, prev |-> b.c,
                     pos |-> [in |-> TRUE, entry |-> b.c, peak |-> b.c, held |-> 0]]
  <2>1. scalp' = s2 /\ eq' = Accrue(eq, 1, 1, 1) /\ QuietBar
    BY <1>5, <1>8 DEF Bar, QuietBar
  <2>2. s2 \in Scalps /\ s2.pos.in /\ s2.pos.entry = b.c /\ s2.prev = b.c
    BY <1>1, <1>2 DEF Scalps
  <2>. HIDE DEF s2
  <2>3. ScalpOK(scalp', eq', since)
    BY <1>1, <1>2, <1>8, <2>1, <2>2, EnteredBar
  <2>. QED  BY <2>1, <2>3, QuietKeeps
<1>9. CASE ~p.in /\ ~enter
  <2>. DEFINE s2 == [prev2 |-> prev, prev |-> b.c, pos |-> Flat]
  <2>1. scalp' = s2 /\ eq' = eq /\ QuietBar
    BY <1>5, <1>9 DEF Bar, QuietBar
  <2>2. s2 \in Scalps /\ ~s2.pos.in
    BY <1>1, <1>2 DEF Scalps, Flat
  <2>. HIDE DEF s2
  <2>3. ScalpOK(scalp', eq', since)
    BY <1>1, <1>9, <2>1, <2>2, IdleBar
  <2>. QED  BY <2>1, <2>3, QuietKeeps
<1>. QED  BY <1>3, <1>6, <1>7, <1>8, <1>9

(* Started again: the rows stand, the restart is one fault more.             *)
LEMMA RestartScalpInv == ASSUME ScalpInv, ScalpRestart PROVE ScalpInv'
<1>1. ScalpOK(scalp', eq', since') /\ done' \in Seq(Trades)
  BY NewBookOK DEF ScalpRestart
<1>2. rowfile' = rowfile /\ told' = told /\ rfaults' = rfaults + 1
  BY DEF ScalpRestart
<1>3. LedgerOK(rowfile, GoodRows) /\ CountOK(rowfile, told, rfaults) /\ rfaults \in Nat
  BY DEF ScalpInv, CountOK
<1>4. CountOK(rowfile, told, rfaults + 1) /\ rfaults + 1 # 0
  <2>. DEFINE n == Len(rowfile.lines)
              o == Len(rowfile.open)
              u == Unended(rowfile)
  <2>1. n \in Nat
    BY <1>3 DEF LedgerOK
  <2>2. o \in Nat
    BY <1>3, TailIs
  <2>3. u \in Nat
    BY DEF Unended
  <2>4. told \in Nat /\ told + u <= n + rfaults /\ n + o <= told + rfaults
    BY <1>3 DEF CountOK
  <2>. HIDE DEF n, o, u
  <2>5. told + u <= n + (rfaults + 1) /\ n + o <= told + (rfaults + 1) /\ rfaults + 1 \in Nat
        /\ rfaults + 1 # 0
    BY <1>3, <2>1, <2>2, <2>3, <2>4
  <2>. QED  BY <2>4, <2>5 DEF CountOK, n, o, u
<1>. QED  BY <1>1, <1>2, <1>3, <1>4 DEF ScalpInv

LEMMA NextScalpInv == ScalpInv /\ [ScalpNext]_scalpvars => ScalpInv'
<1>1. ASSUME ScalpInv, ScalpNext PROVE ScalpInv'
  BY <1>1, BarScalpInv, RestartScalpInv DEF ScalpNext
<1>2. ASSUME ScalpInv, UNCHANGED scalpvars PROVE ScalpInv'
  BY <1>2 DEF scalpvars, ScalpInv, rows
<1>. QED  BY <1>1, <1>2

(* The products of the property, as readings.                                *)
LEMMA ProductsRead ==
  ASSUME NEW ds
  PROVE  /\ Product(ds, LAMBDA d : d.level) = Reading("level", 1, ds)
         /\ Product(ds, LAMBDA d : d.entry * 10) = Reading("entry", 1, ds)
<1>1. Product(ds, LAMBDA d : d.level) = Reading("level", 1, ds)
  BY DEF Product, Reading, FoldLeft, MapThenFoldSet, Combine
<1>2. Product(ds, LAMBDA d : d.entry * 10) = Reading("entry", 1, ds)
  BY DEF Product, Reading, FoldLeft, MapThenFoldSet, Combine
<1>. QED  BY <1>1, <1>2

LEMMA ReturnRead ==
  ASSUME NEW e, NEW ds, NEW w, NEW q, NEW k, ReturnOK(e, ds, w, q, k) PROVE IsReturnOf(e, ds, w, q, k)
BY ProductsRead DEF ReturnOK, Balanced, IsReturnOf

LEMMA RowsHold == ScalpInv => RowsCompound
<1>. SUFFICES ASSUME ScalpInv PROVE RowsCompound
  OBVIOUS
<1>1. LedgerOK(rowfile, GoodRows) /\ CountOK(rowfile, told, rfaults) /\ ScalpOK(scalp, eq, since)
  BY DEF ScalpInv
<1>2. rows \in Seq(GoodRows)
  BY <1>1, LedgerRead DEF rows
<1>3. \A k \in DOMAIN rows : IsReturnOf(rows[k].eq, rows[k].of, 1, 1, 0)
  <2>1. \A k \in DOMAIN rows : rows[k] \in GoodRows
    BY <1>2
  <2>2. \A k \in DOMAIN rows : ReturnOK(rows[k].eq, rows[k].of, 1, 1, 0)
    BY <2>1 DEF GoodRows
  <2>. QED  BY <2>2, ReturnRead
<1>4. IF scalp.pos.in THEN IsReturnOf(eq, since, scalp.pos.entry, scalp.prev, 1)
      ELSE IsReturnOf(eq, since, 1, 1, 0)
  <2>1. IsReturnOf(eq, since, Entered(scalp), Seen(scalp), InTrade(scalp))
    BY <1>1, ReturnRead DEF ScalpOK
  <2>. QED  BY <2>1 DEF Entered, Seen, InTrade
<1>5. OffByOneEach(rowfile, told, rfaults)
  BY <1>1, CountHolds
<1>6. rfaults = 0 => /\ since = <<>> /\ Len(rows) = Len(done)
                      /\ \A k \in DOMAIN rows : rows[k].of = <<done[k]>>
  <2>1. DOMAIN rows = 1..Len(rows)
    BY <1>2
  <2>. QED  BY <2>1 DEF ScalpInv
<1>. QED  BY <1>3, <1>4, <1>5, <1>6 DEF RowsCompound

LEMMA ScalperStep ==
  ASSUME [BooksNext]_<<part, recordvars, papervars>> PROVE [ScalpNext]_scalpvars
<1>1. CASE BooksNext
  <2>1. CASE PaperNext
    BY <1>1, <2>1 DEF BooksNext, PaperNext
  <2>2. CASE UNCHANGED papervars
    BY <1>1, <2>2 DEF BooksNext, papervars
  <2>. QED  BY <1>1, <2>1, <2>2 DEF BooksNext
<1>2. CASE UNCHANGED <<part, recordvars, papervars>>
  BY <1>2 DEF papervars
<1>. QED  BY <1>1, <1>2

------------------------------------------------------------------------------
(* The basis book: its ledger is a sequence of episodes, and its totals are  *)
(* theirs.                                                                   *)

BasisBooks == [in : BOOLEAN, prev : Int, entries : Int, exits : Int, holds : Int,
               funding : Int, conv : Int, costs : Int, net : Int]
BasisLines == [action : {"ENTER", "HOLD", "EXIT", "FLAT"}, f : Int, premium : Int, r : Int]

(* The last line of the episode that line i of a ledger enters.              *)
HoldsFrom(l, i) == {j \in i..Len(l) : \A k \in (i + 1)..j : l[k].action = "HOLD"}
EndOf(l, i) == Max(HoldsFrom(l, i))
IsEnd(l, i, j) ==
  /\ j \in i..Len(l) /\ \A k \in (i + 1)..j : l[k].action = "HOLD"
  /\ j = Len(l) \/ l[j + 1].action # "HOLD"

LEMMA EndIs ==
  ASSUME NEW l, Len(l) \in Nat, NEW i \in 1..Len(l), NEW j, IsEnd(l, i, j)
  PROVE  EndOf(l, i) = j
<1>. DEFINE H == HoldsFrom(l, i)
<1>1. j \in H
  BY DEF IsEnd, HoldsFrom
<1>2. ASSUME NEW y \in H PROVE j >= y
  <2>1. y \in i..Len(l) /\ \A k \in (i + 1)..y : l[k].action = "HOLD"
    BY DEF HoldsFrom
  <2>2. j \in i..Len(l) /\ (j = Len(l) \/ l[j + 1].action # "HOLD")
    BY DEF IsEnd
  <2>3. ASSUME y > j PROVE FALSE
    <3>1. j + 1 \in (i + 1)..y /\ j # Len(l)
      BY <2>1, <2>2, <2>3
    <3>. QED  BY <2>1, <2>2, <3>1
  <2>. QED  BY <2>1, <2>2, <2>3
<1>3. \A y \in H : y \in Int
  BY DEF HoldsFrom
<1>. HIDE DEF H
<1>4. \A x \in H : (\A y \in H : x >= y) => x = j
  BY <1>1, <1>2, <1>3
<1>5. (CHOOSE x \in H : \A y \in H : x >= y) = j
  BY <1>1, <1>2, <1>4
<1>. QED  BY <1>5 DEF EndOf, Max, H

LEMMA EndExists ==
  ASSUME NEW l, Len(l) \in Nat, NEW i \in 1..Len(l)
  PROVE  IsEnd(l, i, EndOf(l, i))
<1>. DEFINE n == Len(l)
            H == HoldsFrom(l, i)
            m == HighestIn(H)
<1>1. n \in Nat /\ H \in SUBSET (1..n)
  BY DEF HoldsFrom
<1>2. i \in H
  BY DEF HoldsFrom
<1>3. m \in H /\ \A y \in H : m >= y
  <2>. HIDE DEF H, n
  <2>. QED  BY <1>1, <1>2, HighestIsIn
<1>4. m \in i..n /\ \A k \in (i + 1)..m : l[k].action = "HOLD"
  BY <1>3 DEF HoldsFrom
<1>5. ASSUME m # n, l[m + 1].action = "HOLD" PROVE FALSE
  <2>1. m + 1 \in i..n /\ ~(m >= m + 1)
    <3>. HIDE DEF m, n, H
    <3>1. n \in Nat /\ m \in i..n /\ m # n /\ i \in 1..n
      BY <1>1, <1>4, <1>5 DEF n
    <3>. QED  BY <3>1
  <2>2. \A k \in (i + 1)..(m + 1) : k = m + 1 \/ k \in (i + 1)..m
    BY <1>4
  <2>3. m + 1 \in H
    BY <1>4, <1>5, <2>1, <2>2 DEF HoldsFrom
  <2>. QED  BY <1>3, <2>1, <2>3
<1>6. IsEnd(l, i, m)
  BY <1>4, <1>5 DEF IsEnd
<1>. HIDE DEF m
<1>7. EndOf(l, i) = m
  BY <1>6, EndIs
<1>. QED  BY <1>6, <1>7

(* One line more: an open episode goes on with a HOLD, and ends otherwise.   *)
EndsAfter(l, e, i) ==
  EndOf(Append(l, e), i) = IF EndOf(l, i) = Len(l) /\ e.action = "HOLD" THEN Len(l) + 1 ELSE EndOf(l, i)

LEMMA EndAppend ==
  ASSUME NEW l \in Seq(BasisLines), NEW e \in BasisLines, NEW i \in 1..Len(l)
  PROVE  EndsAfter(l, e, i) /\ EndOf(l, i) \in i..Len(l)
<1>. DEFINE n == Len(l)
            m == Append(l, e)
            j == EndOf(l, i)
<1>1. /\ n \in Nat /\ Len(m) = n + 1 /\ m[n + 1] = e
      /\ \A k \in 1..n : m[k] = l[k]
  BY AppendIs
<1>2. j \in i..n /\ (\A k \in (i + 1)..j : l[k].action = "HOLD") /\ (j = n \/ l[j + 1].action # "HOLD")
  BY <1>1, EndExists DEF IsEnd
<1>. HIDE DEF m, n, j
<1>3. i \in 1..n /\ i \in 1..(n + 1)
  BY <1>1 DEF n
<1>4. \A k \in (i + 1)..j : m[k].action = "HOLD"
  <2>1. i \in Nat /\ j \in Int /\ j <= n /\ n \in Nat /\ i >= 1
    BY <1>1, <1>2, <1>3
  <2>2. \A k \in (i + 1)..j : k \in 1..n
    BY <2>1
  <2>. QED  BY <1>1, <1>2, <2>2
<1>5. CASE j = n /\ e.action = "HOLD"
  <2>1. \A k \in (i + 1)..(n + 1) : k = n + 1 \/ k \in (i + 1)..j
    BY <1>1, <1>3, <1>5
  <2>2. \A k \in (i + 1)..(n + 1) : m[k].action = "HOLD"
    BY <1>1, <1>4, <1>5, <2>1
  <2>3. n + 1 \in i..(n + 1)
    BY <1>1, <1>3
  <2>4. IsEnd(m, i, n + 1)
    BY <1>1, <2>2, <2>3 DEF IsEnd
  <2>5. EndOf(m, i) = n + 1
    BY <1>1, <1>3, <2>4, EndIs
  <2>. QED  BY <1>2, <1>5, <2>5 DEF EndsAfter, m, n, j
<1>6. CASE ~(j = n /\ e.action = "HOLD")
  <2>1. m[j + 1].action # "HOLD"
    <3>1. CASE j = n
      BY <1>1, <1>6, <3>1
    <3>2. CASE j # n
      <4>1. j + 1 \in 1..n
        BY <1>1, <1>2, <1>3, <3>2
      <4>. QED  BY <1>1, <1>2, <3>2, <4>1
    <3>. QED  BY <3>1, <3>2
  <2>2. j \in i..(n + 1)
    BY <1>1, <1>2
  <2>3. IsEnd(m, i, j)
    BY <1>1, <1>4, <2>1, <2>2 DEF IsEnd
  <2>4. EndOf(m, i) = j
    BY <1>1, <1>3, <2>3, EndIs
  <2>. QED  BY <1>2, <1>6, <2>4 DEF EndsAfter, m, n, j
<1>. QED  BY <1>5, <1>6

LEMMA EndOfLast ==
  ASSUME NEW l, Len(l) \in Nat \ {0} PROVE EndOf(l, Len(l)) = Len(l)
<1>1. Len(l) \in 1..Len(l) /\ Len(l) \in Nat /\ IsEnd(l, Len(l), Len(l))
  BY DEF IsEnd
<1>. QED  BY <1>1, EndIs

(* What one line more makes of the stored book, field by field.              *)
StoredOf(b, e) ==
  [in |-> e.action \in {"ENTER", "HOLD"},
   prev |-> IF e.action \in {"ENTER", "HOLD"} THEN e.premium ELSE b.prev,
   entries |-> IF e.action = "ENTER" THEN b.entries + 1 ELSE b.entries,
   exits |-> IF e.action = "EXIT" THEN b.exits + 1 ELSE b.exits,
   holds |-> IF e.action = "HOLD" THEN b.holds + 1 ELSE b.holds,
   funding |-> IF e.action = "HOLD" THEN b.funding + e.f ELSE b.funding,
   conv |-> IF e.action = "HOLD" THEN b.conv + (e.r - e.f) ELSE b.conv,
   costs |-> IF e.action \in {"ENTER", "EXIT"} THEN b.costs + BasisFee ELSE b.costs,
   net |-> b.net + e.r]

LEMMA RecordIs ==
  ASSUME NEW b \in BasisBooks, NEW action \in {"ENTER", "HOLD", "EXIT", "FLAT"},
         NEW funding, NEW conv, NEW r
  PROVE  RecordBasis(b, action, funding, conv, r)
           = [in |-> b.in, prev |-> b.prev,
              entries |-> IF action = "ENTER" THEN b.entries + 1 ELSE b.entries,
              exits |-> IF action = "EXIT" THEN b.exits + 1 ELSE b.exits,
              holds |-> IF action = "HOLD" THEN b.holds + 1 ELSE b.holds,
              funding |-> IF action = "HOLD" THEN b.funding + funding ELSE b.funding,
              conv |-> IF action = "HOLD" THEN b.conv + conv ELSE b.conv,
              costs |-> IF action \in {"ENTER", "EXIT"} THEN b.costs + BasisFee ELSE b.costs,
              net |-> b.net + r]
<1>. DEFINE n == [b EXCEPT !.net = @ + r]
<1>1. n = [in |-> b.in, prev |-> b.prev, entries |-> b.entries, exits |-> b.exits, holds |-> b.holds,
           funding |-> b.funding, conv |-> b.conv, costs |-> b.costs, net |-> b.net + r]
  BY DEF BasisBooks
<1>. HIDE DEF n
<1>2. CASE action = "ENTER"
  <2>1. RecordBasis(b, action, funding, conv, r) = [n EXCEPT !.entries = @ + 1, !.costs = @ + BasisFee]
    BY <1>2 DEF RecordBasis, n
  <2>. QED  BY <1>1, <1>2, <2>1
<1>3. CASE action = "HOLD"
  <2>1. RecordBasis(b, action, funding, conv, r)
          = [n EXCEPT !.holds = @ + 1, !.funding = @ + funding, !.conv = @ + conv]
    BY <1>3 DEF RecordBasis, n
  <2>. QED  BY <1>1, <1>3, <2>1
<1>4. CASE action = "EXIT"
  <2>1. RecordBasis(b, action, funding, conv, r) = [n EXCEPT !.exits = @ + 1, !.costs = @ + BasisFee]
    BY <1>4 DEF RecordBasis, n
  <2>. QED  BY <1>1, <1>4, <2>1
<1>5. CASE action = "FLAT"
  <2>1. RecordBasis(b, action, funding, conv, r) = n
    BY <1>5 DEF RecordBasis, n
  <2>. QED  BY <1>1, <1>5, <2>1
<1>. QED  BY <1>2, <1>3, <1>4, <1>5

LEMMA StoredIs ==
  ASSUME NEW b \in BasisBooks, NEW e \in BasisLines PROVE ApplyStored(b, e) = StoredOf(b, e)
<1>. DEFINE conv == IF e.action = "HOLD" THEN e.r - e.f ELSE 0
            n == RecordBasis(b, e.action, e.f, conv, e.r)
            in == e.action \in {"ENTER", "HOLD"}
<1>1. e.action \in {"ENTER", "HOLD", "EXIT", "FLAT"}
  BY DEF BasisLines
<1>2. n = [in |-> b.in, prev |-> b.prev,
           entries |-> IF e.action = "ENTER" THEN b.entries + 1 ELSE b.entries,
           exits |-> IF e.action = "EXIT" THEN b.exits + 1 ELSE b.exits,
           holds |-> IF e.action = "HOLD" THEN b.holds + 1 ELSE b.holds,
           funding |-> IF e.action = "HOLD" THEN b.funding + e.f ELSE b.funding,
           conv |-> IF e.action = "HOLD" THEN b.conv + conv ELSE b.conv,
           costs |-> IF e.action \in {"ENTER", "EXIT"} THEN b.costs + BasisFee ELSE b.costs,
           net |-> b.net + e.r]
  <2>. HIDE DEF conv
  <2>. QED  BY <1>1, RecordIs
<1>3. ApplyStored(b, e) = [n EXCEPT !.in = in, !.prev = IF in THEN e.premium ELSE @]
  BY DEF ApplyStored
<1>. HIDE DEF n
<1>. QED  BY <1>2, <1>3 DEF StoredOf

LEMMA StoredTyped ==
  ASSUME NEW b \in BasisBooks, NEW e \in BasisLines PROVE StoredOf(b, e) \in BasisBooks
<1>1. e.premium \in Int /\ e.f \in Int /\ e.r \in Int /\ BasisFee \in Int
  BY BasisAssumption DEF BasisLines
<1>. QED  BY <1>1 DEF StoredOf, BasisBooks

LEMMA StoredCombines == Combines("stored", BasisBooks, BasisLines) /\ BasisNew \in BasisBooks
<1>1. ASSUME NEW b \in BasisBooks, NEW e \in BasisLines PROVE Combine("stored", b, e) \in BasisBooks
  BY StoredIs, StoredTyped DEF Combine
<1>2. BasisNew \in BasisBooks
  BY DEF BasisNew, BasisBooks
<1>. QED  BY <1>1, <1>2 DEF Combines

LinesOf(l, a) == {i \in DOMAIN l : l[i].action = a}
Worth(l, i) == l[i].premium - l[EndOf(l, i)].premium
Converged(l) == SumFunctionOnSet([i \in LinesOf(l, "ENTER") |-> Worth(l, i)], LinesOf(l, "ENTER"))

LEMMA LinesAppend ==
  ASSUME NEW l \in Seq(BasisLines), NEW e \in BasisLines, NEW n, n = Len(l)
  PROVE  /\ n \in Nat /\ DOMAIN l = 1..n /\ DOMAIN Append(l, e) = 1..(n + 1)
         /\ Append(l, e) \in Seq(BasisLines) /\ Len(Append(l, e)) = n + 1 /\ Append(l, e)[n + 1] = e
         /\ \A k \in 1..n : Append(l, e)[k] = l[k] /\ l[k] \in BasisLines
  OBVIOUS

LEMMA ActsAppend ==
  ASSUME NEW l \in Seq(BasisLines), NEW e \in BasisLines, NEW a
  PROVE  /\ LinesOf(Append(l, e), a) = IF e.action = a THEN LinesOf(l, a) \cup {Len(l) + 1} ELSE LinesOf(l, a)
         /\ IsFiniteSet(LinesOf(l, a)) /\ Len(l) + 1 \notin LinesOf(l, a) /\ LinesOf(l, a) \subseteq 1..Len(l)
<1>. DEFINE n == Len(l)
            m == Append(l, e)
<1>1. /\ n \in Nat /\ DOMAIN l = 1..n /\ DOMAIN m = 1..(n + 1) /\ m[n + 1] = e
      /\ \A k \in 1..n : m[k] = l[k]
  BY LinesAppend
<1>. HIDE DEF m, n
<1>2. \A k : k \in 1..(n + 1) <=> k \in 1..n \/ k = n + 1
  BY <1>1
<1>3. ASSUME NEW k
      PROVE  k \in LinesOf(m, a) <=> k \in (IF e.action = a THEN LinesOf(l, a) \cup {n + 1} ELSE LinesOf(l, a))
  BY <1>1, <1>2 DEF LinesOf
<1>4. LinesOf(l, a) \subseteq 1..n /\ n + 1 \notin 1..n
  BY <1>1 DEF LinesOf
<1>5. IsFiniteSet(1..n)
  BY <1>1, FS_Interval
<1>6. IsFiniteSet(LinesOf(l, a))
  BY <1>4, <1>5, FS_Subset
<1>. QED  BY <1>3, <1>4, <1>6 DEF n, m

(* What an entry is worth after one more line.                               *)
WorthAfter(l, e, i) ==
  Worth(Append(l, e), i)
    = IF EndOf(l, i) = Len(l) /\ e.action = "HOLD"
      THEN Worth(l, i) + (l[Len(l)].premium - e.premium) ELSE Worth(l, i)

LEMMA WorthAppend ==
  ASSUME NEW l \in Seq(BasisLines), NEW e \in BasisLines, NEW i \in 1..Len(l)
  PROVE  WorthAfter(l, e, i) /\ Worth(l, i) \in Int /\ Worth(Append(l, e), i) \in Int
<1>. DEFINE n == Len(l)
            m == Append(l, e)
            j == EndOf(l, i)
<1>1. /\ n \in Nat /\ m[n + 1] = e
      /\ \A k \in 1..n : m[k] = l[k] /\ l[k] \in BasisLines
  BY LinesAppend
<1>2. EndsAfter(l, e, i) /\ j \in i..n
  BY EndAppend
<1>. HIDE DEF m, n, j
<1>3. EndOf(m, i) = IF j = n /\ e.action = "HOLD" THEN n + 1 ELSE j
  BY <1>2 DEF EndsAfter, m, n, j
<1>4. i \in 1..n /\ j \in 1..n
  BY <1>1, <1>2 DEF n
<1>5. m[i] = l[i] /\ m[j] = l[j] /\ l[i].premium \in Int /\ l[j].premium \in Int /\ e.premium \in Int
  BY <1>1, <1>4 DEF BasisLines
<1>6. Worth(l, i) = l[i].premium - l[j].premium
  BY DEF Worth, j
<1>7. Worth(m, i) = l[i].premium - m[EndOf(m, i)].premium
  BY <1>5 DEF Worth
<1>8. CASE j = n /\ e.action = "HOLD"
  <2>1. Worth(m, i) = l[i].premium - e.premium /\ j = n
    BY <1>1, <1>3, <1>7, <1>8
  <2>2. Worth(m, i) = Worth(l, i) + (l[n].premium - e.premium)
    BY <1>5, <1>6, <2>1
  <2>3. Worth(l, i) \in Int /\ Worth(m, i) \in Int
    BY <1>5, <1>6, <2>1
  <2>. QED  BY <1>8, <2>2, <2>3 DEF WorthAfter, m, n, j
<1>9. CASE ~(j = n /\ e.action = "HOLD")
  <2>1. Worth(m, i) = Worth(l, i)
    BY <1>3, <1>5, <1>6, <1>7, <1>9
  <2>2. Worth(l, i) \in Int
    BY <1>5, <1>6
  <2>. QED  BY <1>9, <2>1, <2>2 DEF WorthAfter, m, n, j
<1>. QED  BY <1>8, <1>9

(* Convergence so far, after one line more: a HOLD moves the one open        *)
(* episode, and nothing else moves any.                                      *)
LEMMA ConvergedInt == ASSUME NEW l \in Seq(BasisLines) PROVE Converged(l) \in Int
<1>. DEFINE A == LinesOf(l, "ENTER")
            w == [i \in A |-> Worth(l, i)]
<1>1. IsFiniteSet(A) /\ A \subseteq 1..Len(l)
  <2>1. PICK e : e = [action |-> "FLAT", f |-> 0, premium |-> 0, r |-> 0]
    OBVIOUS
  <2>2. e \in BasisLines
    BY <2>1 DEF BasisLines
  <2>. QED  BY <2>2, ActsAppend
<1>2. \A i \in A : w[i] \in Int
  <2>1. PICK e : e = [action |-> "FLAT", f |-> 0, premium |-> 0, r |-> 0]
    OBVIOUS
  <2>2. e \in BasisLines
    BY <2>1 DEF BasisLines
  <2>. QED  BY <1>1, <2>2, WorthAppend
<1>. HIDE DEF w, A
<1>3. SumFunctionOnSet(w, A) \in Int
  BY <1>1, <1>2, SumInt
<1>. QED  BY <1>3 DEF Converged, w, A

LEMMA ConvergedIdle ==
  ASSUME NEW l \in Seq(BasisLines), NEW e \in BasisLines, e.action \in {"EXIT", "FLAT"}
  PROVE  Converged(Append(l, e)) = Converged(l)
<1>. DEFINE m == Append(l, e)
            A == LinesOf(l, "ENTER")
            w == [i \in A |-> Worth(l, i)]
            v == [i \in A |-> Worth(m, i)]
<1>1. IsFiniteSet(A) /\ A \subseteq 1..Len(l) /\ LinesOf(m, "ENTER") = A
  BY ActsAppend
<1>2. \A i \in A : w[i] \in Int /\ v[i] = w[i]
  BY <1>1, WorthAppend DEF WorthAfter
<1>3. Converged(m) = SumFunctionOnSet(v, A) /\ Converged(l) = SumFunctionOnSet(w, A)
  BY <1>1 DEF Converged
<1>. HIDE DEF w, v, A, m
<1>4. SumFunctionOnSet(w, A) = SumFunctionOnSet(v, A)
  BY <1>1, <1>2, SumSame
<1>. QED  BY <1>3, <1>4 DEF m

LEMMA ConvergedEntered ==
  ASSUME NEW l \in Seq(BasisLines), NEW e \in BasisLines, e.action = "ENTER"
  PROVE  Converged(Append(l, e)) = Converged(l)
<1>. DEFINE m == Append(l, e)
            n == Len(l)
            A == LinesOf(l, "ENTER")
            w == [i \in A |-> Worth(l, i)]
            v == [i \in A \cup {n + 1} |-> Worth(m, i)]
<1>1. IsFiniteSet(A) /\ A \subseteq 1..n /\ LinesOf(m, "ENTER") = A \cup {n + 1} /\ n + 1 \notin A
  BY ActsAppend
<1>2. \A i \in A : w[i] \in Int /\ v[i] = w[i]
  BY <1>1, WorthAppend DEF WorthAfter
<1>3. v[n + 1] = 0
  <2>1. n \in Nat /\ Len(m) = n + 1 /\ m[n + 1] = e /\ e.premium \in Int
    BY LinesAppend DEF BasisLines
  <2>. HIDE DEF m, n
  <2>2. EndOf(m, n + 1) = n + 1
    BY <2>1, EndOfLast
  <2>3. Worth(m, n + 1) = 0
    BY <2>1, <2>2 DEF Worth
  <2>. QED  BY <2>3
<1>4. Converged(m) = SumFunctionOnSet(v, A \cup {n + 1}) /\ Converged(l) = SumFunctionOnSet(w, A)
  BY <1>1 DEF Converged
<1>. HIDE DEF w, v, A, m, n
<1>5. SumFunctionOnSet(w, A) = SumFunctionOnSet(v, A)
  BY <1>1, <1>2, SumSame
<1>6. SumFunctionOnSet(v, A \cup {n + 1}) = SumFunctionOnSet(v, A) + v[n + 1]
  <2>. DEFINE o == n + 1
  <2>1. (\A i \in A : v[i] \in Int) /\ o \notin A /\ v[o] \in Int
    BY <1>1, <1>2, <1>3
  <2>. HIDE DEF o
  <2>2. SumFunctionOnSet(v, A \cup {o}) = SumFunctionOnSet(v, A) + v[o]
    BY <1>1, <2>1, SumAdd
  <2>. QED  BY <2>2 DEF o
<1>7. Converged(l) \in Int
  BY ConvergedInt
<1>. QED  BY <1>3, <1>4, <1>5, <1>6, <1>7 DEF m

(* No two episodes are open at once.                                         *)
LEMMA OneEpisodeOpen ==
  ASSUME NEW l \in Seq(BasisLines), NEW i \in LinesOf(l, "ENTER"), NEW o \in LinesOf(l, "ENTER"),
         EndOf(l, i) = Len(l), EndOf(l, o) = Len(l)
  PROVE  i = o
<1>1. Len(l) \in Nat /\ i \in 1..Len(l) /\ o \in 1..Len(l) /\ l[i].action = "ENTER" /\ l[o].action = "ENTER"
  BY DEF LinesOf
<1>2. \A k \in (i + 1)..Len(l) : l[k].action = "HOLD"
  BY <1>1, EndExists DEF IsEnd
<1>3. \A k \in (o + 1)..Len(l) : l[k].action = "HOLD"
  BY <1>1, EndExists DEF IsEnd
<1>4. o \notin (i + 1)..Len(l) /\ i \notin (o + 1)..Len(l)
  BY <1>1, <1>2, <1>3
<1>. QED  BY <1>1, <1>4

LEMMA ConvergedHeld ==
  ASSUME NEW l \in Seq(BasisLines), NEW e \in BasisLines, e.action = "HOLD",
         NEW o \in LinesOf(l, "ENTER"), EndOf(l, o) = Len(l)
  PROVE  /\ Converged(Append(l, e)) = Converged(l) + (l[Len(l)].premium - e.premium)
         /\ EndOf(Append(l, e), o) = Len(Append(l, e))
<1>. DEFINE m == Append(l, e)
            n == Len(l)
            A == LinesOf(l, "ENTER")
            C == A \ {o}
            w == [i \in A |-> Worth(l, i)]
            v == [i \in A |-> Worth(m, i)]
            d == l[n].premium - e.premium
<1>1. IsFiniteSet(A) /\ A \subseteq 1..n /\ LinesOf(m, "ENTER") = A /\ o \in A /\ o \in 1..n
  BY ActsAppend
<1>2. ASSUME NEW i \in C PROVE v[i] = w[i] /\ w[i] \in Int /\ v[i] \in Int
  <2>1. i \in A /\ i # o /\ EndOf(l, i) # Len(l)
    BY OneEpisodeOpen
  <2>. QED  BY <1>1, <2>1, WorthAppend DEF WorthAfter
<1>3. v[o] = w[o] + d /\ w[o] \in Int /\ v[o] \in Int
  BY <1>1, WorthAppend DEF WorthAfter
<1>4. Converged(m) = SumFunctionOnSet(v, A) /\ Converged(l) = SumFunctionOnSet(w, A)
  BY <1>1 DEF Converged
<1>5. d \in Int
  <2>1. n \in 1..n /\ l[n] \in BasisLines
    BY <1>1, LinesAppend
  <2>. QED  BY <2>1 DEF BasisLines
<1>6. EndOf(m, o) = Len(m)
  <2>1. EndsAfter(l, e, o) /\ Len(m) = n + 1
    BY <1>1, EndAppend, LinesAppend
  <2>. QED  BY <2>1 DEF EndsAfter
<1>7. A = C \cup {o} /\ o \notin C /\ C \subseteq A
  BY <1>1
<1>8. IsFiniteSet(C)
  BY <1>1, <1>7, FS_Subset
<1>. HIDE DEF w, v, A, C, m, n, d
<1>9. SumFunctionOnSet(w, C) = SumFunctionOnSet(v, C)
  BY <1>2, <1>8, SumSame
<1>10. SumFunctionOnSet(v, C \cup {o}) = SumFunctionOnSet(v, C) + v[o]
  BY <1>2, <1>3, <1>7, <1>8, SumAdd
<1>11. SumFunctionOnSet(w, C \cup {o}) = SumFunctionOnSet(w, C) + w[o]
  BY <1>2, <1>3, <1>7, <1>8, SumAdd
<1>12. SumFunctionOnSet(w, C) \in Int
  BY <1>2, <1>8, SumInt
<1>13. Converged(m) = Converged(l) + d
  BY <1>3, <1>4, <1>5, <1>7, <1>9, <1>10, <1>11, <1>12
<1>. QED  BY <1>6, <1>13 DEF m, n, d

(* The book at its last line: what it counted is what its ledger shows.      *)
Going(l) == Len(l) > 0 /\ l[Len(l)].action \in {"ENTER", "HOLD"}
Succeeds(l, i) ==
  l[i].action \in {"HOLD", "EXIT"} <=> (i > 1 /\ l[i - 1].action \in {"ENTER", "HOLD"})
OpenEpisode(l) == \E o \in LinesOf(l, "ENTER") : EndOf(l, o) = Len(l)
OneIf(in) == IF in THEN 1 ELSE 0
Fees(l) == BasisFee * (Cardinality(LinesOf(l, "ENTER")) + Cardinality(LinesOf(l, "EXIT")))
BasisOK(l, b) ==
  /\ l \in Seq(BasisLines) /\ b \in BasisBooks /\ b = Reading("stored", BasisNew, l)
  /\ b.in <=> Going(l)
  /\ b.in => b.prev = l[Len(l)].premium /\ OpenEpisode(l)
  /\ \A i \in 1..Len(l) : Succeeds(l, i)
  /\ b.conv = Converged(l) /\ b.costs = Fees(l)
  /\ b.net = b.funding + b.conv - b.costs
  /\ b.entries - b.exits = OneIf(b.in)

LEMMA NoLinesOK == BasisOK(<<>>, BasisNew)
<1>. DEFINE l == <<>>
<1>1. l \in Seq(BasisLines) /\ Len(l) = 0 /\ DOMAIN l = {} /\ 1..Len(l) = {}
  OBVIOUS
<1>2. BasisNew \in BasisBooks /\ Reading("stored", BasisNew, l) = BasisNew
  BY StoredCombines, ReadingNone
<1>3. \A a : LinesOf(l, a) = {}
  BY <1>1 DEF LinesOf
<1>4. Converged(l) = 0
  BY <1>3, SumEmpty DEF Converged
<1>5. Fees(l) = 0
  BY <1>3, FS_EmptySet, BasisAssumption DEF Fees
<1>6. ~Going(l)
  BY <1>1 DEF Going
<1>. HIDE DEF l
<1>7. BasisOK(l, BasisNew)
  BY <1>1, <1>2, <1>4, <1>5, <1>6 DEF BasisOK, BasisNew, OneIf
<1>. QED  BY <1>7 DEF l

LEMMA FeesAppend ==
  ASSUME NEW l \in Seq(BasisLines), NEW e \in BasisLines
  PROVE  /\ Fees(Append(l, e)) = IF e.action \in {"ENTER", "EXIT"} THEN Fees(l) + BasisFee ELSE Fees(l)
         /\ Fees(l) \in Int
<1>. DEFINE m == Append(l, e)
            a == Cardinality(LinesOf(l, "ENTER"))
            z == Cardinality(LinesOf(l, "EXIT"))
<1>1. a \in Nat /\ z \in Nat
  BY ActsAppend, FS_CardinalityType
<1>2. Cardinality(LinesOf(m, "ENTER")) = IF e.action = "ENTER" THEN a + 1 ELSE a
  BY ActsAppend, FS_AddElement
<1>3. Cardinality(LinesOf(m, "EXIT")) = IF e.action = "EXIT" THEN z + 1 ELSE z
  BY ActsAppend, FS_AddElement
<1>4. Fees(l) = BasisFee * (a + z)
  BY DEF Fees
<1>5. Fees(m) = BasisFee * (Cardinality(LinesOf(m, "ENTER")) + Cardinality(LinesOf(m, "EXIT")))
  BY DEF Fees
<1>. HIDE DEF a, z, m
<1>6. \A f, x, y \in Int : f * (x + y) \in Int /\ f * ((x + 1) + y) = f * (x + y) + f
                           /\ f * (x + (y + 1)) = f * (x + y) + f
  BY Z3
<1>7. BasisFee \in Int /\ a \in Int /\ z \in Int
  BY <1>1, BasisAssumption
<1>8. /\ BasisFee * (a + z) \in Int /\ BasisFee * ((a + 1) + z) = BasisFee * (a + z) + BasisFee
      /\ BasisFee * (a + (z + 1)) = BasisFee * (a + z) + BasisFee
  BY <1>6, <1>7
<1>9. CASE e.action = "ENTER"
  BY <1>2, <1>3, <1>4, <1>5, <1>8, <1>9 DEF m
<1>10. CASE e.action = "EXIT"
  BY <1>2, <1>3, <1>4, <1>5, <1>8, <1>10 DEF m
<1>11. CASE e.action \notin {"ENTER", "EXIT"}
  BY <1>2, <1>3, <1>4, <1>5, <1>8, <1>11 DEF m
<1>. QED  BY <1>9, <1>10, <1>11

(* One interval more: what is held earns, what is entered or left costs.     *)
Earns(b, e) ==
  IF e.action = "HOLD" THEN e.f + (b.prev - e.premium)
  ELSE IF e.action = "FLAT" THEN 0 ELSE 0 - BasisFee
LEMMA LineOK ==
  ASSUME NEW l, NEW b, BasisOK(l, b), NEW e \in BasisLines,
         e.action \in {"HOLD", "EXIT"} <=> b.in, e.r = Earns(b, e)
  PROVE  BasisOK(Append(l, e), StoredOf(b, e))
<1>. DEFINE m == Append(l, e)
            c == StoredOf(b, e)
            n == Len(l)
<1>1. /\ l \in Seq(BasisLines) /\ b \in BasisBooks /\ b = Reading("stored", BasisNew, l)
      /\ (b.in <=> Going(l)) /\ (b.in => b.prev = l[n].premium /\ OpenEpisode(l))
      /\ \A i \in 1..n : Succeeds(l, i)
      /\ b.conv = Converged(l) /\ b.costs = Fees(l)
      /\ b.net = b.funding + b.conv - b.costs
      /\ b.entries - b.exits = OneIf(b.in)
  BY DEF BasisOK
<1>2. /\ n \in Nat /\ m \in Seq(BasisLines) /\ Len(m) = n + 1 /\ m[n + 1] = e
      /\ \A k \in 1..n : m[k] = l[k]
      /\ DOMAIN m = 1..(n + 1) /\ DOMAIN l = 1..n
  BY <1>1, LinesAppend
<1>3. c \in BasisBooks
  BY <1>1, StoredTyped
<1>4. c = Reading("stored", BasisNew, m)
  <2>1. ReadsOn("stored", BasisNew, l, e)
    BY <1>1, StoredCombines, ReadingAppend
  <2>2. Combine("stored", b, e) = c
    BY <1>1, StoredIs DEF Combine
  <2>. QED  BY <1>1, <2>1, <2>2 DEF ReadsOn
<1>5. /\ c.in <=> e.action \in {"ENTER", "HOLD"}
      /\ c.prev = (IF e.action \in {"ENTER", "HOLD"} THEN e.premium ELSE b.prev)
      /\ c.entries = (IF e.action = "ENTER" THEN b.entries + 1 ELSE b.entries)
      /\ c.exits = (IF e.action = "EXIT" THEN b.exits + 1 ELSE b.exits)
      /\ c.funding = (IF e.action = "HOLD" THEN b.funding + e.f ELSE b.funding)
      /\ c.conv = (IF e.action = "HOLD" THEN b.conv + (e.r - e.f) ELSE b.conv)
      /\ c.costs = (IF e.action \in {"ENTER", "EXIT"} THEN b.costs + BasisFee ELSE b.costs)
      /\ c.net = b.net + e.r
  BY DEF StoredOf
<1>6. /\ b.prev \in Int /\ b.entries \in Int /\ b.exits \in Int /\ b.funding \in Int /\ b.conv \in Int
      /\ b.costs \in Int /\ b.net \in Int /\ b.in \in BOOLEAN
  BY <1>1 DEF BasisBooks
<1>7. /\ e.premium \in Int /\ e.f \in Int /\ e.r \in Int /\ BasisFee \in Int
      /\ e.action \in {"ENTER", "HOLD", "EXIT", "FLAT"}
  BY BasisAssumption DEF BasisLines
<1>8. c.costs = Fees(m)
  BY <1>1, <1>5, FeesAppend
<1>. HIDE DEF c, m, n
<1>9. c.in <=> Going(m)
  BY <1>2, <1>5 DEF Going
<1>10. \A i \in 1..(n + 1) : Succeeds(m, i)
  <2>1. ASSUME NEW i \in 1..n PROVE Succeeds(m, i)
    <3>1. i \in 1..n /\ Succeeds(l, i) /\ (i > 1 => i - 1 \in 1..n)
      BY <1>1, <1>2
    <3>. QED  BY <1>2, <3>1 DEF Succeeds
  <2>2. Succeeds(m, n + 1)
    <3>1. n + 1 - 1 = n /\ (n + 1 > 1 <=> n > 0) /\ (n > 0 => n \in 1..n)
      BY <1>2
    <3>2. Going(l) <=> n > 0 /\ l[n].action \in {"ENTER", "HOLD"}
      BY DEF Going, n
    <3>. QED  BY <1>1, <1>2, <3>1, <3>2 DEF Succeeds
  <2>. QED  BY <1>2, <2>1, <2>2
<1>11. c.conv = Converged(m) /\ (c.in => OpenEpisode(m))
  <2>1. CASE e.action \in {"EXIT", "FLAT"}
    <3>1. Converged(m) = Converged(l)
      BY <1>1, <2>1, ConvergedIdle DEF m
    <3>. QED  BY <1>1, <1>5, <2>1, <3>1
  <2>2. CASE e.action = "ENTER"
    <3>1. Converged(m) = Converged(l)
      BY <1>1, <2>2, ConvergedEntered DEF m
    <3>2. n + 1 \in LinesOf(m, "ENTER")
      BY <1>2, <2>2 DEF LinesOf
    <3>3. EndOf(m, n + 1) = Len(m)
      BY <1>2, EndOfLast
    <3>. QED  BY <1>1, <1>5, <2>2, <3>1, <3>2, <3>3 DEF OpenEpisode
  <2>3. CASE e.action = "HOLD"
    <3>1. PICK o \in LinesOf(l, "ENTER") : EndOf(l, o) = n
      BY <1>1, <2>3 DEF OpenEpisode, n
    <3>2. Converged(m) = Converged(l) + (l[n].premium - e.premium) /\ EndOf(m, o) = Len(m)
      BY <1>1, <2>3, <3>1, ConvergedHeld DEF m, n
    <3>3. o \in LinesOf(m, "ENTER")
      <4>1. o \in 1..n /\ l[o].action = "ENTER"
        BY <1>2, <3>1 DEF LinesOf
      <4>2. o \in 1..(n + 1)
        BY <1>2, <4>1
      <4>. QED  BY <1>2, <4>1, <4>2 DEF LinesOf
    <3>4. b.prev = l[n].premium /\ e.r = e.f + (b.prev - e.premium)
      BY <1>1, <2>3 DEF Earns
    <3>5. e.r - e.f = b.prev - e.premium
      BY <1>6, <1>7, <3>4
    <3>. QED  BY <1>1, <1>5, <2>3, <3>2, <3>3, <3>4, <3>5 DEF OpenEpisode
  <2>. QED  BY <1>7, <2>1, <2>2, <2>3
<1>12. c.in => c.prev = m[Len(m)].premium
  BY <1>2, <1>5
<1>13. c.net = c.funding + c.conv - c.costs
  <2>0. b.net = b.funding + b.conv - b.costs
    BY <1>1
  <2>1. CASE e.action = "HOLD"
    <3>1. /\ c.net = b.net + e.r /\ c.funding = b.funding + e.f
          /\ c.conv = b.conv + (e.r - e.f) /\ c.costs = b.costs
      BY <1>5, <2>1
    <3>. QED  BY <2>0, <1>6, <1>7, <3>1
  <2>2. CASE e.action = "FLAT"
    <3>1. e.r = 0
      BY <2>2 DEF Earns
    <3>2. c.net = b.net /\ c.funding = b.funding /\ c.conv = b.conv /\ c.costs = b.costs
      BY <1>5, <1>6, <2>2, <3>1
    <3>. QED  BY <2>0, <1>6, <3>2
  <2>3. CASE e.action \in {"ENTER", "EXIT"}
    <3>1. e.r = 0 - BasisFee
      BY <2>3 DEF Earns
    <3>2. /\ c.net = b.net - BasisFee /\ c.funding = b.funding /\ c.conv = b.conv
          /\ c.costs = b.costs + BasisFee
      BY <1>5, <1>6, <1>7, <2>3, <3>1
    <3>. QED  BY <2>0, <1>6, <1>7, <3>2
  <2>. QED  BY <1>7, <2>1, <2>2, <2>3
<1>14. c.entries - c.exits = OneIf(c.in)
  <2>1. b.entries - b.exits = IF e.action \in {"HOLD", "EXIT"} THEN 1 ELSE 0
    BY <1>1 DEF OneIf
  <2>2. OneIf(c.in) = IF e.action \in {"ENTER", "HOLD"} THEN 1 ELSE 0
    BY <1>5 DEF OneIf
  <2>3. /\ c.entries = (IF e.action = "ENTER" THEN b.entries + 1 ELSE b.entries)
        /\ c.exits = (IF e.action = "EXIT" THEN b.exits + 1 ELSE b.exits)
    BY <1>5
  <2>. QED  BY <1>6, <1>7, <2>1, <2>2, <2>3
<1>15. BasisOK(m, c)
  BY <1>2, <1>3, <1>4, <1>8, <1>9, <1>10, <1>11, <1>12, <1>13, <1>14 DEF BasisOK
<1>. QED  BY <1>15 DEF m, c

LEMMA ReplayRead == ASSUME NEW l PROVE FoldLeft(ApplyStored, BasisNew, l) = Reading("stored", BasisNew, l)
BY DEF Reading, FoldLeft, MapThenFoldSet, Combine

(* The book of the lines of the ledger, whichever of them read: what the     *)
(* next call rebuilds, and what it would rebuild without an unended line.    *)
Rebuilt(l) == BasisOK(l, Reading("stored", BasisNew, l))
BasisInv ==
  /\ LedgerOK(bfile, BasisLines) /\ CountOK(bfile, btold, brun)
  /\ Rebuilt(bfile.lines) /\ Rebuilt(basis)
  /\ bkept => bbook = BasisReplay

LEMMA InitBasisInv == BasisInit => BasisInv
<1>. SUFFICES ASSUME BasisInit PROVE BasisInv
  OBVIOUS
<1>1. /\ LedgerOK(bfile, BasisLines) /\ CountOK(bfile, btold, brun)
      /\ basis = <<>> /\ bfile.lines = <<>>
  <2>1. bfile = NewLedger /\ btold = 0 /\ brun = 0
    BY DEF BasisInit
  <2>. QED  BY <2>1, NewLedgerOK DEF basis, NewLedger
<1>2. Reading("stored", BasisNew, <<>>) = BasisNew
  BY StoredCombines, ReadingNone
<1>3. bbook = BasisReplay
  BY <1>1, <1>2, ReplayRead DEF BasisInit, BasisReplay
<1>4. Rebuilt(<<>>)
  BY <1>2, NoLinesOK DEF Rebuilt
<1>. QED  BY <1>1, <1>3, <1>4 DEF BasisInv

(* What a call decides over the book it rebuilt, and the line it appends.    *)
CallLine(book, e, reported) ==
  /\ e \in BasisLines /\ e.r = Earns(book, e) /\ (e.action \in {"HOLD", "EXIT"} <=> book.in)
  /\ reported = StoredOf(book, e)
CallLands(e, reported, left, returned) ==
  /\ bfile' = Appended(bfile, e, left) /\ (returned => left = "line")
  /\ \/ returned /\ bbook' = reported /\ bkept' = (bfile.tail = "none") /\ btold' = btold + 1 /\ brun' = brun
     \/ ~returned /\ bkept' = FALSE /\ brun' = brun + 1 /\ bbook' = bbook /\ btold' = btold

LEMMA CallDecides ==
  ASSUME BasisInv, NEW f \in Fundings, NEW p \in Premiums, NEW allow \in BOOLEAN,
         NEW left \in Leavings, NEW returned \in BOOLEAN, BasisCall(f, p, allow, left, returned)
  PROVE  \E e, reported : CallLine(BasisReplay, e, reported) /\ CallLands(e, reported, left, returned)
<1>. DEFINE book == BasisReplay
            raw == BasisDecide(book.in, p)
            act == IF raw = "ENTER" /\ ~allow THEN "FLAT" ELSE raw
            conv == IF act = "HOLD" THEN book.prev - p ELSE 0
            r == CASE act \in {"ENTER", "EXIT"} -> 0 - BasisFee
                   [] act = "HOLD" -> f + conv
                   [] act = "FLAT" -> 0
            n == RecordBasis(book, act, f, conv, r)
            reported == [n EXCEPT !.in = act \in {"ENTER", "HOLD"},
                              !.prev = IF act \in {"ENTER", "HOLD"} THEN p ELSE @]
            e == [action |-> act, f |-> f, premium |-> p, r |-> r]
<1>1. book \in BasisBooks /\ f \in Int /\ p \in Int /\ BasisFee \in Int
  <2>1. book = Reading("stored", BasisNew, basis)
    BY ReplayRead DEF BasisReplay
  <2>2. Reading("stored", BasisNew, basis) \in BasisBooks
    BY DEF BasisInv, Rebuilt, BasisOK
  <2>3. f \in Int /\ p \in Int /\ BasisFee \in Int
    BY BasisAssumption
  <2>. HIDE DEF book
  <2>. QED  BY <2>1, <2>2, <2>3
<1>2. CallLands(e, reported, left, returned)
  BY DEF BasisCall, CallLands
<1>. HIDE DEF book
<1>3. /\ act \in {"ENTER", "HOLD", "EXIT", "FLAT"}
      /\ act \in {"HOLD", "EXIT"} <=> book.in
  BY DEF BasisDecide
<1>. HIDE DEF act
<1>4. book.prev \in Int /\ conv \in Int /\ r \in Int /\ (act = "HOLD" => r - f = conv)
  <2>1. book.prev \in Int
    BY <1>1 DEF BasisBooks
  <2>2. conv \in Int
    BY <1>1, <2>1
  <2>. HIDE DEF conv
  <2>3. CASE act \in {"ENTER", "EXIT"}
    BY <1>1, <2>1, <2>2, <2>3
  <2>4. CASE act = "HOLD"
    BY <1>1, <2>1, <2>2, <2>4
  <2>5. CASE act = "FLAT"
    BY <1>1, <2>1, <2>2, <2>5
  <2>. QED  BY <1>3, <2>3, <2>4, <2>5
<1>5. e \in BasisLines
  <2>. HIDE DEF r
  <2>. QED  BY <1>1, <1>3, <1>4 DEF BasisLines
<1>6. reported = StoredOf(book, e)
  <2>. HIDE DEF r, conv
  <2>1. n = [in |-> book.in, prev |-> book.prev,
             entries |-> IF act = "ENTER" THEN book.entries + 1 ELSE book.entries,
             exits |-> IF act = "EXIT" THEN book.exits + 1 ELSE book.exits,
             holds |-> IF act = "HOLD" THEN book.holds + 1 ELSE book.holds,
             funding |-> IF act = "HOLD" THEN book.funding + f ELSE book.funding,
             conv |-> IF act = "HOLD" THEN book.conv + conv ELSE book.conv,
             costs |-> IF act \in {"ENTER", "EXIT"} THEN book.costs + BasisFee ELSE book.costs,
             net |-> book.net + r]
    BY <1>1, <1>3, RecordIs
  <2>2. /\ e.action = act /\ e.f = f /\ e.premium = p /\ e.r = r
    OBVIOUS
  <2>3. reported = [n EXCEPT !.in = act \in {"ENTER", "HOLD"},
                         !.prev = IF act \in {"ENTER", "HOLD"} THEN p ELSE @]
    OBVIOUS
  <2>. HIDE DEF n, e, reported
  <2>. QED  BY <1>4, <2>1, <2>2, <2>3 DEF StoredOf
<1>7. e.r = Earns(book, e) /\ (e.action \in {"HOLD", "EXIT"} <=> book.in)
  <2>1. /\ e.action = act /\ e.f = f /\ e.premium = p /\ e.r = r
    OBVIOUS
  <2>2. CASE act = "HOLD"
    BY <1>3, <2>1, <2>2 DEF Earns
  <2>3. CASE act = "FLAT"
    BY <1>3, <2>1, <2>3 DEF Earns
  <2>4. CASE act \in {"ENTER", "EXIT"}
    BY <1>3, <2>1, <2>4 DEF Earns
  <2>. QED  BY <1>3, <2>2, <2>3, <2>4
<1>. HIDE DEF e, reported
<1>8. CallLine(book, e, reported)
  BY <1>5, <1>6, <1>7 DEF CallLine
<1>. QED  BY <1>2, <1>8 DEF book

LEMMA CallKeeps ==
  ASSUME BasisInv, NEW e, NEW reported, CallLine(BasisReplay, e, reported),
         NEW left \in Leavings, NEW returned \in BOOLEAN, CallLands(e, reported, left, returned)
  PROVE  BasisInv'
<1>. DEFINE l == bfile.lines
            m == Append(basis, e)
            g == Appended(bfile, e, left)
            book == Reading("stored", BasisNew, basis)
<1>1. /\ LedgerOK(bfile, BasisLines) /\ CountOK(bfile, btold, brun) /\ Rebuilt(l) /\ Rebuilt(basis)
      /\ btold \in Nat /\ brun \in Nat /\ basis = ReadLedger(bfile)
  <2>1. LedgerOK(bfile, BasisLines) /\ CountOK(bfile, btold, brun) /\ Rebuilt(l) /\ Rebuilt(basis)
    BY DEF BasisInv
  <2>2. btold \in Nat /\ brun \in Nat
    BY <2>1 DEF CountOK
  <2>. QED  BY <2>1, <2>2 DEF basis
<1>2. BasisReplay = book /\ BasisReplay' = Reading("stored", BasisNew, basis')
  BY ReplayRead DEF BasisReplay
<1>3. bfile' = g /\ basis' = ReadLedger(g) /\ e \in BasisLines
  BY DEF CallLands, CallLine, basis
<1>4. BasisOK(m, StoredOf(book, e)) /\ StoredOf(book, e) = Reading("stored", BasisNew, m)
  <2>1. BasisOK(basis, book) /\ CallLine(book, e, reported)
    BY <1>1, <1>2 DEF Rebuilt
  <2>. HIDE DEF book, m
  <2>2. BasisOK(Append(basis, e), StoredOf(book, e))
    BY <2>1, LineOK DEF CallLine
  <2>. QED  BY <2>2 DEF m, BasisOK
<1>5. Rebuilt(m)
  BY <1>4 DEF Rebuilt
<1>. HIDE DEF m, book, g
<1>6. LandsIn(bfile, e, left, g, BasisLines)
  BY <1>1, <1>3, AppendedOK DEF g
<1>7. Rebuilt(g.lines) /\ Rebuilt(ReadLedger(g))
  <2>1. CASE KeptLines(bfile, g)
    BY <1>1, <2>1 DEF KeptLines
  <2>2. CASE Added(bfile, e, g)
    <3>1. /\ ReadLedger(g) = m /\ (g.lines = l \/ g.lines = m)
      BY <1>1, <2>2 DEF Added, m
    <3>. QED  BY <1>1, <1>5, <3>1
  <2>. QED  BY <1>6, <2>1, <2>2 DEF LandsIn
<1>8. CountOK(g, btold', brun')
  <2>1. Counted(btold, brun, btold', brun') /\ (btold' # btold => left = "line")
    BY <1>1 DEF CallLands, Counted
  <2>. QED  BY <1>1, <1>3, <2>1, AppendedCounts DEF g
<1>9. bkept' => bbook' = BasisReplay'
  <2>1. SUFFICES ASSUME bkept' PROVE bbook' = BasisReplay'
    OBVIOUS
  <2>2. left = "line" /\ bfile.tail = "none" /\ bbook' = reported
    BY <2>1 DEF CallLands
  <2>3. basis' = m
    BY <1>1, <1>3, <1>6, <2>2 DEF m, LandsIn
  <2>4. reported = StoredOf(book, e)
    BY <1>2 DEF CallLine
  <2>. QED  BY <1>2, <1>4, <2>2, <2>3, <2>4
<1>10. LedgerOK(bfile', BasisLines) /\ CountOK(bfile', btold', brun')
  BY <1>3, <1>6, <1>8 DEF LandsIn
<1>11. Rebuilt(bfile.lines)' /\ Rebuilt(basis')
  BY <1>3, <1>7
<1>. QED  BY <1>9, <1>10, <1>11 DEF BasisInv

LEMMA NextBasisInv == BasisInv /\ [BasisNext]_basisvars => BasisInv'
<1>1. ASSUME BasisInv, NEW f \in Fundings, NEW p \in Premiums, NEW allow \in BOOLEAN,
             NEW left \in Leavings, NEW returned \in BOOLEAN, BasisCall(f, p, allow, left, returned)
      PROVE  BasisInv'
  BY <1>1, CallDecides, CallKeeps
<1>2. ASSUME BasisInv, UNCHANGED basisvars PROVE BasisInv'
  BY <1>2 DEF basisvars, BasisInv, BasisReplay, basis
<1>. QED  BY <1>1, <1>2 DEF BasisNext

LEMMA WorthSum ==
  ASSUME NEW S, IsFiniteSet(S)
  PROVE  MapThenSumSet(LAMBDA i : Worth(basis, i), S) = SumFunctionOnSet([i \in S |-> Worth(basis, i)], S)
<1>. DEFINE w == [i \in S |-> Worth(basis, i)]
            P(it) == it = [s \in SUBSET S |->
                             IF s = {} THEN 0 ELSE Worth(basis, Taken(s)) + it[s \ {Taken(s)}]]
            c == CHOOSE it : P(it)
<1>1. MapThenSumSet(LAMBDA i : Worth(basis, i), S) = c[S]
  BY DEF MapThenSumSet, MapThenFoldSet, Taken
<1>2. ASSUME NEW it PROVE P(it) <=> IsIter(it, S, w)
  <2>1. ASSUME NEW s \in SUBSET S
        PROVE  (IF s = {} THEN 0 ELSE Worth(basis, Taken(s)) + it[s \ {Taken(s)}]) = Body(it, s, w)
    BY TakenIn DEF Body
  <2>. QED  BY <2>1 DEF IsIter
<1>3. P(IterOf(S, w))
  <2>. HIDE DEF w, P
  <2>. QED  BY <1>2, IterExists
<1>4. P(c)
  <2>. HIDE DEF P
  <2>. QED  BY <1>3
<1>5. IsIter(c, S, w)
  <2>. HIDE DEF P, c, w
  <2>. QED  BY <1>2, <1>4
<1>6. c[S] = IterOf(S, w)[S]
  <2>. HIDE DEF c, w
  <2>. QED  BY <1>5, IterExists, IterUnique
<1>. QED  BY <1>1, <1>6, SumIsIter

LEMMA BasisTelescopes == BasisInv => ConvergenceTelescopes
<1>. SUFFICES ASSUME BasisInv PROVE ConvergenceTelescopes
  OBVIOUS
<1>. DEFINE book == BasisReplay
<1>0. BasisOK(basis, book)
  <2>1. book = Reading("stored", BasisNew, basis)
    BY ReplayRead DEF BasisReplay
  <2>2. BasisOK(basis, Reading("stored", BasisNew, basis))
    BY DEF BasisInv, Rebuilt
  <2>. HIDE DEF book
  <2>. QED  BY <2>1, <2>2
<1>. HIDE DEF book
<1>1. basis \in Seq(BasisLines) /\ DOMAIN basis = 1..Len(basis)
  BY <1>0 DEF BasisOK
<1>2. \A i \in DOMAIN basis : Succeeds(basis, i)
  BY <1>0, <1>1 DEF BasisOK
<1>3. \A a : BasisActs(a) = LinesOf(basis, a)
  BY DEF BasisActs, LinesOf
<1>4. \A i : EpisodeEnd(i) = EndOf(basis, i)
  BY DEF EpisodeEnd, EndOf, HoldsFrom
<1>5. MapThenSumSet(LAMBDA i : Worth(basis, i), BasisActs("ENTER")) = Converged(basis)
  <2>1. IsFiniteSet(BasisActs("ENTER"))
    <3>1. PICK e : e = [action |-> "FLAT", f |-> 0, premium |-> 0, r |-> 0]
      OBVIOUS
    <3>2. e \in BasisLines
      BY <3>1 DEF BasisLines
    <3>. QED  BY <1>1, <1>3, <3>2, ActsAppend
  <2>2. MapThenSumSet(LAMBDA i : Worth(basis, i), BasisActs("ENTER"))
          = SumFunctionOnSet([i \in BasisActs("ENTER") |-> Worth(basis, i)], BasisActs("ENTER"))
    BY <2>1, WorthSum
  <2>. QED  BY <1>3, <2>2 DEF Converged
<1>6. MapThenSumSet(LAMBDA i : Worth(basis, i), BasisActs("ENTER"))
        = MapThenSumSet(LAMBDA i : basis[i].premium - basis[EpisodeEnd(i)].premium, BasisActs("ENTER"))
  BY DEF Worth, EpisodeEnd, EndOf, HoldsFrom
<1>7. book.costs = BasisFee * (Cardinality(BasisActs("ENTER")) + Cardinality(BasisActs("EXIT")))
  BY <1>0, <1>3 DEF BasisOK, Fees
<1>8. book.entries - book.exits = (IF book.in THEN 1 ELSE 0)
  BY <1>0 DEF BasisOK, OneIf
<1>9. (bkept => bbook = book) /\ OffByOneEach(bfile, btold, brun)
  BY CountHolds DEF BasisInv, book
<1>10. book.conv = Converged(basis) /\ book.net = book.funding + book.conv - book.costs
  BY <1>0 DEF BasisOK
<1>. QED  BY <1>2, <1>5, <1>6, <1>7, <1>8, <1>9, <1>10 DEF ConvergenceTelescopes, Succeeds, book

LEMMA BasisStep ==
  ASSUME [BooksNext]_<<part, recordvars, papervars>> PROVE [BasisNext]_basisvars
<1>1. CASE BooksNext
  <2>1. CASE PaperNext
    BY <1>1, <2>1 DEF BooksNext, PaperNext
  <2>2. CASE UNCHANGED papervars
    BY <1>1, <2>2 DEF BooksNext, papervars
  <2>. QED  BY <1>1, <2>1, <2>2 DEF BooksNext
<1>2. CASE UNCHANGED <<part, recordvars, papervars>>
  BY <1>2 DEF papervars
<1>. QED  BY <1>1, <1>2

(* What every book reports adds up, for every series of premiums, funding,   *)
(* bars and closes, every fee and threshold the assumptions allow, every     *)
(* number of restarts and whatever an append left of its line (nothing, a    *)
(* part, all but the newline, or the line): the basis carry's convergence    *)
(* (shadow_basis.py:111), the scalper's rows (run_scalp_shadow.py:54), the   *)
(* maker backtest's counters (mr_scalp_backtest.py:115) and the pairs'       *)
(* return (pairs_backtest.py:42).                                            *)
BooksAddUp ==
  /\ BasisInv /\ ScalpInv
  /\ MrOK(mrbars, mr) /\ PairOK(spread, pairpos, paid)
THEOREM ReturnsAlwaysAddUp == BooksSpec => []ReturnsAddUp
<1>1. BooksInit => BooksAddUp
  BY InitBasisInv, InitScalpInv, InitMrOK, InitPairOK DEF BooksInit, BooksAddUp
<1>2. BooksAddUp /\ [BooksNext]_<<part, recordvars, papervars>> => BooksAddUp'
  <2>. SUFFICES ASSUME BooksAddUp, [BooksNext]_<<part, recordvars, papervars>> PROVE BooksAddUp'
    OBVIOUS
  <2>1. BasisInv'
    BY BasisStep, NextBasisInv DEF BooksAddUp
  <2>2. ScalpInv'
    BY ScalperStep, NextScalpInv DEF BooksAddUp
  <2>3. MrOK(mrbars, mr)'
    BY MakerStep, NextMrOK DEF BooksAddUp
  <2>4. PairOK(spread, pairpos, paid)'
    BY PapersStep, NextPairOK DEF BooksAddUp
  <2>. QED  BY <2>1, <2>2, <2>3, <2>4 DEF BooksAddUp
<1>3. BooksAddUp => ReturnsAddUp
  BY BasisTelescopes, RowsHold, AccountsHold, PairTelescopes DEF BooksAddUp, ReturnsAddUp
<1>. QED  BY <1>1, <1>2, <1>3, PTL DEF BooksSpec

------------------------------------------------------------------------------
(* The graveyard: the oldest of the burials that match is found.             *)

LEMMA LowestIsIn ==
  ASSUME NEW n \in Nat, NEW s \in SUBSET (1..n), s # {}
  PROVE  Min(s) \in s /\ \A y \in s : Min(s) <= y
<1>. DEFINE f == [i \in s |-> 0 - i]
<1>1. IsFiniteSet(s)
  <2>1. IsFiniteSet(1..n)
    BY FS_Interval
  <2>. QED  BY <2>1, FS_Subset
<1>2. \A v \in s : f[v] \in Int
  OBVIOUS
<1>3. PICK v \in s : \A w \in s : f[w] <= f[v]
  <2>. HIDE DEF f
  <2>. QED  BY <1>1, <1>2, Highest
<1>4. \A w \in s : v <= w
  BY <1>3
<1>. QED  BY <1>4 DEF Min

Burials == [id : Ids, fingerprint : Contents, pack : Packs, cond : Conditions]
GraveInv ==
  /\ graves \in Seq(Burials)
  /\ \A i \in 1..Len(graves) : graves[i].fingerprint = graves[i].pack.content
  /\ CorpsesAreCaught

LEMMA InitGraveInv == GraveInit => GraveInv
  BY DEF GraveInit, GraveInv, NotAsked, CorpsesAreCaught

LEMMA BuryInv ==
  ASSUME GraveInv, NEW id \in Ids, NEW p \in Packs, NEW c \in Conditions, Bury(id, p, c)
  PROVE  GraveInv'
<1>. DEFINE g == [id |-> id, fingerprint |-> ContentFingerprint(p), pack |-> p, cond |-> c]
<1>1. g.fingerprint = g.pack.content /\ g \in Burials
  BY DEF Burials, ContentFingerprint, Packs, Pack
<1>2. graves' = Append(graves, g) /\ graves \in Seq(Burials) /\ asked' = NotAsked
  BY DEF Bury, GraveInv
<1>. HIDE DEF g
<1>3. /\ graves' \in Seq(Burials) /\ Len(graves') = Len(graves) + 1 /\ Len(graves) \in Nat
      /\ graves'[Len(graves) + 1] = g /\ \A i \in 1..Len(graves) : graves'[i] = graves[i]
  BY <1>1, <1>2
<1>4. ASSUME NEW i \in 1..Len(graves') PROVE graves'[i].fingerprint = graves'[i].pack.content
  <2>1. i \in 1..Len(graves) \/ i = Len(graves) + 1
    BY <1>3
  <2>. QED  BY <1>1, <1>3, <2>1 DEF GraveInv
<1>5. CorpsesAreCaught'
  BY <1>2 DEF CorpsesAreCaught, NotAsked
<1>. QED  BY <1>3, <1>4, <1>5 DEF GraveInv

LEMMA AskFingerprintInv ==
  ASSUME GraveInv, NEW p \in Packs, AskFingerprint(p) PROVE GraveInv'
<1>. DEFINE I == {i \in 1..Len(graves) : graves[i].fingerprint = p.content}
<1>1. /\ asked' = [by |-> "pack", pack |-> p, found |-> FindByFingerprint(p)]
      /\ graves' = graves /\ graves \in Seq(Burials)
      /\ \A i \in 1..Len(graves) : graves[i].fingerprint = graves[i].pack.content
  BY DEF AskFingerprint, GraveInv
<1>2. FindByFingerprint(p) = IF I # {} THEN Min(I) ELSE 0
  BY DEF FindByFingerprint, SelectInSeq, ContentFingerprint
<1>3. Len(graves) \in Nat /\ I \in SUBSET (1..Len(graves)) /\ DOMAIN graves = 1..Len(graves)
  BY <1>1
<1>4. I # {} => Min(I) \in 1..Len(graves)
  <2>. HIDE DEF I
  <2>. QED  BY <1>3, LowestIsIn
<1>5. FindByFingerprint(p) # 0 <=> I # {}
  BY <1>2, <1>3, <1>4
<1>6. I # {} <=> \E i \in DOMAIN graves : graves[i].pack.content = p.content
  BY <1>1, <1>3
<1>7. CorpsesAreCaught'
  <2>1. asked'.by = "pack" /\ asked'.pack = p /\ asked'.found = FindByFingerprint(p)
    BY <1>1
  <2>. QED  BY <1>1, <1>5, <1>6, <2>1 DEF CorpsesAreCaught
<1>. QED  BY <1>1, <1>7 DEF GraveInv

LEMMA AskRevivalInv ==
  ASSUME GraveInv, NEW id \in Ids, NEW m, AskRevival(id, m) PROVE GraveInv'
<1>. DEFINE I == {i \in 1..Len(graves) : graves[i].id = id}
            k == SelectInSeq(graves, LAMBDA e : e.id = id)
<1>1. /\ asked' = [by |-> "id", id |-> id, measured |-> m, revive |-> CheckRevival(id, m)]
      /\ graves' = graves /\ graves \in Seq(Burials)
      /\ \A i \in 1..Len(graves) : graves[i].fingerprint = graves[i].pack.content
  BY DEF AskRevival, GraveInv
<1>2. k = IF I # {} THEN Min(I) ELSE 0
  BY DEF SelectInSeq
<1>3. Len(graves) \in Nat /\ I \in SUBSET (1..Len(graves)) /\ DOMAIN graves = 1..Len(graves)
  BY <1>1
<1>4. k # 0 => k \in I
  <2>. HIDE DEF I, k
  <2>. QED  BY <1>2, <1>3, LowestIsIn
<1>5. CheckRevival(id, m) <=> k # 0 /\ Holds(graves[k].cond, m)
  BY DEF CheckRevival
<1>. HIDE DEF k
<1>6. CheckRevival(id, m) => m # Unmeasured /\ \E i \in DOMAIN graves : graves[i].id = id /\ Holds(graves[i].cond, m)
  BY <1>3, <1>4, <1>5 DEF Holds
<1>7. CorpsesAreCaught'
  <2>1. /\ asked'.by = "id" /\ asked'.id = id /\ asked'.measured = m
        /\ asked'.revive = CheckRevival(id, m)
    BY <1>1
  <2>. HIDE DEF I
  <2>. QED  BY <1>1, <1>6, <2>1 DEF CorpsesAreCaught
<1>. QED  BY <1>1, <1>7 DEF GraveInv

LEMMA NextGraveInv == GraveInv /\ [GraveNext]_gravevars => GraveInv'
<1>. SUFFICES ASSUME GraveInv, [GraveNext]_gravevars PROVE GraveInv'
  OBVIOUS
<1>1. CASE \E id \in Ids, p \in Packs, c \in Conditions : Bury(id, p, c)
  BY <1>1, BuryInv
<1>2. CASE \E p \in Packs : AskFingerprint(p)
  BY <1>2, AskFingerprintInv
<1>3. CASE \E id \in Ids, m \in Measures \cup {Unmeasured} : AskRevival(id, m)
  BY <1>3, AskRevivalInv
<1>4. CASE UNCHANGED gravevars
  BY <1>4 DEF gravevars, GraveInv, CorpsesAreCaught
<1>. QED  BY <1>1, <1>2, <1>3, <1>4 DEF GraveNext

------------------------------------------------------------------------------
(* The market store: a sync goes on from the newest row it stored, and what  *)
(* it leaves behind it is stored.                                            *)

LEMMA LatestIs == ASSUME NEW k \in Nat \ {0}, DOMAIN venue = 1..k PROVE Latest = k
<1>1. k \in 1..k /\ \A u \in 1..k : u <= k
  OBVIOUS
<1>2. \A t \in 1..k : (\A u \in 1..k : u <= t) => t = k
  BY <1>1
<1>. QED  BY <1>1, <1>2 DEF Latest

(* Rows up to to, of which the last may still have moved.                    *)
Covered(st, ve, from, to, last) ==
  \A t \in from..to : t \in DOMAIN st /\ (t < last => st[t] = ve[t])
SyncWindow(k) ==
  /\ sync.on \in BOOLEAN
  /\ sync.on =>
       /\ sync.from \in 1..k /\ sync.now \in 1..k /\ sync.cur \in sync.from..(sync.now + 1)
       /\ sync.seen = sync.from..(sync.cur - 1)
       /\ Covered(store, venue, sync.from, sync.cur - 1, sync.now)
Shape(k) ==
  /\ DOMAIN venue = 1..k /\ DOMAIN store \subseteq 1..k
  /\ synced.from \in Int /\ synced.to \in Int /\ synced.to <= k
  /\ Covered(store, venue, synced.from, synced.to, synced.to) /\ SyncWindow(k)
StoreInv == \E k \in Nat \ {0} : Shape(k)

LEMMA InitStoreInv == StoreInit => StoreInv
<1>. SUFFICES ASSUME StoreInit PROVE StoreInv
  OBVIOUS
<1>1. sync = Idle /\ synced = NoSync /\ DOMAIN venue = 1..1 /\ DOMAIN store = {}
  BY DEF StoreInit
<1>2. Covered(store, venue, synced.from, synced.to, synced.to) /\ synced.from = 1 /\ synced.to = 0
  BY <1>1 DEF NoSync, Covered
<1>3. SyncWindow(1)
  BY <1>1 DEF Idle, SyncWindow
<1>4. Shape(1)
  BY <1>1, <1>2, <1>3 DEF Shape
<1>. QED  BY <1>4 DEF StoreInv

(* The venue moves its last candle, or opens another: what is covered stays, *)
(* for only what is before the last counts as final.                         *)
LEMMA VenueInv == ASSUME StoreInv, VenueTrades \/ VenueOpens PROVE StoreInv'
<1>1. PICK k \in Nat \ {0} : Shape(k)
  BY DEF StoreInv
<1>2. Latest = k
  BY <1>1, LatestIs DEF Shape
<1>3. UNCHANGED <<store, sync, synced>>
  BY DEF VenueTrades, VenueOpens
<1>4. PICK n \in Nat \ {0} : n >= k /\ DOMAIN venue' = 1..n /\ \A t \in 1..(k - 1) : venue'[t] = venue[t]
  <2>1. CASE VenueTrades
    <3>1. DOMAIN venue' = 1..k /\ \A t \in 1..(k - 1) : venue'[t] = venue[t]
      BY <1>1, <1>2, <2>1 DEF VenueTrades, Shape
    <3>. QED  BY <3>1
  <2>2. CASE VenueOpens
    <3>1. DOMAIN venue' = (1..k) \cup {k + 1} /\ \A t \in 1..k : venue'[t] = venue[t]
      BY <1>1, <1>2, <2>2 DEF VenueOpens, Shape
    <3>2. (1..k) \cup {k + 1} = 1..(k + 1) /\ \A t \in 1..(k - 1) : t \in 1..k
      OBVIOUS
    <3>. QED  BY <3>1, <3>2
  <2>. QED  BY <2>1, <2>2
<1>5. ASSUME NEW from \in Int, NEW to \in Int, NEW last \in Int, last <= k, Covered(store, venue, from, to, last)
      PROVE  Covered(store', venue', from, to, last)
  <2>1. ASSUME NEW t \in from..to PROVE t \in DOMAIN store' /\ (t < last => store'[t] = venue'[t])
    <3>1. t \in DOMAIN store /\ t \in 1..k /\ (t < last => store[t] = venue[t])
      BY <1>1, <1>5, <2>1 DEF Covered, Shape
    <3>2. t < last => venue'[t] = venue[t]
      BY <1>4, <1>5, <2>1, <3>1
    <3>. QED  BY <1>3, <3>1, <3>2
  <2>. QED  BY <2>1 DEF Covered
<1>6. Covered(store', venue', synced.from, synced.to, synced.to)
  BY <1>1, <1>5 DEF Shape
<1>7. SyncWindow(n)'
  <2>1. ASSUME sync.on PROVE Covered(store', venue', sync.from, sync.cur - 1, sync.now)
    <3>1. /\ sync.from \in Int /\ sync.cur - 1 \in Int /\ sync.now \in Int /\ sync.now <= k
          /\ Covered(store, venue, sync.from, sync.cur - 1, sync.now)
      BY <1>1, <2>1 DEF Shape, SyncWindow
    <3>. QED  BY <1>5, <3>1
  <2>2. sync.on => sync.from \in 1..n /\ sync.now \in 1..n
    BY <1>1, <1>4 DEF Shape, SyncWindow
  <2>. QED  BY <1>1, <1>3, <2>1, <2>2 DEF Shape, SyncWindow
<1>8. Shape(n)'
  <2>1. DOMAIN store' \subseteq 1..n /\ synced' = synced /\ synced.to <= n
    BY <1>1, <1>3, <1>4 DEF Shape
  <2>. QED  BY <1>1, <1>4, <1>6, <1>7, <2>1 DEF Shape
<1>. QED  BY <1>8 DEF StoreInv

LEMMA SyncStartInv == ASSUME StoreInv, NEW d \in 1..MaxCandle, SyncStart(d) PROVE StoreInv'
<1>1. PICK k \in Nat \ {0} : Shape(k)
  BY DEF StoreInv
<1>2. Latest = k
  BY <1>1, LatestIs DEF Shape
<1>3. PICK first \in 1..k : first = IF Latest > d THEN Latest - d ELSE 1
  BY <1>2
<1>4. /\ sync' = [on |-> TRUE, from |-> first, cur |-> first, now |-> k, seen |-> {}]
      /\ UNCHANGED <<venue, store, synced>>
  BY <1>2, <1>3 DEF SyncStart
<1>5. first..(first - 1) = {} /\ first \in first..(k + 1) /\ k \in 1..k
  BY <1>3
<1>6. Covered(store', venue', first, first - 1, k)
  BY <1>5 DEF Covered
<1>7. SyncWindow(k)'
  <2>1. /\ sync'.on = TRUE /\ sync'.from = first /\ sync'.cur = first /\ sync'.now = k /\ sync'.seen = {}
    BY <1>4
  <2>. QED  BY <1>3, <1>4, <1>5, <1>6, <2>1 DEF SyncWindow, Covered
<1>8. Covered(store', venue', synced.from, synced.to, synced.to)
  BY <1>1, <1>4 DEF Shape, Covered
<1>9. Shape(k)'
  BY <1>1, <1>4, <1>7, <1>8 DEF Shape
<1>. QED  BY <1>9 DEF StoreInv

(* A page runs from cur without a gap.                                       *)
LEMMA PageIs ==
  ASSUME NEW k \in Nat \ {0}, Shape(k), sync.on, sync.cur <= sync.now
  PROVE  \E z \in sync.cur..sync.now : Page \ sync.seen = sync.cur..z
<1>1. /\ DOMAIN venue = 1..k /\ sync.from \in 1..k /\ sync.now \in 1..k
      /\ sync.cur \in sync.from..(sync.now + 1) /\ sync.seen = sync.from..(sync.cur - 1)
      /\ PageSize \in Nat \ {0}
  BY PageAssumption DEF Shape, SyncWindow
<1>. DEFINE z == IF sync.now < sync.cur + PageSize THEN sync.now ELSE sync.cur + PageSize - 1
<1>2. z \in sync.cur..sync.now
  BY <1>1
<1>3. ASSUME NEW t PROVE t \in Page \ sync.seen <=> t \in sync.cur..z
  <2>1. t \in 1..k => (t \in Page <=> t >= sync.cur /\ t <= sync.now /\ t < sync.cur + PageSize)
    BY <1>1 DEF Page
  <2>2. t \in Page => t \in 1..k
    BY <1>1 DEF Page
  <2>3. t \in sync.cur..z => t \in 1..k
    BY <1>1, <1>2
  <2>. QED  BY <1>1, <2>1, <2>2, <2>3
<1>. QED  BY <1>2, <1>3

LEMMA SyncPageInv == ASSUME StoreInv, SyncPage PROVE StoreInv'
<1>1. PICK k \in Nat \ {0} : Shape(k)
  BY DEF StoreInv
<1>. DEFINE new == Page \ sync.seen
<1>2. PICK z \in sync.cur..sync.now : new = sync.cur..z
  BY <1>1, PageIs DEF SyncPage
<1>3. /\ sync.on /\ sync.from \in 1..k /\ sync.now \in 1..k
      /\ sync.cur \in sync.from..(sync.now + 1) /\ sync.seen = sync.from..(sync.cur - 1)
      /\ Covered(store, venue, sync.from, sync.cur - 1, sync.now)
  BY <1>1 DEF SyncPage, Shape, SyncWindow
<1>4. (CHOOSE t \in new : \A u \in new : u <= t) = z
  <2>1. z \in new /\ \A u \in new : u <= z
    BY <1>2, <1>3
  <2>2. \A t \in new : (\A u \in new : u <= t) => t = z
    BY <1>2, <1>3, <2>1
  <2>. HIDE DEF new
  <2>. QED  BY <2>1, <2>2
<1>5. /\ store' = Upsert(new) /\ UNCHANGED <<venue, synced>>
      /\ sync' = [sync EXCEPT !.seen = @ \cup new, !.cur = z + 1]
  BY <1>4 DEF SyncPage
<1>. HIDE DEF new
<1>6. /\ DOMAIN store' = DOMAIN store \cup new
      /\ \A t \in new : store'[t] = venue[t]
      /\ \A t \in DOMAIN store \ new : store'[t] = store[t]
  BY <1>5 DEF Upsert
<1>7. new \subseteq 1..k
  BY <1>2, <1>3
<1>8. ASSUME NEW from, NEW to, NEW last, Covered(store, venue, from, to, last) PROVE Covered(store', venue', from, to, last)
  <2>1. ASSUME NEW t \in from..to PROVE t \in DOMAIN store' /\ (t < last => store'[t] = venue'[t])
    BY <1>5, <1>6, <1>8, <2>1 DEF Covered
  <2>. QED  BY <2>1 DEF Covered
<1>9. Covered(store', venue', sync.from, z, sync.now)
  <2>1. Covered(store', venue', sync.from, sync.cur - 1, sync.now)
    BY <1>3, <1>8
  <2>2. ASSUME NEW t \in sync.from..z
        PROVE  t \in DOMAIN store' /\ (t < sync.now => store'[t] = venue'[t])
    <3>1. t \in sync.from..(sync.cur - 1) \/ t \in new
      BY <1>2, <1>3
    <3>2. ASSUME t \in new PROVE t \in DOMAIN store' /\ store'[t] = venue'[t]
      BY <1>5, <1>6, <3>2
    <3>. QED  BY <1>5, <2>1, <3>1, <3>2 DEF Covered
  <2>. QED  BY <1>5, <2>2 DEF Covered
<1>10. SyncWindow(k)'
  <2>1. /\ sync'.on = sync.on /\ sync'.from = sync.from /\ sync'.now = sync.now
        /\ sync'.cur = z + 1 /\ sync'.seen = sync.seen \cup new
    BY <1>1, <1>5 DEF Shape, SyncWindow
  <2>2. z + 1 \in sync.from..(sync.now + 1) /\ z + 1 - 1 = z /\ sync.seen \cup new = sync.from..z
    BY <1>2, <1>3
  <2>. QED  BY <1>3, <1>9, <2>1, <2>2 DEF SyncWindow
<1>11. Covered(store', venue', synced.from, synced.to, synced.to)
  BY <1>1, <1>8 DEF Shape
<1>12. Shape(k)'
  BY <1>1, <1>5, <1>6, <1>7, <1>10, <1>11 DEF Shape
<1>. QED  BY <1>12 DEF StoreInv

LEMMA SyncEndInv == ASSUME StoreInv, SyncEnd PROVE StoreInv'
<1>1. PICK k \in Nat \ {0} : Shape(k)
  BY DEF StoreInv
<1>2. sync.on /\ sync' = Idle /\ synced' = [from |-> sync.from, to |-> sync.now] /\ UNCHANGED <<venue, store>>
  BY DEF SyncEnd
<1>3. sync.cur > sync.now
  <2>1. CASE sync.cur <= sync.now
    <3>1. PICK z \in sync.cur..sync.now : Page \ sync.seen = sync.cur..z
      BY <1>1, <1>2, <2>1, PageIs
    <3>2. z \in sync.cur..z
      BY <1>1, <1>2, <3>1 DEF Shape, SyncWindow
    <3>. QED  BY <2>1, <3>1, <3>2 DEF SyncEnd
  <2>. QED  BY <1>1, <1>2, <2>1 DEF Shape, SyncWindow
<1>4. sync.cur - 1 = sync.now /\ sync.from \in 1..k /\ sync.now \in 1..k
      /\ Covered(store, venue, sync.from, sync.now, sync.now)
  <2>1. sync.cur \in sync.from..(sync.now + 1) /\ sync.from \in 1..k /\ sync.now \in 1..k
        /\ Covered(store, venue, sync.from, sync.cur - 1, sync.now)
    BY <1>1, <1>2 DEF Shape, SyncWindow
  <2>2. sync.cur - 1 = sync.now
    BY <1>3, <2>1
  <2>. QED  BY <2>1, <2>2
<1>5. synced'.from = sync.from /\ synced'.to = sync.now /\ ~sync'.on /\ sync'.on \in BOOLEAN
  BY <1>2 DEF Idle
<1>6. Shape(k)'
  BY <1>1, <1>2, <1>4, <1>5 DEF Shape, SyncWindow
<1>. QED  BY <1>6 DEF StoreInv

LEMMA NextStoreInv == StoreInv /\ [StoreNext]_storevars => StoreInv'
<1>. SUFFICES ASSUME StoreInv, [StoreNext]_storevars PROVE StoreInv'
  OBVIOUS
<1>1. CASE VenueTrades \/ VenueOpens
  BY <1>1, VenueInv
<1>2. CASE \E d \in 1..MaxCandle : SyncStart(d)
  BY <1>2, SyncStartInv
<1>3. CASE SyncPage
  BY <1>3, SyncPageInv
<1>4. CASE SyncEnd
  BY <1>4, SyncEndInv
<1>5. CASE SyncRaises
  <2>1. PICK k \in Nat \ {0} : Shape(k)
    BY DEF StoreInv
  <2>2. sync' = Idle /\ UNCHANGED <<venue, store, synced>>
    BY <1>5 DEF SyncRaises
  <2>3. Shape(k)'
    BY <2>1, <2>2 DEF Shape, SyncWindow, Idle
  <2>. QED  BY <2>3 DEF StoreInv
<1>6. CASE UNCHANGED storevars
  <2>1. PICK k \in Nat \ {0} : Shape(k)
    BY DEF StoreInv
  <2>2. Shape(k)'
    BY <1>6, <2>1 DEF Shape, SyncWindow, storevars
  <2>. QED  BY <2>2 DEF StoreInv
<1>. QED  BY <1>1, <1>2, <1>3, <1>4, <1>5, <1>6 DEF StoreNext

LEMMA SyncedIsVenue == StoreInv => StoreIsVenue
  BY DEF StoreInv, Shape, Covered, StoreIsVenue

------------------------------------------------------------------------------
(* The ledger of picks: what its whole lines say, and what a torn one costs. *)

Names == [token : Tokens, ts : Int]
EventsOver(P) == [kind : {"ignition", "pick", "resolved"}, id : Names, at : Int, path : P,
                  line : {"whole", "torn", "spoilt"}]
StatesOver(P) == UNION {[D -> [picked : BOOLEAN, open : BOOLEAN, path : P]] : D \in SUBSET Names}

LEMMA StatesAre ==
  ASSUME NEW P, NEW st
  PROVE  st \in StatesOver(P)
           <=> /\ st = [i \in DOMAIN st |-> st[i]] /\ DOMAIN st \subseteq Names
               /\ \A i \in DOMAIN st : st[i] \in [picked : BOOLEAN, open : BOOLEAN, path : P]
  BY DEF StatesOver

(* One line more, by what it says.                                           *)
Replays(P, st, e, nx) ==
  /\ nx \in StatesOver(P)
  /\ e.line # "whole" => nx = st
  /\ e.line = "whole" /\ e.kind = "ignition" =>
       /\ DOMAIN nx = DOMAIN st \cup {e.id} /\ nx[e.id].open
       /\ \A i \in DOMAIN st \ {e.id} : nx[i] = st[i]
  /\ e.line = "whole" /\ e.kind # "ignition" =>
       /\ DOMAIN nx = DOMAIN st
       /\ \A i \in DOMAIN st : nx[i].open <=> st[i].open /\ ~(e.kind = "resolved" /\ i = e.id)
LEMMA ReplayedIs ==
  ASSUME NEW P, {} \in P, NEW st \in StatesOver(P), NEW e \in EventsOver(P)
  PROVE  Replays(P, st, e, Replayed(st, e))
<1>. DEFINE R == [picked : BOOLEAN, open : BOOLEAN, path : P]
            nx == Replayed(st, e)
<1>1. /\ st = [i \in DOMAIN st |-> st[i]] /\ DOMAIN st \subseteq Names
      /\ \A i \in DOMAIN st : st[i] \in R
  BY StatesAre
<1>2. /\ e.kind \in {"ignition", "pick", "resolved"} /\ e.id \in Names /\ e.path \in P
      /\ e.line \in {"whole", "torn", "spoilt"}
  BY DEF EventsOver
<1>3. CASE e.line # "whole"
  <2>1. nx = st
    BY <1>3 DEF Replayed
  <2>. HIDE DEF nx, Replays
  <2>2. nx \in StatesOver(P) /\ nx = st
    BY <2>1
  <2>. QED  BY <1>3, <2>2 DEF nx, Replays
<1>4. CASE e.line = "whole" /\ e.kind = "ignition"
  <2>1. nx = [i \in DOMAIN st \cup {e.id} |->
                IF i = e.id THEN [picked |-> FALSE, open |-> TRUE, path |-> {}] ELSE st[i]]
    BY <1>4 DEF Replayed
  <2>2. [picked |-> FALSE, open |-> TRUE, path |-> {}] \in R
    OBVIOUS
  <2>3. /\ DOMAIN nx = DOMAIN st \cup {e.id} /\ nx = [i \in DOMAIN nx |-> nx[i]]
        /\ nx[e.id] = [picked |-> FALSE, open |-> TRUE, path |-> {}]
        /\ \A i \in DOMAIN st \ {e.id} : nx[i] = st[i]
    BY <2>1
  <2>. HIDE DEF nx, R
  <2>4. \A i \in DOMAIN nx : nx[i] \in R
    BY <1>1, <2>2, <2>3
  <2>5. nx \in StatesOver(P)
    BY <1>1, <1>2, <2>3, <2>4, StatesAre DEF R
  <2>6. nx[e.id].open /\ e.line = "whole" /\ e.kind = "ignition"
    BY <1>4, <2>3
  <2>7. /\ nx \in StatesOver(P) /\ DOMAIN nx = DOMAIN st \cup {e.id} /\ nx[e.id].open
        /\ \A i \in DOMAIN st \ {e.id} : nx[i] = st[i]
    BY <2>3, <2>5, <2>6
  <2>. QED  BY <1>4, <2>7 DEF nx, Replays
<1>5. CASE e.line = "whole" /\ e.kind = "pick" /\ e.id \in DOMAIN st
  <2>1. nx = [st EXCEPT ![e.id].picked = TRUE]
    BY <1>5 DEF Replayed
  <2>2. /\ DOMAIN nx = DOMAIN st /\ nx = [i \in DOMAIN nx |-> nx[i]]
        /\ nx[e.id] = [st[e.id] EXCEPT !.picked = TRUE]
        /\ \A i \in DOMAIN st \ {e.id} : nx[i] = st[i]
    BY <1>1, <1>5, <2>1
  <2>3. nx[e.id] \in R /\ nx[e.id].open = st[e.id].open
    BY <1>1, <1>5, <2>2
  <2>. HIDE DEF nx, R
  <2>4. \A i \in DOMAIN nx : nx[i] \in R /\ nx[i].open = st[i].open
    BY <1>1, <2>2, <2>3
  <2>5. nx \in StatesOver(P)
    BY <1>1, <2>2, <2>4, StatesAre DEF R
  <2>6. \A i \in DOMAIN st : st[i].open \in BOOLEAN
    BY <1>1 DEF R
  <2>. QED  BY <1>5, <2>2, <2>4, <2>5, <2>6 DEF nx, Replays
<1>6. CASE e.line = "whole" /\ e.kind = "resolved" /\ e.id \in DOMAIN st
  <2>1. nx = [st EXCEPT ![e.id].open = FALSE, ![e.id].path = e.path]
    BY <1>6 DEF Replayed
  <2>2. /\ DOMAIN nx = DOMAIN st /\ nx = [i \in DOMAIN nx |-> nx[i]]
        /\ nx[e.id] = [st[e.id] EXCEPT !.open = FALSE, !.path = e.path]
        /\ \A i \in DOMAIN st \ {e.id} : nx[i] = st[i]
    BY <1>1, <1>6, <2>1
  <2>3. nx[e.id] \in R /\ nx[e.id].open = FALSE
    BY <1>1, <1>2, <1>6, <2>2
  <2>. HIDE DEF nx, R
  <2>4. \A i \in DOMAIN nx : nx[i] \in R
    BY <1>1, <2>2, <2>3
  <2>5. nx \in StatesOver(P)
    BY <1>1, <2>2, <2>4, StatesAre DEF R
  <2>6. \A i \in DOMAIN st : st[i].open \in BOOLEAN
    BY <1>1 DEF R
  <2>7. \A i \in DOMAIN st : nx[i].open <=> st[i].open /\ ~(i = e.id)
    BY <2>2, <2>3, <2>6
  <2>. QED  BY <1>6, <2>2, <2>5, <2>7 DEF nx, Replays
<1>7. CASE e.line = "whole" /\ e.kind # "ignition" /\ e.id \notin DOMAIN st
  <2>1. nx = st
    BY <1>2, <1>7 DEF Replayed
  <2>2. \A i \in DOMAIN st : st[i].open \in BOOLEAN /\ i # e.id
    BY <1>1, <1>7
  <2>. HIDE DEF nx, Replays
  <2>. QED  BY <1>7, <2>1, <2>2 DEF nx, Replays
<1>. QED  BY <1>2, <1>3, <1>4, <1>5, <1>6, <1>7

LEMMA ReplayCombines ==
  ASSUME NEW P, {} \in P
  PROVE  Combines("replay", StatesOver(P), EventsOver(P)) /\ <<>> \in StatesOver(P)
<1>1. ASSUME NEW st \in StatesOver(P), NEW e \in EventsOver(P)
      PROVE  Combine("replay", st, e) \in StatesOver(P)
  BY ReplayedIs DEF Combine, Replays
<1>2. <<>> = [i \in {} |-> <<>>[i]] /\ DOMAIN <<>> = {}
  OBVIOUS
<1>3. <<>> \in StatesOver(P)
  BY <1>2, StatesAre
<1>. QED  BY <1>1, <1>3 DEF Combines

LEMMA StateRead == ASSUME NEW file PROVE State(file) = Reading("replay", <<>>, file)
  BY DEF State, Reading, FoldLeft, MapThenFoldSet, Combine

(* What an append does: the line is told, or nothing is.                     *)
Told(l, m, e) ==
  /\ e.line = "whole" /\ Len(m) = Len(l) + 1 /\ m[Len(l) + 1] = e
  /\ \A k \in 1..Len(l) : m[k] = l[k]
  /\ State(m) = Replayed(State(l), e)
Untold(l, m) ==
  /\ State(m) = State(l)
  /\ \A k : k \in DOMAIN m /\ m[k].line = "whole" <=> k \in DOMAIN l /\ l[k].line = "whole"
  /\ \A k \in DOMAIN l : l[k].line = "whole" => m[k] = l[k]

Extended(P, l, e, m) ==
  /\ DOMAIN m = 1..(Len(l) + 1) /\ m \in Seq(EventsOver(P)) /\ Len(m) = Len(l) + 1
  /\ m[Len(l) + 1] = e /\ \A k \in 1..Len(l) : m[k] = l[k]
  /\ State(l) \in StatesOver(P) /\ State(m) = Replayed(State(l), e)
LEMMA EventAppend ==
  ASSUME NEW P, {} \in P, NEW l \in Seq(EventsOver(P)), NEW e \in EventsOver(P)
  PROVE  Extended(P, l, e, Append(l, e))
<1>. DEFINE n == Len(l)
<1>1. /\ n \in Nat /\ DOMAIN l = 1..n /\ DOMAIN Append(l, e) = 1..(n + 1)
      /\ Append(l, e) \in Seq(EventsOver(P)) /\ Len(Append(l, e)) = n + 1
      /\ Append(l, e)[n + 1] = e /\ \A k \in 1..n : Append(l, e)[k] = l[k]
  OBVIOUS
<1>2. ReadsOn("replay", <<>>, l, e)
  BY ReplayCombines, ReadingAppend
<1>3. Reading("replay", <<>>, l) \in StatesOver(P)
  BY ReplayCombines, ReadingTyped
<1>4. State(Append(l, e)) = Replayed(State(l), e)
  BY <1>2, StateRead DEF ReadsOn, Combine
<1>. QED  BY <1>1, <1>3, <1>4, StateRead DEF Extended

(* A line that is not whole, at the end, says nothing.                       *)
LEMMA LastUnheard ==
  ASSUME NEW P, {} \in P, NEW l \in Seq(EventsOver(P)), l # <<>>, l[Len(l)].line # "whole",
         NEW m, m \in Seq(EventsOver(P)), Len(m) = Len(l), m[Len(l)].line # "whole",
         \A k \in 1..(Len(l) - 1) : m[k] = l[k]
  PROVE  State(m) = State(l)
<1>. DEFINE n == Len(l)
            f == [k \in 1..(n - 1) |-> l[k]]
            S == EventsOver(P)
<1>1. n \in Nat \ {0} /\ n \in 1..n /\ (\A k \in 1..(n - 1) : k \in 1..n)
  OBVIOUS
<1>2. (\A k \in 1..n : l[k] \in S) /\ (\A k \in 1..n : m[k] \in S)
  OBVIOUS
<1>3. f \in Seq(S) /\ Len(f) = n - 1
  BY <1>1, <1>2
<1>4. ASSUME NEW w, w \in Seq(S), Len(w) = n, \A k \in 1..(n - 1) : w[k] = l[k]
      PROVE  w = Append(f, w[n])
  <2>1. w \in [1..n -> S] /\ w[n] \in S
    BY <1>1, <1>4
  <2>2. DOMAIN Append(f, w[n]) = 1..n /\ Append(f, w[n]) \in Seq(S)
    BY <1>1, <1>3, <2>1
  <2>3. \A k \in 1..n : Append(f, w[n])[k] = w[k]
    <3>1. \A k \in 1..(n - 1) : Append(f, w[n])[k] = w[k]
      BY <1>1, <1>3, <1>4
    <3>2. Append(f, w[n])[n] = w[n]
      BY <1>1, <1>3
    <3>3. \A k \in 1..n : k \in 1..(n - 1) \/ k = n
      BY <1>1
    <3>. QED  BY <3>1, <3>2, <3>3
  <2>. DEFINE v == Append(f, w[n])
  <2>4. v \in Seq(S) /\ DOMAIN v = 1..n /\ \A k \in 1..n : v[k] = w[k]
    BY <2>2, <2>3
  <2>. HIDE DEF v, S, f
  <2>5. v = [k \in 1..n |-> v[k]] /\ w = [k \in 1..n |-> w[k]]
    BY <1>1, <1>4, <2>1, <2>4
  <2>6. v = w
    BY <2>4, <2>5
  <2>. QED  BY <2>6 DEF v
<1>5. l[n] \in S /\ m[n] \in S /\ l[n].line # "whole" /\ m[n].line # "whole"
  BY <1>1, <1>2
<1>. HIDE DEF f, S, n
<1>6. /\ State(f) \in StatesOver(P)
      /\ State(l) = Replayed(State(f), l[n]) /\ State(m) = Replayed(State(f), m[n])
  <2>1. l = Append(f, l[n]) /\ m = Append(f, m[n])
    BY <1>4 DEF n, S
  <2>2. Extended(P, f, l[n], l) /\ Extended(P, f, m[n], m)
    BY <1>3, <1>5, <2>1, EventAppend DEF S
  <2>. QED  BY <2>2 DEF Extended
<1>7. Replayed(State(f), l[n]) = State(f) /\ Replayed(State(f), m[n]) = State(f)
  <2>1. /\ Replays(P, State(f), l[n], Replayed(State(f), l[n]))
        /\ Replays(P, State(f), m[n], Replayed(State(f), m[n]))
    BY <1>5, <1>6, ReplayedIs DEF S
  <2>. QED  BY <1>5, <2>1 DEF Replays
<1>. QED  BY <1>6, <1>7

LEMMA EventLanded ==
  ASSUME NEW P, {} \in P, NEW l \in Seq(EventsOver(P)), NEW e \in EventsOver(P)
  PROVE  /\ AppendEvent(l, e) \in Seq(EventsOver(P))
         /\ Told(l, AppendEvent(l, e), e) \/ Untold(l, AppendEvent(l, e))
<1>. DEFINE n == Len(l)
            m == AppendEvent(l, e)
<1>1. n \in Nat /\ DOMAIN l = 1..n /\ (\A k \in 1..n : l[k] \in EventsOver(P))
  OBVIOUS
<1>2. CASE l # <<>> /\ l[n].line = "torn"
  <2>. DEFINE x == IF e.line = "whole" THEN "spoilt" ELSE "torn"
  <2>1. m = [l EXCEPT ![n].line = x] /\ x \in {"spoilt", "torn"}
    BY <1>2 DEF AppendEvent, Last
  <2>2. n \in 1..n /\ l[n] \in EventsOver(P)
    BY <1>1, <1>2
  <2>3. [l[n] EXCEPT !.line = x] \in EventsOver(P) /\ [l[n] EXCEPT !.line = x].line = x
    BY <2>1, <2>2 DEF EventsOver
  <2>. HIDE DEF x, m
  <2>4. /\ DOMAIN m = 1..n /\ m[n] = [l[n] EXCEPT !.line = x] /\ \A k \in 1..n : k # n => m[k] = l[k]
    BY <1>1, <2>1, <2>2
  <2>5. m \in Seq(EventsOver(P)) /\ Len(m) = n
    <3>1. \A k \in 1..n : m[k] \in EventsOver(P)
      BY <1>1, <2>3, <2>4
    <3>2. m \in [1..n -> EventsOver(P)]
      BY <2>1, <2>4, <3>1
    <3>. QED  BY <1>1, <3>2
  <2>6. m[n].line # "whole"
    BY <2>1, <2>3, <2>4
  <2>7. State(m) = State(l)
    <3>1. \A k \in 1..(n - 1) : m[k] = l[k]
      BY <1>1, <2>4
    <3>. QED  BY <1>2, <2>5, <2>6, <3>1, LastUnheard
  <2>8. Untold(l, m)
    BY <1>1, <1>2, <2>4, <2>6, <2>7 DEF Untold
  <2>. QED  BY <2>5, <2>8 DEF m
<1>3. CASE ~(l # <<>> /\ l[n].line = "torn")
  <2>1. m = Append(l, e)
    BY <1>3 DEF AppendEvent, Last
  <2>. HIDE DEF m
  <2>2. /\ DOMAIN m = 1..(n + 1) /\ m \in Seq(EventsOver(P)) /\ Len(m) = n + 1
        /\ m[n + 1] = e /\ (\A k \in 1..n : m[k] = l[k])
        /\ State(l) \in StatesOver(P) /\ State(m) = Replayed(State(l), e)
    <3>1. Extended(P, l, e, m)
      BY <2>1, EventAppend
    <3>. QED  BY <3>1 DEF Extended
  <2>3. CASE e.line = "whole"
    BY <2>2, <2>3 DEF Told, m
  <2>4. CASE e.line # "whole"
    <3>1. State(m) = State(l)
      <4>1. Replays(P, State(l), e, State(m))
        BY <2>2, ReplayedIs
      <4>. QED  BY <2>4, <4>1 DEF Replays
    <3>2. \A k : k \in 1..(n + 1) <=> k \in 1..n \/ k = n + 1
      BY <1>1
    <3>3. \A k : k \in DOMAIN m /\ m[k].line = "whole" <=> k \in DOMAIN l /\ l[k].line = "whole"
      BY <1>1, <2>2, <2>4, <3>2
    <3>4. Untold(l, m)
      BY <1>1, <2>2, <3>1, <3>3 DEF Untold
    <3>. QED  BY <2>2, <3>4 DEF m
  <2>. QED  BY <2>3, <2>4
<1>. QED  BY <1>2, <1>3

(* The whole lines of a kind about one bet, before and after an append.      *)
Whole(l, kind, i) == {n \in DOMAIN l : l[n].line = "whole" /\ l[n].kind = kind /\ l[n].id = i}
Ledgers(l) == \E P : {} \in P /\ l \in Seq(EventsOver(P))
Unrecorded(l, m) == State(m) = State(l) /\ \A kind, i : Whole(m, kind, i) = Whole(l, kind, i)
Recorded(l, m, e) ==
  /\ e.line = "whole" /\ Len(l) \in Nat
  /\ \A kind, i : /\ Whole(l, kind, i) \subseteq 1..Len(l)
                  /\ Whole(m, kind, i) = Whole(l, kind, i)
                                           \cup (IF e.kind = kind /\ e.id = i THEN {Len(l) + 1} ELSE {})
  /\ e.kind = "ignition" =>
       /\ DOMAIN State(m) = DOMAIN State(l) \cup {e.id} /\ State(m)[e.id].open
       /\ \A i \in DOMAIN State(l) \ {e.id} : State(m)[i] = State(l)[i]
  /\ e.kind # "ignition" =>
       /\ DOMAIN State(m) = DOMAIN State(l)
       /\ \A i \in DOMAIN State(l) :
            State(m)[i].open <=> State(l)[i].open /\ ~(e.kind = "resolved" /\ i = e.id)

LEMMA LedgerNames == ASSUME NEW l, Ledgers(l) PROVE DOMAIN State(l) \subseteq Names
<1>1. PICK P : {} \in P /\ l \in Seq(EventsOver(P))
  BY DEF Ledgers
<1>2. State(l) \in StatesOver(P)
  <2>1. Reading("replay", <<>>, l) \in StatesOver(P)
    BY <1>1, ReplayCombines, ReadingTyped
  <2>. QED  BY <2>1, StateRead
<1>. QED  BY <1>2, StatesAre

LEMMA LedgersWiden ==
  ASSUME NEW P, NEW l \in Seq(EventsOver(P)), NEW x PROVE l \in Seq(EventsOver(P \cup {x}))
<1>1. \A e \in EventsOver(P) : e \in EventsOver(P \cup {x})
  BY DEF EventsOver
<1>. DEFINE n == Len(l)
            S == EventsOver(P \cup {x})
<1>2. n \in Nat /\ l \in [1..n -> EventsOver(P)]
  OBVIOUS
<1>3. l \in [1..n -> S]
  BY <1>1, <1>2
<1>. HIDE DEF n, S
<1>4. l \in Seq(S)
  BY <1>2, <1>3
<1>. QED  BY <1>4 DEF S

Adds(l, e, m) == Ledgers(m) /\ (Recorded(l, m, e) \/ Unrecorded(l, m))
LEMMA WrittenOver ==
  ASSUME NEW P, {} \in P, NEW l \in Seq(EventsOver(P)), NEW e \in EventsOver(P)
  PROVE  Adds(l, e, AppendEvent(l, e))
<1>. DEFINE m == AppendEvent(l, e)
            n == Len(l)
<1>. HIDE DEF m
<1>4. m \in Seq(EventsOver(P)) /\ (Told(l, m, e) \/ Untold(l, m))
  BY EventLanded DEF m
<1>5. Ledgers(m)
  BY <1>4 DEF Ledgers
<1>6. n \in Nat /\ DOMAIN l = 1..n /\ DOMAIN m = 1..Len(m)
  BY <1>4
<1>7. ASSUME Untold(l, m) PROVE Unrecorded(l, m)
  <2>1. ASSUME NEW k, NEW i PROVE Whole(m, k, i) = Whole(l, k, i)
    <3>1. ASSUME NEW x PROVE x \in Whole(m, k, i) <=> x \in Whole(l, k, i)
      BY <1>7 DEF Whole, Untold
    <3>. QED  BY <3>1
  <2>. QED  BY <1>7, <2>1 DEF Untold, Unrecorded
<1>8. ASSUME Told(l, m, e) PROVE Recorded(l, m, e)
  <2>1. State(l) \in StatesOver(P)
    <3>1. Reading("replay", <<>>, l) \in StatesOver(P)
      BY ReplayCombines, ReadingTyped
    <3>. QED  BY <3>1, StateRead
  <2>2. Replays(P, State(l), e, State(m))
    <3>1. Replays(P, State(l), e, Replayed(State(l), e))
      BY <2>1, ReplayedIs
    <3>. QED  BY <1>8, <3>1 DEF Told
  <2>3. ASSUME NEW k, NEW i
        PROVE  /\ Whole(l, k, i) \subseteq 1..n
               /\ Whole(m, k, i) = Whole(l, k, i) \cup (IF e.kind = k /\ e.id = i THEN {n + 1} ELSE {})
    <3>1. \A x : x \in 1..(n + 1) <=> x \in 1..n \/ x = n + 1
      BY <1>6
    <3>2. DOMAIN m = 1..(n + 1) /\ m[n + 1] = e /\ e.line = "whole" /\ \A x \in 1..n : m[x] = l[x]
      BY <1>6, <1>8 DEF Told
    <3>3. ASSUME NEW x
          PROVE  x \in Whole(m, k, i)
                   <=> x \in Whole(l, k, i) \/ (e.kind = k /\ e.id = i /\ x = n + 1)
      <4>1. CASE x \in 1..n
        <5>1. x # n + 1
          BY <1>6, <4>1
        <5>. QED  BY <1>6, <3>1, <3>2, <4>1, <5>1 DEF Whole
      <4>2. CASE x = n + 1
        <5>1. x \notin 1..n
          BY <1>6, <4>2
        <5>. QED  BY <1>6, <3>1, <3>2, <4>2, <5>1 DEF Whole
      <4>3. CASE x \notin 1..(n + 1)
        BY <1>6, <3>1, <3>2, <4>3 DEF Whole
      <4>. QED  BY <3>1, <4>1, <4>2, <4>3
    <3>. QED  BY <1>6, <3>3 DEF Whole
  <2>. HIDE DEF n
  <2>4. /\ e.kind = "ignition" =>
             /\ DOMAIN State(m) = DOMAIN State(l) \cup {e.id} /\ State(m)[e.id].open
             /\ \A i \in DOMAIN State(l) \ {e.id} : State(m)[i] = State(l)[i]
        /\ e.kind # "ignition" =>
             /\ DOMAIN State(m) = DOMAIN State(l)
             /\ \A i \in DOMAIN State(l) :
                  State(m)[i].open <=> State(l)[i].open /\ ~(e.kind = "resolved" /\ i = e.id)
        /\ e.line = "whole"
    <3>1. e.line = "whole"
      BY <1>8 DEF Told
    <3>. QED  BY <2>2, <3>1 DEF Replays
  <2>. QED  BY <1>6, <2>3, <2>4 DEF Recorded, n
<1>9. Adds(l, e, m)
  <2>. HIDE DEF Recorded, Unrecorded, Ledgers
  <2>. QED  BY <1>4, <1>5, <1>7, <1>8 DEF Adds
<1>. QED  BY <1>9 DEF m

LEMMA LineWritten ==
  ASSUME NEW l, Ledgers(l), NEW e, e \in EventsOver({e.path})
  PROVE  Adds(l, e, AppendEvent(l, e))
<1>1. ASSUME NEW Q, {} \in Q, l \in Seq(EventsOver(Q)) PROVE Adds(l, e, AppendEvent(l, e))
  <2>1. {} \in Q \cup {e.path} /\ l \in Seq(EventsOver(Q \cup {e.path}))
    BY <1>1, LedgersWiden
  <2>2. e \in EventsOver(Q \cup {e.path})
    BY DEF EventsOver
  <2>. QED  BY <2>1, <2>2, WrittenOver
<1>. QED  BY <1>1 DEF Ledgers

(* The argument.  What is open is what no line has booked; a detector that   *)
(* is about to ignite knows every bet of the ledger, holds what is booked to *)
(* be booked and nothing else, and ignites only what is; one that is about   *)
(* to book an outcome is the only one who could have.  Hence an hour in the  *)
(* name of a bet is never the hour of a booking.                             *)
Booked(l, i) == Whole(l, "resolved", i)
Apart(l, i, j) ==
  /\ j.ts - i.ts >= Cooldown
  /\ \A n \in Whole(l, "ignition", j) : \E m \in Booked(l, i) : m < n
BetsOK(l, hrs) ==
  /\ Ledgers(l)
  /\ \A i : i \in DOMAIN State(l) <=> Whole(l, "ignition", i) # {}
  /\ \A i : (\A m, n \in Booked(l, i) : m = n) /\ (Booked(l, i) # {} => i.ts + ResolveHours <= hrs)
  /\ \A i \in DOMAIN State(l) : i.ts <= hrs /\ (State(l)[i].open <=> Booked(l, i) = {})
  /\ \A i, j \in DOMAIN State(l) : j.token = i.token /\ i.ts < j.ts => Apart(l, i, j)
DetectOK(p, l, hrs) ==
  /\ p = [phase |-> "detect", st |-> p.st, now |-> p.now, todo |-> p.todo]
  /\ p.now \in Int /\ p.now <= hrs /\ p.todo \subseteq Tokens
  /\ \E P : {} \in P /\ p.st \in StatesOver(P)
  /\ DOMAIN State(l) \subseteq DOMAIN p.st
  /\ \A i \in DOMAIN p.st : i.ts <= p.now /\ (p.st[i].open <=> Booked(l, i) = {})
  /\ \A i : Booked(l, i) # {} => i.ts < p.now
  /\ \A i \in DOMAIN p.st : i.token \in p.todo => ~p.st[i].open /\ p.now - i.ts >= Cooldown
ResolveOK(p, l, hrs) ==
  /\ p = [phase |-> "resolve", st |-> p.st, now |-> p.now, todo |-> p.todo]
  /\ p.todo \subseteq Names
  /\ \A i \in p.todo : Booked(l, i) = {} /\ i.ts + ResolveHours <= hrs
PassOK(p, l, hrs) == p = NoPass \/ DetectOK(p, l, hrs) \/ ResolveOK(p, l, hrs)
IgnInv ==
  /\ hours \in Nat /\ BetsOK(ledger, hours) /\ PassOK(pass, ledger, hours)
  /\ picker # NoPick => picker \in Names

(* What says nothing of a bet or its outcome leaves all of it as it is.      *)
SameBets(l, m) ==
  /\ Ledgers(m) /\ DOMAIN State(m) = DOMAIN State(l)
  /\ \A i \in DOMAIN State(l) : State(m)[i].open <=> State(l)[i].open
  /\ \A i : Whole(m, "ignition", i) = Whole(l, "ignition", i) /\ Booked(m, i) = Booked(l, i)

LEMMA SameBetsKeep ==
  ASSUME NEW l, NEW m, NEW hrs, NEW p, SameBets(l, m)
  PROVE  /\ BetsOK(l, hrs) => BetsOK(m, hrs)
         /\ PassOK(p, l, hrs) => PassOK(p, m, hrs)
<1>1. ASSUME BetsOK(l, hrs) PROVE BetsOK(m, hrs)
  <2>1. \A i : i \in DOMAIN State(m) <=> Whole(m, "ignition", i) # {}
    BY <1>1 DEF BetsOK, SameBets
  <2>2. \A i : (\A x, n \in Booked(m, i) : x = n) /\ (Booked(m, i) # {} => i.ts + ResolveHours <= hrs)
    BY <1>1 DEF BetsOK, SameBets
  <2>3. \A i \in DOMAIN State(m) : i.ts <= hrs /\ (State(m)[i].open <=> Booked(m, i) = {})
    BY <1>1 DEF BetsOK, SameBets
  <2>4. \A i, j \in DOMAIN State(m) : j.token = i.token /\ i.ts < j.ts => Apart(m, i, j)
    BY <1>1 DEF BetsOK, SameBets, Apart
  <2>. QED  BY <2>1, <2>2, <2>3, <2>4 DEF BetsOK, SameBets
<1>2. ASSUME PassOK(p, l, hrs) PROVE PassOK(p, m, hrs)
  <2>1. CASE DetectOK(p, l, hrs)
    BY <2>1 DEF PassOK, DetectOK, SameBets
  <2>2. CASE ResolveOK(p, l, hrs)
    BY <2>2 DEF PassOK, ResolveOK, SameBets
  <2>. QED  BY <1>2, <2>1, <2>2 DEF PassOK
<1>. QED  BY <1>1, <1>2

LinesGrow(l, m, e, kind, i) ==
  /\ Whole(l, kind, i) \subseteq 1..Len(l)
  /\ e.kind = kind /\ e.id = i => Whole(m, kind, i) = Whole(l, kind, i) \cup {Len(l) + 1}
  /\ e.kind # kind \/ e.id # i => Whole(m, kind, i) = Whole(l, kind, i)
LEMMA RecordedLines ==
  ASSUME NEW l, NEW m, NEW e, Recorded(l, m, e), NEW kind, NEW i PROVE LinesGrow(l, m, e, kind, i)
<1>1. /\ Whole(l, kind, i) \subseteq 1..Len(l)
      /\ Whole(m, kind, i) = Whole(l, kind, i) \cup (IF e.kind = kind /\ e.id = i THEN {Len(l) + 1} ELSE {})
  BY DEF Recorded
<1>2. CASE e.kind = kind /\ e.id = i
  BY <1>1, <1>2 DEF LinesGrow
<1>3. CASE e.kind # kind \/ e.id # i
  <2>1. Whole(m, kind, i) = Whole(l, kind, i) \cup {}
    BY <1>1, <1>3
  <2>. QED  BY <1>1, <1>3, <2>1 DEF LinesGrow
<1>. QED  BY <1>2, <1>3

LEMMA QuietLine ==
  ASSUME NEW l, NEW m, NEW e, Adds(l, e, m), Recorded(l, m, e) => e.kind = "pick"
  PROVE  SameBets(l, m)
<1>1. CASE Unrecorded(l, m)
  BY <1>1 DEF Adds, SameBets, Unrecorded, Booked
<1>2. CASE Recorded(l, m, e)
  <2>1. e.kind = "pick"
    BY <1>2
  <2>2. \A i : Whole(m, "ignition", i) = Whole(l, "ignition", i) /\ Whole(m, "resolved", i) = Whole(l, "resolved", i)
    <3>1. ASSUME NEW i PROVE Whole(m, "ignition", i) = Whole(l, "ignition", i) /\ Whole(m, "resolved", i) = Whole(l, "resolved", i)
      <4>1. LinesGrow(l, m, e, "ignition", i) /\ LinesGrow(l, m, e, "resolved", i)
        BY <1>2, RecordedLines
      <4>. QED  BY <2>1, <4>1 DEF LinesGrow
    <3>. QED  BY <3>1
  <2>. QED  BY <1>2, <2>1, <2>2 DEF Adds, SameBets, Recorded, Booked
<1>. QED  BY <1>1, <1>2 DEF Adds

(* An ignition that was told.                                                *)
LEMMA IgnitionKeeps ==
  ASSUME NEW l, NEW m, NEW hrs \in Int, NEW p, NEW t \in p.todo, NEW e, BetsOK(l, hrs), DetectOK(p, l, hrs),
         Adds(l, e, m), Recorded(l, m, e), e.kind = "ignition", e.id = [token |-> t, ts |-> p.now]
  PROVE  BetsOK(m, hrs)
<1>. DEFINE b == [token |-> t, ts |-> p.now]
            n == Len(l) + 1
<1>1. b \in Names /\ b.token = t /\ b.ts = p.now /\ p.now \in Int /\ p.now <= hrs
  BY DEF DetectOK, Names
<1>2. /\ Ledgers(l) /\ Ledgers(m) /\ Len(l) \in Nat
      /\ DOMAIN State(m) = DOMAIN State(l) \cup {b} /\ State(m)[b].open
      /\ \A i \in DOMAIN State(l) \ {b} : State(m)[i] = State(l)[i]
  BY DEF BetsOK, Adds, Recorded
<1>3. /\ \A i : Booked(m, i) = Booked(l, i) /\ Booked(l, i) \subseteq 1..Len(l)
      /\ \A i : i # b => Whole(m, "ignition", i) = Whole(l, "ignition", i)
      /\ Whole(m, "ignition", b) = Whole(l, "ignition", b) \cup {n}
  <2>1. \A kind, i : LinesGrow(l, m, e, kind, i)
    BY RecordedLines
  <2>2. e.kind = "ignition" /\ e.id = b
    OBVIOUS
  <2>. HIDE DEF b
  <2>3. \A i : LinesGrow(l, m, e, "resolved", i) /\ LinesGrow(l, m, e, "ignition", i)
    BY <2>1
  <2>. QED  BY <2>2, <2>3 DEF LinesGrow, Booked
<1>. HIDE DEF b, n
<1>4. DOMAIN State(l) \subseteq Names /\ DOMAIN p.st \subseteq Names /\ DOMAIN State(l) \subseteq DOMAIN p.st
  <2>1. PICK P : p.st \in StatesOver(P)
    BY DEF DetectOK
  <2>2. DOMAIN p.st \subseteq Names
    BY <2>1, StatesAre
  <2>. QED  BY <1>2, <2>2, LedgerNames DEF DetectOK
<1>5. Booked(l, b) = {}
  BY <1>1 DEF DetectOK
<1>6. b \notin DOMAIN State(l) /\ Whole(l, "ignition", b) = {}
  <2>1. b \notin DOMAIN p.st
    BY <1>1, <1>5 DEF DetectOK
  <2>. QED  BY <1>4, <2>1 DEF BetsOK
<1>7. \A i : i \in DOMAIN State(m) <=> Whole(m, "ignition", i) # {}
  <2>1. ASSUME NEW i, i # b PROVE i \in DOMAIN State(m) <=> Whole(m, "ignition", i) # {}
    BY <1>2, <1>3, <2>1 DEF BetsOK
  <2>2. b \in DOMAIN State(m) /\ n \in Whole(m, "ignition", b)
    BY <1>2, <1>3
  <2>. QED  BY <2>1, <2>2
<1>8. \A i : (\A x, y \in Booked(m, i) : x = y) /\ (Booked(m, i) # {} => i.ts + ResolveHours <= hrs)
  BY <1>3 DEF BetsOK
<1>9. \A i \in DOMAIN State(m) : i.ts <= hrs /\ (State(m)[i].open <=> Booked(m, i) = {})
  <2>1. ASSUME NEW i \in DOMAIN State(l) PROVE i.ts <= hrs /\ (State(m)[i].open <=> Booked(m, i) = {})
    <3>1. i # b /\ State(m)[i] = State(l)[i]
      BY <1>2, <1>6
    <3>. QED  BY <1>3, <3>1 DEF BetsOK
  <2>2. b.ts <= hrs /\ (State(m)[b].open <=> Booked(m, b) = {})
    BY <1>1, <1>2, <1>3, <1>5
  <2>. QED  BY <1>2, <2>1, <2>2
<1>10. ASSUME NEW i \in DOMAIN State(m), NEW j \in DOMAIN State(m), j.token = i.token, i.ts < j.ts
       PROVE  Apart(m, i, j)
  <2>1. CASE i \in DOMAIN State(l) /\ j \in DOMAIN State(l)
    <3>1. Apart(l, i, j) /\ j # b
      BY <1>6, <1>10, <2>1 DEF BetsOK
    <3>. QED  BY <1>3, <3>1 DEF Apart
  <2>2. CASE i \in DOMAIN State(l) /\ j = b
    <3>1. /\ i \in DOMAIN p.st /\ i.token \in p.todo
          /\ ~p.st[i].open /\ p.now - i.ts >= Cooldown /\ Booked(l, i) # {}
      BY <1>1, <1>4, <1>10, <2>2 DEF DetectOK
    <3>2. PICK x : x \in Booked(l, i) /\ x \in 1..Len(l)
      BY <1>3, <3>1
    <3>3. x < n
      BY <1>2, <3>2 DEF n
    <3>4. Whole(m, "ignition", j) = {n} /\ x \in Booked(m, i)
      BY <1>3, <1>6, <2>2, <3>2
    <3>. QED  BY <1>1, <2>2, <3>1, <3>3, <3>4 DEF Apart
  <2>3. CASE i = b
    <3>1. CASE j = b
      BY <1>1, <1>10, <2>3, <3>1
    <3>2. CASE j \in DOMAIN State(l)
      <4>1. j \in Names /\ j.ts <= p.now
        BY <1>4, <3>2 DEF DetectOK
      <4>. QED  BY <1>1, <1>10, <2>3, <4>1 DEF Names
    <3>. QED  BY <1>2, <3>1, <3>2
  <2>. QED  BY <1>2, <2>1, <2>2, <2>3
<1>. QED  BY <1>2, <1>7, <1>8, <1>9, <1>10 DEF BetsOK

(* An ignition, told or not: the detector takes it to be.                    *)
Ignited(p, t, e) == [p EXCEPT !.todo = @ \ {t}, !.st = Replayed(@, e)]
LEMMA IgnitedIs ==
  ASSUME NEW s, NEW now, NEW todo, NEW t, NEW e
  PROVE  Ignited([phase |-> "detect", st |-> s, now |-> now, todo |-> todo], t, e)
           = [phase |-> "detect", st |-> Replayed(s, e), now |-> now, todo |-> todo \ {t}]
<1>. DEFINE p == [phase |-> "detect", st |-> s, now |-> now, todo |-> todo]
<1>1. /\ p.todo = todo /\ p.st = s
      /\ Ignited(p, t, e) = [p EXCEPT !.todo = todo \ {t}, !.st = Replayed(s, e)]
  BY DEF Ignited
<1>. QED  BY <1>1

LEMMA DetectKeeps ==
  ASSUME NEW l, NEW m, NEW hrs \in Int, NEW p, NEW t \in p.todo, NEW e, BetsOK(l, hrs), DetectOK(p, l, hrs),
         Adds(l, e, m), e \in EventsOver({{}}), e.line = "whole",
         e.kind = "ignition", e.id = [token |-> t, ts |-> p.now]
  PROVE  DetectOK(Ignited(p, t, e), m, hrs)
<1>. DEFINE b == [token |-> t, ts |-> p.now]
            q == Ignited(p, t, e)
<1>1. /\ p = [phase |-> "detect", st |-> p.st, now |-> p.now, todo |-> p.todo]
      /\ b \in Names /\ b.token = t /\ b.ts = p.now /\ p.now \in Int /\ p.now <= hrs /\ p.todo \subseteq Tokens
      /\ e.id = b
  BY DEF DetectOK, Names
<1>2. /\ q = [phase |-> "detect", st |-> q.st, now |-> q.now, todo |-> q.todo]
      /\ q.now = p.now /\ q.todo = p.todo \ {t} /\ q.st = Replayed(p.st, e)
  <2>. DEFINE r == [phase |-> "detect", st |-> p.st, now |-> p.now, todo |-> p.todo]
              v == [phase |-> "detect", st |-> Replayed(p.st, e), now |-> p.now, todo |-> p.todo \ {t}]
  <2>1. Ignited(r, t, e) = v
    BY IgnitedIs
  <2>2. p = r
    BY <1>1
  <2>. HIDE DEF r, v
  <2>3. q = v
    BY <2>1, <2>2
  <2>. QED  BY <2>3 DEF v
<1>. HIDE DEF b, q
<1>3. PICK P : {} \in P /\ p.st \in StatesOver(P)
  BY DEF DetectOK
<1>4. /\ q.st \in StatesOver(P) /\ DOMAIN q.st = DOMAIN p.st \cup {b} /\ q.st[b].open
      /\ \A i \in DOMAIN p.st \ {b} : q.st[i] = p.st[i]
  <2>1. e \in EventsOver(P)
    BY <1>3 DEF EventsOver
  <2>2. Replays(P, p.st, e, q.st)
    BY <1>2, <1>3, <2>1, ReplayedIs
  <2>. QED  BY <1>1, <2>2 DEF Replays
<1>5. Booked(l, b) = {}
  BY <1>1 DEF DetectOK
<1>6. \A i : Booked(m, i) = Booked(l, i)
  <2>1. CASE Recorded(l, m, e)
    <3>1. \A i : LinesGrow(l, m, e, "resolved", i)
      BY <2>1, RecordedLines
    <3>. QED  BY <3>1 DEF LinesGrow, Booked
  <2>2. CASE Unrecorded(l, m)
    BY <2>2 DEF Unrecorded, Booked
  <2>. QED  BY <2>1, <2>2 DEF Adds
<1>7. DOMAIN State(m) \subseteq DOMAIN State(l) \cup {b}
  BY <1>1 DEF Adds, Recorded, Unrecorded
<1>8. \A i \in DOMAIN p.st : i.ts <= p.now /\ (p.st[i].open <=> Booked(l, i) = {})
  BY DEF DetectOK
<1>9. \A i \in DOMAIN q.st : i.ts <= q.now /\ (q.st[i].open <=> Booked(m, i) = {})
  <2>1. ASSUME NEW i \in DOMAIN q.st, i # b PROVE i.ts <= q.now /\ (q.st[i].open <=> Booked(m, i) = {})
    BY <1>2, <1>4, <1>6, <1>8, <2>1
  <2>2. b.ts <= q.now /\ (q.st[b].open <=> Booked(m, b) = {})
    BY <1>1, <1>2, <1>4, <1>5, <1>6
  <2>. QED  BY <2>1, <2>2
<1>10. \A i : Booked(m, i) # {} => i.ts < q.now
  BY <1>2, <1>6 DEF DetectOK
<1>11. \A i \in DOMAIN q.st : i.token \in q.todo => ~q.st[i].open /\ q.now - i.ts >= Cooldown
  <2>1. ASSUME NEW i \in DOMAIN q.st, i.token \in q.todo PROVE ~q.st[i].open /\ q.now - i.ts >= Cooldown
    <3>1. i # b /\ i \in DOMAIN p.st /\ i.token \in p.todo
      BY <1>1, <1>2, <1>4, <2>1
    <3>. QED  BY <1>2, <1>4, <3>1 DEF DetectOK
  <2>. QED  BY <2>1
<1>12. DOMAIN State(m) \subseteq DOMAIN q.st
  BY <1>4, <1>7 DEF DetectOK
<1>13. q.now \in Int /\ q.now <= hrs /\ q.todo \subseteq Tokens /\ \E Q : {} \in Q /\ q.st \in StatesOver(Q)
  BY <1>1, <1>2, <1>3, <1>4
<1>. QED  BY <1>2, <1>9, <1>10, <1>11, <1>12, <1>13 DEF DetectOK, q

(* An outcome that was told.                                                 *)
OutcomeAdded(l, m, i, hrs) == BetsOK(m, hrs) /\ \A j : j # i => Booked(m, j) = Booked(l, j)
LEMMA OutcomeKeeps ==
  ASSUME NEW l, NEW m, NEW hrs, NEW i, NEW e, BetsOK(l, hrs), Booked(l, i) = {}, i.ts + ResolveHours <= hrs,
         Adds(l, e, m), e.kind = "resolved", e.id = i
  PROVE  OutcomeAdded(l, m, i, hrs)
<1>1. CASE Unrecorded(l, m)
  <2>1. SameBets(l, m)
    BY <1>1 DEF Adds, SameBets, Unrecorded, Booked
  <2>. QED  BY <2>1, SameBetsKeep DEF SameBets, OutcomeAdded
<1>2. CASE Recorded(l, m, e)
  <2>. DEFINE n == Len(l) + 1
  <2>1. \A j : /\ Whole(m, "ignition", j) = Whole(l, "ignition", j)
               /\ j # i => Booked(m, j) = Booked(l, j)
               /\ Booked(l, j) \subseteq Booked(m, j)
    <3>1. \A j : LinesGrow(l, m, e, "ignition", j) /\ LinesGrow(l, m, e, "resolved", j)
      BY <1>2, RecordedLines
    <3>. QED  BY <3>1 DEF LinesGrow, Booked
  <2>2. Booked(m, i) = {n}
    <3>1. LinesGrow(l, m, e, "resolved", i)
      BY <1>2, RecordedLines
    <3>. QED  BY <3>1 DEF LinesGrow, Booked
  <2>3. /\ DOMAIN State(m) = DOMAIN State(l)
        /\ \A j \in DOMAIN State(l) : State(m)[j].open <=> State(l)[j].open /\ j # i
    BY <1>2 DEF Recorded
  <2>. HIDE DEF n
  <2>4. \A j : j \in DOMAIN State(m) <=> Whole(m, "ignition", j) # {}
    BY <2>1, <2>3 DEF BetsOK
  <2>5. \A j : (\A x, y \in Booked(m, j) : x = y) /\ (Booked(m, j) # {} => j.ts + ResolveHours <= hrs)
    BY <2>1, <2>2 DEF BetsOK
  <2>6. \A j \in DOMAIN State(m) : j.ts <= hrs /\ (State(m)[j].open <=> Booked(m, j) = {})
    BY <2>1, <2>2, <2>3 DEF BetsOK
  <2>7. \A j, k \in DOMAIN State(m) : k.token = j.token /\ j.ts < k.ts => Apart(m, j, k)
    <3>1. \A j, k \in DOMAIN State(m) : k.token = j.token /\ j.ts < k.ts => Apart(l, j, k)
      BY <2>3 DEF BetsOK
    <3>. QED  BY <2>1, <3>1 DEF Apart
  <2>8. Ledgers(m)
    BY DEF Adds
  <2>. QED  BY <2>1, <2>4, <2>5, <2>6, <2>7, <2>8 DEF BetsOK, OutcomeAdded
<1>. QED  BY <1>1, <1>2 DEF Adds

LEMMA LedgerState == ASSUME NEW l, Ledgers(l) PROVE \E P : {} \in P /\ State(l) \in StatesOver(P)
<1>1. ASSUME NEW P, {} \in P, l \in Seq(EventsOver(P)) PROVE State(l) \in StatesOver(P)
  <2>1. Reading("replay", <<>>, l) \in StatesOver(P)
    BY <1>1, ReplayCombines, ReadingTyped
  <2>. QED  BY <2>1, StateRead
<1>. QED  BY <1>1 DEF Ledgers

LEMMA BookedNames == ASSUME NEW l, Ledgers(l), NEW i, Booked(l, i) # {} PROVE i \in Names
<1>1. ASSUME NEW P, l \in Seq(EventsOver(P)) PROVE i \in Names
  <2>1. \A k \in DOMAIN l : l[k] \in EventsOver(P)
    BY <1>1
  <2>. QED  BY <2>1 DEF Booked, Whole, EventsOver
<1>. QED  BY <1>1 DEF Ledgers

LEMMA DetectBegins ==
  ASSUME NEW l, NEW hrs \in Nat, BetsOK(l, hrs), NEW p,
         p = [phase |-> "detect", st |-> State(l), now |-> hrs, todo |-> Tokens \ OpenOrRecent(State(l), hrs)]
  PROVE  DetectOK(p, l, hrs)
<1>. DEFINE st == State(l)
<1>1. /\ p = [phase |-> "detect", st |-> p.st, now |-> p.now, todo |-> p.todo]
      /\ p.st = st /\ p.now = hrs /\ p.todo = Tokens \ OpenOrRecent(st, hrs)
  OBVIOUS
<1>2. Ledgers(l) /\ (\E P : {} \in P /\ st \in StatesOver(P)) /\ DOMAIN st \subseteq Names
  BY LedgerState, LedgerNames DEF BetsOK
<1>3. \A i \in DOMAIN st : i.ts <= hrs /\ (st[i].open <=> Booked(l, i) = {})
  BY DEF BetsOK
<1>4. \A i : Booked(l, i) # {} => i.ts < hrs
  <2>1. ASSUME NEW i, Booked(l, i) # {} PROVE i.ts < hrs
    <3>1. i.ts \in Int /\ i.ts + ResolveHours <= hrs
      BY <1>2, <2>1, BookedNames DEF BetsOK, Names
    <3>. QED  BY <3>1, WindowAssumption
  <2>. QED  BY <2>1
<1>. HIDE DEF st
<1>5. \A i \in DOMAIN st : i.token \in p.todo => ~st[i].open /\ hrs - i.ts >= Cooldown
  <2>1. ASSUME NEW i \in DOMAIN st, i.token \in p.todo PROVE ~st[i].open /\ hrs - i.ts >= Cooldown
    <3>1. i.token \notin OpenOrRecent(st, hrs)
      BY <1>1, <2>1
    <3>2. ~(st[i].open \/ hrs - i.ts < Cooldown)
      BY <3>1 DEF OpenOrRecent
    <3>3. i.ts \in Int
      BY <1>2 DEF Names
    <3>. QED  BY <3>2, <3>3, WindowAssumption
  <2>. QED  BY <2>1
<1>6. p.todo \subseteq Tokens
  BY <1>1
<1>. QED  BY <1>1, <1>2, <1>3, <1>4, <1>5, <1>6 DEF DetectOK, st

LEMMA ResolveBegins ==
  ASSUME NEW l, NEW hrs \in Nat, NEW p, NEW q, DetectOK(p, l, hrs),
         q = [phase |-> "resolve", st |-> p.st, now |-> hrs, todo |-> Due(p.st, hrs)]
  PROVE  ResolveOK(q, l, hrs)
<1>1. DOMAIN p.st \subseteq Names
  <2>1. PICK P : p.st \in StatesOver(P)
    BY DEF DetectOK
  <2>. QED  BY <2>1, StatesAre
<1>2. \A i \in Due(p.st, hrs) : i \in Names /\ Booked(l, i) = {} /\ i.ts + ResolveHours <= hrs
  <2>1. ASSUME NEW i \in Due(p.st, hrs) PROVE i \in Names /\ Booked(l, i) = {} /\ i.ts + ResolveHours <= hrs
    <3>1. i \in DOMAIN p.st /\ p.st[i].open /\ hrs - i.ts >= ResolveHours
      BY DEF Due
    <3>2. i \in Names /\ i.ts \in Int /\ Booked(l, i) = {}
      BY <1>1, <3>1 DEF DetectOK, Names
    <3>. QED  BY <3>1, <3>2, WindowAssumption
  <2>. QED  BY <2>1
<1>. QED  BY <1>2 DEF ResolveOK

LEMMA AnHourLater ==
  ASSUME NEW l, NEW p, NEW hrs \in Nat, BetsOK(l, hrs), PassOK(p, l, hrs)
  PROVE  BetsOK(l, hrs + 1) /\ PassOK(p, l, hrs + 1)
<1>1. /\ Ledgers(l) /\ DOMAIN State(l) \subseteq Names
      /\ \A i : Booked(l, i) # {} => i \in Names
  BY LedgerNames, BookedNames DEF BetsOK
<1>2. BetsOK(l, hrs + 1)
  <2>1. \A i : Booked(l, i) # {} => i.ts + ResolveHours <= hrs + 1
    BY <1>1, WindowAssumption DEF BetsOK, Names
  <2>2. \A i \in DOMAIN State(l) : i.ts <= hrs + 1
    BY <1>1 DEF BetsOK, Names
  <2>. QED  BY <2>1, <2>2 DEF BetsOK
<1>3. CASE DetectOK(p, l, hrs)
  <2>1. p.now <= hrs + 1
    BY <1>3 DEF DetectOK
  <2>. QED  BY <1>2, <1>3, <2>1 DEF DetectOK, PassOK
<1>4. CASE ResolveOK(p, l, hrs)
  <2>1. \A i \in p.todo : i.ts + ResolveHours <= hrs + 1
    BY <1>4, WindowAssumption DEF ResolveOK, Names
  <2>. QED  BY <1>2, <1>4, <2>1 DEF ResolveOK, PassOK
<1>. QED  BY <1>2, <1>3, <1>4 DEF PassOK

LEMMA PassAfter ==
  ASSUME NEW p, NEW l, NEW hrs, PassOK(p, l, hrs)
  PROVE  /\ p.phase = "detect" => DetectOK(p, l, hrs)
         /\ p.phase = "resolve" => ResolveOK(p, l, hrs)
<1>1. CASE p = NoPass
  BY <1>1 DEF NoPass
<1>2. CASE DetectOK(p, l, hrs)
  <2>1. p = [phase |-> "detect", st |-> p.st, now |-> p.now, todo |-> p.todo]
    BY <1>2 DEF DetectOK
  <2>2. p.phase = "detect"
    BY <2>1
  <2>. QED  BY <1>2, <2>2
<1>3. CASE ResolveOK(p, l, hrs)
  <2>1. p = [phase |-> "resolve", st |-> p.st, now |-> p.now, todo |-> p.todo]
    BY <1>3 DEF ResolveOK
  <2>2. p.phase = "resolve"
    BY <2>1
  <2>. QED  BY <1>3, <2>2
<1>. QED  BY <1>1, <1>2, <1>3 DEF PassOK

(* Fewer left to do.                                                         *)
LEMMA OneLess ==
  ASSUME NEW l, NEW hrs, NEW p, NEW x
  PROVE  /\ DetectOK(p, l, hrs) => DetectOK([p EXCEPT !.todo = @ \ {x}], l, hrs)
         /\ ResolveOK(p, l, hrs) => ResolveOK([p EXCEPT !.todo = @ \ {x}], l, hrs)
<1>. DEFINE q == [p EXCEPT !.todo = @ \ {x}]
<1>1. ASSUME DetectOK(p, l, hrs) PROVE DetectOK(q, l, hrs)
  <2>1. p = [phase |-> "detect", st |-> p.st, now |-> p.now, todo |-> p.todo]
    BY <1>1 DEF DetectOK
  <2>2. /\ q = [phase |-> "detect", st |-> q.st, now |-> q.now, todo |-> q.todo]
        /\ q.st = p.st /\ q.now = p.now /\ q.todo = p.todo \ {x}
    BY <2>1
  <2>. HIDE DEF q
  <2>. QED  BY <1>1, <2>2 DEF DetectOK
<1>2. ASSUME ResolveOK(p, l, hrs) PROVE ResolveOK(q, l, hrs)
  <2>1. p = [phase |-> "resolve", st |-> p.st, now |-> p.now, todo |-> p.todo]
    BY <1>2 DEF ResolveOK
  <2>2. /\ q = [phase |-> "resolve", st |-> q.st, now |-> q.now, todo |-> q.todo]
        /\ q.st = p.st /\ q.now = p.now /\ q.todo = p.todo \ {x}
    BY <2>1
  <2>. HIDE DEF q
  <2>. QED  BY <1>2, <2>2 DEF ResolveOK
<1>. QED  BY <1>1, <1>2

EventOK(e, kind, id) == e \in EventsOver({e.path}) /\ e.kind = kind /\ e.id = id
LEMMA EventIs ==
  ASSUME hours \in Nat, NEW kind \in {"ignition", "pick", "resolved"}, NEW id \in Names, NEW path
  PROVE  /\ EventOK(Event(kind, id, path), kind, id)
         /\ \A s \in {"torn", "whole"} : EventOK([Event(kind, id, path) EXCEPT !.line = s], kind, id)
<1>1. Event(kind, id, path) = [kind |-> kind, id |-> id, at |-> hours, path |-> path, line |-> "whole"]
  BY DEF Event
<1>2. ASSUME NEW s \in {"torn", "whole", "spoilt"}
      PROVE  EventOK([kind |-> kind, id |-> id, at |-> hours, path |-> path, line |-> s], kind, id)
  BY DEF EventOK, EventsOver
<1>3. ASSUME NEW s PROVE [Event(kind, id, path) EXCEPT !.line = s]
                           = [kind |-> kind, id |-> id, at |-> hours, path |-> path, line |-> s]
  BY <1>1
<1>. QED  BY <1>1, <1>2, <1>3

LEMMA PickLine ==
  ASSUME NEW l, NEW hrs, NEW p, BetsOK(l, hrs), PassOK(p, l, hrs), NEW e, NEW id, EventOK(e, "pick", id)
  PROVE  BetsOK(AppendEvent(l, e), hrs) /\ PassOK(p, AppendEvent(l, e), hrs)
<1>1. Adds(l, e, AppendEvent(l, e)) /\ e.kind = "pick"
  BY LineWritten DEF EventOK, BetsOK
<1>. QED  BY <1>1, QuietLine, SameBetsKeep

LEMMA IgnitionLine ==
  ASSUME NEW l, NEW hrs \in Nat, NEW p, BetsOK(l, hrs), DetectOK(p, l, hrs), NEW t \in p.todo,
         NEW e, EventOK(e, "ignition", [token |-> t, ts |-> p.now])
  PROVE  /\ BetsOK(AppendEvent(l, e), hrs)
         /\ e.line = "whole" /\ e.path = {} => DetectOK(Ignited(p, t, e), AppendEvent(l, e), hrs)
<1>. DEFINE m == AppendEvent(l, e)
<1>. HIDE DEF m
<1>1. Adds(l, e, m) /\ e.kind = "ignition" /\ e.id = [token |-> t, ts |-> p.now]
  BY LineWritten DEF EventOK, BetsOK, m
<1>2. BetsOK(m, hrs)
  <2>. hrs \in Int
    OBVIOUS
  <2>1. CASE Recorded(l, m, e)
    BY <1>1, <2>1, IgnitionKeeps
  <2>2. CASE ~Recorded(l, m, e)
    <3>1. SameBets(l, m)
      BY <1>1, <2>2, QuietLine
    <3>. QED  BY <3>1, SameBetsKeep
  <2>. QED  BY <2>1, <2>2
<1>3. ASSUME e.line = "whole", e.path = {} PROVE DetectOK(Ignited(p, t, e), m, hrs)
  <2>1. e \in EventsOver({{}})
    BY <1>3 DEF EventOK
  <2>. QED  BY <1>1, <1>3, <2>1, DetectKeeps
<1>. QED  BY <1>2, <1>3 DEF m

LEMMA OutcomeLine ==
  ASSUME NEW l, NEW hrs, NEW p, BetsOK(l, hrs), ResolveOK(p, l, hrs), NEW i \in p.todo,
         NEW e, EventOK(e, "resolved", i)
  PROVE  /\ BetsOK(AppendEvent(l, e), hrs)
         /\ ResolveOK([p EXCEPT !.todo = @ \ {i}], AppendEvent(l, e), hrs)
<1>. DEFINE m == AppendEvent(l, e)
            q == [p EXCEPT !.todo = @ \ {i}]
<1>1. Adds(l, e, m) /\ e.kind = "resolved" /\ e.id = i
  BY LineWritten DEF EventOK, BetsOK
<1>2. Booked(l, i) = {} /\ i.ts + ResolveHours <= hrs
  BY DEF ResolveOK
<1>. HIDE DEF m
<1>3. BetsOK(m, hrs) /\ \A j : j # i => Booked(m, j) = Booked(l, j)
  <2>1. OutcomeAdded(l, m, i, hrs)
    BY <1>1, <1>2, OutcomeKeeps
  <2>. QED  BY <2>1 DEF OutcomeAdded
<1>4. ResolveOK(q, l, hrs)
  BY OneLess
<1>5. i \notin q.todo
  <2>1. p = [phase |-> "resolve", st |-> p.st, now |-> p.now, todo |-> p.todo]
    BY DEF ResolveOK
  <2>2. q.todo = p.todo \ {i}
    BY <2>1
  <2>. QED  BY <2>2
<1>. HIDE DEF q
<1>6. ResolveOK(q, m, hrs)
  BY <1>3, <1>4, <1>5 DEF ResolveOK
<1>. QED  BY <1>3, <1>6 DEF m, q

LEMMA InitIgnInv == IgnInit => IgnInv
<1>. SUFFICES ASSUME IgnInit PROVE IgnInv
  OBVIOUS
<1>1. hours = 0 /\ ledger = <<>> /\ picker = NoPick /\ pass = NoPass
  BY DEF IgnInit
<1>2. <<>> \in Seq(EventsOver({{}})) /\ DOMAIN <<>> = {} /\ State(<<>>) = <<>>
  <2>1. Combines("replay", StatesOver({{}}), EventsOver({{}})) /\ <<>> \in StatesOver({{}})
    BY ReplayCombines
  <2>2. Reading("replay", <<>>, <<>>) = <<>>
    BY <2>1, ReadingNone
  <2>. QED  BY <2>2, StateRead
<1>3. Ledgers(<<>>)
  BY <1>2 DEF Ledgers
<1>4. \A kind, i : Whole(<<>>, kind, i) = {}
  BY <1>2 DEF Whole
<1>5. BetsOK(<<>>, 0)
  BY <1>2, <1>3, <1>4 DEF BetsOK, Booked
<1>. QED  BY <1>1, <1>5 DEF IgnInv, PassOK

LEMMA NextIgnInv == IgnInv /\ [IgnNext]_ignvars => IgnInv'
<1>. SUFFICES ASSUME IgnInv, [IgnNext]_ignvars PROVE IgnInv'
  OBVIOUS
<1>0. /\ hours \in Nat /\ BetsOK(ledger, hours) /\ PassOK(pass, ledger, hours)
      /\ picker # NoPick => picker \in Names
  BY DEF IgnInv
<1>1. CASE Begin
  <2>1. pass' = [phase |-> "detect", st |-> State(ledger), now |-> hours,
                 todo |-> Tokens \ OpenOrRecent(State(ledger), hours)]
    BY <1>1 DEF Begin
  <2>2. DetectOK(pass', ledger, hours)
    BY <1>0, <2>1, DetectBegins
  <2>3. UNCHANGED <<hours, ledger, picker>>
    BY <1>1 DEF Begin
  <2>. QED  BY <1>0, <2>2, <2>3 DEF IgnInv, PassOK
<1>2. CASE DetectOne
  <2>1. DetectOK(pass, ledger, hours) /\ pass.phase = "detect"
    BY <1>0, <1>2, PassAfter DEF DetectOne
  <2>2. UNCHANGED <<hours, picker>>
    BY <1>2 DEF DetectOne
  <2>3. PICK t \in pass.todo :
          \/ pass' = [pass EXCEPT !.todo = @ \ {t}] /\ UNCHANGED ledger
          \/ LET e == Event("ignition", [token |-> t, ts |-> pass.now], {})
             IN  ledger' = AppendEvent(ledger, e) /\ pass' = Ignited(pass, t, e)
    BY <1>2 DEF DetectOne, Ignited
  <2>4. CASE pass' = [pass EXCEPT !.todo = @ \ {t}] /\ UNCHANGED ledger
    <3>1. DetectOK(pass', ledger', hours')
      BY <2>1, <2>2, <2>4, OneLess
    <3>. QED  BY <1>0, <2>2, <2>4, <3>1 DEF IgnInv, PassOK
  <2>5. ASSUME NEW e, e = Event("ignition", [token |-> t, ts |-> pass.now], {}),
               ledger' = AppendEvent(ledger, e), pass' = Ignited(pass, t, e)
        PROVE  IgnInv'
    <3>1. [token |-> t, ts |-> pass.now] \in Names
      BY <2>1 DEF DetectOK, Names
    <3>2. EventOK(e, "ignition", [token |-> t, ts |-> pass.now]) /\ e.line = "whole" /\ e.path = {}
      <4>. DEFINE id == [token |-> t, ts |-> pass.now]
      <4>. HIDE DEF id
      <4>1. id \in Names /\ e = Event("ignition", id, {})
        BY <2>5, <3>1 DEF id
      <4>2. EventOK(e, "ignition", id) /\ e.line = "whole" /\ e.path = {}
        <5>1. /\ EventOK(Event("ignition", id, {}), "ignition", id)
              /\ Event("ignition", id, {}).line = "whole" /\ Event("ignition", id, {}).path = {}
          <6>1. EventOK(Event("ignition", id, {}), "ignition", id)
            BY <1>0, <4>1, EventIs
          <6>. QED  BY <6>1 DEF Event
        <5>. QED  BY <4>1, <5>1
      <4>. QED  BY <4>2 DEF id
    <3>3. BetsOK(ledger', hours) /\ DetectOK(pass', ledger', hours)
      BY <1>0, <2>1, <2>5, <3>2, IgnitionLine
    <3>. QED  BY <1>0, <2>2, <3>3 DEF IgnInv, PassOK
  <2>. QED  BY <2>3, <2>4, <2>5
<1>3. CASE BeginResolve
  <2>1. DetectOK(pass, ledger, hours)
    BY <1>0, <1>3, PassAfter DEF BeginResolve
  <2>2. pass' = [phase |-> "resolve", st |-> pass.st, now |-> hours, todo |-> Due(pass.st, hours)]
    BY <1>3 DEF BeginResolve
  <2>3. ResolveOK(pass', ledger, hours)
    BY <1>0, <2>1, <2>2, ResolveBegins
  <2>4. UNCHANGED <<hours, ledger, picker>>
    BY <1>3 DEF BeginResolve
  <2>. QED  BY <1>0, <2>3, <2>4 DEF IgnInv, PassOK
<1>4. CASE ResolveOne
  <2>1. ResolveOK(pass, ledger, hours)
    BY <1>0, <1>4, PassAfter DEF ResolveOne
  <2>2. UNCHANGED <<hours, picker>>
    BY <1>4 DEF ResolveOne
  <2>3. PICK i \in pass.todo :
          /\ pass' = [pass EXCEPT !.todo = @ \ {i}]
          /\ UNCHANGED ledger \/ ledger' = AppendEvent(ledger, Event("resolved", i, Path(i.ts)))
    BY <1>4 DEF ResolveOne
  <2>4. CASE UNCHANGED ledger
    <3>1. ResolveOK(pass', ledger', hours')
      BY <2>1, <2>2, <2>3, <2>4, OneLess
    <3>. QED  BY <1>0, <2>2, <2>4, <3>1 DEF IgnInv, PassOK
  <2>5. ASSUME NEW e, e = Event("resolved", i, Path(i.ts)), ledger' = AppendEvent(ledger, e) PROVE IgnInv'
    <3>1. i \in Names
      BY <2>1 DEF ResolveOK
    <3>2. EventOK(e, "resolved", i)
      BY <1>0, <2>5, <3>1, EventIs
    <3>3. BetsOK(ledger', hours) /\ ResolveOK(pass', ledger', hours)
      BY <1>0, <2>1, <2>3, <2>5, <3>2, OutcomeLine
    <3>. QED  BY <1>0, <2>2, <3>3 DEF IgnInv, PassOK
  <2>. QED  BY <2>3, <2>4, <2>5
<1>5. CASE EndPass
  BY <1>0, <1>5 DEF EndPass, IgnInv, PassOK
<1>6. CASE ReadPick
  <2>1. picker' \in DOMAIN State(ledger) /\ UNCHANGED <<hours, ledger, pass>>
    BY <1>6 DEF ReadPick
  <2>2. picker' \in Names
    BY <1>0, <2>1, LedgerNames DEF BetsOK
  <2>. QED  BY <1>0, <2>1, <2>2 DEF IgnInv
<1>7. CASE WritePick
  <2>1. /\ picker \in Names /\ picker' = NoPick /\ UNCHANGED <<hours, pass>>
        /\ ledger' = AppendEvent(ledger, Event("pick", picker, {}))
    BY <1>0, <1>7 DEF WritePick
  <2>2. EventOK(Event("pick", picker, {}), "pick", picker)
    BY <1>0, <2>1, EventIs
  <2>3. BetsOK(ledger', hours) /\ PassOK(pass, ledger', hours)
    BY <1>0, <2>1, <2>2, PickLine
  <2>. QED  BY <1>0, <2>1, <2>3 DEF IgnInv
<1>8. CASE Tear
  <2>1. UNCHANGED hours
    BY <1>8 DEF Tear
  <2>2. CASE \E s \in {"torn", "whole"} :
               /\ picker # NoPick /\ ledger' = AppendEvent(ledger, [Event("pick", picker, {}) EXCEPT !.line = s])
               /\ picker' = NoPick /\ UNCHANGED pass
    <3>1. PICK s \in {"torn", "whole"} :
               /\ picker # NoPick /\ ledger' = AppendEvent(ledger, [Event("pick", picker, {}) EXCEPT !.line = s])
               /\ picker' = NoPick /\ UNCHANGED pass
      BY <2>2
    <3>2. EventOK([Event("pick", picker, {}) EXCEPT !.line = s], "pick", picker)
      BY <1>0, <3>1, EventIs
    <3>3. BetsOK(ledger', hours) /\ PassOK(pass, ledger', hours)
      BY <1>0, <3>1, <3>2, PickLine
    <3>. QED  BY <1>0, <2>1, <3>1, <3>3 DEF IgnInv
  <2>3. CASE \E t \in pass.todo, s \in {"torn", "whole"} :
               /\ pass.phase = "detect" /\ pass' = NoPass /\ UNCHANGED picker
               /\ ledger' = AppendEvent(ledger, [Event("ignition", [token |-> t, ts |-> pass.now], {})
                                                   EXCEPT !.line = s])
    <3>1. PICK t \in pass.todo, s \in {"torn", "whole"} :
               /\ pass.phase = "detect" /\ pass' = NoPass /\ UNCHANGED picker
               /\ ledger' = AppendEvent(ledger, [Event("ignition", [token |-> t, ts |-> pass.now], {})
                                                   EXCEPT !.line = s])
      BY <2>3
    <3>2. DetectOK(pass, ledger, hours)
      BY <1>0, <3>1, PassAfter
    <3>3. [token |-> t, ts |-> pass.now] \in Names
      BY <3>2 DEF DetectOK, Names
    <3>4. EventOK([Event("ignition", [token |-> t, ts |-> pass.now], {}) EXCEPT !.line = s],
                  "ignition", [token |-> t, ts |-> pass.now])
      BY <1>0, <3>3, EventIs
    <3>5. BetsOK(ledger', hours)
      BY <1>0, <3>1, <3>2, <3>4, IgnitionLine
    <3>. QED  BY <1>0, <2>1, <3>1, <3>5 DEF IgnInv, PassOK
  <2>4. CASE \E i \in pass.todo, s \in {"torn", "whole"} :
               /\ pass.phase = "resolve" /\ pass' = NoPass /\ UNCHANGED picker
               /\ ledger' = AppendEvent(ledger, [Event("resolved", i, Path(i.ts)) EXCEPT !.line = s])
    <3>1. PICK i \in pass.todo, s \in {"torn", "whole"} :
               /\ pass.phase = "resolve" /\ pass' = NoPass /\ UNCHANGED picker
               /\ ledger' = AppendEvent(ledger, [Event("resolved", i, Path(i.ts)) EXCEPT !.line = s])
      BY <2>4
    <3>2. ResolveOK(pass, ledger, hours)
      BY <1>0, <3>1, PassAfter
    <3>3. i \in Names
      BY <3>2 DEF ResolveOK
    <3>4. EventOK([Event("resolved", i, Path(i.ts)) EXCEPT !.line = s], "resolved", i)
      BY <1>0, <3>3, EventIs
    <3>5. BetsOK(ledger', hours)
      BY <1>0, <3>1, <3>2, <3>4, OutcomeLine
    <3>. QED  BY <1>0, <2>1, <3>1, <3>5 DEF IgnInv, PassOK
  <2>. QED  BY <1>8, <2>2, <2>3, <2>4 DEF Tear
<1>9. CASE Hour
  <2>1. hours' = hours + 1 /\ UNCHANGED <<ledger, pass, picker>>
    BY <1>9 DEF Hour
  <2>2. BetsOK(ledger, hours + 1) /\ PassOK(pass, ledger, hours + 1)
    BY <1>0, AnHourLater
  <2>. QED  BY <1>0, <2>1, <2>2 DEF IgnInv
<1>10. CASE UNCHANGED ignvars
  BY <1>0, <1>10 DEF IgnInv, ignvars
<1>. QED  BY <1>1, <1>2, <1>3, <1>4, <1>5, <1>6, <1>7, <1>8, <1>9, <1>10 DEF IgnNext

LEMMA IgnInvSeparates == IgnInv => BetsAreSeparate
<1>. SUFFICES ASSUME IgnInv PROVE BetsAreSeparate
  OBVIOUS
<1>1. \A kind, i : Lines(kind, i) = Whole(ledger, kind, i)
  BY DEF Lines, Whole
<1>2. BetsOK(ledger, hours)
  BY DEF IgnInv
<1>3. \A i : \A m, n \in Lines("resolved", i) : m = n
  BY <1>1, <1>2 DEF BetsOK, Booked
<1>4. \A i, j \in DOMAIN State(ledger) :
        j.token = i.token /\ i.ts < j.ts =>
          /\ j.ts - i.ts >= Cooldown
          /\ \A n \in Lines("ignition", j) : \E m \in Lines("resolved", i) : m < n
  BY <1>1, <1>2 DEF BetsOK, Booked, Apart
<1>. QED  BY <1>3, <1>4 DEF BetsAreSeparate

------------------------------------------------------------------------------
(* Every step of the records is one of each part, or leaves it as it is.     *)
LEMMA RecordStep ==
  ASSUME [BooksNext]_<<part, recordvars, papervars>>
  PROVE  [StoreNext]_storevars /\ [GraveNext]_gravevars /\ [IgnNext]_ignvars
<1>1. CASE BooksNext
  <2>1. CASE RecordsNext
    BY <1>1, <2>1 DEF BooksNext, RecordsNext
  <2>2. CASE UNCHANGED recordvars
    BY <1>1, <2>2 DEF BooksNext, recordvars
  <2>. QED  BY <1>1, <2>1, <2>2 DEF BooksNext
<1>2. CASE UNCHANGED <<part, recordvars, papervars>>
  BY <1>2 DEF recordvars
<1>. QED  BY <1>1, <1>2

(* A strategy asked about by its contents is found if and only if those      *)
(* contents were ever buried, under whatever name, and one asked about by    *)
(* its id revives only on a measurement that meets a condition it was buried *)
(* with (graveyard.py:60), for all strategies, conditions and burials.       *)
THEOREM CorpsesAlwaysCaught == BooksSpec => []CorpsesAreCaught
<1>1. BooksInit => GraveInv
  BY InitGraveInv DEF BooksInit
<1>2. GraveInv /\ [BooksNext]_<<part, recordvars, papervars>> => GraveInv'
  BY RecordStep, NextGraveInv
<1>3. GraveInv => CorpsesAreCaught
  BY DEF GraveInv
<1>. QED  BY <1>1, <1>2, <1>3, PTL DEF BooksSpec

(* After a sync the market lab's store holds every candle of its range, and  *)
(* each but the last as the venue has it, whatever the size of a page,       *)
(* however often the venue revises its last candle and a sync fails between  *)
(* two pages (store.py:84).                                                  *)
THEOREM SyncedStaysVenue == BooksSpec => []StoreIsVenue
<1>1. BooksInit => StoreInv
  BY InitStoreInv DEF BooksInit
<1>2. StoreInv /\ [BooksNext]_<<part, recordvars, papervars>> => StoreInv'
  BY RecordStep, NextStoreInv
<1>. QED  BY <1>1, <1>2, SyncedIsVenue, PTL DEF BooksSpec

(* Every ignition is one bet with one outcome, for every set of tokens,      *)
(* every hold window and cooldown, whatever the clock does between two       *)
(* readings of it and whoever dies in the middle of a line                   *)
(* (ignition_detector.py:52, mark_pick.py:30).                               *)
THEOREM BetsStaySeparate == BooksSpec => []BetsAreSeparate
<1>1. BooksInit => IgnInv
  BY InitIgnInv DEF BooksInit
<1>2. IgnInv /\ [BooksNext]_<<part, recordvars, papervars>> => IgnInv'
  BY RecordStep, NextIgnInv
<1>. QED  BY <1>1, <1>2, IgnInvSeparates, PTL DEF BooksSpec

------------------------------------------------------------------------------
(* The path of a bet is fetched backward: a page of candles, and what lies   *)
(* before its oldest.  That the recursion has a value everywhere is an       *)
(* argument from its lower end up, and so is what it leaves out.             *)
PageOf(cs, born, from, to) == {c \in cs : c > born /\ from <= c /\ c <= to}
PageAnd(page, end, earlier) ==
  IF page = {} \/ Min(page) >= end THEN page ELSE page \cup earlier[Min(page) - 1]
PageBefore(cs, born, end, earlier) ==
  IF end <= born THEN {} ELSE PageAnd(PageOf(cs, born, end - PageHours, end), end, earlier)
Pages(cs, born, n, g) == g = [end \in -1..n |-> PageBefore(cs, born, end, g)]
PagesTo(cs, born, n) == \E g : Pages(cs, born, n, g)
PathOver(cs, born, hrs) ==
  PageAnd(PageOf(cs, born, hrs - PageHours + 1, hrs), hrs + 1,
          CHOOSE g : g = [end \in -1..MaxHours |-> PageBefore(cs, born, end, g)])

LEMMA PathIsOver == ASSUME NEW born PROVE Path(born) = PathOver(candles, born, hours)
BY DEF Path, PathOver, PageAnd, PageOf, PageBefore

(* The oldest candle of a page is one of it, and after the one before.       *)
LEMMA PageStarts ==
  ASSUME NEW cs, cs \subseteq Nat, NEW born, NEW from, NEW to \in Int,
         PageOf(cs, born, from, to) # {}
  PROVE  LET page == PageOf(cs, born, from, to)
         IN  Min(page) \in page /\ Min(page) \in Nat /\ \A y \in page : Min(page) <= y
<1>. DEFINE page == PageOf(cs, born, from, to)
<1>2. page \subseteq Nat
  BY DEF PageOf
<1>0. \A c \in page : c <= to
  BY DEF PageOf
<1>. HIDE DEF page
<1>3. page # {}
  BY DEF page
<1>1. page \subseteq 0..to
  BY <1>0, <1>2
<1>4. PICK v \in page : \A w \in page : v <= w
  <2>. DEFINE f == [k \in page |-> 0 - k]
  <2>1. IsFiniteSet(page)
    <3>1. IsFiniteSet(0..to)
      BY FS_Interval
    <3>. QED  BY <1>1, <3>1, FS_Subset
  <2>2. \A k \in page : f[k] \in Int /\ f[k] = 0 - k
    BY <1>2
  <2>3. PICK v \in page : \A w \in page : f[w] <= f[v]
    <3>. HIDE DEF f
    <3>. QED  BY <1>3, <2>1, <2>2, Highest
  <2>. QED  BY <1>2, <2>2, <2>3
<1>5. Min(page) \in page /\ \A y \in page : Min(page) <= y
  BY <1>4 DEF Min
<1>. QED  BY <1>2, <1>5 DEF page

(* Only what was fetched before the page matters.                            *)
LEMMA EarlierOnly ==
  ASSUME NEW cs, cs \subseteq Nat, NEW born, NEW end \in Int, end >= -1, NEW g, NEW h,
         \A k \in -1..(end - 1) : g[k] = h[k]
  PROVE  PageBefore(cs, born, end, g) = PageBefore(cs, born, end, h)
<1>. DEFINE page == PageOf(cs, born, end - PageHours, end)
<1>1. CASE page = {} \/ Min(page) >= end
  BY <1>1 DEF PageBefore, PageAnd
<1>2. CASE ~(page = {} \/ Min(page) >= end)
  <2>1. Min(page) \in Nat
    BY <1>2, PageStarts
  <2>2. Min(page) - 1 \in -1..(end - 1)
    BY <1>2, <2>1
  <2>3. g[Min(page) - 1] = h[Min(page) - 1]
    BY <2>2
  <2>. QED  BY <1>2, <2>3 DEF PageBefore, PageAnd
<1>. QED  BY <1>1, <1>2

LEMMA PagesBegin ==
  ASSUME NEW cs, cs \subseteq Nat, NEW born
  PROVE  PagesTo(cs, born, -1)
<1>. DEFINE none == [end \in -1..-1 |-> {}]
            g == [end \in -1..-1 |-> PageBefore(cs, born, end, none)]
<1>1. \A end \in -1..-1 : PageBefore(cs, born, end, g) = PageBefore(cs, born, end, none)
  <2>. HIDE DEF g, none
  <2>1. ASSUME NEW end \in -1..-1
        PROVE  PageBefore(cs, born, end, g) = PageBefore(cs, born, end, none)
    <3>1. end \in Int /\ end >= -1 /\ \A k \in -1..(end - 1) : g[k] = none[k]
      OBVIOUS
    <3>. QED  BY <3>1, EarlierOnly
  <2>. QED  BY <2>1
<1>2. g = [end \in -1..-1 |-> PageBefore(cs, born, end, g)]
  BY <1>1
<1>. HIDE DEF g
<1>. QED  BY <1>2 DEF PagesTo, Pages

LEMMA PagesGoOn ==
  ASSUME NEW cs, cs \subseteq Nat, NEW born, NEW n \in Nat, PagesTo(cs, born, n - 1)
  PROVE  PagesTo(cs, born, n)
<1>1. PICK g : g = [end \in -1..(n - 1) |-> PageBefore(cs, born, end, g)]
  BY DEF PagesTo, Pages
<1>. DEFINE h == [end \in -1..n |-> PageBefore(cs, born, end, g)]
<1>2. \A k \in -1..(n - 1) : k \in -1..n /\ g[k] = h[k]
  BY <1>1
<1>3. DOMAIN h = -1..n /\ \A end \in -1..n : h[end] = PageBefore(cs, born, end, g)
  OBVIOUS
<1>4. ASSUME NEW end \in -1..n
      PROVE  PageBefore(cs, born, end, g) = PageBefore(cs, born, end, h)
  <2>. HIDE DEF h
  <2>1. \A k \in -1..(end - 1) : k \in -1..(n - 1)
    OBVIOUS
  <2>2. \A k \in -1..(end - 1) : g[k] = h[k]
    BY <1>2, <2>1
  <2>3. end \in Int /\ end >= -1
    OBVIOUS
  <2>. QED  BY <2>2, <2>3, EarlierOnly
<1>5. h = [end \in -1..n |-> PageBefore(cs, born, end, h)]
  BY <1>4
<1>. HIDE DEF h
<1>. QED  BY <1>5 DEF PagesTo, Pages

LEMMA PagesThere ==
  ASSUME NEW cs, cs \subseteq Nat, NEW born, NEW n \in Nat
  PROVE  PagesTo(cs, born, n)
<1>. DEFINE Bad == {k \in 0..n : ~PagesTo(cs, born, k)}
<1>. SUFFICES ASSUME Bad # {} PROVE FALSE
  OBVIOUS
<1>1. PICK k \in Bad : k \in 0..n /\ (k # 0 => k - 1 \in 0..n /\ k - 1 \notin Bad)
  <2>1. Bad \subseteq 0..n
    OBVIOUS
  <2>. HIDE DEF Bad
  <2>. QED  BY <2>1, FirstBad
<1>2. k \in Nat /\ ~PagesTo(cs, born, k)
  BY <1>1
<1>3. PagesTo(cs, born, k - 1)
  <2>1. CASE k = 0
    <3>1. k - 1 = -1
      BY <2>1
    <3>. QED  BY <3>1, PagesBegin
  <2>2. CASE k # 0
    BY <1>1, <2>2
  <2>. QED  BY <2>1, <2>2
<1>. QED  BY <1>2, <1>3, PagesGoOn

(* What is left out lies before a silence longer than a page.                *)
LeavesOut(cs, born, end, got) ==
  /\ got \subseteq PageOf(cs, born, 0, end)
  /\ \A c \in cs \ got :
       born < c /\ c <= end => end - c > PageHours /\ \A p \in got : p - c > PageHours

LEMMA PageLeavesOut ==
  ASSUME NEW cs, cs \subseteq Nat, NEW born \in Int, NEW end \in Int, NEW to \in {end - 1, end},
         to = end - 1 => \A c \in cs : c # end,
         NEW earlier,
         \A k \in -1..(end - 1) : LeavesOut(cs, born, k, earlier[k])
  PROVE  LeavesOut(cs, born, end, PageAnd(PageOf(cs, born, end - PageHours, to), end, earlier))
<1>. DEFINE page == PageOf(cs, born, end - PageHours, to)
            got == PageAnd(page, end, earlier)
<1>. SUFFICES LeavesOut(cs, born, end, got)
  OBVIOUS
<1>0. PageHours \in Nat
  BY WindowAssumption
<1>7. \A c \in cs : c \in Nat /\ c \in Int /\ 0 <= c
  OBVIOUS
<1>1. \A c : c \in page <=> c \in cs /\ c > born /\ end - PageHours <= c /\ c <= end
  <2>1. \A c \in cs : c <= to <=> c <= end
    BY DEF PageOf
  <2>. QED  BY <2>1 DEF PageOf
<1>2. page # {} => Min(page) \in page /\ Min(page) \in Nat /\ \A y \in page : Min(page) <= y
  <2>1. to \in Int
    OBVIOUS
  <2>. QED  BY <2>1, PageStarts
<1>. DEFINE m == Min(page)
<1>3. ASSUME NEW c \in cs, c \notin page, born < c, c <= end
      PROVE  end - c > PageHours
  BY <1>0, <1>1, <1>3
<1>. HIDE DEF page, m
<1>4. CASE page = {} \/ m >= end
  <2>1. got = page
    BY <1>4 DEF PageAnd, m
  <2>. HIDE DEF got
  <2>2. page \subseteq PageOf(cs, born, 0, end)
    <3>1. \A c \in page : c \in Nat /\ 0 <= c /\ c \in cs /\ c > born /\ c <= end
      BY <1>1, <1>7
    <3>. QED  BY <3>1 DEF PageOf
  <2>3. ASSUME NEW c \in cs, c \notin page, born < c, c <= end, NEW p \in page
        PROVE  p - c > PageHours
    <3>1. p \in Nat /\ p <= end /\ m <= p /\ m \in Nat
      BY <1>1, <1>2 DEF m
    <3>2. p = end
      BY <1>4, <3>1
    <3>. QED  BY <1>3, <2>3, <3>2
  <2>4. \A c \in cs \ page : born < c /\ c <= end =>
            end - c > PageHours /\ \A p \in page : p - c > PageHours
    BY <1>3, <2>3
  <2>5. LeavesOut(cs, born, end, page)
    BY <2>2, <2>4 DEF LeavesOut
  <2>. QED  BY <2>1, <2>5
<1>5. CASE ~(page = {} \/ m >= end)
  <2>. DEFINE rest == earlier[m - 1]
  <2>1. got = page \cup rest
    BY <1>5 DEF PageAnd, m
  <2>2. m \in page /\ m \in Nat /\ m < end /\ \A y \in page : m <= y
    BY <1>2, <1>5 DEF m
  <2>3. m - 1 \in -1..(end - 1) /\ m - 1 \in Int
    BY <2>2
  <2>4. LeavesOut(cs, born, m - 1, rest)
    BY <2>3
  <2>. HIDE DEF rest
  <2>5. got \subseteq PageOf(cs, born, 0, end)
    <3>1. page \subseteq PageOf(cs, born, 0, end)
      <4>1. \A c \in page : c \in Nat /\ 0 <= c /\ c \in cs /\ c > born /\ c <= end
        BY <1>1, <1>7
      <4>. QED  BY <4>1 DEF PageOf
    <3>2. rest \subseteq PageOf(cs, born, 0, end)
      BY <2>2, <2>4 DEF LeavesOut, PageOf
    <3>. QED  BY <2>1, <3>1, <3>2
  <2>6. ASSUME NEW c \in cs, c \notin got, born < c, c <= end, NEW p \in got
        PROVE  p - c > PageHours
    <3>1. c \in Nat /\ c \notin page /\ c \notin rest
      BY <2>1, <2>6
    <3>2. end - c > PageHours
      BY <1>3, <2>6, <3>1
    <3>3. end - PageHours <= m
      BY <1>1, <2>2
    <3>4. c <= m - 1
      BY <1>0, <2>2, <3>1, <3>2, <3>3
    <3>5. (m - 1) - c > PageHours /\ \A q \in rest : q - c > PageHours
      BY <2>4, <2>6, <3>1, <3>4 DEF LeavesOut
    <3>6. CASE p \in page
      <4>1. p \in Nat /\ m <= p
        BY <1>1, <2>2, <3>6
      <4>. QED  BY <1>0, <2>2, <3>1, <3>5, <4>1
    <3>7. CASE p \in rest
      BY <3>5, <3>7
    <3>. QED  BY <2>1, <3>6, <3>7
  <2>7. \A c \in cs \ got : born < c /\ c <= end => end - c > PageHours
    BY <1>3, <2>1
  <2>. HIDE DEF got
  <2>8. \A c \in cs \ got : born < c /\ c <= end =>
            end - c > PageHours /\ \A p \in got : p - c > PageHours
    BY <2>6, <2>7
  <2>. QED  BY <2>5, <2>8 DEF LeavesOut
<1>. HIDE DEF got
<1>. QED  BY <1>4, <1>5

LEMMA PathLeavesOut ==
  ASSUME NEW hrs \in Nat, hrs <= MaxHours, NEW cs, cs \subseteq 0..hrs, NEW born \in Int
  PROVE  LeavesOut(cs, born, hrs + 1, PathOver(cs, born, hrs))
<1>. DEFINE g == CHOOSE h : h = [end \in -1..MaxHours |-> PageBefore(cs, born, end, h)]
<1>0. MaxHours \in Nat /\ PageHours \in Nat
  BY WindowAssumption
<1>1. cs \subseteq Nat /\ \A c \in cs : c # hrs + 1
  OBVIOUS
<1>2. g = [end \in -1..MaxHours |-> PageBefore(cs, born, end, g)]
  <2>1. \E h : h = [end \in -1..MaxHours |-> PageBefore(cs, born, end, h)]
    <3>1. PagesTo(cs, born, MaxHours)
      BY <1>0, <1>1, PagesThere
    <3>2. PICK h : Pages(cs, born, MaxHours, h)
      BY <3>1 DEF PagesTo
    <3>. QED  BY <3>2 DEF Pages
  <2>. QED  BY <2>1
<1>3. PathOver(cs, born, hrs) = PageAnd(PageOf(cs, born, hrs - PageHours + 1, hrs), hrs + 1, g)
  BY DEF PathOver
<1>. HIDE DEF g
<1>4. ASSUME NEW end \in -1..MaxHours, \A k \in -1..(end - 1) : LeavesOut(cs, born, k, g[k])
      PROVE  LeavesOut(cs, born, end, g[end])
  <2>1. g[end] = PageBefore(cs, born, end, g)
    BY <1>2
  <2>2. CASE end <= born
    <3>1. g[end] = {}
      BY <2>1, <2>2 DEF PageBefore
    <3>2. \A c \in cs : ~(born < c /\ c <= end)
      <4>1. \A c \in cs : c \in Int
        BY <1>1
      <4>. QED  BY <2>2, <4>1
    <3>. QED  BY <3>1, <3>2 DEF LeavesOut
  <2>3. CASE ~(end <= born)
    <3>1. g[end] = PageAnd(PageOf(cs, born, end - PageHours, end), end, g)
      BY <2>1, <2>3 DEF PageBefore
    <3>2. end \in Int /\ end \in {end - 1, end} /\ end # end - 1
      OBVIOUS
    <3>3. LeavesOut(cs, born, end, PageAnd(PageOf(cs, born, end - PageHours, end), end, g))
      BY <1>1, <1>4, <3>2, PageLeavesOut
    <3>. QED  BY <3>1, <3>3
  <2>. QED  BY <2>2, <2>3
<1>5. \A end \in -1..MaxHours : LeavesOut(cs, born, end, g[end])
  <2>. DEFINE Bad == {k \in 0..(MaxHours + 1) : \E j \in -1..(k - 1) : ~LeavesOut(cs, born, j, g[j])}
  <2>1. Bad = {}
    <3>. SUFFICES ASSUME Bad # {} PROVE FALSE
      OBVIOUS
    <3>1. PICK k \in Bad : k \in 0..(MaxHours + 1) /\ (k # 0 => k - 1 \in 0..(MaxHours + 1) /\ k - 1 \notin Bad)
      <4>1. Bad \subseteq 0..(MaxHours + 1) /\ MaxHours + 1 \in Nat
        BY <1>0
      <4>. HIDE DEF Bad
      <4>. QED  BY <4>1, FirstBad
    <3>2. PICK j \in -1..(k - 1) : ~LeavesOut(cs, born, j, g[j])
      BY <3>1
    <3>3. \A i \in -1..(k - 2) : LeavesOut(cs, born, i, g[i])
      <4>1. CASE k = 0
        BY <4>1
      <4>2. CASE k # 0
        <5>1. k - 1 \in 0..(MaxHours + 1) /\ k - 1 \notin Bad /\ (k - 1) - 1 = k - 2
          BY <1>0, <3>1, <4>2
        <5>2. \A i \in -1..((k - 1) - 1) : LeavesOut(cs, born, i, g[i])
          BY <5>1
        <5>. QED  BY <5>1, <5>2
      <4>. QED  BY <4>1, <4>2
    <3>4. j \in -1..MaxHours /\ \A i \in -1..(j - 1) : i \in -1..(k - 2)
      BY <1>0, <3>1, <3>2
    <3>. QED  BY <1>4, <3>2, <3>3, <3>4
  <2>2. ASSUME NEW end \in -1..MaxHours PROVE LeavesOut(cs, born, end, g[end])
    <3>1. MaxHours + 1 \in 0..(MaxHours + 1) /\ end \in -1..((MaxHours + 1) - 1)
      BY <1>0
    <3>2. MaxHours + 1 \notin Bad
      BY <2>1
    <3>. QED  BY <3>1, <3>2
  <2>. QED  BY <2>2
<1>6. /\ hrs + 1 \in Int /\ hrs \in {(hrs + 1) - 1, hrs + 1} /\ hrs - PageHours + 1 = (hrs + 1) - PageHours
      /\ \A k \in -1..((hrs + 1) - 1) : k \in -1..MaxHours
  BY <1>0
<1>7. LeavesOut(cs, born, hrs + 1, PageAnd(PageOf(cs, born, (hrs + 1) - PageHours, hrs), hrs + 1, g))
  BY <1>1, <1>5, <1>6, PageLeavesOut
<1>. QED  BY <1>3, <1>6, <1>7

(* Hence what a line says of a bet holds of the candles there are, and an    *)
(* hour later of no fewer: what is new is later than the line.               *)
LineIsWhole(cs, e) ==
  e.kind = "resolved" =>
    \A c \in cs \ e.path, p \in e.path : e.id.ts < c /\ c <= e.at => p - c > PageHours
LinesAreWhole(cs, hrs, l) == \A n \in DOMAIN l : l[n].at \in 0..hrs /\ LineIsWhole(cs, l[n])
PathInv ==
  /\ IgnInv /\ hours <= MaxHours /\ candles \subseteq 0..hours
  /\ LinesAreWhole(candles, hours, ledger)

LEMMA LinesStayWhole ==
  ASSUME NEW cs, NEW hrs \in Nat, NEW l, Ledgers(l), LinesAreWhole(cs, hrs, l),
         NEW e, e \in EventsOver({e.path}), e.at = hrs, LineIsWhole(cs, e)
  PROVE  LinesAreWhole(cs, hrs, AppendEvent(l, e))
<1>1. PICK P : l \in Seq(EventsOver(P))
  BY DEF Ledgers
<1>. DEFINE n == Len(l)  s == IF e.line = "whole" THEN "spoilt" ELSE "torn"
<1>2. n \in Nat /\ DOMAIN l = 1..n
  BY <1>1
<1>3. CASE l # <<>> /\ Last(l).line = "torn"
  <2>. DEFINE m == [l EXCEPT ![n].line = s]
  <2>1. AppendEvent(l, e) = m
    BY <1>3 DEF AppendEvent
  <2>2. DOMAIN m = DOMAIN l
    OBVIOUS
  <2>3. ASSUME NEW k \in DOMAIN m
        PROVE  m[k].kind = l[k].kind /\ m[k].id = l[k].id /\ m[k].at = l[k].at /\ m[k].path = l[k].path
    <3>1. l[k] \in EventsOver(P)
      BY <1>1, <1>2
    <3>2. CASE k # n
      BY <1>2, <3>2
    <3>3. CASE k = n
      <4>1. m[k] = [l[k] EXCEPT !.line = s]
        BY <1>2, <3>3
      <4>. QED  BY <3>1, <4>1 DEF EventsOver
    <3>. QED  BY <3>2, <3>3
  <2>. HIDE DEF m
  <2>. QED  BY <2>1, <2>2, <2>3 DEF LinesAreWhole, LineIsWhole
<1>4. CASE ~(l # <<>> /\ Last(l).line = "torn")
  <2>. DEFINE m == Append(l, e)
  <2>1. AppendEvent(l, e) = m
    BY <1>4 DEF AppendEvent
  <2>2. DOMAIN m = 1..(n + 1) /\ m[n + 1] = e /\ \A k \in 1..n : m[k] = l[k]
    BY <1>1, <1>2
  <2>3. \A k \in DOMAIN m : k \in 1..n \/ k = n + 1
    BY <1>2, <2>2
  <2>. HIDE DEF m
  <2>4. \A k \in 1..n : m[k].at \in 0..hrs /\ LineIsWhole(cs, m[k])
    BY <1>2, <2>2 DEF LinesAreWhole
  <2>5. m[n + 1].at \in 0..hrs /\ LineIsWhole(cs, m[n + 1])
    BY <2>2
  <2>. QED  BY <2>1, <2>3, <2>4, <2>5 DEF LinesAreWhole
<1>. QED  BY <1>3, <1>4

(* What the detector books at this hour.                                     *)
LEMMA OutcomeIsWhole ==
  ASSUME PathInv, NEW i \in Names, NEW s \in {"torn", "whole"}, NEW e,
         e = [Event("resolved", i, Path(i.ts)) EXCEPT !.line = s]
  PROVE  e \in EventsOver({e.path}) /\ e.at = hours /\ LineIsWhole(candles, e)
<1>1. hours \in Nat /\ hours <= MaxHours /\ candles \subseteq 0..hours /\ i.ts \in Int
  BY DEF PathInv, IgnInv, Names
<1>2. LeavesOut(candles, i.ts, hours + 1, Path(i.ts))
  <2>1. LeavesOut(candles, i.ts, hours + 1, PathOver(candles, i.ts, hours))
    BY <1>1, PathLeavesOut
  <2>. QED  BY <2>1, PathIsOver
<1>3. /\ e = [kind |-> "resolved", id |-> i, at |-> hours, path |-> Path(i.ts), line |-> s]
      /\ e.kind = "resolved" /\ e.id = i /\ e.at = hours /\ e.path = Path(i.ts)
  BY DEF Event
<1>4. e \in EventsOver({e.path})
  <2>1. EventOK(e, "resolved", i)
    BY <1>1, EventIs
  <2>. QED  BY <2>1 DEF EventOK
<1>5. \A c \in candles \ e.path, p \in e.path : e.id.ts < c /\ c <= e.at => p - c > PageHours
  <2>1. \A c \in candles : c <= hours => c <= hours + 1
    BY <1>1
  <2>. QED  BY <1>2, <1>3, <2>1 DEF LeavesOut
<1>. QED  BY <1>3, <1>4, <1>5 DEF LineIsWhole

(* An ignition and a pick say nothing of a path.                             *)
LEMMA OtherIsWhole ==
  ASSUME PathInv, NEW kind \in {"ignition", "pick"}, NEW i \in Names, NEW s \in {"torn", "whole"}, NEW e,
         e = [Event(kind, i, {}) EXCEPT !.line = s]
  PROVE  e \in EventsOver({e.path}) /\ e.at = hours /\ LineIsWhole(candles, e)
<1>1. hours \in Nat
  BY DEF PathInv, IgnInv
<1>2. EventOK(e, kind, i)
  BY <1>1, EventIs
<1>3. e.kind = kind /\ e.at = hours
  BY DEF Event
<1>. QED  BY <1>2, <1>3 DEF EventOK, LineIsWhole

LEMMA WholeIsWhole ==
  ASSUME NEW kind, NEW i, NEW path
  PROVE  Event(kind, i, path) = [Event(kind, i, path) EXCEPT !.line = "whole"]
BY DEF Event

(* Every step leaves the ledger, or writes one line of these.                *)
WritesWhole(l, m) ==
  \E e : e \in EventsOver({e.path}) /\ e.at = hours /\ LineIsWhole(candles, e) /\ m = AppendEvent(l, e)

LEMMA LineWrittenIsWhole ==
  ASSUME PathInv, [IgnNext]_ignvars
  PROVE  UNCHANGED ledger \/ (WritesWhole(ledger, ledger') /\ UNCHANGED <<hours, candles>>)
<1>0. PassOK(pass, ledger, hours) /\ (picker # NoPick => picker \in Names)
  BY DEF PathInv, IgnInv
<1>1. ASSUME NEW t \in pass.todo, pass.phase = "detect"
      PROVE  [token |-> t, ts |-> pass.now] \in Names
  <2>1. DetectOK(pass, ledger, hours)
    BY <1>0, <1>1, PassAfter
  <2>. QED  BY <2>1 DEF DetectOK, Names
<1>2. ASSUME NEW i \in pass.todo, pass.phase = "resolve" PROVE i \in Names
  <2>1. ResolveOK(pass, ledger, hours)
    BY <1>0, <1>2, PassAfter
  <2>. QED  BY <2>1 DEF ResolveOK
<1>3. ASSUME NEW kind \in {"ignition", "pick"}, NEW i \in Names, NEW s \in {"torn", "whole"},
             ledger' = AppendEvent(ledger, [Event(kind, i, {}) EXCEPT !.line = s])
      PROVE  WritesWhole(ledger, ledger')
  BY <1>3, OtherIsWhole DEF WritesWhole
<1>4. ASSUME NEW i \in Names, NEW s \in {"torn", "whole"},
             ledger' = AppendEvent(ledger, [Event("resolved", i, Path(i.ts)) EXCEPT !.line = s])
      PROVE  WritesWhole(ledger, ledger')
  BY <1>4, OutcomeIsWhole DEF WritesWhole
<1>5. CASE DetectOne
  <2>1. UNCHANGED <<hours, candles>> /\ pass.phase = "detect"
    BY <1>5 DEF DetectOne
  <2>2. PICK t \in pass.todo :
          \/ UNCHANGED ledger
          \/ ledger' = AppendEvent(ledger, Event("ignition", [token |-> t, ts |-> pass.now], {}))
    BY <1>5 DEF DetectOne
  <2>3. ASSUME ledger' = AppendEvent(ledger, Event("ignition", [token |-> t, ts |-> pass.now], {}))
        PROVE  WritesWhole(ledger, ledger')
    <3>. DEFINE id == [token |-> t, ts |-> pass.now]
    <3>1. id \in Names
      BY <1>1, <2>1
    <3>. HIDE DEF id
    <3>2. Event("ignition", id, {}) = [Event("ignition", id, {}) EXCEPT !.line = "whole"]
      BY WholeIsWhole
    <3>3. ledger' = AppendEvent(ledger, [Event("ignition", id, {}) EXCEPT !.line = "whole"])
      BY <2>3, <3>2 DEF id
    <3>. QED  BY <1>3, <3>1, <3>3
  <2>. QED  BY <2>1, <2>2, <2>3
<1>6. CASE ResolveOne
  <2>1. UNCHANGED <<hours, candles>> /\ pass.phase = "resolve"
    BY <1>6 DEF ResolveOne
  <2>2. PICK i \in pass.todo :
          UNCHANGED ledger \/ ledger' = AppendEvent(ledger, Event("resolved", i, Path(i.ts)))
    BY <1>6 DEF ResolveOne
  <2>3. ASSUME ledger' = AppendEvent(ledger, Event("resolved", i, Path(i.ts)))
        PROVE  WritesWhole(ledger, ledger')
    <3>1. i \in Names
      BY <1>2, <2>1
    <3>2. Event("resolved", i, Path(i.ts)) = [Event("resolved", i, Path(i.ts)) EXCEPT !.line = "whole"]
      BY WholeIsWhole
    <3>3. ledger' = AppendEvent(ledger, [Event("resolved", i, Path(i.ts)) EXCEPT !.line = "whole"])
      BY <2>3, <3>2
    <3>. QED  BY <1>4, <3>1, <3>3
  <2>. QED  BY <2>1, <2>2, <2>3
<1>7. CASE WritePick
  <2>1. UNCHANGED <<hours, candles>> /\ ledger' = AppendEvent(ledger, Event("pick", picker, {})) /\ picker \in Names
    BY <1>0, <1>7 DEF WritePick
  <2>. QED  BY <1>3, <2>1, WholeIsWhole
<1>8. CASE Tear
  <2>1. UNCHANGED <<hours, candles>>
    BY <1>8 DEF Tear
  <2>2. CASE /\ picker # NoPick
             /\ \E s \in {"torn", "whole"} :
                  ledger' = AppendEvent(ledger, [Event("pick", picker, {}) EXCEPT !.line = s])
    BY <1>0, <1>3, <2>1, <2>2
  <2>3. CASE /\ pass.phase = "detect"
             /\ \E t \in pass.todo, s \in {"torn", "whole"} :
                  ledger' = AppendEvent(ledger, [Event("ignition", [token |-> t, ts |-> pass.now], {})
                                                   EXCEPT !.line = s])
    BY <1>1, <1>3, <2>1, <2>3
  <2>4. CASE /\ pass.phase = "resolve"
             /\ \E i \in pass.todo, s \in {"torn", "whole"} :
                  ledger' = AppendEvent(ledger, [Event("resolved", i, Path(i.ts)) EXCEPT !.line = s])
    BY <1>2, <1>4, <2>1, <2>4
  <2>. QED  BY <1>8, <2>2, <2>3, <2>4 DEF Tear
<1>9. CASE Begin \/ BeginResolve \/ EndPass \/ ReadPick \/ Hour \/ UNCHANGED ignvars
  BY <1>9 DEF Begin, BeginResolve, EndPass, ReadPick, Hour, ignvars
<1>. QED  BY <1>5, <1>6, <1>7, <1>8, <1>9 DEF IgnNext

LEMMA InitPathInv == IgnInit => PathInv
<1>1. IgnInit => MaxHours \in Nat /\ hours = 0 /\ ledger = <<>> /\ candles = {}
  BY WindowAssumption DEF IgnInit
<1>. QED  BY <1>1, InitIgnInv DEF PathInv, LinesAreWhole

LEMMA NextPathInv == PathInv /\ [IgnNext]_ignvars => PathInv'
<1>. SUFFICES ASSUME PathInv, [IgnNext]_ignvars PROVE PathInv'
  OBVIOUS
<1>1. IgnInv' /\ hours \in Nat /\ Ledgers(ledger)
  BY NextIgnInv DEF PathInv, IgnInv, BetsOK
<1>2. CASE Hour
  <2>1. /\ hours' = hours + 1 /\ hours < MaxHours /\ UNCHANGED ledger
        /\ candles \subseteq candles' /\ candles' \subseteq candles \cup {hours + 1}
    BY <1>2 DEF Hour
  <2>2. hours' <= MaxHours /\ candles' \subseteq 0..hours'
    BY <1>1, <2>1, WindowAssumption DEF PathInv
  <2>3. ASSUME NEW n \in DOMAIN ledger
        PROVE  ledger[n].at \in 0..(hours + 1) /\ LineIsWhole(candles', ledger[n])
    <3>1. ledger[n].at \in 0..hours /\ LineIsWhole(candles, ledger[n])
      BY DEF PathInv, LinesAreWhole
    <3>2. \A c \in candles' : c <= ledger[n].at => c \in candles
      BY <1>1, <2>1, <3>1
    <3>. QED  BY <1>1, <3>1, <3>2 DEF LineIsWhole
  <2>. QED  BY <1>1, <2>1, <2>2, <2>3 DEF PathInv, LinesAreWhole
<1>3. CASE UNCHANGED <<hours, candles>> /\ UNCHANGED ledger
  BY <1>1, <1>3 DEF PathInv
<1>4. CASE UNCHANGED <<hours, candles>> /\ WritesWhole(ledger, ledger')
  <2>1. LinesAreWhole(candles, hours, ledger')
    BY <1>1, <1>4, LinesStayWhole DEF PathInv, WritesWhole
  <2>. QED  BY <1>1, <1>4, <2>1 DEF PathInv
<1>5. ~Hour => UNCHANGED <<hours, candles>>
  BY DEF IgnNext, Begin, DetectOne, BeginResolve, ResolveOne, EndPass, ReadPick, WritePick, Tear, ignvars
<1>. QED  BY <1>2, <1>3, <1>4, <1>5, LineWrittenIsWhole

(* A booked outcome was worked out of every candle since the ignition, save  *)
(* for those on the far side of a silence of more than a page, for every     *)
(* size of a page, whenever trades happened and whoever died in the middle   *)
(* of a line (_coinbase.py:56, ignition_detector.py:77).                     *)
THEOREM PathsAreWhole == BooksSpec => []PathIsWhole
<1>1. BooksInit => PathInv
  BY InitPathInv DEF BooksInit
<1>2. PathInv /\ [BooksNext]_<<part, recordvars, papervars>> => PathInv'
  BY RecordStep, NextPathInv
<1>3. PathInv => PathIsWhole
  BY DEF PathInv, LinesAreWhole, LineIsWhole, PathIsWhole
<1>. QED  BY <1>1, <1>2, <1>3, PTL DEF BooksSpec
==============================================================================
