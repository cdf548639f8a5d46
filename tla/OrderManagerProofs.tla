-------------------------- MODULE OrderManagerProofs --------------------------
(***************************************************************************)
(* Theorems about OrderManager, for every set of orders and every value of *)
(* the bounds.  Each invariant is the conjunction of those before it and   *)
(* one more part; a lemma per part shows that Next preserves it.           *)
(***************************************************************************)
EXTENDS OrderManager, TLAPS

-----------------------------------------------------------------------------
(* Types, and which call works on what                                     *)

(* The labels at which the running call works on the order cur.            *)
Working == {"place", "await", "reconcile", "append", "checkpoint"}

CallOK ==
  /\ pc \in Working => cur \in Orders /\ op \in {"submit", "recover"}
  /\ pc \in {"place", "await"} => op = "submit"
  /\ pc = "sweep" => op = "recover"
  /\ pc \in {"idle", "down"} \/ op = "submit" => todo = {}
  /\ pc \in {"idle", "down"} => cur = NoOrder
  /\ cur \notin todo

TypeInv == TypeOK /\ CallOK

LEMMA InitTypeInv == Init => TypeInv
<1> SUFFICES ASSUME Init PROVE TypeInv
  OBVIOUS
<1>1. Absent \in Records
  BY DEF Absent, Records, States
<1>2. wire \in [Orders -> Nat] /\ active \in [Orders -> 0 .. Lots]
  BY BoundsAssumption DEF Init
<1>3. TypeOK
  BY <1>1, <1>2 DEF Init, TypeOK, Labels, Answers, States
<1> QED
  BY <1>3 DEF Init, TypeInv, CallOK, Working

USE DEF vars, manager, journal, exchange, history

(* The operations on one record yield a record.                            *)
LEMMA RecordOps ==
  ASSUME NEW r \in Records
  PROVE  /\ r.st \in States /\ r.oid \in BOOLEAN /\ r.attempts \in Nat /\ r.fill \in Nat
         /\ Attempt(r) \in Records
         /\ Uncertain(r) \in Records
         /\ \A st \in States : [r EXCEPT !.st = st] \in Records
         /\ \A a \in Answers : AfterAnswer(r, a) \in Records
         /\ \A n \in Nat : AfterFill(r, n) \in Records
<1>1. r.st \in States /\ r.oid \in BOOLEAN /\ r.attempts \in Nat /\ r.fill \in Nat
  BY DEF Records
<1>2. Attempt(r) \in Records
  BY <1>1 DEF Records, Attempt
<1>3. ASSUME NEW st \in States PROVE [r EXCEPT !.st = st] \in Records
  BY <1>1 DEF Records
<1>4. "submitted" \in States /\ "rejected" \in States /\ "unknown" \in States /\ "filled" \in States
  BY DEF States, InFlight, Terminal
<1>5. Uncertain(r) \in Records
  BY <1>3, <1>4 DEF Uncertain
<1>6. ASSUME NEW a \in Answers PROVE AfterAnswer(r, a) \in Records
  <2>1. [r EXCEPT !.st = "submitted", !.oid = (a = "ok")] \in Records
    BY <1>1, <1>4 DEF Records
  <2> QED
    BY <2>1, <1>3, <1>4, <1>5 DEF AfterAnswer
<1>7. ASSUME NEW n \in Nat PROVE AfterFill(r, n) \in Records
  BY <1>1, <1>4 DEF Records, AfterFill
<1> QED
  BY <1>1, <1>2, <1>3, <1>5, <1>6, <1>7

LEMMA NextTypeInv == TypeInv /\ [Next]_vars => TypeInv'
<1> SUFFICES ASSUME TypeInv, [Next]_vars PROVE TypeInv'
  OBVIOUS
<1> USE BoundsAssumption, OrdersAssumption
        DEF TypeInv, TypeOK, CallOK, Working, Labels, Answers, Leave
<1>2. Absent \in Records /\ Placing \in Records /\ Terminal \cup {"open"} \subseteq States
  BY DEF Absent, Placing, Records, States, Terminal, InFlight
<1>3. CASE Append
  BY <1>3 DEF Append
<1>4. CASE Checkpoint
  BY <1>4, RecordOps DEF Checkpoint, Snapshot, ContinueAt, Return
<1>5. CASE DiskError
  BY <1>5 DEF DiskError, Abort
<1>6. ASSUME NEW o \in Orders, SubmitNew(o) PROVE TypeInv'
  BY <1>6, <1>2 DEF SubmitNew
<1>7. ASSUME NEW o \in Orders, SubmitAgain(o) PROVE TypeInv'
  BY <1>7 DEF SubmitAgain, ResumeAt
<1>8. ASSUME NEW o \in Orders, SubmitSettled(o) PROVE TypeInv'
  BY <1>8, RecordOps DEF SubmitSettled
<1>9. CASE GiveUp
  BY <1>9, RecordOps DEF GiveUp, Return
<1>10. CASE Post
  BY <1>10, RecordOps DEF Post
<1>11. CASE RefusedLocally
  BY <1>11, RecordOps, <1>2 DEF RefusedLocally, Set, Terminal
<1>12. CASE PlaceRaises
  BY <1>12, RecordOps DEF PlaceRaises, Abort
<1>13. CASE Answered
  BY <1>13, RecordOps DEF Answered, Set
<1>14. CASE TimedOut
  BY <1>14, RecordOps DEF TimedOut, Set
<1>15. CASE ReconcileFill
  <2>1. Shown(cur) \subseteq Nat
    BY <1>15 DEF ReconcileFill, Shown
  <2>2. PICK lots \in Nat : Set(AfterFill(mem[cur], lots))
    BY <1>15, <2>1 DEF ReconcileFill
  <2> QED
    BY <1>15, <2>2, RecordOps DEF ReconcileFill, Set
<1>16. ASSUME pc = "reconcile", NoFill,
              UNCHANGED <<recovered, answer, journal, exchange, posts, told, crashes>>,
              asked' \in [Orders -> BOOLEAN]
       PROVE  TypeInv'
  <2>1. CASE Set([mem[cur] EXCEPT !.st = "open"])
    BY <1>16, <2>1, RecordOps, <1>2 DEF Set
  <2>2. CASE /\ pc' = "place" /\ op = "submit"
             /\ UNCHANGED <<mem, op, cur, todo>>
    BY <1>16, <2>2
  <2>3. CASE /\ pc' = "sweep" /\ op = "recover"
             /\ UNCHANGED <<mem, op, cur, todo>>
    BY <1>16, <2>3
  <2> QED
    BY <1>16, <2>1, <2>2, <2>3 DEF NoFill
<1>17. CASE ReconcileEmpty
  BY <1>17, <1>16 DEF ReconcileEmpty
<1>18. CASE ReconcilePending
  BY <1>18, <1>16 DEF ReconcilePending
<1>19. CASE AnswerRaises
  BY <1>19 DEF AnswerRaises, Abort
<1>20. CASE Recover
  BY <1>20 DEF Recover
<1>21. ASSUME NEW o \in Orders, RecoverNext(o) PROVE TypeInv'
  BY <1>21 DEF RecoverNext
<1>22. CASE RecoverDone
  BY <1>22 DEF RecoverDone
<1>23. CASE Crash
  <2>1. mem' \in [Orders -> Records] /\ crashes' \in Nat
    BY <1>23, <1>2 DEF Crash
  <2> QED
    BY <1>23, <2>1 DEF Crash
<1>24. CASE Restart
  BY <1>24 DEF Restart, Loaded
<1>25. ASSUME NEW o \in Orders, NEW as \in SUBSET Answers, Taken(o, as),
              active' \in [Orders -> 0 .. Lots], traded' \in [Orders -> Nat],
              copies' \in [Orders -> Nat]
       PROVE  TypeInv'
  <2>1. answer' \in Answers
    BY <1>25 DEF Taken, Answering
  <2>2. wire' \in [Orders -> Nat]
    BY <1>25 DEF Taken
  <2> QED
    BY <1>25, <2>1, <2>2 DEF Taken
<1>26. ASSUME NEW o \in Orders, Accept(o) PROVE TypeInv'
  BY <1>26, <1>25 DEF Accept
<1>27. ASSUME NEW o \in Orders, Refuse(o) \/ RateLimit(o) \/ Lose(o) PROVE TypeInv'
  BY <1>27, <1>25 DEF Refuse, RateLimit, Lose
<1>28. ASSUME NEW o \in Orders, Execute(o) PROVE TypeInv'
  BY <1>28 DEF Execute
<1>29. ASSUME NEW o \in Orders, Cancel(o) PROVE TypeInv'
  BY <1>29 DEF Cancel
<1>30. CASE UNCHANGED vars
  BY <1>30
<1> QED
  BY <1>3, <1>4, <1>5, <1>6, <1>7, <1>8, <1>9, <1>10, <1>11, <1>12, <1>13, <1>14,
     <1>15, <1>17, <1>18, <1>19, <1>20, <1>21, <1>22, <1>23, <1>24, <1>26, <1>27,
     <1>28, <1>29, <1>30
  DEF Next, CallStart, CallStep, Environment, Delivery

(* Every variable ranges over its type: the types the other proofs rest on *)
(* and what the runs check as TypeOK.                                      *)
THEOREM TypeCorrect == Spec => []TypeOK
<1>1. Spec => []TypeInv
  BY InitTypeInv, NextTypeInv, PTL DEF Spec
<1>2. TypeInv => TypeOK
  BY DEF TypeInv
<1> QED
  BY <1>1, <1>2, PTL

-----------------------------------------------------------------------------
(* The steps of Next, sorted by what they do to the records                *)

Live == {"placing"} \cup InFlight

(* _set: the record of cur takes a state that is not PLACING.              *)
RecordChange ==
  /\ pc \in {"place", "await", "reconcile"}
  /\ \E r \in Records :
        /\ r.st \in InFlight \cup Terminal
        /\ \/ r.attempts = mem[cur].attempts
           \/ /\ pc = "place" /\ mem[cur].attempts < MaxAttempts
              /\ r.attempts = mem[cur].attempts + 1
        /\ r.st = "filled" => r.fill \in 1 .. traded[cur]
        /\ mem' = [mem EXCEPT ![cur] = r]
  /\ pc' = "append"
  /\ UNCHANGED <<op, cur, todo, journal, posts, told, crashes>>

(* The call goes on, or ends, without touching a record.                   *)
MoveOn ==
  /\ UNCHANGED <<mem, journal, posts, told, crashes>>
  /\ \/ /\ pc = "reconcile" /\ pc' \in {"place", "sweep"} /\ UNCHANGED <<op, cur, todo>>
        /\ pc' = "place" => mem[cur].st = "unknown"
     \/ pc \in {"reconcile", "sweep"} /\ Leave
     \/ pc = "await" /\ "raise" \in Faults /\ Leave
     \/ \E o \in todo : /\ pc = "sweep" /\ pc' = "reconcile"
                        /\ cur' = o /\ todo' = todo \ {o} /\ UNCHANGED op

Elsewhere == UNCHANGED <<mem, pc, op, cur, todo, recovered, journal, posts, told, crashes>>

LEMMA StepKinds ==
  ASSUME TypeInv, [Next]_vars
  PROVE  \/ Append \/ Checkpoint \/ DiskError \/ GiveUp \/ Post \/ PlaceRaises
         \/ RecordChange \/ MoveOn \/ CallStart \/ Crash \/ Restart \/ Elsewhere
<1> USE DEF TypeInv, TypeOK, CallOK, Working, InFlight, Terminal
<1>1. CASE pc \in {"place", "await", "reconcile"}
  <2>1. cur \in Orders /\ mem[cur] \in Records
    BY <1>1
  <2>2. mem[cur].attempts \in Nat
    BY <2>1, RecordOps
  <2>3. ASSUME NEW r \in Records, r.st \in InFlight \cup Terminal, Set(r),
               UNCHANGED <<journal, posts, told, crashes>>,
               \/ r.attempts = mem[cur].attempts
               \/ /\ pc = "place" /\ mem[cur].attempts < MaxAttempts
                  /\ r.attempts = mem[cur].attempts + 1,
               r.st = "filled" => r.fill \in 1 .. traded[cur]
        PROVE  RecordChange
    BY <1>1, <2>3 DEF RecordChange, Set
  <2>4. CASE RefusedLocally
    <3> DEFINE r == [Attempt(mem[cur]) EXCEPT !.st = "rejected"]
    <3>1. r \in Records /\ r.st = "rejected" /\ r.attempts = mem[cur].attempts + 1
      BY <2>1, <2>2, RecordOps DEF Records, Attempt, States
    <3> QED
      BY <2>3, <2>4, <3>1 DEF RefusedLocally
  <2>5. CASE Answered
    <3> DEFINE r == AfterAnswer(mem[cur], answer)
    <3>1. r \in Records
      BY <2>1, RecordOps
    <3>2. /\ r.st \in InFlight \cup Terminal /\ r.st # "filled"
          /\ r.attempts = mem[cur].attempts
      BY <2>1 DEF Records, AfterAnswer, Uncertain
    <3> QED
      BY <2>3, <2>5, <3>1, <3>2 DEF Answered
  <2>6. CASE TimedOut
    <3>1. /\ Uncertain(mem[cur]) \in Records
          /\ Uncertain(mem[cur]).st = "unknown"
          /\ Uncertain(mem[cur]).attempts = mem[cur].attempts
      BY <2>1, RecordOps DEF Records, Uncertain
    <3> QED
      BY <2>3, <2>6, <3>1 DEF TimedOut
  <2>7. CASE ReconcileFill
    <3>1. PICK lots \in 1 .. traded[cur] : Set(AfterFill(mem[cur], lots))
      <4>1. Shown(cur) \ {0} \subseteq 1 .. traded[cur]
        BY <2>1 DEF Shown
      <4> QED
        BY <2>7, <4>1 DEF ReconcileFill
    <3>2. lots \in Nat
      BY <2>1
    <3>3. /\ AfterFill(mem[cur], lots) \in Records
          /\ AfterFill(mem[cur], lots).fill = lots
          /\ AfterFill(mem[cur], lots).st = "filled"
          /\ AfterFill(mem[cur], lots).attempts = mem[cur].attempts
      BY <2>1, <3>2, RecordOps DEF Records, AfterFill
    <3> QED
      BY <2>3, <2>7, <3>1, <3>3 DEF ReconcileFill
  <2>8. CASE ReconcileEmpty \/ ReconcilePending
    <3> DEFINE r == [mem[cur] EXCEPT !.st = "open"]
    <3>1. r \in Records /\ r.st = "open" /\ r.attempts = mem[cur].attempts
      BY <2>1, RecordOps DEF Records, States
    <3>2. pc = "reconcile" /\ NoFill /\ UNCHANGED <<journal, posts, told, crashes>>
      BY <2>8 DEF ReconcileEmpty, ReconcilePending
    <3>3. Set(r) => RecordChange
      BY <3>1, <3>2, <2>3
    <3> QED
      BY <3>2, <3>3 DEF NoFill, MoveOn
  <2>9. CASE AnswerRaises
    BY <2>9 DEF AnswerRaises, Abort, MoveOn
  <2> QED
    BY <1>1, <2>4, <2>5, <2>6, <2>7, <2>8, <2>9
    DEF Next, CallStart, CallStep, Environment, Delivery, Append, Checkpoint, DiskError,
        RecoverNext, RecoverDone, Accept, Refuse, RateLimit, Lose, Taken, Execute, Cancel,
        Elsewhere
<1>2. CASE pc \notin {"place", "await", "reconcile"}
  <2>1. ASSUME NEW o \in Orders, RecoverNext(o) PROVE MoveOn
    BY <2>1 DEF RecoverNext, MoveOn
  <2>2. CASE RecoverDone
    BY <2>2 DEF RecoverDone, MoveOn
  <2>3. Environment => Elsewhere
    BY DEF Environment, Delivery, Accept, Refuse, RateLimit, Lose, Taken, Execute, Cancel,
           Elsewhere
  <2>4. UNCHANGED vars => Elsewhere
    BY DEF Elsewhere
  <2> QED
    BY <1>2, <2>1, <2>2, <2>3, <2>4
    DEF Next, CallStep, RefusedLocally, Answered, TimedOut, ReconcileFill, ReconcileEmpty,
        ReconcilePending, AnswerRaises
<1> QED
  BY <1>1, <1>2

-----------------------------------------------------------------------------
(* Settled records are final, whatever fails                               *)

(* No call works on a settled order, and memory agrees with the checkpoint *)
(* about the settled ones.                                                 *)
SettledOK ==
  /\ pc # "down" => \A o \in Orders : disk[o].st \in Terminal => mem[o] = disk[o]
  /\ pc \in {"place", "await", "reconcile"} => mem[cur].st \in Live
  /\ \A o \in todo : mem[o].st \in Live

SettledInv == TypeInv /\ SettledOK

LEMMA InitSettled == Init => SettledInv
  BY InitTypeInv DEF SettledInv, SettledOK, Init, Absent, Terminal

LEMMA NextSettled == SettledInv /\ [Next]_vars => SettledInv'
<1> SUFFICES ASSUME SettledInv, [Next]_vars PROVE SettledOK'
  BY NextTypeInv DEF SettledInv
<1> USE DEF SettledInv, SettledOK, TypeInv, TypeOK, CallOK, Working, Leave
<1>0. Live \cap Terminal = {} /\ Absent.st \notin Terminal
  BY DEF Live, InFlight, Terminal, Absent
<1>1. CASE Append
  BY <1>1 DEF Append
<1>2. CASE Checkpoint
  <2>1. disk' = mem /\ mem' = mem
    BY <1>2 DEF Checkpoint, Snapshot
  <2> QED
    BY <1>2, <2>1 DEF Checkpoint, ContinueAt, Return, Live, InFlight
<1>3. CASE DiskError
  BY <1>3 DEF DiskError, Abort
<1>4. CASE GiveUp
  BY <1>4 DEF GiveUp, Return
<1>5. CASE Post \/ PlaceRaises
  <2>1. cur \in Orders /\ mem[cur].st \in Live /\ mem[cur] \in Records
    BY <1>5 DEF Post, PlaceRaises
  <2>2. mem' = [mem EXCEPT ![cur] = Attempt(@)] /\ Attempt(mem[cur]).st = mem[cur].st
    BY <1>5, <2>1 DEF Post, PlaceRaises, Attempt, Records
  <2>3. /\ pc = "place" /\ UNCHANGED disk
        /\ \/ pc' = "await" /\ UNCHANGED <<cur, todo>>
           \/ pc' = "idle" /\ todo' = {}
    BY <1>5 DEF Post, PlaceRaises, Abort
  <2>4. disk[cur].st \notin Terminal
    BY <1>0, <2>1, <2>3
  <2>5. mem'[cur].st \in Live /\ \A o \in Orders \ {cur} : mem'[o] = mem[o]
    BY <2>1, <2>2
  <2> QED
    BY <2>1, <2>3, <2>4, <2>5
<1>6. CASE RecordChange
  <2>1. disk[cur].st \notin Terminal /\ cur \in Orders
    BY <1>0, <1>6 DEF RecordChange
  <2> QED
    BY <1>6, <2>1 DEF RecordChange
<1>7. CASE MoveOn
  BY <1>7 DEF MoveOn
<1>8. CASE CallStart
  <2>1. ASSUME NEW o \in Orders, SubmitNew(o) PROVE SettledOK'
    <3>1. disk[o].st \notin Terminal
      BY <2>1 DEF SubmitNew, Terminal
    <3> QED
      BY <2>1, <3>1 DEF SubmitNew
  <2>2. ASSUME NEW o \in Orders, SubmitAgain(o) PROVE SettledOK'
    BY <2>2 DEF SubmitAgain, ResumeAt, Live
  <2>3. ASSUME NEW o \in Orders, SubmitSettled(o) PROVE SettledOK'
    BY <2>3 DEF SubmitSettled
  <2>4. CASE Recover
    <3>1. ASSUME NEW o \in Orders, Unsettled(o) PROVE mem[o].st \in Live
      BY <3>1 DEF Unsettled, Live, Records, States, Terminal, InFlight
    <3> QED
      BY <2>4, <3>1 DEF Recover
  <2> QED
    BY <1>8, <2>1, <2>2, <2>3, <2>4 DEF CallStart
<1>9. CASE Crash
  BY <1>9 DEF Crash
<1>10. CASE Restart
  BY <1>10 DEF Restart, Loaded
<1>11. CASE Elsewhere
  BY <1>11 DEF Elsewhere
<1> QED
  BY <1>1, <1>2, <1>3, <1>4, <1>5, <1>6, <1>7, <1>8, <1>9, <1>10, <1>11, StepKinds

LEMMA SettledAlways == Spec => []SettledInv
  BY InitSettled, NextSettled, PTL DEF Spec

(* A durable FILLED or REJECTED record never changes again, through        *)
(* resubmissions, recoveries, crashes and failed writes (SettledIsFinal).  *)
THEOREM SettledForever == Spec => SettledIsFinal
<1>1. ASSUME SettledInv, [Next]_vars, NEW o \in Orders, disk[o].st \in Terminal
      PROVE  disk'[o] = disk[o]
  <2>1. CASE Checkpoint
    BY <1>1, <2>1 DEF Checkpoint, Snapshot, SettledInv, SettledOK
  <2>2. CASE UNCHANGED disk
    BY <2>2
  <2> QED
    BY <1>1, <2>1, <2>2, StepKinds
    DEF SettledInv, Append, DiskError, GiveUp, Post, PlaceRaises, RecordChange, MoveOn,
        CallStart, SubmitNew, SubmitAgain, SubmitSettled, Recover, Crash, Restart, Elsewhere
<1>2. SettledInv /\ [Next]_vars
        => [\A o \in Orders : disk[o].st \in Terminal => disk'[o] = disk[o]]_vars
  BY <1>1
<1> QED
  BY <1>2, SettledAlways, PTL DEF Spec, SettledIsFinal

-----------------------------------------------------------------------------
(* What the journal guarantees as long as no write to it fails             *)

DiskWorks == "disk_error" \notin Faults

Persisting(o) == cur = o /\ pc \in {"append", "checkpoint"}

(* Memory and checkpoint know the same orders, up to the one being         *)
(* persisted, and only an order that is on disk was ever POSTed.           *)
DurableOK ==
  /\ pc \in Working => mem[cur].st # "absent"
  /\ \A o \in Orders :
        /\ pc # "down" /\ disk[o].st # "absent" => mem[o].st # "absent"
        /\ mem[o].st # "absent" => disk[o].st # "absent" \/ Persisting(o)
        /\ posts[o] > 0 => disk[o].st # "absent"

LEMMA InitDurable == Init => DurableOK
  BY DEF Init, DurableOK, Absent, Working

LEMMA NextDurable ==
  ASSUME DiskWorks, SettledInv, DurableOK, [Next]_vars
  PROVE  DurableOK'
<1> USE DEF DiskWorks, DurableOK, Persisting, SettledInv, SettledOK, TypeInv, TypeOK, CallOK,
            Working, Leave
<1>0. "absent" \notin Live \cup InFlight \cup Terminal
  BY DEF Live, InFlight, Terminal
<1>1. CASE Append
  BY <1>1 DEF Append
<1>2. CASE Checkpoint
  <2>1. disk' = mem /\ mem' = mem /\ posts' = posts /\ pc = "checkpoint"
    BY <1>2 DEF Checkpoint, Snapshot
  <2>2. \/ pc' \in {"sweep", "place", "reconcile"} /\ cur' = cur
        \/ pc' = "idle"
    BY <1>2 DEF Checkpoint, ContinueAt, Return
  <2> QED
    BY <2>1, <2>2
<1>3. DiskError => FALSE
  BY DEF DiskError
<1>4. CASE GiveUp
  BY <1>4 DEF GiveUp, Return
<1>5. CASE Post
  <2>1. cur \in Orders /\ mem[cur].st # "absent" /\ mem[cur] \in Records
    BY <1>5 DEF Post
  <2>2. mem' = [mem EXCEPT ![cur] = Attempt(@)] /\ Attempt(mem[cur]).st = mem[cur].st
    BY <1>5, <2>1 DEF Post, Attempt, Records
  <2>3. /\ pc = "place" /\ pc' = "await" /\ UNCHANGED <<disk, cur>>
        /\ posts' = [posts EXCEPT ![cur] = @ + 1]
    BY <1>5 DEF Post
  <2>4. \A o \in Orders : mem'[o].st = mem[o].st
    BY <2>1, <2>2
  <2>5. disk[cur].st # "absent"
    BY <2>1, <2>3
  <2> QED
    BY <2>1, <2>3, <2>4, <2>5
<1>6. CASE PlaceRaises
  <2>1. cur \in Orders /\ mem[cur].st # "absent" /\ mem[cur] \in Records
    BY <1>6 DEF PlaceRaises
  <2>2. mem' = [mem EXCEPT ![cur] = Attempt(@)] /\ Attempt(mem[cur]).st = mem[cur].st
    BY <1>6, <2>1 DEF PlaceRaises, Attempt, Records
  <2>3. \A o \in Orders : mem'[o].st = mem[o].st
    BY <2>1, <2>2
  <2>4. pc = "place" /\ pc' = "idle" /\ UNCHANGED <<disk, posts>>
    BY <1>6 DEF PlaceRaises, Abort
  <2> QED
    BY <2>3, <2>4
<1>7. CASE RecordChange
  BY <1>0, <1>7 DEF RecordChange
<1>8. CASE MoveOn
  <2>1. ASSUME NEW o \in todo PROVE mem[o].st # "absent"
    BY <1>0, <2>1
  <2> QED
    BY <1>8, <2>1 DEF MoveOn
<1>9. CASE CallStart
  <2>1. ASSUME NEW o \in Orders, SubmitNew(o) PROVE DurableOK'
    BY <2>1 DEF SubmitNew, Placing, Absent
  <2>2. ASSUME NEW o \in Orders, SubmitAgain(o) PROVE DurableOK'
    BY <1>0, <2>2 DEF SubmitAgain, ResumeAt
  <2> QED
    BY <1>9, <2>1, <2>2 DEF CallStart, SubmitSettled, Recover
<1>10. CASE Crash
  BY <1>10 DEF Crash, Absent
<1>11. CASE Restart
  BY <1>11 DEF Restart, Loaded
<1>12. CASE Elsewhere
  BY <1>12 DEF Elsewhere
<1> QED
  BY <1>1, <1>2, <1>3, <1>4, <1>5, <1>6, <1>7, <1>8, <1>9, <1>10, <1>11, <1>12, StepKinds

(* With a working disk, no POST is ever sent for an order that a restarted *)
(* manager would not find in its journal.                                  *)
THEOREM NoUnrecordedPost == ASSUME DiskWorks PROVE Spec => []DurableBeforePost
<1>1. SettledInv /\ DurableOK /\ [Next]_vars => DurableOK'
  BY NextDurable
<1>2. DurableOK => DurableBeforePost
  BY DEF DurableOK, DurableBeforePost
<1> QED
  BY <1>1, <1>2, InitDurable, SettledAlways, PTL DEF Spec

(* A record settled in memory is settled on disk, unless its persist is    *)
(* still running; what the caller was told is what the disk says.          *)
ToldOK ==
  \A o \in Orders :
    /\ mem[o].st \in Terminal => disk[o] = mem[o] \/ Persisting(o)
    /\ told[o] \in Terminal => disk[o].st = told[o]

LEMMA InitTold == Init => ToldOK
  BY DEF Init, ToldOK, Absent, Terminal

LEMMA NextTold ==
  ASSUME DiskWorks, SettledInv, ToldOK, [Next]_vars
  PROVE  ToldOK'
<1> USE DEF DiskWorks, ToldOK, Persisting, SettledInv, SettledOK, TypeInv, TypeOK, CallOK,
            Working, Leave
<1>0. Terminal \cap Live = {} /\ "absent" \notin Terminal /\ "placing" \notin Terminal
      /\ "open" \notin Terminal
  BY DEF Live, InFlight, Terminal
<1>1. CASE Append
  BY <1>1 DEF Append
<1>2. CASE Checkpoint
  <2>1. disk' = mem /\ mem' = mem /\ pc = "checkpoint" /\ cur \in Orders
    BY <1>2 DEF Checkpoint, Snapshot
  <2>2. \/ UNCHANGED told
        \/ told' = [told EXCEPT ![cur] = mem[cur].st]
    BY <1>2 DEF Checkpoint, Return
  <2>3. \A o \in Orders : disk[o].st \in Terminal => mem[o] = disk[o]
    BY <2>1
  <2> QED
    BY <2>1, <2>2, <2>3
<1>3. DiskError => FALSE
  BY DEF DiskError
<1>4. CASE GiveUp
  <2>1. mem[cur].st \notin Terminal /\ pc = "place" /\ cur \in Orders
    BY <1>0, <1>4 DEF GiveUp
  <2>2. told' = [told EXCEPT ![cur] = mem[cur].st] /\ UNCHANGED <<mem, disk>>
    BY <1>4 DEF GiveUp, Return
  <2> QED
    BY <2>1, <2>2
<1>5. CASE Post \/ PlaceRaises
  <2>1. cur \in Orders /\ mem[cur].st \in Live /\ mem[cur] \in Records /\ pc = "place"
    BY <1>5 DEF Post, PlaceRaises
  <2>2. mem' = [mem EXCEPT ![cur] = Attempt(@)] /\ Attempt(mem[cur]).st = mem[cur].st
    BY <1>5, <2>1 DEF Post, PlaceRaises, Attempt, Records
  <2>3. UNCHANGED <<disk, told>>
    BY <1>5 DEF Post, PlaceRaises, Abort
  <2>4. mem'[cur].st \notin Terminal /\ \A o \in Orders \ {cur} : mem'[o] = mem[o]
    BY <1>0, <2>1, <2>2
  <2> QED
    BY <2>1, <2>3, <2>4
<1>6. CASE RecordChange
  BY <1>6 DEF RecordChange
<1>7. CASE MoveOn
  BY <1>7 DEF MoveOn
<1>8. CASE CallStart
  <2>1. ASSUME NEW o \in Orders, SubmitNew(o) PROVE ToldOK'
    BY <2>1 DEF SubmitNew
  <2>2. ASSUME NEW o \in Orders, SubmitSettled(o) PROVE ToldOK'
    BY <2>2 DEF SubmitSettled
  <2> QED
    BY <1>8, <2>1, <2>2 DEF CallStart, SubmitAgain, Recover
<1>9. CASE Crash
  BY <1>0, <1>9 DEF Crash, Absent
<1>10. CASE Restart
  BY <1>10 DEF Restart, Loaded
<1>11. CASE Elsewhere
  BY <1>11 DEF Elsewhere
<1> QED
  BY <1>1, <1>2, <1>3, <1>4, <1>5, <1>6, <1>7, <1>8, <1>9, <1>10, <1>11, StepKinds

(* With a working disk, a final outcome the caller was told is durable, so *)
(* it survives every crash that follows.                                   *)
THEOREM ToldSurvives == ASSUME DiskWorks PROVE Spec => []ToldIsDurable
<1>1. SettledInv /\ ToldOK /\ [Next]_vars => ToldOK'
  BY NextTold
<1>2. ToldOK => ToldIsDurable
  BY DEF ToldOK, ToldIsDurable
<1> QED
  BY <1>1, <1>2, InitTold, SettledAlways, PTL DEF Spec

-----------------------------------------------------------------------------
(* How many POSTs a logical order can cause                                *)

(* Each POST is counted in memory at once, and no process counts beyond    *)
(* MaxAttempts; what a process did not persist is forgotten with it.       *)
Earlier == MaxAttempts * crashes

BudgetOK ==
  \A o \in Orders :
    /\ mem[o].attempts <= MaxAttempts /\ disk[o].attempts <= MaxAttempts
    /\ mem[o].st = "absent" => mem[o].attempts = 0
    /\ disk[o].st = "absent" => disk[o].attempts = 0
    /\ posts[o] <= (IF pc = "down" THEN 0 ELSE mem[o].attempts) + Earlier

LEMMA InitBudget == Init => BudgetOK
  BY BoundsAssumption DEF Init, BudgetOK, Absent, Earlier

LEMMA EarlierGrows ==
  ASSUME crashes \in Nat
  PROVE  /\ Earlier \in Nat
         /\ MaxAttempts * (crashes + 1) = Earlier + MaxAttempts
  BY BoundsAssumption DEF Earlier

LEMMA NextBudget ==
  ASSUME SettledInv, BudgetOK, [Next]_vars
  PROVE  BudgetOK'
<1> DEFINE E == Earlier
<1>a. E \in Nat /\ crashes \in Nat /\ MaxAttempts \in Nat
  BY EarlierGrows, BoundsAssumption DEF SettledInv, TypeInv, TypeOK
<1>b. crashes' = crashes => Earlier' = E
  BY DEF Earlier
<1>c. crashes' = crashes + 1 => Earlier' = E + MaxAttempts
  BY <1>a, EarlierGrows DEF Earlier
<1> HIDE DEF E
<1> USE DEF BudgetOK, SettledInv, TypeInv, TypeOK, CallOK, Working, Leave
<1>0. \A o \in Orders : /\ mem[o] \in Records /\ mem[o].attempts \in Nat
                        /\ disk[o] \in Records /\ disk[o].attempts \in Nat
                        /\ posts[o] \in Nat
  BY RecordOps
<1>d. \A o \in Orders : posts[o] <= (IF pc = "down" THEN 0 ELSE mem[o].attempts) + E
  BY DEF E
<1>1. CASE Append
  BY <1>1, <1>b, <1>d DEF Append
<1>2. CASE Checkpoint
  <2>1. /\ disk' = mem /\ mem' = mem /\ pc = "checkpoint" /\ UNCHANGED <<posts, crashes>>
        /\ pc' # "down"
    BY <1>2 DEF Checkpoint, Snapshot, Return, ContinueAt
  <2> QED
    BY <1>0, <1>b, <1>d, <2>1
<1>3. CASE DiskError
  BY <1>3, <1>b, <1>d DEF DiskError, Abort
<1>4. CASE GiveUp
  BY <1>4, <1>b, <1>d DEF GiveUp, Return
<1>5. CASE Post \/ PlaceRaises
  <2>1. cur \in Orders /\ pc = "place" /\ mem[cur].attempts < MaxAttempts
    BY <1>5 DEF Post, PlaceRaises
  <2>5. mem[cur].st # "absent"
    BY <2>1 DEF SettledOK, Live, InFlight
  <2>6. /\ Attempt(mem[cur]).attempts = mem[cur].attempts + 1
        /\ Attempt(mem[cur]).st = mem[cur].st
    BY <1>0, <2>1 DEF Attempt, Records
  <2>2. /\ mem' = [mem EXCEPT ![cur] = Attempt(@)]
        /\ UNCHANGED <<disk, crashes>>
    BY <1>5, <2>1 DEF Post, PlaceRaises, Abort
  <2>3. \/ UNCHANGED posts /\ pc' = "idle"
        \/ posts' = [posts EXCEPT ![cur] = @ + 1] /\ pc' = "await" /\ cur' = cur
    BY <1>5 DEF Post, PlaceRaises, Abort
  <2>4. mem'[cur].attempts = mem[cur].attempts + 1 /\ mem'[cur].st # "absent"
        /\ \A o \in Orders \ {cur} : mem'[o] = mem[o]
    BY <2>1, <2>2, <2>5, <2>6
  <2> QED
    BY <1>0, <1>a, <1>b, <1>d, <2>1, <2>2, <2>3, <2>4
<1>6. CASE RecordChange
  <2>1. cur \in Orders /\ pc' = "append" /\ UNCHANGED <<cur, disk, posts, crashes>>
    BY <1>6 DEF RecordChange
  <2>2. PICK r \in Records :
          /\ mem' = [mem EXCEPT ![cur] = r] /\ r.st # "absent"
          /\ \/ r.attempts = mem[cur].attempts
             \/ mem[cur].attempts < MaxAttempts /\ r.attempts = mem[cur].attempts + 1
    BY <1>6 DEF RecordChange, InFlight, Terminal
  <2>3. mem'[cur] = r /\ \A o \in Orders \ {cur} : mem'[o] = mem[o]
    BY <2>1, <2>2
  <2>4. pc \notin {"append", "checkpoint", "down"}
    BY <1>6 DEF RecordChange
  <2> QED
    BY <1>0, <1>a, <1>b, <1>d, <2>1, <2>2, <2>3, <2>4
<1>7. CASE MoveOn
  BY <1>7, <1>b, <1>d DEF MoveOn
<1>8. CASE CallStart
  <2>1. ASSUME NEW o \in Orders, SubmitNew(o) PROVE BudgetOK'
    <3>1. mem[o].attempts = 0
      BY <2>1 DEF SubmitNew
    <3>2. mem'[o].attempts = 0 /\ \A u \in Orders \ {o} : mem'[u] = mem[u]
      BY <2>1 DEF SubmitNew, Placing, Absent
    <3>3. pc = "idle" /\ pc' = "append" /\ cur' = o /\ UNCHANGED <<disk, posts, crashes>>
      BY <2>1 DEF SubmitNew
    <3> QED
      BY <1>0, <1>a, <1>b, <1>d, <3>1, <3>2, <3>3
  <2> QED
    <3>1. ASSUME NEW o \in Orders, SubmitAgain(o) PROVE BudgetOK'
      BY <1>b, <1>d, <3>1 DEF SubmitAgain, ResumeAt
    <3>2. ASSUME NEW o \in Orders, SubmitSettled(o) PROVE BudgetOK'
      BY <1>b, <1>d, <3>2 DEF SubmitSettled
    <3>3. ASSUME Recover PROVE BudgetOK'
      BY <1>b, <1>d, <3>3 DEF Recover
    <3> QED
      BY <1>8, <2>1, <3>1, <3>2, <3>3 DEF CallStart
<1>9. CASE Crash
  <2>1. /\ crashes' = crashes + 1 /\ pc' = "down" /\ pc # "down" /\ UNCHANGED <<disk, posts>>
        /\ \A o \in Orders : mem'[o].attempts = 0
    BY <1>9 DEF Crash, Absent
  <2> QED
    BY <1>0, <1>a, <1>c, <1>d, <2>1
<1>10. CASE Restart
  BY <1>0, <1>a, <1>b, <1>d, <1>10 DEF Restart, Loaded
<1>11. CASE Elsewhere
  BY <1>11, <1>b, <1>d DEF Elsewhere
<1> QED
  BY <1>1, <1>2, <1>3, <1>4, <1>5, <1>6, <1>7, <1>8, <1>9, <1>10, <1>11, StepKinds

(* A process POSTs an order at most max_attempts times, whatever raises or *)
(* fails, those of earlier processes not counted.                          *)
THEOREM PostsBounded == Spec => []PostBudget
<1>2. SettledInv /\ BudgetOK /\ [Next]_vars => BudgetOK'
  BY NextBudget
<1>3. SettledInv /\ BudgetOK => PostBudget
  <2> SUFFICES ASSUME SettledInv, BudgetOK, NEW o \in Orders
               PROVE  posts[o] <= MaxAttempts * (crashes + 1)
    BY DEF PostBudget
  <2>1. mem[o].attempts \in Nat /\ posts[o] \in Nat /\ crashes \in Nat /\ MaxAttempts \in Nat
    BY RecordOps, BoundsAssumption DEF SettledInv, TypeInv, TypeOK
  <2>2. posts[o] <= MaxAttempts + Earlier /\ Earlier \in Nat
    BY <2>1, EarlierGrows DEF BudgetOK
  <2> QED
    BY <2>1, <2>2, EarlierGrows
<1> QED
  BY <1>2, <1>3, InitBudget, SettledAlways, PTL DEF Spec

-----------------------------------------------------------------------------
(* Exactly once, at a benign venue and with a caller that recovers first   *)

Benign == Faults \subseteq {"rate_limit"} /\ RecoverFirst

(* A POST on the wire is the first that could be executed, and somebody    *)
(* waits for it; an order that may be placed has not been executed; what   *)
(* is recorded as settled is settled so; a recovered process knows that an *)
(* order it has as PLACING was not executed.                               *)
VenueOK ==
  \A o \in Orders :
    /\ active[o] = 0
    /\ \/ traded[o] = 0 /\ copies[o] = 0
       \/ traded[o] = Lots /\ copies[o] = 1
    /\ wire[o] > 0 => /\ wire[o] = 1 /\ traded[o] = 0
                      /\ \/ pc = "await" /\ cur = o /\ answer = "none"
                         \/ pc = "down"
    /\ disk[o].st = "absent" => traded[o] = 0 /\ wire[o] = 0

AnswerOK ==
  /\ answer # "none" => pc = "await"
  /\ answer \in {"ok", "pending"} => traded[cur] = Lots
  /\ answer \in {"rejected", "limited"} => traded[cur] = 0

OutcomeOK ==
  \A o \in Orders : \A r \in {mem[o], disk[o]} :
    /\ r.st = "filled" => traded[o] = Lots
    /\ r.st = "rejected" => traded[o] = 0 /\ wire[o] = 0

RecoveredOK ==
  /\ op = "submit" => recovered
  /\ pc = "down" => ~recovered /\ op = "none"
  /\ pc = "place" => traded[cur] = 0
  /\ \A o \in Orders : mem[o].st = "placing" =>
       /\ recovered => traded[o] = 0 \/ (cur = o /\ pc = "await")
       /\ op = "recover" =>
            traded[o] = 0 \/ o \in todo \/ (cur = o /\ pc = "reconcile")

PhaseOK ==
  /\ pc # "down" => \A o \in Orders : mem[o].st = disk[o].st \/ Persisting(o)
  /\ pc \in {"append", "checkpoint"} /\ mem[cur].st # "placing" => disk[cur].st # "absent"

OnceOK  == VenueOK /\ AnswerOK /\ OutcomeOK /\ RecoveredOK /\ PhaseOK
OnceInv == SettledInv /\ DurableOK /\ OnceOK

LEMMA InitOnce == Init => OnceOK
  BY DEF Init, OnceOK, VenueOK, AnswerOK, OutcomeOK, RecoveredOK, PhaseOK, Absent

LEMMA BenignFaults ==
  ASSUME Benign
  PROVE  /\ "late_landing" \notin Faults /\ "read_error" \notin Faults
         /\ "rests" \notin Faults /\ "raise" \notin Faults /\ DiskWorks /\ RecoverFirst
  BY DEF Benign, DiskWorks

(* The steps of the exchange.                                              *)
LEMMA VenueSteps ==
  ASSUME Benign, SettledInv, DurableOK, OnceOK, Environment
  PROVE  OnceOK'
<1> USE BenignFaults
    DEF SettledInv, TypeInv, TypeOK, CallOK, Working, OnceOK, VenueOK, AnswerOK, OutcomeOK,
        RecoveredOK, PhaseOK, Persisting
<1>1. ASSUME NEW o \in Orders, NEW as \in SUBSET Answers, Taken(o, as)
      PROVE  /\ wire[o] = 1 /\ traded[o] = 0 /\ copies[o] = 0 /\ active[o] = 0
             /\ wire' = [wire EXCEPT ![o] = 0]
             /\ \/ pc = "await" /\ cur = o /\ answer' \in as
                \/ pc = "down" /\ answer' = "none"
             /\ UNCHANGED <<mem, pc, op, cur, todo, recovered, journal, history>>
  <2>0. wire[o] > 0 /\ wire' = [wire EXCEPT ![o] = wire[o] - 1]
    BY <1>1 DEF Taken
  <2>1. wire[o] = 1 /\ traded[o] = 0 /\ wire' = [wire EXCEPT ![o] = 0]
    <3>1. wire[o] = 1 /\ traded[o] = 0
      BY <2>0
    <3>2. wire[o] - 1 = 0
      BY <3>1
    <3> QED
      BY <2>0, <3>1, <3>2 DEF VenueOK
  <2>2. copies[o] = 0 /\ active[o] = 0
    BY <2>1, BoundsAssumption
  <2>3. CASE pc = "await" /\ cur = o /\ answer = "none"
    <3>1. answer' \in as \cup (IF wire[o] > 1 THEN {"none"} ELSE {})
      BY ONLY <1>1, <2>3 DEF Taken, Answering
    <3>2. ~(wire[o] > 1)
      BY <2>1
    <3>3. answer' \in as
      BY <3>1, <3>2, Zenon
    <3> QED
      BY <1>1, <2>1, <2>2, <2>3, <3>3 DEF Taken
  <2>4. CASE pc = "down"
    BY <1>1, <2>1, <2>2, <2>4 DEF Taken, Answering
  <2> QED
    BY <2>0, <2>3, <2>4
<1>2. ASSUME NEW o \in Orders, Accept(o) PROVE OnceOK'
  <2>1. Taken(o, {"ok", "pending"})
    BY <1>2 DEF Accept
  <2>2. /\ copies' = [copies EXCEPT ![o] = 1] /\ traded' = [traded EXCEPT ![o] = Lots]
        /\ UNCHANGED active
    BY <1>1, <1>2, <2>1, BoundsAssumption DEF Accept, Answers
  <2>3. mem[o].st \notin {"rejected"} /\ disk[o].st \notin {"rejected", "absent"}
    BY <1>1, <2>1 DEF Answers
  <2>4. \A u \in Orders \ {o} : /\ wire'[u] = wire[u] /\ traded'[u] = traded[u]
                                /\ copies'[u] = copies[u]
    BY <1>1, <2>1, <2>2 DEF Answers
  <2>5. wire'[o] = 0 /\ traded'[o] = Lots /\ copies'[o] = 1
    BY <1>1, <2>1, <2>2 DEF Answers
  <2>6. VenueOK'
    BY <1>1, <2>1, <2>2, <2>3, <2>4, <2>5 DEF Answers
  <2>7. AnswerOK'
    BY <1>1, <2>1, <2>5 DEF Answers
  <2>8. OutcomeOK'
    BY <1>1, <2>1, <2>3, <2>4, <2>5 DEF Answers
  <2>9. RecoveredOK'
    BY <1>1, <2>1, <2>4, <2>5, BoundsAssumption DEF Answers
  <2> QED
    BY <1>1, <2>1, <2>6, <2>7, <2>8, <2>9 DEF Answers
<1>3. ASSUME NEW o \in Orders, NEW as \in SUBSET {"none", "rejected", "limited"},
             Taken(o, as), UNCHANGED <<active, traded, copies>>
      PROVE  OnceOK'
  <2> as \in SUBSET Answers
    BY DEF Answers
  <2>1. /\ wire[o] = 1 /\ traded[o] = 0
        /\ wire' = [wire EXCEPT ![o] = 0] /\ wire'[o] = 0
        /\ \A u \in Orders \ {o} : wire'[u] = wire[u]
        /\ UNCHANGED <<mem, pc, op, cur, todo, recovered, disk>>
        /\ \/ pc = "await" /\ cur = o /\ answer' \in as
           \/ pc = "down" /\ answer' = "none"
    BY <1>1, <1>3
  <2>2. VenueOK'
    BY <1>3, <2>1
  <2>3. AnswerOK'
    BY <1>3, <2>1
  <2>4. OutcomeOK' /\ RecoveredOK' /\ PhaseOK'
    BY <1>3, <2>1
  <2> QED
    BY <2>2, <2>3, <2>4
<1>4. ASSUME NEW o \in Orders, Refuse(o) \/ RateLimit(o) \/ Lose(o) PROVE OnceOK'
  BY <1>3, <1>4 DEF Refuse, RateLimit, Lose
<1>5. ASSUME NEW o \in Orders PROVE ~Execute(o) /\ ~Cancel(o)
  BY DEF Execute, Cancel
<1> QED
  BY <1>2, <1>4, <1>5 DEF Environment, Delivery

(* The steps of the manager: only Post touches the exchange.               *)
LEMMA ManagerSteps ==
  ASSUME Benign, SettledInv, DurableOK, OnceOK,
         CallStart \/ CallStep \/ Crash \/ Restart
  PROVE  OnceOK'
<1> USE BenignFaults, BoundsAssumption
    DEF SettledInv, TypeInv, TypeOK, CallOK, Working, OnceOK, VenueOK, AnswerOK, OutcomeOK,
        RecoveredOK, PhaseOK, Persisting, Leave
<1>0. pc \notin {"await", "down"} => answer = "none" /\ \A o \in Orders : wire[o] = 0
  OBVIOUS
<1>a. pc \in Working => cur \in Orders /\ mem[cur] \in Records
  OBVIOUS
<1>b. ASSUME pc \in {"place", "await", "reconcile"}
      PROVE  mem[cur].st \in Live /\ disk[cur].st \notin Terminal \cup {"absent"}
  BY <1>b DEF SettledOK, DurableOK, Live, Terminal, InFlight
<1>c. ASSUME NEW o \in Orders PROVE Shown(o) = {traded[o]}
  BY DEF Shown
(* A record change keeps the invariant if its outcome is the real one.     *)
<1>d. ASSUME NEW r \in Records, Set(r), r.st \notin {"absent", "placing"},
             pc \in {"place", "await", "reconcile"},
             UNCHANGED <<recovered, disk, exchange>>, answer' = "none",
             wire[cur] = 0,
             r.st = "filled" => traded[cur] = Lots,
             r.st = "rejected" => traded[cur] = 0
      PROVE  OnceOK'
  <2>1. mem'[cur] = r /\ \A o \in Orders \ {cur} : mem'[o] = mem[o]
    BY <1>d, <1>a DEF Set
  <2>2. pc' = "append" /\ UNCHANGED <<op, cur, todo>>
    BY <1>d DEF Set
  <2>3. \A o \in Orders : wire[o] = 0
    BY <1>0, <1>d
  <2>4. VenueOK' /\ AnswerOK'
    BY <1>d, <2>2, <2>3
  <2>5. OutcomeOK'
    BY <1>a, <1>d, <2>1, <2>2, <2>3
  <2>6. RecoveredOK'
    BY <1>a, <1>d, <2>1, <2>2
  <2>7. PhaseOK'
    BY <1>a, <1>b, <1>d, <2>1, <2>2
  <2> QED
    BY <2>4, <2>5, <2>6, <2>7
<1>1. CASE Append
  BY <1>1 DEF Append
<1>2. CASE Checkpoint
  <2>1. disk' = mem /\ mem' = mem /\ pc = "checkpoint" /\ UNCHANGED <<recovered, exchange>>
    BY <1>2 DEF Checkpoint, Snapshot
  <2>2. \/ pc' = "sweep" /\ op = "recover" /\ UNCHANGED <<op, cur, todo, answer>>
        \/ /\ pc' = "place" /\ mem[cur].st = "placing" /\ op = "submit"
           /\ UNCHANGED <<op, cur, todo, answer>>
        \/ pc' = "reconcile" /\ op = "submit" /\ UNCHANGED <<op, cur, todo, answer>>
        \/ pc' = "idle" /\ op' = "none" /\ cur' = NoOrder /\ todo' = {} /\ answer' = "none"
    BY <1>2 DEF Checkpoint, ContinueAt, Return
  <2>3. \A o \in Orders : mem[o].st = "absent" => disk[o].st = "absent"
    BY <2>1 DEF DurableOK
  <2>4. VenueOK' /\ AnswerOK' /\ OutcomeOK'
    BY <1>0, <2>1, <2>2, <2>3
  <2>5. RecoveredOK'
    BY <1>a, <2>1, <2>2
  <2> QED
    BY <2>1, <2>2, <2>4, <2>5
<1>3. DiskError => FALSE
  BY DEF DiskError, DiskWorks
<1>4. ASSUME NEW o \in Orders, SubmitNew(o) PROVE OnceOK'
  <2>1. disk[o].st = "absent" /\ traded[o] = 0
    BY <1>4 DEF SubmitNew, DurableOK
  <2>2. mem'[o] = Placing /\ \A u \in Orders \ {o} : mem'[u] = mem[u]
    BY <1>4 DEF SubmitNew
  <2> QED
    BY <1>0, <1>4, <2>1, <2>2 DEF SubmitNew, MaySubmit, Placing, Absent
<1>5. ASSUME NEW o \in Orders, SubmitAgain(o) PROVE OnceOK'
  <2>1. \/ pc' = "place" /\ mem[o].st = "placing"
        \/ pc' = "reconcile"
    BY <1>5 DEF SubmitAgain, ResumeAt
  <2>2. /\ pc = "idle" /\ recovered /\ op' = "submit" /\ cur' = o
        /\ UNCHANGED <<mem, todo, recovered, answer, disk, exchange>>
    BY <1>5 DEF SubmitAgain, MaySubmit
  <2> QED
    BY <1>0, <2>1, <2>2
<1>6. ASSUME NEW o \in Orders, SubmitSettled(o) PROVE OnceOK'
  BY <1>6 DEF SubmitSettled
<1>7. CASE GiveUp
  BY <1>0, <1>7 DEF GiveUp, Return
<1>8. CASE Post
  <2>1. /\ wire'[cur] = 1 /\ \A o \in Orders \ {cur} : wire'[o] = 0
        /\ traded[cur] = 0 /\ pc = "place" /\ pc' = "await" /\ answer = "none"
    BY <1>0, <1>a, <1>8 DEF Post
  <2>2. /\ mem'[cur].st = mem[cur].st
        /\ \A o \in Orders \ {cur} : mem'[o] = mem[o]
    BY <1>a, <1>8 DEF Post, Attempt, Records
  <2>3. UNCHANGED <<op, cur, todo, recovered, answer, disk, active, traded, copies>>
    BY <1>8 DEF Post
  <2>4. mem[cur].st \notin Terminal /\ disk[cur].st \notin Terminal \cup {"absent"}
    BY <1>b, <2>1 DEF Live, InFlight, Terminal
  <2>5. VenueOK' /\ AnswerOK'
    BY <1>a, <2>1, <2>3, <2>4
  <2>6. OutcomeOK'
    BY <1>a, <2>1, <2>2, <2>3, <2>4 DEF Terminal
  <2> QED
    BY <1>a, <2>1, <2>2, <2>3, <2>5, <2>6
<1>9. CASE RefusedLocally
  <2> DEFINE r == [Attempt(mem[cur]) EXCEPT !.st = "rejected"]
  <2>1. r \in Records /\ r.st = "rejected"
    BY <1>a, <1>9, RecordOps DEF RefusedLocally, Records, Attempt, States, Terminal
  <2> QED
    BY <1>0, <1>a, <1>d, <1>9, <2>1 DEF RefusedLocally
<1>10. CASE PlaceRaises
  <2>1. /\ pc = "place" /\ pc' = "idle" /\ op' = "none" /\ cur' = NoOrder /\ todo' = {}
        /\ answer' = "none" /\ traded[cur] = 0
        /\ UNCHANGED <<recovered, disk, exchange>>
    BY <1>10 DEF PlaceRaises, Abort
  <2>2. /\ mem'[cur].st = mem[cur].st
        /\ \A o \in Orders \ {cur} : mem'[o] = mem[o]
    BY <1>a, <1>10 DEF PlaceRaises, Attempt, Records
  <2>3. VenueOK' /\ AnswerOK'
    BY <1>0, <1>a, <2>1
  <2>4. OutcomeOK'
    BY <1>0, <1>a, <2>1, <2>2
  <2>5. RecoveredOK' /\ PhaseOK'
    BY <1>0, <1>a, <2>1, <2>2
  <2> QED
    BY <2>3, <2>4, <2>5
<1>11. CASE Answered
  <2> DEFINE r == AfterAnswer(mem[cur], answer)
  <2>1. pc = "await" /\ answer # "none" /\ wire[cur] = 0 /\ cur \in Orders
    BY <1>a, <1>11 DEF Answered
  <2>2. r \in Records /\ r.st \in {"submitted", "rejected", "unknown"}
        /\ (r.st = "rejected" => answer = "rejected")
    BY <1>a, <2>1, RecordOps DEF AfterAnswer, Uncertain, Records
  <2>3. r.st = "rejected" => traded[cur] = 0
    BY <2>2
  <2> QED
    BY <1>d, <1>11, <2>1, <2>2, <2>3 DEF Answered
<1>12. CASE TimedOut
  <2>1. pc = "await" /\ wire[cur] = 0
    BY <1>12 DEF TimedOut, MayTimeOut
  <2>2. Uncertain(mem[cur]) \in Records /\ Uncertain(mem[cur]).st = "unknown"
    BY <1>a, <2>1, RecordOps DEF Uncertain, Records
  <2> QED
    BY <1>d, <1>12, <2>1, <2>2 DEF TimedOut
<1>13. CASE ReconcileFill
  <2>1. pc = "reconcile" /\ traded[cur] = Lots /\ Set(AfterFill(mem[cur], Lots))
    BY <1>13, <1>a, <1>c DEF ReconcileFill
  <2>2. AfterFill(mem[cur], Lots) \in Records /\ AfterFill(mem[cur], Lots).st = "filled"
    BY <1>a, <2>1, RecordOps DEF AfterFill, Records
  <2> QED
    BY <1>0, <1>a, <1>d, <1>13, <2>1, <2>2 DEF ReconcileFill
<1>14. CASE ReconcileEmpty
  <2>1. pc = "reconcile" /\ traded[cur] = 0 /\ NoFill
        /\ UNCHANGED <<recovered, answer, disk, exchange>>
    BY <1>14, <1>a, <1>c DEF ReconcileEmpty
  <2>2. CASE Set([mem[cur] EXCEPT !.st = "open"])
    <3> DEFINE r == [mem[cur] EXCEPT !.st = "open"]
    <3>1. r \in Records /\ r.st = "open"
      BY <1>a, <2>1, RecordOps DEF Records, States, InFlight
    <3> QED
      BY <1>0, <1>a, <1>d, <2>1, <2>2, <3>1
  <2>3. CASE pc' \in {"place", "sweep"} /\ UNCHANGED <<mem, op, cur, todo>>
    BY <1>0, <1>a, <2>1, <2>3
  <2> QED
    BY <2>1, <2>2, <2>3 DEF NoFill
<1>15. ReconcilePending => FALSE
  BY DEF ReconcilePending
<1>16. AnswerRaises => FALSE
  BY DEF AnswerRaises
<1>17. CASE Recover
  BY <1>0, <1>17 DEF Recover, Unsettled, Terminal
<1>18. ASSUME NEW o \in Orders, RecoverNext(o) PROVE OnceOK'
  BY <1>0, <1>18 DEF RecoverNext
<1>19. CASE RecoverDone
  BY <1>0, <1>19 DEF RecoverDone
<1>20. CASE Crash
  <2>1. \A o \in Orders : mem'[o].st = "absent"
    BY <1>20 DEF Crash, Absent
  <2> QED
    BY <1>0, <1>20, <2>1 DEF Crash
<1>21. CASE Restart
  BY <1>21 DEF Restart, Loaded
<1> QED
  BY <1>1, <1>2, <1>3, <1>4, <1>5, <1>6, <1>7, <1>8, <1>9, <1>10, <1>11, <1>12, <1>13,
     <1>14, <1>15, <1>16, <1>17, <1>18, <1>19, <1>20, <1>21
  DEF CallStart, CallStep

LEMMA InitOnceInv == Init => OnceInv
  BY InitSettled, InitDurable, InitOnce DEF OnceInv

LEMMA NextOnceInv == ASSUME Benign PROVE OnceInv /\ [Next]_vars => OnceInv'
<1> SUFFICES ASSUME OnceInv, [Next]_vars PROVE OnceInv'
  OBVIOUS
<1>1. SettledInv'
  BY NextSettled DEF OnceInv
<1>2. DurableOK'
  BY NextDurable, BenignFaults DEF OnceInv
<1>3. OnceOK'
  <2>1. CASE Environment
    BY <2>1, VenueSteps DEF OnceInv
  <2>2. CASE CallStart \/ CallStep \/ Crash \/ Restart
    BY <2>2, ManagerSteps DEF OnceInv
  <2>3. CASE UNCHANGED vars
    BY <2>3 DEF OnceInv, OnceOK, VenueOK, AnswerOK, OutcomeOK, RecoveredOK, PhaseOK, Persisting
  <2> QED
    BY <2>1, <2>2, <2>3 DEF Next
<1> QED
  BY <1>1, <1>2, <1>3 DEF OnceInv

LEMMA OnceAlways == ASSUME Benign PROVE Spec => []OnceInv
  BY InitOnceInv, NextOnceInv, PTL DEF Spec

(* At a benign venue no intent is executed twice, resting lots included.   *)
THEOREM ExecutedAtMostOnce == ASSUME Benign PROVE Spec => []AtMostOnce
<1>1. OnceInv => AtMostOnce
  BY BoundsAssumption DEF OnceInv, OnceOK, VenueOK, AtMostOnce
<1> QED
  BY <1>1, OnceAlways, PTL

(* At a benign venue REJECTED is only ever recorded of an order that never *)
(* landed.                                                                 *)
THEOREM RejectedIsTrue == ASSUME Benign PROVE Spec => []RejectedNeverLanded
<1>1. OnceInv => RejectedNeverLanded
  BY DEF OnceInv, OnceOK, VenueOK, OutcomeOK, RejectedNeverLanded
<1> QED
  BY <1>1, OnceAlways, PTL

-----------------------------------------------------------------------------
(* The manager implements ExactlyOnce                                      *)

LEMMA PromiseInit == Init => Promise!Init
<1> SUFFICES ASSUME Init PROVE Promise!Init
  OBVIOUS
<1>1. \A o \in Orders : disk[o] = Absent
  <2>1. disk = [o \in Orders |-> Absent]
    BY DEF Init
  <2> QED
    BY <2>1
<1>2. \A o \in Orders : Phase(disk[o].st) = "new"
  BY <1>1 DEF Absent, Phase, Terminal
<1>3. \A o \in Orders : traded[o] = 0
  <2>1. traded = [o \in Orders |-> 0]
    BY DEF Init
  <2> QED
    BY <2>1
<1>4. \A o \in Orders : Executions(o) = 0
  BY <1>3 DEF Executions
<1>5. [o \in Orders |-> Phase(disk[o].st)] = [o \in Orders |-> "new"]
  BY <1>2
<1>6. [o \in Orders |-> Executions(o)] = [o \in Orders |-> 0]
  BY <1>4
<1> QED
  BY <1>5, <1>6, Zenon DEF Promise!Init

(* Only Checkpoint changes a phase, and only Accept executes.              *)
LEMMA PromiseStep ==
  ASSUME Benign, OnceInv, [Next]_vars
  PROVE  [Promise!Next]_<<[o \in Orders |-> Phase(disk[o].st)],
                          [o \in Orders |-> Executions(o)]>>
<1> USE BenignFaults, BoundsAssumption
<1> DEFINE ph == [o \in Orders |-> Phase(disk[o].st)]
           ex == [o \in Orders |-> Executions(o)]
<1>1. ASSUME UNCHANGED <<disk, traded>> PROVE UNCHANGED <<ph, ex>>
  BY <1>1 DEF Executions
<1>2. CASE Checkpoint
  <2>1. disk' = mem /\ traded' = traded /\ pc = "checkpoint" /\ cur \in Orders
    BY <1>2 DEF Checkpoint, Snapshot, OnceInv, SettledInv, TypeInv, CallOK, Working
  <2>2. UNCHANGED ex
    BY <2>1 DEF Executions
  <2>3. \A o \in Orders \ {cur} : Phase(disk'[o].st) = Phase(disk[o].st)
    BY <2>1 DEF OnceInv, OnceOK, PhaseOK, Persisting
  <2>4. ph' = [ph EXCEPT ![cur] = Phase(mem[cur].st)]
    BY <2>1, <2>3
  <2>5. mem[cur].st \in States \ {"absent"} /\ disk[cur].st \in States
    BY <2>1, RecordOps DEF OnceInv, DurableOK, Working, SettledInv, TypeInv, TypeOK
  <2>6. disk[cur].st \in Terminal => mem[cur] = disk[cur]
    BY <2>1 DEF OnceInv, SettledInv, SettledOK
  <2>7. mem[cur].st # "placing" => disk[cur].st # "absent"
    BY <2>1 DEF OnceInv, OnceOK, PhaseOK
  <2>8. /\ mem[cur].st = "filled" => ex[cur] = 1
        /\ mem[cur].st = "rejected" => ex[cur] = 0
    BY <2>1 DEF OnceInv, OnceOK, OutcomeOK, Executions
  <2>9. CASE Phase(mem[cur].st) = Phase(disk[cur].st)
    <3>1. ph' = ph
      BY <2>1, <2>4, <2>9
    <3> QED
      BY <2>2, <3>1
  <2>10. CASE Phase(mem[cur].st) # Phase(disk[cur].st)
    <3>1. \/ disk[cur].st = "absent" /\ mem[cur].st = "placing"
          \/ ph[cur] = "working" /\ mem[cur].st \in Terminal
      BY <2>1, <2>5, <2>6, <2>7, <2>10 DEF Phase, States, Terminal, InFlight
    <3>2. CASE disk[cur].st = "absent" /\ mem[cur].st = "placing"
      <4>1. ph[cur] = "new" /\ ph' = [ph EXCEPT ![cur] = "working"]
        BY <2>1, <2>4, <3>2 DEF Phase, Terminal
      <4> QED
        BY <2>1, <2>2, <4>1 DEF Promise!Next, Promise!Register
    <3>3. CASE ph[cur] = "working" /\ mem[cur].st = "filled"
      <4>1. ph' = [ph EXCEPT ![cur] = "filled"]
        BY <2>4, <3>3 DEF Phase, Terminal
      <4> QED
        BY <2>1, <2>2, <2>8, <3>3, <4>1 DEF Promise!Next, Promise!Fill
    <3>4. CASE ph[cur] = "working" /\ mem[cur].st = "rejected"
      <4>1. ph' = [ph EXCEPT ![cur] = "rejected"]
        BY <2>4, <3>4 DEF Phase, Terminal
      <4> QED
        BY <2>1, <2>2, <2>8, <3>4, <4>1 DEF Promise!Next, Promise!Reject
    <3> QED
      BY <3>1, <3>2, <3>3, <3>4 DEF Terminal
  <2> QED
    BY <2>9, <2>10
<1>3. ASSUME NEW o \in Orders, Accept(o) PROVE Promise!Next
  <2>1. /\ wire[o] > 0 /\ traded[o] = 0 /\ active[o] = 0
        /\ disk[o].st \notin Terminal \cup {"absent"}
    BY <1>3 DEF Accept, Taken, OnceInv, OnceOK, VenueOK, OutcomeOK, Terminal
  <2>2. traded' = [traded EXCEPT ![o] = Lots] /\ UNCHANGED disk /\ traded \in [Orders -> Nat]
    BY <1>3, <2>1 DEF Accept, Taken, OnceInv, SettledInv, TypeInv, TypeOK
  <2>3. ph[o] = "working" /\ ex[o] = 0 /\ UNCHANGED ph
    BY <2>1, <2>2 DEF Phase, Executions
  <2>4. ex' = [ex EXCEPT ![o] = 1]
    <3>1. traded'[o] = Lots /\ \A u \in Orders \ {o} : traded'[u] = traded[u]
      BY <2>2
    <3>2. Executions(o)' = 1
      BY <3>1 DEF Executions
    <3>3. \A u \in Orders \ {o} : Executions(u)' = Executions(u)
      BY <3>1 DEF Executions
    <3> QED
      BY <3>2, <3>3
  <2> QED
    BY <2>3, <2>4 DEF Promise!Next, Promise!Execute
<1>4. ASSUME NEW o \in Orders, Execute(o) PROVE FALSE
  BY <1>4 DEF Execute, OnceInv, OnceOK, VenueOK
<1>5. CASE Environment
  <2>1. ASSUME NEW o \in Orders, Refuse(o) \/ RateLimit(o) \/ Lose(o) \/ Cancel(o)
        PROVE  UNCHANGED <<disk, traded>>
    BY <2>1 DEF Refuse, RateLimit, Lose, Cancel, Taken
  <2> QED
    BY <1>1, <1>3, <1>4, <1>5, <2>1 DEF Environment, Delivery
<1>6. CASE ~Checkpoint /\ ~Environment
  <2>1. UNCHANGED <<disk, traded>>
    BY <1>6
    DEF Next, CallStart, CallStep, SubmitNew, SubmitAgain, SubmitSettled, Recover, Append,
        DiskError, GiveUp, Post, RefusedLocally, PlaceRaises, Answered, TimedOut,
        ReconcileFill, ReconcileEmpty, ReconcilePending, AnswerRaises, RecoverNext,
        RecoverDone, Crash, Restart
  <2> QED
    BY <1>1, <2>1
<1> QED
  BY <1>2, <1>5, <1>6

(* At a benign venue, and with a caller that recovers first, the manager   *)
(* implements the abstract promise: registered, executed at most once, and *)
(* settled with the outcome it really had.                                 *)
THEOREM ImplementsExactlyOnce == ASSUME Benign PROVE Spec => KeepsPromise
<1>1. OnceInv /\ [Next]_vars
        => [Promise!Next]_<<[o \in Orders |-> Phase(disk[o].st)],
                            [o \in Orders |-> Executions(o)]>>
  BY PromiseStep
<1> QED
  BY <1>1, PromiseInit, OnceAlways, PTL DEF Spec, KeepsPromise, Promise!Spec
-----------------------------------------------------------------------------
(* Fills come from trades, whatever fails                                  *)

LEMMA TradesGrow ==
  ASSUME TypeInv, [Next]_vars, NEW o \in Orders
  PROVE  traded[o] \in Nat /\ traded'[o] \in Nat /\ traded[o] <= traded'[o]
<1> USE DEF TypeInv, TypeOK
<1>0. traded[o] \in Nat /\ TypeInv'
  BY NextTypeInv
<1>1. ASSUME NEW u \in Orders, Accept(u) PROVE traded[o] <= traded'[o]
  BY <1>0, <1>1, BoundsAssumption DEF Accept
<1>2. ASSUME NEW u \in Orders, Execute(u) PROVE traded[o] <= traded'[o]
  BY <1>0, <1>2, BoundsAssumption DEF Execute
<1>3. \/ UNCHANGED traded
      \/ \E u \in Orders : Accept(u) \/ Execute(u)
  BY DEF Next, CallStart, CallStep, SubmitNew, SubmitAgain, SubmitSettled, Recover, Append,
         Checkpoint, DiskError, GiveUp, Post, RefusedLocally, PlaceRaises, Answered,
         TimedOut, ReconcileFill, ReconcileEmpty, ReconcilePending, AnswerRaises,
         RecoverNext, RecoverDone, Crash, Restart, Environment, Delivery, Refuse, RateLimit,
         Lose, Taken, Cancel
<1> QED
  BY <1>0, <1>1, <1>2, <1>3

(* Every record of a fill, in memory or on disk, is one of real trades.    *)
BackedOK ==
  \A o \in Orders : \A r \in {mem[o], disk[o]} : r.st = "filled" => r.fill \in 1 .. traded[o]

LEMMA InitBacked == Init => BackedOK
  BY DEF Init, BackedOK, Absent

LEMMA NextBacked ==
  ASSUME SettledInv, BackedOK, [Next]_vars
  PROVE  BackedOK'
<1> USE DEF SettledInv, TypeInv, TypeOK, CallOK, Working
<1>1. ASSUME NEW o \in Orders, NEW r, r.st = "filled" => r.fill \in 1 .. traded[o]
      PROVE  r.st = "filled" => r.fill \in 1 .. traded'[o]
  BY <1>1, TradesGrow
<1>2. ASSUME \A o \in Orders : mem'[o] \in {mem[o], disk[o], Absent, Placing}
                               \/ (mem'[o].st = mem[o].st /\ mem'[o].fill = mem[o].fill)
                               \/ (mem'[o].st = "filled" => mem'[o].fill \in 1 .. traded[o]),
             \A o \in Orders : disk'[o] \in {mem[o], disk[o]}
      PROVE  BackedOK'
  <2> SUFFICES ASSUME NEW o \in Orders
               PROVE  /\ mem'[o].st = "filled" => mem'[o].fill \in 1 .. traded'[o]
                      /\ disk'[o].st = "filled" => disk'[o].fill \in 1 .. traded'[o]
    BY DEF BackedOK
  <2>1. Absent.st # "filled" /\ Placing.st # "filled"
    BY DEF Absent, Placing
  <2>2. mem'[o].st = "filled" => mem'[o].fill \in 1 .. traded[o]
    BY <1>2, <2>1 DEF BackedOK
  <2>3. disk'[o].st = "filled" => disk'[o].fill \in 1 .. traded[o]
    BY <1>2 DEF BackedOK
  <2> QED
    BY <1>1, <2>2, <2>3
<1>3. CASE Checkpoint
  <2>1. disk' = mem /\ mem' = mem
    BY <1>3 DEF Checkpoint, Snapshot
  <2> QED
    BY <1>2, <2>1
<1>4. CASE Post \/ PlaceRaises
  <2>1. /\ cur \in Orders /\ mem[cur] \in Records /\ UNCHANGED disk
        /\ mem' = [mem EXCEPT ![cur] = Attempt(@)]
    BY <1>4 DEF Post, PlaceRaises, Abort
  <2>2. Attempt(mem[cur]).st = mem[cur].st /\ Attempt(mem[cur]).fill = mem[cur].fill
    BY <2>1 DEF Attempt, Records
  <2>3. \A o \in Orders : mem'[o].st = mem[o].st /\ mem'[o].fill = mem[o].fill
    BY <2>1, <2>2
  <2> QED
    BY <1>2, <2>1, <2>3
<1>5. CASE RecordChange
  <2>1. PICK r \in Records : /\ r.st = "filled" => r.fill \in 1 .. traded[cur]
                             /\ mem' = [mem EXCEPT ![cur] = r]
    BY <1>5 DEF RecordChange
  <2>2. cur \in Orders /\ UNCHANGED disk
    BY <1>5 DEF RecordChange
  <2>3. mem'[cur] = r /\ \A o \in Orders \ {cur} : mem'[o] = mem[o]
    BY <2>1, <2>2
  <2> QED
    BY <1>2, <2>1, <2>2, <2>3
<1>6. CASE CallStart
  <2>1. ASSUME NEW o \in Orders, SubmitNew(o) PROVE BackedOK'
    BY <1>2, <2>1 DEF SubmitNew
  <2>2. CASE UNCHANGED <<mem, disk>>
    BY <1>2, <2>2
  <2> QED
    BY <1>6, <2>1, <2>2 DEF CallStart, SubmitAgain, SubmitSettled, Recover
<1>7. CASE Crash
  BY <1>2, <1>7 DEF Crash
<1>8. CASE Restart
  BY <1>2, <1>8 DEF Restart, Loaded
<1>9. CASE UNCHANGED <<mem, disk>>
  BY <1>2, <1>9
<1> QED
  BY <1>3, <1>4, <1>5, <1>6, <1>7, <1>8, <1>9, StepKinds
  DEF Append, DiskError, Abort, GiveUp, MoveOn, Elsewhere

(* A durable fill is never empty and never more than the venue traded,     *)
(* although the venue may show a part of the trades only (_try_fill).      *)
THEOREM FillsAreBacked == Spec => []FillIsBacked
<1>1. SettledInv /\ BackedOK /\ [Next]_vars => BackedOK'
  BY NextBacked
<1>2. BackedOK => FillIsBacked
  BY DEF BackedOK, FillIsBacked
<1> QED
  BY <1>1, <1>2, InitBacked, SettledAlways, PTL DEF Spec

-----------------------------------------------------------------------------
(* What the disk says of an order that is placed                           *)

(* Memory and disk tell the same fate of an order that is not being        *)
(* persisted, and the ledger tells it before the checkpoint does; only an  *)
(* order that may have been missed is placed.                              *)
FateOK ==
  /\ pc # "down" => \A o \in Orders : Fate(mem[o]) = Fate(disk[o]) \/ Persisting(o)
  /\ pc = "checkpoint" => Fate(logged[cur]) = Fate(mem[cur])
  /\ pc = "place" => mem[cur].st \in {"placing", "unknown"}

LEMMA InitFate == Init => FateOK
  BY DEF Init, FateOK

LEMMA NextFate ==
  ASSUME DiskWorks, SettledInv, FateOK, [Next]_vars
  PROVE  FateOK'
<1> USE DEF DiskWorks, FateOK, Persisting, SettledInv, TypeInv, TypeOK, CallOK, Working, Leave
<1>1. CASE Append
  BY <1>1 DEF Append, Fate
<1>2. CASE Checkpoint
  <2>1. disk' = mem /\ mem' = mem /\ pc = "checkpoint"
    BY <1>2 DEF Checkpoint, Snapshot
  <2>2. \/ pc' \in {"sweep", "idle"}
        \/ pc' = "reconcile"
        \/ pc' = "place" /\ mem[cur].st = "placing" /\ cur' = cur
    BY <1>2 DEF Checkpoint, ContinueAt, Return
  <2> QED
    BY <2>1, <2>2 DEF Fate
<1>3. DiskError => FALSE
  BY DEF DiskError
<1>4. CASE GiveUp
  BY <1>4 DEF GiveUp, Return, Fate
<1>5. CASE Post \/ PlaceRaises
  <2>1. /\ cur \in Orders /\ mem[cur] \in Records /\ UNCHANGED disk /\ pc = "place"
        /\ mem' = [mem EXCEPT ![cur] = Attempt(@)] /\ pc' \in {"await", "idle"}
    BY <1>5 DEF Post, PlaceRaises, Abort
  <2>2. Fate(Attempt(mem[cur])) = Fate(mem[cur])
    BY <2>1 DEF Attempt, Records, Fate
  <2>3. \A o \in Orders : Fate(mem'[o]) = Fate(mem[o])
    BY <2>1, <2>2
  <2>4. \A o \in Orders : Fate(mem[o]) = Fate(disk[o])
    BY <2>1
  <2>5. (\A o \in Orders : Fate(mem[o]) = Fate(disk[o]))' 
    BY <2>1, <2>3, <2>4 DEF Fate
  <2> QED
    BY <2>1, <2>5
<1>6. CASE RecordChange
  BY <1>6 DEF RecordChange, Fate
<1>7. CASE MoveOn
  BY <1>7 DEF MoveOn, Fate
<1>8. CASE CallStart
  <2>1. ASSUME NEW o \in Orders, SubmitNew(o) PROVE FateOK'
    BY <2>1 DEF SubmitNew, Fate
  <2>2. ASSUME NEW o \in Orders, SubmitAgain(o) PROVE FateOK'
    BY <2>2 DEF SubmitAgain, ResumeAt, Fate
  <2> QED
    BY <1>8, <2>1, <2>2 DEF CallStart, SubmitSettled, Recover, Fate
<1>9. CASE Crash
  BY <1>9 DEF Crash
<1>10. CASE Restart
  BY <1>10 DEF Restart, Loaded, Fate
<1>11. CASE Elsewhere
  BY <1>11 DEF Elsewhere, Fate
<1> QED
  BY <1>1, <1>2, <1>3, <1>4, <1>5, <1>6, <1>7, <1>8, <1>9, <1>10, <1>11, StepKinds

LEMMA FateAlways == ASSUME DiskWorks PROVE Spec => [](SettledInv /\ FateOK)
<1>1. SettledInv /\ FateOK /\ [Next]_vars => FateOK'
  BY NextFate
<1> QED
  BY <1>1, InitFate, SettledAlways, PTL DEF Spec

(* With a working disk, the ledger says of an order's fate what the        *)
(* checkpoint says anew of it, and says it first (_persist).               *)
THEOREM LedgerFirst == ASSUME DiskWorks PROVE Spec => WriteAhead
<1>1. ASSUME SettledInv, FateOK, [Next]_vars, NEW o \in Orders, Fate(disk'[o]) # Fate(disk[o])
      PROVE  Fate(disk'[o]) = Fate(logged[o])
  <2>1. CASE Checkpoint
    <3>1. disk' = mem /\ pc = "checkpoint"
      BY <2>1 DEF Checkpoint, Snapshot
    <3>2. Persisting(o)
      BY <1>1, <3>1 DEF FateOK
    <3> QED
      BY <1>1, <3>1, <3>2 DEF FateOK, Persisting
  <2>2. CASE UNCHANGED disk
    BY <1>1, <2>2
  <2> QED
    BY <1>1, <2>1, <2>2, StepKinds
    DEF SettledInv, Append, DiskError, GiveUp, Post, PlaceRaises, RecordChange, MoveOn,
        CallStart, SubmitNew, SubmitAgain, SubmitSettled, Recover, Crash, Restart, Elsewhere
<1>2. SettledInv /\ FateOK /\ [Next]_vars
        => [\A o \in Orders : Fate(disk'[o]) # Fate(disk[o])
                                => Fate(disk'[o]) = Fate(logged[o])]_vars
  BY <1>1
<1> QED
  BY <1>2, FateAlways, PTL DEF Spec, WriteAhead

(* With a working disk, an order the checkpoint knows to be accepted or    *)
(* settled is never POSTed again, whatever fails at the venue (submit).    *)
THEOREM AcceptedIsNotReposted == ASSUME DiskWorks PROVE Spec => AcceptedNeverReposted
<1>1. ASSUME SettledInv, FateOK, [Next]_vars, NEW o \in Orders, posts'[o] # posts[o]
      PROVE  disk[o].st \in {"placing", "unknown"}
  <2>1. Post
    BY <1>1, StepKinds
    DEF SettledInv, Append, Checkpoint, Return, DiskError, Abort, GiveUp, PlaceRaises,
        RecordChange, MoveOn, CallStart, SubmitNew, SubmitAgain, SubmitSettled, Recover,
        Crash, Restart, Elsewhere
  <2>2. pc = "place" /\ o = cur
    BY <1>1, <2>1 DEF Post, SettledInv, TypeInv, TypeOK
  <2>3. Fate(mem[o]) = Fate(disk[o]) /\ mem[o].st \in {"placing", "unknown"}
    BY <1>1, <2>2 DEF FateOK, Persisting
  <2> QED
    BY <2>3 DEF Fate
<1>2. SettledInv /\ FateOK /\ [Next]_vars
        => [\A o \in Orders : posts'[o] # posts[o]
                                => disk[o].st \in {"placing", "unknown"}]_vars
  BY <1>1
<1> QED
  BY <1>2, FateAlways, PTL DEF Spec, AcceptedNeverReposted
-----------------------------------------------------------------------------
(* Reconcile before retry, at a benign venue                               *)

(* An order may be placed only once the venue has answered for all of its  *)
(* POSTs; a recovered process knows that it has for every PLACING one.     *)
AskedOK ==
  /\ pc = "place" => asked[cur]
  /\ \A o \in Orders :
       /\ disk[o].st = "absent" => asked[o]
       /\ mem[o].st = "placing" =>
            /\ recovered => asked[o] \/ (cur = o /\ pc = "await")
            /\ op = "recover" => asked[o] \/ o \in todo \/ (cur = o /\ pc = "reconcile")

LEMMA InitAsked == Init => AskedOK
  BY DEF Init, AskedOK, Absent

LEMMA AskedStays ==
  ASSUME TypeInv, [Next]_vars, ~Post, NEW o \in Orders, asked[o]
  PROVE  asked'[o]
<1>1. CASE ReconcileFill \/ ReconcileEmpty
  BY <1>1 DEF ReconcileFill, ReconcileEmpty, TypeInv, TypeOK
<1>2. CASE ~(ReconcileFill \/ ReconcileEmpty)
  <2>1. UNCHANGED asked
    BY <1>2
    DEF Next, CallStart, CallStep, SubmitNew, SubmitAgain, SubmitSettled, Recover, Append,
        Checkpoint, DiskError, GiveUp, RefusedLocally, PlaceRaises, Answered, TimedOut,
        ReconcilePending, AnswerRaises, RecoverNext, RecoverDone, Crash, Restart,
        Environment, Delivery, Accept, Refuse, RateLimit, Lose, Taken, Execute, Cancel
  <2> QED
    BY <2>1
<1> QED
  BY <1>1, <1>2

(* A read that does not fail is an answer.                                 *)
LEMMA ReadAnswers ==
  ASSUME Benign, TypeInv, [Next]_vars, pc = "reconcile", pc' \in {"place", "sweep", "append"}
  PROVE  asked'[cur]
<1>1. cur \in Orders /\ asked \in [Orders -> BOOLEAN]
  BY DEF TypeInv, TypeOK, CallOK, Working
<1>2. ReconcileFill \/ ReconcileEmpty
  BY BenignFaults
  DEF Next, CallStart, CallStep, SubmitNew, SubmitAgain, SubmitSettled, Recover, Append,
      Checkpoint, DiskError, GiveUp, Post, RefusedLocally, PlaceRaises, Answered, TimedOut,
      ReconcilePending, AnswerRaises, Abort, Leave, RecoverNext, RecoverDone, Crash,
      Restart, Environment, Delivery, Accept, Refuse, RateLimit, Lose, Taken, Execute, Cancel
<1> QED
  BY <1>1, <1>2 DEF ReconcileFill, ReconcileEmpty

(* Only RecoverDone makes a process recovered, and only a crash undoes it. *)
LEMMA RecoveredSteps ==
  ASSUME TypeInv, [Next]_vars
  PROVE  \/ recovered' = recovered
         \/ pc = "sweep" /\ todo = {} /\ pc' = "idle" /\ UNCHANGED mem
         \/ ~recovered'
BY DEF Next, CallStart, CallStep, SubmitNew, SubmitAgain, SubmitSettled, Recover, Append,
       Checkpoint, DiskError, GiveUp, Return, Post, RefusedLocally, PlaceRaises, Answered,
       TimedOut, ReconcileFill, ReconcileEmpty, ReconcilePending, AnswerRaises, Abort,
       Leave, RecoverNext, RecoverDone, Crash, Restart, Environment, Delivery, Accept,
       Refuse, RateLimit, Lose, Taken, Execute, Cancel

LEMMA NextAsked ==
  ASSUME Benign, OnceInv, AskedOK, [Next]_vars
  PROVE  AskedOK'
<1> USE BenignFaults
    DEF AskedOK, OnceInv, SettledInv, TypeInv, TypeOK, CallOK, Working, Leave
<1>a. ~Post => \A o \in Orders : asked[o] => asked'[o]
  BY AskedStays
<1>b. pc = "reconcile" /\ pc' \in {"place", "sweep", "append"} => asked'[cur]
  BY ReadAnswers
<1>c. \/ recovered' = recovered
      \/ pc = "sweep" /\ todo = {} /\ pc' = "idle" /\ UNCHANGED mem
      \/ ~recovered'
  BY RecoveredSteps
<1>d. \A o \in Orders : pc # "down" /\ mem[o].st = "absent" => disk[o].st = "absent"
  BY DEF DurableOK
<1>e. (op = "submit" => recovered) /\ (pc = "down" => ~recovered /\ op = "none")
  BY DEF OnceOK, RecoveredOK
<1>1. CASE Append
  <2>1. pc = "append" /\ pc' = "checkpoint" /\ UNCHANGED <<mem, disk, op, cur, todo, recovered, asked>>
    BY <1>1 DEF Append
  <2> QED
    BY <2>1
<1>2. CASE Checkpoint
  <2>1. disk' = mem /\ mem' = mem /\ pc = "checkpoint" /\ UNCHANGED <<recovered, asked>>
    BY <1>2 DEF Checkpoint, Snapshot
  <2>2. \/ pc' = "sweep" /\ op = "recover" /\ UNCHANGED <<op, cur, todo>>
        \/ /\ pc' = "place" /\ mem[cur].st = "placing" /\ op = "submit"
           /\ UNCHANGED <<op, cur, todo>>
        \/ pc' = "reconcile" /\ op = "submit" /\ UNCHANGED <<op, cur, todo>>
        \/ pc' = "idle" /\ op' = "none"
    BY <1>2 DEF Checkpoint, ContinueAt, Return
  <2> QED
    BY <1>d, <1>e, <2>1, <2>2
<1>3. DiskError => FALSE
  BY DEF DiskError, DiskWorks
<1>4. CASE GiveUp
  BY <1>4 DEF GiveUp, Return
<1>5. CASE Post
  <2>1. /\ cur \in Orders /\ mem[cur] \in Records /\ pc = "place" /\ pc' = "await"
        /\ mem' = [mem EXCEPT ![cur] = Attempt(@)] /\ asked' = [asked EXCEPT ![cur] = FALSE]
        /\ UNCHANGED <<op, cur, todo, recovered, disk>> /\ op = "submit"
    BY <1>5 DEF Post
  <2>2. \A o \in Orders : mem'[o].st = mem[o].st
    BY <2>1 DEF Attempt, Records
  <2>3. disk[cur].st # "absent"
    BY <2>1 DEF DurableOK, Persisting
  <2>4. \A o \in Orders \ {cur} : asked'[o] = asked[o]
    BY <2>1
  <2> QED
    BY <2>1, <2>2, <2>3, <2>4
<1>6. CASE PlaceRaises
  <2>1. /\ cur \in Orders /\ mem[cur] \in Records /\ pc = "place" /\ pc' = "idle" /\ op' = "none"
        /\ mem' = [mem EXCEPT ![cur] = Attempt(@)]
        /\ UNCHANGED <<recovered, disk, asked>>
    BY <1>6 DEF PlaceRaises, Abort
  <2>2. \A o \in Orders : mem'[o].st = mem[o].st
    BY <2>1 DEF Attempt, Records
  <2> QED
    BY <2>1, <2>2
<1>7. CASE RecordChange
  <2>1. PICK r \in Records : /\ r.st \in InFlight \cup Terminal
                             /\ mem' = [mem EXCEPT ![cur] = r]
    BY <1>7 DEF RecordChange
  <2>2. /\ cur \in Orders /\ pc' = "append" /\ UNCHANGED <<disk, op, cur, todo>>
        /\ pc \in {"place", "await", "reconcile"} /\ posts' = posts
    BY <1>7 DEF RecordChange
  <2>3. /\ mem'[cur].st # "placing" /\ \A o \in Orders \ {cur} : mem'[o] = mem[o]
    BY <2>1, <2>2 DEF InFlight, Terminal
  <2>4. ~Post
    BY <2>2 DEF Post
  <2>5. \A o \in Orders : asked[o] => asked'[o]
    BY <1>a, <2>4
  <2>6. recovered' => recovered
    BY <1>c, <2>2
  <2> QED
    BY <2>2, <2>3, <2>5, <2>6
<1>8. CASE MoveOn
  <2>1. UNCHANGED <<mem, disk, posts>> /\ pc \in {"reconcile", "sweep"} /\ ~Post
    BY <1>8 DEF MoveOn, Post
  <2>2. \A o \in Orders : asked[o] => asked'[o]
    BY <1>a, <2>1
  <2>3. CASE pc = "reconcile" /\ pc' \in {"place", "sweep"} /\ UNCHANGED <<op, cur, todo>>
    <3>1. asked'[cur] /\ (recovered' => recovered)
      BY <1>b, <1>c, <2>3
    <3> QED
      BY <2>1, <2>2, <2>3, <3>1
  <2>4. CASE pc \in {"reconcile", "sweep"} /\ Leave
    <3>1. recovered' => recovered \/ (pc = "sweep" /\ todo = {})
      BY <1>c
    <3> QED
      BY <2>1, <2>2, <2>4, <3>1
  <2>5. CASE \E o \in todo : /\ pc = "sweep" /\ pc' = "reconcile"
                             /\ cur' = o /\ todo' = todo \ {o} /\ UNCHANGED op
    <3>1. recovered' => recovered
      BY <1>c, <2>5
    <3> QED
      BY <2>1, <2>2, <2>5, <3>1
  <2> QED
    BY <1>8, <2>3, <2>4, <2>5 DEF MoveOn
<1>9. CASE CallStart
  <2>1. ASSUME NEW o \in Orders, SubmitNew(o) PROVE AskedOK'
    <3>1. asked[o]
      BY <1>d, <2>1 DEF SubmitNew
    <3> QED
      BY <2>1, <3>1 DEF SubmitNew
  <2>2. ASSUME NEW o \in Orders, SubmitAgain(o) PROVE AskedOK'
    <3>1. \/ pc' = "place" /\ mem[o].st = "placing"
          \/ pc' = "reconcile"
      BY <2>2 DEF SubmitAgain, ResumeAt
    <3> QED
      BY <2>2, <3>1 DEF SubmitAgain, MaySubmit
  <2>3. ASSUME NEW o \in Orders, SubmitSettled(o) PROVE AskedOK'
    BY <2>3 DEF SubmitSettled
  <2>4. CASE Recover
    BY <2>4 DEF Recover, Unsettled, Terminal
  <2> QED
    BY <1>9, <2>1, <2>2, <2>3, <2>4 DEF CallStart
<1>10. CASE Crash
  BY <1>10 DEF Crash, Absent
<1>11. CASE Restart
  BY <1>11, <1>e DEF Restart, Loaded
<1>12. CASE Elsewhere
  <2>1. \A o \in Orders : asked[o] => asked'[o]
    BY <1>a, <1>12 DEF Elsewhere, Post, TypeInv
  <2> QED
    BY <1>12, <2>1 DEF Elsewhere
<1> QED
  BY <1>1, <1>2, <1>3, <1>4, <1>5, <1>6, <1>7, <1>8, <1>9, <1>10, <1>11, <1>12, StepKinds

(* At a benign venue a second POST is only sent after the exchange         *)
(* answered authoritatively about the first (submit, recover).             *)
THEOREM RetriesAreInformed == ASSUME Benign PROVE Spec => ReconcileBeforeRetry
<1>1. OnceInv /\ AskedOK /\ [Next]_vars => AskedOK'
  BY NextAsked
<1>2. ASSUME OnceInv, AskedOK, [Next]_vars, NEW o \in Orders, posts'[o] # posts[o]
      PROVE  asked[o]
  <2>1. Post
    BY <1>2, StepKinds
    DEF OnceInv, SettledInv, Append, Checkpoint, Return, DiskError, Abort, GiveUp,
        PlaceRaises, RecordChange, MoveOn, CallStart, SubmitNew, SubmitAgain, SubmitSettled,
        Recover, Crash, Restart, Elsewhere
  <2>2. pc = "place" /\ o = cur
    BY <1>2, <2>1 DEF Post, OnceInv, SettledInv, TypeInv, TypeOK
  <2> QED
    BY <1>2, <2>2 DEF AskedOK
<1>3. OnceInv /\ AskedOK /\ [Next]_vars
        => [\A o \in Orders : posts'[o] # posts[o] => asked[o]]_vars
  BY <1>2
<1> QED
  BY <1>1, <1>3, InitAsked, OnceAlways, PTL DEF Spec, ReconcileBeforeRetry
-----------------------------------------------------------------------------
(* The books and the venue, when nothing raises either                     *)

Quiet == Faults \subseteq {"rate_limit"} /\ RecoverFirst

(* What was executed is on the books, or a running call is about to read   *)
(* it: what a record calls resting was not executed.                       *)
LearnedOK ==
  /\ \A o \in Orders :
       /\ wire[o] > 0 => disk[o].st \in {"placing", "unknown"}
       /\ disk[o].st = "open" => traded[o] = 0
       /\ pc # "down" /\ mem[o].st = "open" => traded[o] = 0
  /\ recovered /\ op # "recover" =>
       \A o \in Orders : traded[o] > 0 =>
         \/ mem[o].st = "filled"
         \/ cur = o /\ pc \in {"await", "append", "checkpoint", "reconcile"}
  /\ op = "recover" =>
       \A o \in Orders : traded[o] > 0 =>
         mem[o].st = "filled" \/ o \in todo \/ (cur = o /\ pc = "reconcile")

LearnedInv == OnceInv /\ FateOK /\ LearnedOK

LEMMA InitLearned == Init => LearnedInv
  BY InitOnceInv, InitFate DEF LearnedInv, Init, LearnedOK, Absent

LEMMA VenueLearned ==
  ASSUME Quiet, LearnedInv, Environment
  PROVE  LearnedOK'
<1> USE DEF LearnedInv, OnceInv, SettledInv, TypeInv, TypeOK, CallOK, Working
<1>0. Benign
  BY DEF Quiet, Benign
<1>1. ASSUME NEW o \in Orders, Accept(o) PROVE LearnedOK'
  <2>1. /\ wire[o] > 0 /\ disk[o].st \in {"placing", "unknown"}
        /\ \A u \in Orders : wire'[u] <= wire[u] /\ wire'[u] \in Nat /\ wire[u] \in Nat
        /\ \A u \in Orders \ {o} : traded'[u] = traded[u]
        /\ UNCHANGED <<mem, pc, op, cur, todo, recovered, disk>>
    BY <1>1 DEF Accept, Taken, LearnedOK
  <2>2. (pc = "await" /\ cur = o) \/ pc = "down"
    BY <2>1 DEF OnceOK, VenueOK
  <2>3. pc = "await" => op = "submit" /\ mem[o].st = disk[o].st
    BY DEF FateOK, Fate, Persisting
  <2>4. pc = "down" => ~recovered /\ op = "none"
    BY DEF OnceOK, RecoveredOK
  <2> QED
    BY <2>1, <2>2, <2>3, <2>4 DEF LearnedOK
<1>2. ASSUME NEW o \in Orders, Refuse(o) \/ RateLimit(o) \/ Lose(o) PROVE LearnedOK'
  <2>1. /\ \A u \in Orders : wire'[u] <= wire[u] /\ wire'[u] \in Nat /\ wire[u] \in Nat
        /\ UNCHANGED <<mem, pc, op, cur, todo, recovered, disk, traded>>
    BY <1>2 DEF Refuse, RateLimit, Lose, Taken
  <2> QED
    BY <2>1 DEF LearnedOK
<1>3. ASSUME NEW o \in Orders PROVE ~Execute(o) /\ ~Cancel(o)
  BY DEF Execute, Cancel, OnceOK, VenueOK
<1> QED
  BY <1>1, <1>2, <1>3 DEF Environment, Delivery

LEMMA ManagerLearned ==
  ASSUME Quiet, LearnedInv, CallStart \/ CallStep \/ Crash \/ Restart
  PROVE  LearnedOK'
<1> USE DEF LearnedInv, OnceInv, SettledInv, TypeInv, TypeOK, CallOK, Working, Leave, LearnedOK
<1>0. Benign /\ "raise" \notin Faults /\ "read_error" \notin Faults /\ DiskWorks
      /\ "late_landing" \notin Faults /\ RecoverFirst
  BY BenignFaults DEF Quiet, Benign
<1>a. /\ pc # "await" => \A o \in Orders : wire[o] > 0 => pc = "down"
      /\ \A o \in Orders : traded[o] = 0 \/ traded[o] = Lots
      /\ \A o \in Orders : disk[o].st = "absent" => traded[o] = 0
  BY DEF OnceOK, VenueOK
<1>b. pc = "place" => traded[cur] = 0 /\ mem[cur].st \in {"placing", "unknown"}
  BY DEF OnceOK, RecoveredOK, FateOK
<1>c. \A o \in Orders : mem[o].st = "rejected" => traded[o] = 0
  BY DEF OnceOK, OutcomeOK
<1>d. \A o \in Orders : pc # "down" /\ mem[o].st = "absent" => traded[o] = 0
  BY <1>a DEF DurableOK
<1>e. (op = "submit" => recovered) /\ (pc = "down" => ~recovered /\ op = "none")
  BY DEF OnceOK, RecoveredOK
<1>f. ASSUME NEW o \in Orders PROVE Shown(o) = {traded[o]}
  BY BoundsAssumption DEF Shown, OnceOK, VenueOK
(* A record change at a settled wire, if what it calls resting is.         *)
<1>g. ASSUME NEW r \in Records, Set(r), pc \in {"place", "await", "reconcile"},
             UNCHANGED <<recovered, disk, wire, traded>>, wire[cur] = 0,
             r.st = "open" => traded[cur] = 0,
             op = "recover" => r.st = "filled" \/ traded[cur] = 0
      PROVE  LearnedOK'
  <2>1. cur \in Orders /\ mem'[cur] = r /\ \A o \in Orders \ {cur} : mem'[o] = mem[o]
    BY <1>g DEF Set
  <2>2. pc' = "append" /\ UNCHANGED <<op, cur, todo>>
    BY <1>g DEF Set
  <2> QED
    BY <1>g, <2>1, <2>2
<1>1. CASE Append
  BY <1>1 DEF Append
<1>2. CASE Checkpoint
  <2>1. /\ disk' = mem /\ mem' = mem /\ pc = "checkpoint" /\ UNCHANGED <<recovered, wire, traded>>
        /\ \A o \in Orders : ~(wire[o] > 0)
    BY <1>2, <1>a DEF Checkpoint, Snapshot
  <2>2. CASE pc' = "sweep" /\ op = "recover" /\ UNCHANGED <<op, cur, todo>>
    BY <2>1, <2>2
  <2>3. CASE op = "submit" /\ pc' = "reconcile" /\ UNCHANGED <<op, cur, todo>>
    BY <2>1, <2>3
  <2>4. CASE op = "submit" /\ pc' = "place" /\ UNCHANGED <<op, cur, todo>>
    <3>1. OnceInv'
      BY <1>0, NextOnceInv DEF Next
    <3>2. traded[cur] = 0
      BY <2>1, <2>4, <3>1 DEF OnceOK, RecoveredOK
    <3> QED
      BY <2>1, <2>4, <3>2
  <2>5. CASE op = "submit" /\ pc' = "idle" /\ op' = "none" /\ mem[cur].st \in Terminal \cup {"open"}
    <3>1. mem[cur].st = "filled" \/ traded[cur] = 0
      BY <1>c, <2>1, <2>5 DEF Terminal
    <3> QED
      BY <2>1, <2>5, <3>1
  <2> QED
    BY <1>2, <2>2, <2>3, <2>4, <2>5 DEF Checkpoint, ContinueAt, Return
<1>3. ~DiskError /\ ~PlaceRaises /\ ~AnswerRaises /\ ~ReconcilePending
  BY <1>0 DEF DiskError, PlaceRaises, AnswerRaises, ReconcilePending, DiskWorks
<1>4. ASSUME NEW o \in Orders, SubmitNew(o) PROVE LearnedOK'
  <2>1. /\ traded[o] = 0 /\ mem'[o].st = "placing" /\ \A u \in Orders \ {o} : mem'[u] = mem[u]
        /\ pc = "idle" /\ pc' = "append" /\ cur' = o /\ op' = "submit" /\ recovered' = recovered
        /\ UNCHANGED <<disk, wire, traded>>
    BY <1>4, <1>d DEF SubmitNew, Placing, Absent
  <2> QED
    BY <1>e, <2>1
<1>5. ASSUME NEW o \in Orders, SubmitAgain(o) PROVE LearnedOK'
  <2>1. /\ pc = "idle" /\ recovered /\ op' = "submit" /\ cur' = o
        /\ UNCHANGED <<mem, todo, recovered, disk, wire, traded>>
    BY <1>5, <1>0 DEF SubmitAgain, MaySubmit
  <2>2. pc' = "reconcile" \/ (pc' = "place" /\ traded[o] = 0)
    <3>1. OnceInv'
      BY <1>0, <1>5, NextOnceInv DEF Next, CallStart
    <3> QED
      BY <1>5, <2>1, <3>1 DEF SubmitAgain, ResumeAt, OnceOK, RecoveredOK
  <2> QED
    BY <1>e, <2>1, <2>2
<1>6. ASSUME NEW o \in Orders, SubmitSettled(o) PROVE LearnedOK'
  BY <1>6 DEF SubmitSettled
<1>7. CASE GiveUp
  BY <1>7, <1>b DEF GiveUp, Return
<1>8. CASE Post
  <2>1. /\ cur \in Orders /\ mem[cur] \in Records /\ pc = "place" /\ pc' = "await" /\ op = "submit"
        /\ mem' = [mem EXCEPT ![cur] = Attempt(@)] /\ wire' = [wire EXCEPT ![cur] = @ + 1]
        /\ UNCHANGED <<op, cur, todo, recovered, disk, traded>>
    BY <1>8 DEF Post
  <2>2. \A o \in Orders : mem'[o].st = mem[o].st
    BY <2>1 DEF Attempt, Records
  <2>3. disk[cur].st \in {"placing", "unknown"}
    BY <1>b, <2>1 DEF FateOK, Fate, Persisting
  <2>4. \A o \in Orders \ {cur} : wire'[o] = wire[o]
    BY <2>1
  <2> QED
    BY <2>1, <2>2, <2>3, <2>4
<1>9. CASE RefusedLocally
  <2> DEFINE r == [Attempt(mem[cur]) EXCEPT !.st = "rejected"]
  <2>1. pc = "place" /\ cur \in Orders /\ mem[cur] \in Records /\ op = "submit"
    BY <1>9 DEF RefusedLocally
  <2>2. r \in Records /\ r.st = "rejected"
    BY <2>1, RecordOps DEF Records, Attempt, States, Terminal
  <2>3. wire[cur] = 0 /\ Set(r) /\ UNCHANGED <<recovered, disk, wire, traded>>
    BY <1>9, <1>a, <2>1 DEF RefusedLocally
  <2> QED
    BY <1>g, <1>b, <2>1, <2>2, <2>3
<1>10. CASE Answered
  <2> DEFINE r == AfterAnswer(mem[cur], answer)
  <2>1. pc = "await" /\ cur \in Orders /\ mem[cur] \in Records /\ op = "submit" /\ answer # "none"
    BY <1>10 DEF Answered
  <2>2. r \in Records /\ r.st # "open"
    BY <2>1, RecordOps DEF AfterAnswer, Uncertain, Records
  <2>3. wire[cur] = 0
    BY <2>1 DEF OnceOK, VenueOK
  <2>4. Set(r) /\ UNCHANGED <<recovered, disk, wire, traded>>
    BY <1>10 DEF Answered
  <2> HIDE DEF r
  <2> QED
    BY <1>g, <2>1, <2>2, <2>3, <2>4
<1>11. CASE TimedOut
  <2> DEFINE r == Uncertain(mem[cur])
  <2>1. /\ pc = "await" /\ cur \in Orders /\ mem[cur] \in Records /\ op = "submit" /\ wire[cur] = 0
        /\ Set(r) /\ UNCHANGED <<recovered, disk, wire, traded>>
    BY <1>0, <1>11 DEF TimedOut, MayTimeOut
  <2>2. r \in Records /\ r.st # "open"
    BY <2>1, RecordOps DEF Uncertain, Records
  <2> HIDE DEF r
  <2> QED
    BY <1>g, <2>1, <2>2
<1>12. CASE ReconcileFill
  <2>1. pc = "reconcile" /\ cur \in Orders /\ mem[cur] \in Records /\ wire[cur] = 0
    BY <1>12, <1>a DEF ReconcileFill
  <2>2. PICK lots \in Shown(cur) \ {0} : Set(AfterFill(mem[cur], lots))
    BY <1>12 DEF ReconcileFill
  <2>3. lots \in Nat
    BY <1>f, <2>1, <2>2
  <2>4. AfterFill(mem[cur], lots) \in Records /\ AfterFill(mem[cur], lots).st = "filled"
    BY <2>1, <2>3, RecordOps DEF AfterFill, Records
  <2>5. UNCHANGED <<recovered, disk, wire, traded>>
    BY <1>12 DEF ReconcileFill
  <2> QED
    BY <1>g, <2>1, <2>2, <2>4, <2>5
<1>13. CASE ReconcileEmpty
  <2>1. /\ pc = "reconcile" /\ cur \in Orders /\ mem[cur] \in Records /\ wire[cur] = 0
        /\ NoFill /\ UNCHANGED <<recovered, disk, wire, traded>>
    BY <1>13, <1>a DEF ReconcileEmpty
  <2>2. traded[cur] = 0
    BY <1>13, <1>f, <2>1 DEF ReconcileEmpty
  <2>3. CASE Set([mem[cur] EXCEPT !.st = "open"])
    <3> DEFINE r == [mem[cur] EXCEPT !.st = "open"]
    <3>1. r \in Records
      BY <2>1, RecordOps DEF States, InFlight
    <3> HIDE DEF r
    <3> QED
      BY <1>g, <2>1, <2>2, <2>3, <3>1 DEF r
  <2>4. CASE pc' \in {"place", "sweep"} /\ UNCHANGED <<mem, op, cur, todo>>
    BY <2>1, <2>2, <2>4
  <2> QED
    BY <2>1, <2>3, <2>4 DEF NoFill
<1>14. CASE Recover
  <2>1. \A o \in Orders : traded[o] > 0 => mem[o].st = "filled" \/ Unsettled(o)
    BY <1>14, <1>c, <1>d DEF Recover, Unsettled, Terminal
  <2> QED
    BY <1>14, <2>1 DEF Recover
<1>15. ASSUME NEW o \in Orders, RecoverNext(o) PROVE LearnedOK'
  BY <1>15 DEF RecoverNext
<1>16. CASE RecoverDone
  BY <1>16 DEF RecoverDone
<1>17. CASE Crash
  BY <1>17, <1>0, <1>a DEF Crash
<1>18. CASE Restart
  BY <1>18, <1>0, <1>e DEF Restart, Loaded
<1> QED
  BY <1>1, <1>2, <1>3, <1>4, <1>5, <1>6, <1>7, <1>8, <1>9, <1>10, <1>11, <1>12, <1>13,
     <1>14, <1>15, <1>16, <1>17, <1>18
  DEF CallStart, CallStep

LEMMA NextLearned == ASSUME Quiet, LearnedInv, [Next]_vars PROVE LearnedInv'
<1>1. Benign /\ DiskWorks
  BY BenignFaults DEF Quiet, Benign
<1>2. OnceInv'
  BY <1>1, NextOnceInv DEF LearnedInv
<1>3. FateOK'
  BY <1>1, NextFate DEF LearnedInv, OnceInv
<1>4. LearnedOK'
  <2>1. CASE UNCHANGED vars
    BY <2>1 DEF LearnedInv, LearnedOK
  <2> QED
    BY <2>1, VenueLearned, ManagerLearned DEF Next
<1> QED
  BY <1>2, <1>3, <1>4 DEF LearnedInv

(* When nothing raises, a recovered manager between two calls has on its   *)
(* durable books exactly the orders that the venue executed (recover).     *)
THEOREM BooksAgreeBetweenCalls == ASSUME Quiet PROVE Spec => []BooksAgree
<1>1. LearnedInv /\ [Next]_vars => LearnedInv'
  BY NextLearned
<1>2. LearnedInv => BooksAgree
  <2> SUFFICES ASSUME LearnedInv, pc = "idle", recovered, NEW o \in Orders
               PROVE  traded[o] > 0 <=> disk[o].st = "filled"
    BY DEF BooksAgree
  <2>1. mem[o].st = disk[o].st
    BY DEF LearnedInv, FateOK, Fate, Persisting
  <2>2. disk[o].st = "filled" => traded[o] = Lots
    BY DEF LearnedInv, OnceInv, OnceOK, OutcomeOK
  <2>3. todo = {}
    BY DEF LearnedInv, OnceInv, SettledInv, TypeInv, CallOK
  <2>4. traded[o] > 0 => mem[o].st = "filled"
    BY <2>3 DEF LearnedInv, LearnedOK
  <2> QED
    BY <2>1, <2>2, <2>4, BoundsAssumption
<1> QED
  BY <1>1, <1>2, InitLearned, PTL DEF Spec
=============================================================================
