---------------------------- MODULE OrderManager ----------------------------
(***************************************************************************)
(* The idempotent order manager (treasuryforge/orders.py) over its journal *)
(* (treasuryforge/journal.py), driven by a caller that may crash at any    *)
(* point, against an exchange reached by POST (place) and GET (reconcile). *)
(*                                                                         *)
(* One manager process is single threaded, so at most one call runs; the   *)
(* exchange and the crashes interleave with every step of that call.  A    *)
(* size is counted in lots: every intent asks for Lots of them.            *)
(***************************************************************************)
EXTENDS Naturals, FiniteSets

CONSTANTS
  Orders,       \* the origin_ids, one per logical intent
  NoOrder,      \* no call is working on an order
  MaxAttempts,  \* max_attempts of submit()
  Lots,         \* the size of one intent
  MaxCrashes,   \* bound: how often the process may die
  Faults,       \* what the environment may do, a subset of FaultKinds
  RecoverFirst  \* the caller runs recover() before any submit(), as Service does

(* late_landing: a POST reported as timed out may reach the exchange later *)
(* read_error:   the reconcile GET may answer 5xx/420 ("reconcile pending")*)
(* rate_limit:   the exchange may answer a POST with HTTP 420              *)
(* raise:        the executor may raise what the manager does not catch    *)
(* disk_error:   an append or a checkpoint may raise OSError               *)
(* rests:        an accepted order may rest and fill by parts, or be       *)
(*               cancelled; without it an order fills whole as it lands    *)
FaultKinds == {"late_landing", "read_error", "rate_limit", "raise",
               "disk_error", "rests"}

ASSUME OrdersAssumption == NoOrder \notin Orders
ASSUME BoundsAssumption == /\ MaxAttempts \in Nat
                           /\ Lots \in Nat \ {0}
                           /\ MaxCrashes \in Nat
ASSUME FaultsAssumption == Faults \subseteq FaultKinds /\ RecoverFirst \in BOOLEAN

VARIABLES
  \* the manager process
  mem,        \* _orders: origin_id -> OrderRecord
  pc,         \* where the running call is
  op,         \* which call runs: submit, recover or none
  cur,        \* the order the call is working on
  todo,       \* recover(): the orders still to reconcile
  recovered,  \* this process has completed recover()
  answer,     \* the exchange's answer to the POST being awaited
  \* the journal directory
  disk,       \* the checkpoint: origin_id -> OrderRecord
  logged,     \* the last record of each order in the append-only ledger
  \* the exchange
  wire,       \* POSTs sent and neither processed nor lost
  active,     \* lots of the order resting on the book
  traded,     \* lots traded under the origin_id
  copies,     \* orders created under the origin_id
  \* history, read by the properties only
  posts,      \* POSTs sent
  asked,      \* an authoritative answer on the order followed its last POST
  told,       \* the last state submit() returned to the caller
  crashes     \* crashes so far

manager  == <<mem, pc, op, cur, todo, recovered, answer>>
journal  == <<disk, logged>>
exchange == <<wire, active, traded, copies>>
history  == <<posts, asked, told, crashes>>
vars     == <<manager, journal, exchange, history>>

-----------------------------------------------------------------------------
(* Order records                                                           *)

Terminal == {"filled", "rejected"}
InFlight == {"submitted", "open", "unknown"}
States   == {"absent", "placing"} \cup InFlight \cup Terminal
Answers  == {"none", "ok", "pending", "rejected", "limited"}
Labels   == {"idle", "place", "await", "reconcile", "append", "checkpoint",
             "sweep", "down"}

(* What is kept of an OrderRecord: its state, whether it has an oid, the   *)
(* attempts made, and the lots of the Fill stored in it.                   *)
Records == [st : States, oid : BOOLEAN, attempts : Nat, fill : Nat]
Absent  == [st |-> "absent", oid |-> FALSE, attempts |-> 0, fill |-> 0]
Placing == [Absent EXCEPT !.st = "placing"]

TypeOK ==
  /\ mem \in [Orders -> Records] /\ disk \in [Orders -> Records]
  /\ logged \in [Orders -> Records]
  /\ pc \in Labels /\ op \in {"none", "submit", "recover"}
  /\ cur \in Orders \cup {NoOrder} /\ todo \subseteq Orders
  /\ recovered \in BOOLEAN /\ answer \in Answers
  /\ wire \in [Orders -> Nat] /\ active \in [Orders -> 0 .. Lots]
  /\ traded \in [Orders -> Nat] /\ copies \in [Orders -> Nat]
  /\ posts \in [Orders -> Nat] /\ asked \in [Orders -> BOOLEAN]
  /\ told \in [Orders -> States] /\ crashes \in Nat

Init ==
  /\ mem = [o \in Orders |-> Absent] /\ disk = mem /\ logged = mem
  /\ pc = "idle" /\ op = "none" /\ cur = NoOrder /\ todo = {}
  /\ recovered = FALSE /\ answer = "none"
  /\ wire = [o \in Orders |-> 0] /\ active = wire /\ traded = wire
  /\ copies = wire /\ posts = wire
  /\ asked = [o \in Orders |-> TRUE] /\ told = [o \in Orders |-> "absent"]
  /\ crashes = 0

-----------------------------------------------------------------------------
(* How a call ends and how a record is persisted                           *)

(* The call is over: by a return, or by an exception that leaves it.       *)
Leave == /\ pc' = "idle" /\ op' = "none" /\ cur' = NoOrder /\ todo' = {}
         /\ answer' = "none"

(* An exception reaches the caller; what the call changed in memory stays. *)
Abort == Leave /\ UNCHANGED <<recovered, told, crashes>>

(* submit() returns the Outcome of its order.                              *)
Return == Leave /\ told' = [told EXCEPT ![cur] = mem[cur].st]

(* _set: the record changes in memory, then _persist appends and           *)
(* checkpoints it.                                                         *)
SetUnlogged(r) == /\ mem' = [mem EXCEPT ![cur] = r]   \* mutant: no ledger line
                  /\ pc' = "checkpoint"
                  /\ UNCHANGED <<op, cur, todo>>
Set(r) == /\ mem' = [mem EXCEPT ![cur] = r]
          /\ pc' = "append"
          /\ UNCHANGED <<op, cur, todo>>

(* _persist, first half: the ledger line.                                  *)
Append ==
  /\ pc = "append"
  /\ logged' = [logged EXCEPT ![cur] = mem[cur]]
  /\ pc' = "checkpoint"
  /\ UNCHANGED <<mem, op, cur, todo, recovered, answer, disk, exchange,
                 history>>

(* The state written by checkpoint: every order the manager knows.         *)
SnapshotAcked  == [o \in Orders |-> IF mem[o].st = "placing" THEN disk[o] ELSE mem[o]]
SnapshotPruned == [o \in Orders |-> IF mem[o].st \in Terminal THEN Absent ELSE mem[o]]
Snapshot == mem

(* Where submit() goes on once a record that is not settled is durable.    *)
ContinueBlind(st) == IF st \in {"placing", "unknown"} THEN "place" ELSE "reconcile"
ContinueAt(st) == IF st = "placing" THEN "place" ELSE "reconcile"

(* _persist, second half: the whole map replaces the checkpoint, and the   *)
(* call goes on where the code that called _set does.                      *)
Checkpoint ==
  /\ pc = "checkpoint"
  /\ disk' = Snapshot
  /\ \/ /\ op = "recover"
        /\ pc' = "sweep"
        /\ UNCHANGED <<op, cur, todo, answer, told>>
     \/ /\ op = "submit" /\ mem[cur].st \in {"placing", "submitted", "unknown"}
        /\ pc' = ContinueAt(mem[cur].st)
        /\ UNCHANGED <<op, cur, todo, answer, told>>
     \/ /\ op = "submit" /\ mem[cur].st \in Terminal \cup {"open"}
        /\ Return
  /\ UNCHANGED <<mem, recovered, logged, exchange, posts, asked, crashes>>

(* The append or the checkpoint raises: neither is undone in memory.       *)
DiskError ==
  /\ "disk_error" \in Faults
  /\ pc \in {"append", "checkpoint"}
  /\ Abort
  /\ UNCHANGED <<mem, journal, exchange, posts, asked>>

-----------------------------------------------------------------------------
(* submit()                                                                *)

(* The caller's discipline.                                                *)
MaySubmitEarly == TRUE
MaySubmit == RecoverFirst => recovered

SubmitNew(o) ==
  /\ pc = "idle" /\ MaySubmit
  /\ mem[o].st = "absent"
  /\ mem' = [mem EXCEPT ![o] = Placing]
  /\ pc' = "append" /\ op' = "submit" /\ cur' = o
  /\ UNCHANGED <<todo, recovered, answer, journal, exchange, history>>

(* Where _resolve takes up a record that is neither new nor terminal: only *)
(* an InFlight one is reconciled first.                                    *)
ResumeReposting(st) == IF st = "unknown" THEN "reconcile" ELSE "place"
ResumeAt(st) == IF st \in InFlight THEN "reconcile" ELSE "place"

SubmitAgain(o) ==
  /\ pc = "idle" /\ MaySubmit
  /\ mem[o].st \in InFlight \cup {"placing"}
  /\ pc' = ResumeAt(mem[o].st) /\ op' = "submit" /\ cur' = o
  /\ UNCHANGED <<mem, todo, recovered, answer, journal, exchange, history>>

(* submit() on a settled order replays its result.                         *)
SubmitSettled(o) ==
  /\ pc = "idle" /\ MaySubmit
  /\ mem[o].st \in Terminal
  /\ told' = [told EXCEPT ![o] = mem[o].st]
  /\ UNCHANGED <<manager, journal, exchange, posts, asked, crashes>>

(* The attempts are exhausted: return, still uncertain.                    *)
GiveUp ==
  /\ pc = "place" /\ mem[cur].attempts >= MaxAttempts
  /\ Return
  /\ UNCHANGED <<mem, recovered, journal, exchange, posts, asked, crashes>>

(* One more attempt is made.                                               *)
AttemptUncounted(r) == r
Attempt(r) == [r EXCEPT !.attempts = @ + 1]

(* _place_once sends the POST; the attempt is counted in memory only.      *)
Post ==
  /\ pc = "place" /\ mem[cur].attempts < MaxAttempts
  /\ mem' = [mem EXCEPT ![cur] = Attempt(@)]
  /\ wire' = [wire EXCEPT ![cur] = @ + 1]
  /\ posts' = [posts EXCEPT ![cur] = @ + 1]
  /\ asked' = [asked EXCEPT ![cur] = FALSE]
  /\ pc' = "await"
  /\ UNCHANGED <<op, cur, todo, recovered, answer, journal, active, traded,
                 copies, told, crashes>>

(* The executor's own guard refuses the order before anything is sent.     *)
RefusedLocally ==
  /\ pc = "place" /\ mem[cur].attempts < MaxAttempts
  /\ Set([Attempt(mem[cur]) EXCEPT !.st = "rejected"])
  /\ UNCHANGED <<recovered, answer, journal, exchange, history>>

(* place_order raises something that is not a BitsoError before it sends.  *)
PlaceRaises ==
  /\ "raise" \in Faults
  /\ pc = "place" /\ mem[cur].attempts < MaxAttempts
  /\ mem' = [mem EXCEPT ![cur] = Attempt(@)]
  /\ Abort
  /\ UNCHANGED <<journal, exchange, posts, asked>>

(* An outcome that is neither known to have landed nor known not to.       *)
UncertainRejects(r) == [r EXCEPT !.st = "rejected"]
Uncertain(r) == [r EXCEPT !.st = "unknown"]

(* What _place_once makes of the answer: an accepted order has a handle,   *)
(* with or without an oid; 420 leaves the outcome unknown.                 *)
AfterAnswerRaw(r, a) ==
  [r EXCEPT !.st = IF a \in {"ok", "pending"} THEN "submitted" ELSE a]
AfterAnswer(r, a) ==
  CASE a \in {"ok", "pending"} -> [r EXCEPT !.st = "submitted", !.oid = (a = "ok")]
    [] a = "rejected"          -> [r EXCEPT !.st = "rejected"]
    [] OTHER                   -> Uncertain(r)

Answered ==
  /\ pc = "await" /\ answer # "none"
  /\ Set(AfterAnswer(mem[cur], answer))
  /\ answer' = "none"
  /\ UNCHANGED <<recovered, journal, exchange, history>>

(* The client stops waiting: a request is pending at most for so long.     *)
MayTimeOutNever == FALSE
MayTimeOut == "late_landing" \in Faults \/ wire[cur] = 0

(* A timeout or a 5xx: no answer is known, whether or not one was given.   *)
TimedOut ==
  /\ pc = "await"
  /\ MayTimeOut
  /\ Set(Uncertain(mem[cur]))
  /\ answer' = "none"
  /\ UNCHANGED <<recovered, journal, exchange, history>>

-----------------------------------------------------------------------------
(* _try_fill: the reconcile read and what follows it                       *)

(* The lots the venue's trade log really shows for the record.  The read   *)
(* is keyed by oid, or by origin_id and then finds one order or all, so    *)
(* with two orders under one origin_id it may miss some of the trades.     *)
Shown(o) == IF copies[o] <= 1 THEN {traded[o]} ELSE 0 .. traded[o]

(* Any Fill is final, one covering part of the order included.             *)
AfterFillWhole(r, lots) == [r EXCEPT !.st = "filled", !.fill = Lots]
AfterFill(r, lots) == [r EXCEPT !.st = "filled", !.fill = lots]

ReconcileFill ==
  /\ pc = "reconcile"
  /\ \E lots \in Shown(cur) \ {0} : Set(AfterFill(mem[cur], lots))
  /\ asked' = [asked EXCEPT ![cur] = TRUE]
  /\ UNCHANGED <<recovered, answer, journal, exchange, posts, told, crashes>>

(* No fill.  submit(): an UNKNOWN order may be placed again, any other is  *)
(* resting.  recover(): an order with an oid is resting, any other is left.*)
NoFill ==
  \/ /\ op = "submit" /\ mem[cur].st = "unknown"
     /\ pc' = "place"
     /\ UNCHANGED <<mem, op, cur, todo>>
  \/ /\ op = "submit" /\ mem[cur].st # "unknown"
     /\ Set([mem[cur] EXCEPT !.st = "open"])
  \/ /\ op = "recover" /\ mem[cur].oid
     /\ Set([mem[cur] EXCEPT !.st = "open"])
  \/ /\ op = "recover" /\ ~mem[cur].oid
     /\ pc' = "sweep"
     /\ UNCHANGED <<mem, op, cur, todo>>

ReconcileEmpty ==
  /\ pc = "reconcile" /\ 0 \in Shown(cur)
  /\ NoFill
  /\ asked' = [asked EXCEPT ![cur] = TRUE]
  /\ UNCHANGED <<recovered, answer, journal, exchange, posts, told, crashes>>

(* The read failed; BitsoExecutor.reconcile answers Unfilled all the same. *)
ReconcilePending ==
  /\ "read_error" \in Faults
  /\ pc = "reconcile"
  /\ NoFill
  /\ UNCHANGED <<recovered, answer, journal, exchange, history>>

(* An exception leaves the call after its request: FATAL_AUTH or           *)
(* NON_RETRYABLE from the reconcile read; from the POST, which may have    *)
(* landed, a body that breaks off or is not an object.  The record stays   *)
(* as it was, a new one PLACING.                                           *)
AnswerRaises ==
  /\ "raise" \in Faults
  /\ pc = "reconcile" \/ (pc = "await" /\ MayTimeOut)
  /\ Abort
  /\ UNCHANGED <<mem, journal, exchange, posts, asked>>

-----------------------------------------------------------------------------
(* recover()                                                               *)

(* The orders recover() does not skip.                                     *)
UnsettledAcked(o) == mem[o].st \in InFlight
UnsettledAll(o) == mem[o].st # "absent"
Unsettled(o) == mem[o].st \notin Terminal \cup {"absent"}

Recover ==
  /\ pc = "idle"
  /\ pc' = "sweep" /\ op' = "recover"
  /\ todo' = {o \in Orders : Unsettled(o)}
  /\ UNCHANGED <<mem, cur, recovered, answer, journal, exchange, history>>

(* The orders are visited in the order of the map; any order is allowed.   *)
RecoverNext(o) ==
  /\ pc = "sweep" /\ o \in todo
  /\ cur' = o /\ todo' = todo \ {o}
  /\ pc' = "reconcile"
  /\ UNCHANGED <<mem, op, recovered, answer, journal, exchange, history>>

RecoverDone ==
  /\ pc = "sweep" /\ todo = {}
  /\ Leave
  /\ recovered' = TRUE
  /\ UNCHANGED <<mem, journal, exchange, history>>

-----------------------------------------------------------------------------
(* Crashes: only the journal directory and the exchange survive            *)

Crash ==
  /\ pc # "down" /\ crashes < MaxCrashes
  /\ crashes' = crashes + 1
  /\ mem' = [o \in Orders |-> Absent]
  /\ pc' = "down" /\ op' = "none" /\ cur' = NoOrder /\ todo' = {}
  /\ recovered' = FALSE /\ answer' = "none"
  /\ UNCHANGED <<journal, exchange, posts, asked, told>>

(* The records a new manager starts from.                                  *)
Loaded == disk

(* __post_init__: the new process loads the checkpoint, not the ledger.    *)
Restart ==
  /\ pc = "down"
  /\ "late_landing" \in Faults \/ \A o \in Orders : wire[o] = 0
  /\ mem' = Loaded
  /\ pc' = "idle"
  /\ UNCHANGED <<op, cur, todo, recovered, answer, journal, exchange, history>>

-----------------------------------------------------------------------------
(* The exchange                                                            *)

(* The POST the manager awaits is answered with a member of as; the answer *)
(* to a POST nobody waits for any more is dropped.                         *)
Answering(o, as) ==
  IF pc = "await" /\ cur = o /\ answer = "none"
    THEN as \cup (IF wire[o] > 1 THEN {"none"} ELSE {})
    ELSE {answer}

Taken(o, as) ==
  /\ wire[o] > 0
  /\ wire' = [wire EXCEPT ![o] = @ - 1]
  /\ answer' \in Answering(o, as)
  /\ UNCHANGED <<mem, pc, op, cur, todo, recovered, journal, history>>

(* An origin_id is deduplicated among ACTIVE orders only.                  *)
Accept(o) ==
  /\ Taken(o, {"ok", "pending"})
  /\ \/ active[o] > 0 /\ UNCHANGED <<active, traded, copies>>
     \/ /\ active[o] = 0
        /\ copies' = [copies EXCEPT ![o] = @ + 1]
        /\ IF "rests" \in Faults
             THEN active' = [active EXCEPT ![o] = Lots] /\ UNCHANGED traded
             ELSE traded' = [traded EXCEPT ![o] = @ + Lots] /\ UNCHANGED active

(* A deterministic refusal (validation, funds, a key out of scope).        *)
Refuse(o) == Taken(o, {"rejected"}) /\ UNCHANGED <<active, traded, copies>>

(* HTTP 420: nothing was placed.                                           *)
RateLimit(o) ==
  /\ "rate_limit" \in Faults
  /\ Taken(o, {"limited"})
  /\ UNCHANGED <<active, traded, copies>>

(* The request never arrives.                                              *)
Lose(o) == Taken(o, {"none"}) /\ UNCHANGED <<active, traded, copies>>

Execute(o) ==
  /\ active[o] > 0
  /\ \E n \in 1 .. active[o] :
        /\ active' = [active EXCEPT ![o] = @ - n]
        /\ traded' = [traded EXCEPT ![o] = @ + n]
  /\ UNCHANGED <<manager, journal, wire, copies, history>>

(* cancel_all, or the venue cancelling the rest of an IOC order.           *)
Cancel(o) ==
  /\ active[o] > 0
  /\ active' = [active EXCEPT ![o] = 0]
  /\ UNCHANGED <<manager, journal, wire, traded, copies, history>>

-----------------------------------------------------------------------------
(* The specification                                                       *)

(* The steps of a running call, as opposed to the start of a call.         *)
CallStep ==
  \/ Append \/ Checkpoint \/ DiskError
  \/ GiveUp \/ Post \/ RefusedLocally \/ PlaceRaises \/ Answered \/ TimedOut
  \/ ReconcileFill \/ ReconcileEmpty \/ ReconcilePending \/ AnswerRaises
  \/ \E o \in Orders : RecoverNext(o)
  \/ RecoverDone

CallStart ==
  \/ \E o \in Orders : SubmitNew(o) \/ SubmitAgain(o) \/ SubmitSettled(o)
  \/ Recover

Delivery == \E o \in Orders : Accept(o) \/ Refuse(o) \/ RateLimit(o) \/ Lose(o)

Environment ==
  \/ Delivery
  \/ \E o \in Orders : Execute(o) \/ Cancel(o)

Next == CallStart \/ CallStep \/ Crash \/ Restart \/ Environment

Spec == Init /\ [][Next]_vars

(* A running process keeps running, a request on the wire is processed or  *)
(* lost, systemd restarts a dead process, and a restarted Service calls    *)
(* recover() before anything else.  Nothing forces the caller to submit.   *)
Fairness ==
  /\ WF_vars(CallStep)
  /\ WF_vars(Delivery)
  /\ WF_vars(Restart)
  /\ WF_vars(~recovered /\ Recover)

FairSpec == Spec /\ Fairness

-----------------------------------------------------------------------------
(* What holds whatever the venue does, as long as the disk works           *)

(* A POST is only ever sent for an order whose record is already durable,  *)
(* so a restarted manager knows every origin_id it may have sent.          *)
DurableBeforePost == \A o \in Orders : posts[o] > 0 => disk[o].st # "absent"

(* An outcome the caller was told is final survives every crash: _persist  *)
(* completes before submit() returns.                                      *)
ToldIsDurable ==
  \A o \in Orders : told[o] \in Terminal => disk[o].st = told[o]

(* The attempts are counted in memory before the POST and persisted after  *)
(* its answer, so a crash loses the counts of the POSTs whose answer was   *)
(* not recorded, of several if calls raised: each process keeps the bound. *)
PostBudget == \A o \in Orders : posts[o] <= MaxAttempts * (crashes + 1)

(* What a record says of the fate of its order.                            *)
Fate(r) == [st |-> r.st, oid |-> r.oid, fill |-> r.fill]

(* Write-ahead: whatever a checkpoint says anew of an order's fate, the    *)
(* ledger said first, although a checkpoint writes the whole map.          *)
WriteAhead ==
  [][\A o \in Orders : Fate(disk'[o]) # Fate(disk[o])
                         => Fate(disk'[o]) = Fate(logged[o])]_vars

(* An order the checkpoint knows to be accepted is never POSTed again:     *)
(* "landed + resting -> never re-post", through crashes and failed reads.  *)
AcceptedNeverReposted ==
  [][\A o \in Orders : posts'[o] # posts[o]
                         => disk[o].st \in {"placing", "unknown"}]_vars

(* A recorded fill is backed by trades of that order: it is never empty    *)
(* and never more than the venue traded.                                   *)
FillIsBacked ==
  \A o \in Orders : disk[o].st = "filled" => disk[o].fill \in 1 .. traded[o]

-----------------------------------------------------------------------------
(* What holds even when writes to the disk fail                            *)

(* FILLED and REJECTED are terminal: once durable, the record never        *)
(* changes again, whatever is submitted, recovered or crashed.             *)
SettledIsFinal ==
  [][\A o \in Orders : disk[o].st \in Terminal => disk'[o] = disk[o]]_vars

-----------------------------------------------------------------------------
(* What the docstring claims, true of a benign venue (no late landing, no  *)
(* failed read, an accepted order fills as it lands) and of a caller that  *)
(* recovers first                                                          *)

(* One logical intent is executed at most once, resting lots included.     *)
AtMostOnce == \A o \in Orders : traded[o] + active[o] <= Lots

(* Reconcile before retry: a second POST is only sent after the exchange   *)
(* answered authoritatively about the first one.                           *)
ReconcileBeforeRetry ==
  [][\A o \in Orders : posts'[o] # posts[o] => asked[o]]_vars

(* REJECTED means the order never landed, now or later.                    *)
RejectedNeverLanded ==
  \A o \in Orders : disk[o].st = "rejected"
                      => traded[o] + active[o] = 0

(* Between two calls of a recovered manager the durable book and the       *)
(* venue agree on which orders were executed.                              *)
BooksAgree ==
  pc = "idle" /\ recovered
    => \A o \in Orders : traded[o] > 0 <=> disk[o].st = "filled"

(* The promise made to the caller, as the specification of a component of  *)
(* its own: seen through the checkpoint, an intent is registered, executed *)
(* at most once, and settled with the outcome it really had.               *)
Phase(st) == CASE st = "absent" -> "new"
               [] st \in Terminal -> st
               [] OTHER -> "working"
Executions(o) == IF traded[o] = 0 THEN 0 ELSE IF traded[o] <= Lots THEN 1 ELSE 2
Promise == INSTANCE ExactlyOnce WITH
             phase <- [o \in Orders |-> Phase(disk[o].st)],
             executed <- [o \in Orders |-> Executions(o)]
KeepsPromise == Promise!Spec

-----------------------------------------------------------------------------
(* Liveness                                                                *)

(* Every call comes to an end, or the process dies: the retry loop is      *)
(* bounded and no step of it waits for an answer that cannot come.         *)
CallEnds == pc \notin {"idle", "down"} ~> pc \in {"idle", "down"}

(* An execution the dead process did not know of is on its books again     *)
(* once the restarted one has recovered.                                   *)
CrashedFillIsLearned ==
  \A o \in Orders : (pc = "down" /\ traded[o] > 0) ~> disk[o].st = "filled"
=============================================================================
