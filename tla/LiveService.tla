----------------------------- MODULE LiveService -----------------------------
(***************************************************************************)
(* The guarded live loop (treasuryforge/service.py, treasuryforge/live.py) *)
(* as systemd runs it (deploy/treasuryforge.service), composed with the    *)
(* dead-man's switch of Watchdog: the service's process is the bot that    *)
(* beats, and the switch's fail-safe cancels its resting orders.  An order *)
(* is what one call of submit() leaves on the book or trades (OrderManager *)
(* models that call from the inside); a POST reported as timed out may     *)
(* reach the book at any later moment, after a cancel too, and a cancel    *)
(* may be answered with a failure that nobody looks at.                    *)
(***************************************************************************)
EXTENDS Watchdog

CONSTANTS
  MaxBook,     \* bound: resting orders and POSTs in flight
  MaxStarts    \* StartLimitBurst

ASSUME ServiceAssumption == MaxBook \in Nat /\ MaxStarts \in Nat

VARIABLES
  stage,      \* where Service.run is; off: not running, ended: not restarted
  exit,       \* the ServiceExit it is leaving with, or left with
  starts,     \* processes started by systemd
  book,       \* resting orders
  flying,     \* POSTs reported as timed out that may still land
  spared,     \* resting orders the last fail-safe left there or never saw
  late        \* orders placed since the switch was last found tripped

service == <<stage, exit, starts>>
trading == <<book, flying, spared, late>>
svars   == <<wdvars, service, trading>>

Stages == {"off", "start", "recover", "poll", "check", "beat", "gate",
           "submit", "halt", "ended"}
Exits  == {"none", "OK", "SAFE_HALTED", "DEAD_MAN", "ERROR", "uncaught", "killed"}

LiveTypeOK ==
  /\ TypeOK
  /\ stage \in Stages /\ exit \in Exits /\ starts \in 0 .. MaxStarts
  /\ book \in 0 .. MaxBook /\ flying \in 0 .. MaxBook /\ book + flying <= MaxBook
  /\ spared \in 0 .. book /\ late \in Nat

LiveInit ==
  /\ Init
  /\ stage = "off" /\ exit = "none" /\ starts = 0
  /\ book = 0 /\ flying = 0 /\ spared = 0 /\ late = 0

(* Only the stage, or the stage and the exit code, change.                 *)
Goto(s) == stage' = s /\ UNCHANGED <<exit, starts>>
GotoHalt(code) == stage' = "halt" /\ exit' = code /\ UNCHANGED starts

-----------------------------------------------------------------------------
(* Starting                                                                *)

(* StartLimitBurst=3: after that many starts a human is required.          *)
UnderBurstLimit == starts < MaxStarts

Boot ==
  /\ stage = "off" /\ UnderBurstLimit
  /\ stage' = "start" /\ exit' = "none" /\ starts' = starts + 1
  /\ UNCHANGED <<wdvars, trading>>

(* run_preflight is ready or not; a service that is not fires the          *)
(* fail-safe.                                                              *)
RefuseQuietly == stage' = "ended" /\ exit' = "SAFE_HALTED" /\ UNCHANGED starts
Refuse == GotoHalt("SAFE_HALTED")

Preflight ==
  /\ stage = "start"
  /\ Goto("recover") \/ Refuse
  /\ UNCHANGED <<wdvars, trading>>

Recovered ==
  /\ stage = "recover"
  /\ Goto("poll")
  /\ UNCHANGED <<wdvars, trading>>

(* recover() is called outside the try: what it raises ends the process.   *)
RecoverRaises ==
  /\ stage = "recover" /\ faults < MaxFaults
  /\ faults' = faults + 1
  /\ stage' = "off" /\ exit' = "uncaught" /\ UNCHANGED starts
  /\ UNCHANGED <<file, clock, actors, fired, lost, trading>>

-----------------------------------------------------------------------------
(* One tick of the loop                                                    *)

FeedYields ==
  /\ stage = "poll"
  /\ Goto("check")
  /\ UNCHANGED <<wdvars, trading>>

(* The feed is exhausted: exit 0, which systemd does not restart.          *)
FeedEnds ==
  /\ stage = "poll"
  /\ stage' = "ended" /\ exit' = "OK" /\ UNCHANGED starts
  /\ UNCHANGED <<wdvars, trading>>

(* The first thing a step does.                                            *)
CheckTripped ==
  /\ stage = "check"
  /\ IF Tripped THEN GotoHalt("DEAD_MAN") ELSE Goto("beat")
  /\ UNCHANGED <<wdvars, trading>>

Beat ==
  /\ stage = "beat"
  /\ \/ (BeatCall \/ BeatRead) /\ UNCHANGED service
     \/ BeatRefused /\ GotoHalt("ERROR")
     \/ BeatWrite /\ Goto("gate")
  /\ UNCHANGED trading

(* The staleness gate, the agent and the policy: nothing to do, or an      *)
(* intent that is allowed.  No fill is ever registered with the policy, so *)
(* its windows stay empty and bound nothing.                               *)
Gate ==
  /\ stage = "gate"
  /\ Goto("poll") \/ Goto("submit")
  /\ UNCHANGED <<wdvars, trading>>

(* Where the loop goes on after an order: to the next tick, and with it to *)
(* a new check and beat.                                                   *)
AfterSubmitGate == "gate"
AfterSubmit == "poll"

(* One call of submit() leaves an order on the book or not, and the POST   *)
(* of an attempt that timed out in flight or not.                          *)
Place ==
  /\ \E rests, flies \in {0, 1} :
       /\ book' = book + rests /\ flying' = flying + flies
       /\ book' + flying' <= MaxBook
  /\ late' = IF Tripped THEN late + 1 ELSE 0
  /\ UNCHANGED spared

(* submit() returns: the order rests, traded, was refused or is unknown.   *)
Submit ==
  /\ stage = "submit"
  /\ Place \/ UNCHANGED trading
  /\ Goto(AfterSubmit)
  /\ UNCHANGED wdvars

(* The feed, the agent or submit() raises, an order on the book or not:    *)
(* the except clause.                                                      *)
Raises ==
  /\ stage \in {"poll", "gate", "submit"} /\ faults < MaxFaults
  /\ faults' = faults + 1
  /\ (stage = "submit" /\ Place) \/ UNCHANGED trading
  /\ GotoHalt("ERROR")
  /\ UNCHANGED <<file, clock, actors, fired, lost>>

-----------------------------------------------------------------------------
(* Stopping                                                                *)

(* What systemd does after an exit code: RestartPreventExitStatus=10 20.   *)
AfterExit == IF exit \in {"SAFE_HALTED", "DEAD_MAN"} THEN "ended" ELSE "off"

(* A fail-safe asks the exchange to cancel every resting order and does    *)
(* not look at the answer, so that any of them may rest on; it knows       *)
(* nothing of a POST in flight.                                            *)
CancelAll ==
  /\ book' \in 0 .. book /\ spared' = book'
  /\ UNCHANGED <<flying, late>>

(* on_halt runs the fail-safe, then run() returns its code.                *)
Halt ==
  /\ stage = "halt"
  /\ CancelAll
  /\ stage' = AfterExit /\ UNCHANGED <<exit, starts>>
  /\ UNCHANGED wdvars

(* on_halt raises: from within the try the except clause calls it again,   *)
(* from elsewhere the exception ends the process.                          *)
HaltRaises ==
  /\ stage = "halt" /\ faults < MaxFaults
  /\ faults' = faults + 1
  /\ IF exit = "DEAD_MAN" THEN GotoHalt("ERROR")
       ELSE stage' = "off" /\ exit' = "uncaught" /\ UNCHANGED starts
  /\ UNCHANGED <<file, clock, actors, fired, lost, trading>>

(* The process is killed wherever it is, within submit() too; systemd      *)
(* counts it as a failure.                                                 *)
Kill ==
  /\ stage \notin {"off", "ended"} /\ faults < MaxFaults
  /\ faults' = faults + 1
  /\ stage' = "off" /\ exit' = "killed" /\ UNCHANGED starts
  /\ bot' = Resting
  /\ (stage = "submit" /\ Place) \/ UNCHANGED trading
  /\ UNCHANGED <<file, clock, sup, oper, fired, lost>>

-----------------------------------------------------------------------------
(* The supervisor, the exchange and time                                   *)

(* on_trip is the same fail-safe.                                          *)
FailSafe ==
  /\ TripFires
  /\ CancelAll
  /\ UNCHANGED service

Supervisor ==
  \/ FailSafe
  \/ /\ SupCall \/ SupHealthy \/ SupRead \/ TripRaises \/ Latch
     /\ UNCHANGED <<service, trading>>

SupervisorDies == SupCrash /\ UNCHANGED <<service, trading>>

(* A resting order is filled, a spared one or another.                     *)
Fills ==
  /\ book > 0 /\ book' = book - 1
  /\ \E s \in {0, 1} : spared' = spared - s /\ spared' \in 0 .. book'
  /\ UNCHANGED <<wdvars, service, flying, late>>

(* A POST reported as timed out is executed after all: it rests, or trades *)
(* at once.  One that never arrives stays in flight.                       *)
Lands ==
  /\ flying > 0 /\ flying' = flying - 1
  /\ \E rests \in {0, 1} : book' = book + rests /\ spared' = spared + rests
  /\ UNCHANGED <<wdvars, service, late>>

TimePasses == Tick /\ UNCHANGED <<service, trading>>

Bot == Preflight \/ Recovered \/ RecoverRaises \/ FeedYields \/ FeedEnds
       \/ CheckTripped \/ Beat \/ Gate \/ Submit \/ Raises \/ Halt \/ HaltRaises

LiveNext == Boot \/ Bot \/ Kill \/ Supervisor \/ SupervisorDies \/ Fills \/ Lands
            \/ TimePasses

LiveSpec == LiveInit /\ [][LiveNext]_svars

(* Time passes and the supervisor's timer runs it.  The bot may hang at    *)
(* any step, which is what the switch is for.                              *)
LiveFairSpec == LiveSpec /\ WF_svars(Supervisor) /\ WF_svars(TimePasses)

-----------------------------------------------------------------------------
(* Properties                                                              *)

(* A step checks the switch once, before it beats: while the switch stays  *)
(* tripped at most the one order already past that check is placed, over   *)
(* all processes systemd starts.                                           *)
OneLateOrder == late <= 1

(* What rests was in the cancel of the last fail-safe, or landed after it. *)
Swept == book = spared

(* A service that is down for good because it halted left nothing behind   *)
(* that the fail-safe never saw: every order that rests, of whichever      *)
(* process, was in a cancel the exchange did not carry out, or is a POST   *)
(* that landed after it.                                                   *)
HaltedIsSwept ==
  stage = "ended" /\ exit \in {"SAFE_HALTED", "DEAD_MAN"} => Swept

(* What the switch is for: the orders of a bot that stops beating are      *)
(* cancelled, even if supervisors fail and die, unless they were placed    *)
(* after the fail-safe of a trip: the book empties, or the fail-safe has   *)
(* run and what rests is what it could not remove.  (The clock must have   *)
(* room to reach the timeout.)                                             *)
Left(n) == /\ book > 0 /\ file.seq = n /\ ~Tripped /\ sup.at # "latch"
           /\ file.ts + Timeout < MaxTime
FailSafeRan == (Tripped \/ sup.at = "latch") /\ Swept
WedgedIsCancelled ==
  \A n \in 1 .. MaxBeats : Left(n) ~> (book = 0 \/ file.seq # n \/ FailSafeRan)
=============================================================================
