------------------------------- MODULE Watchdog -------------------------------
(***************************************************************************)
(* The dead-man's switch (treasuryforge/watchdog.py): a bot that beats, a  *)
(* supervisor that trips the switch when the beats stop, and an operator   *)
(* who resets it.  They share one heartbeat file, which each of them reads *)
(* and later replaces: a replacement is atomic, a call is not.             *)
(***************************************************************************)
EXTENDS Naturals

CONSTANTS
  Timeout,      \* timeout_s
  Serialised,   \* calls never overlap: supervise() is a check of the same loop;
                \* otherwise the supervisor is a process of its own
  Punctual,     \* the bot completes a beat at least every Timeout
  MaxTime,      \* bound: the clock
  MaxBeats,     \* bound: beats and resets written
  MaxFaults     \* bound: crashes and failures of the fail-safe

ASSUME TimeoutAssumption == Timeout \in Nat \ {0}
ASSUME ModeAssumption == Serialised \in BOOLEAN /\ Punctual \in BOOLEAN
ASSUME BoundsAssumption == MaxTime \in Nat /\ MaxBeats \in Nat /\ MaxFaults \in Nat

VARIABLES
  file,       \* the heartbeat file; seq 0 while it does not exist
  clock,      \* the wall clock, in seconds
  bot,        \* beat(): where it is, its argument now, the beat number it read
  sup,        \* supervise(): where it is, its argument now, the beat it read
  oper,       \* reset(): where it is, its argument now, the beat number it read
  fired,      \* completed calls of on_trip since the last reset
  lost,       \* of those, calls whose trip a crash kept from being latched
  faults      \* crashes and failures so far

actors == <<bot, sup, oper>>
count  == <<fired, lost, faults>>
wdvars == <<file, clock, actors, count>>

Beats   == [ts : Nat, seq : Nat, tripped : BOOLEAN]
NoBeat  == [ts |-> 0, seq |-> 0, tripped |-> FALSE]
Resting == [at |-> "idle", now |-> 0, seq |-> 0]
Writer  == [at : {"idle", "read", "write"}, now : Nat, seq : Nat]
Guard   == [at : {"idle", "read", "trip", "latch"}, now : Nat, seen : Beats]
Watching == [at |-> "idle", now |-> 0, seen |-> NoBeat]

TypeOK ==
  /\ file \in Beats /\ clock \in Nat
  /\ bot \in Writer /\ oper \in Writer /\ sup \in Guard
  /\ fired \in Nat /\ lost \in Nat /\ faults \in Nat

Init ==
  /\ file = NoBeat /\ clock = 0
  /\ bot = Resting /\ oper = Resting /\ sup = Watching
  /\ fired = 0 /\ lost = 0 /\ faults = 0

Exists  == file.seq > 0
Tripped == file.tripped

(* A call may begin.                                                       *)
MayCall == Serialised => bot.at = "idle" /\ sup.at = "idle" /\ oper.at = "idle"

-----------------------------------------------------------------------------
(* beat()                                                                  *)

BeatCall ==
  /\ bot.at = "idle" /\ MayCall
  /\ bot' = [at |-> "read", now |-> clock, seq |-> 0]
  /\ UNCHANGED <<file, clock, sup, oper, count>>

(* A tripped switch refuses the beat: RuntimeError.                        *)
RefusesNever == FALSE
Refuses == Tripped

BeatRefused ==
  /\ bot.at = "read" /\ Refuses
  /\ bot' = Resting
  /\ UNCHANGED <<file, clock, sup, oper, count>>

BeatRead ==
  /\ bot.at = "read" /\ ~Refuses /\ file.seq < MaxBeats
  /\ bot' = [at |-> "write", now |-> bot.now, seq |-> file.seq + 1]
  /\ UNCHANGED <<file, clock, sup, oper, count>>

BeatWrite ==
  /\ bot.at = "write"
  /\ file' = [ts |-> bot.now, seq |-> bot.seq, tripped |-> FALSE]
  /\ bot' = Resting
  /\ UNCHANGED <<clock, sup, oper, count>>

BotCrash ==
  /\ bot.at # "idle" /\ faults < MaxFaults
  /\ bot' = Resting /\ faults' = faults + 1
  /\ UNCHANGED <<file, clock, sup, oper, fired, lost>>

-----------------------------------------------------------------------------
(* supervise()                                                             *)

(* The caller evaluates the argument now before the file is read.          *)
SupCall ==
  /\ sup.at = "idle" /\ MayCall
  /\ sup' = [at |-> "read", now |-> clock, seen |-> NoBeat]
  /\ UNCHANGED <<file, clock, bot, oper, count>>

Overdue(now) == now > file.ts + Timeout

SupHealthy ==
  /\ sup.at = "read"
  /\ ~Exists \/ Tripped \/ ~Overdue(sup.now)
  /\ sup' = Watching
  /\ UNCHANGED <<file, clock, bot, oper, count>>

SupRead ==
  /\ sup.at = "read"
  /\ Exists /\ ~Tripped /\ Overdue(sup.now)
  /\ sup' = [at |-> "trip", now |-> sup.now, seen |-> file]
  /\ UNCHANGED <<file, clock, bot, oper, count>>

(* on_trip: resting orders are cancelled, the kill-switch is latched.      *)
TripFires ==
  /\ sup.at = "trip"
  /\ sup' = [sup EXCEPT !.at = "latch"]
  /\ fired' = fired + 1
  /\ UNCHANGED <<file, clock, bot, oper, lost, faults>>

(* on_trip raises: the exception leaves supervise() and nothing is written.*)
KeptLatched == [file EXCEPT !.tripped = TRUE]
Kept == file

TripRaises ==
  /\ sup.at = "trip" /\ faults < MaxFaults
  /\ sup' = Watching
  /\ faults' = faults + 1
  /\ file' = Kept
  /\ UNCHANGED <<clock, bot, oper, fired, lost>>

(* The trip is persisted from the beat that was read before on_trip.       *)
LatchedNot == [ts |-> sup.seen.ts, seq |-> sup.seen.seq, tripped |-> FALSE]
Latched == [ts |-> sup.seen.ts, seq |-> sup.seen.seq, tripped |-> TRUE]

Latch ==
  /\ sup.at = "latch"
  /\ file' = Latched
  /\ sup' = Watching
  /\ UNCHANGED <<clock, bot, oper, count>>

(* The supervisor dies; a new one has nothing but the file.                *)
SupCrash ==
  /\ sup.at # "idle" /\ faults < MaxFaults
  /\ sup' = Watching
  /\ faults' = faults + 1
  /\ lost' = IF sup.at = "latch" THEN lost + 1 ELSE lost
  /\ UNCHANGED <<file, clock, bot, oper, fired>>

-----------------------------------------------------------------------------
(* reset(), the operator's deliberate recovery                             *)

ResetCall ==
  /\ oper.at = "idle" /\ MayCall
  /\ oper' = [at |-> "read", now |-> clock, seq |-> 0]
  /\ UNCHANGED <<file, clock, bot, sup, count>>

ResetRead ==
  /\ oper.at = "read" /\ file.seq < MaxBeats
  /\ oper' = [at |-> "write", now |-> oper.now, seq |-> file.seq + 1]
  /\ UNCHANGED <<file, clock, bot, sup, count>>

ResetWrite ==
  /\ oper.at = "write"
  /\ file' = [ts |-> oper.now, seq |-> oper.seq, tripped |-> FALSE]
  /\ oper' = Resting
  /\ fired' = 0 /\ lost' = 0
  /\ UNCHANGED <<clock, bot, sup, faults>>

-----------------------------------------------------------------------------
(* Time passes; a punctual bot never lets a beat, written or under way,    *)
(* grow older than Timeout.                                                *)
OnTime == /\ Exists => clock < file.ts + Timeout
          /\ bot.at # "idle" => clock < bot.now + Timeout

Tick ==
  /\ clock < MaxTime
  /\ Punctual => OnTime
  /\ clock' = clock + 1
  /\ UNCHANGED <<file, actors, count>>

SupStep == SupCall \/ SupHealthy \/ SupRead \/ TripFires \/ TripRaises \/ Latch

Operator == ResetCall \/ ResetRead \/ ResetWrite

Next ==
  \/ BeatCall \/ BeatRefused \/ BeatRead \/ BeatWrite \/ BotCrash
  \/ SupStep \/ SupCrash
  \/ Operator
  \/ Tick

Spec == Init /\ [][Next]_wdvars

(* Without an operator: nobody resets the switch.                          *)
NextUnattended ==
  \/ BeatCall \/ BeatRefused \/ BeatRead \/ BeatWrite \/ BotCrash
  \/ SupStep \/ SupCrash \/ Tick

UnattendedSpec == Init /\ [][NextUnattended]_wdvars

-----------------------------------------------------------------------------
(* What holds when the calls never overlap                                 *)

(* A tripped switch stays tripped until the operator resets it ("never     *)
(* silently un-trips").                                                    *)
LatchHolds ==
  [][Tripped /\ ~Tripped' => oper.at = "write" /\ oper'.at = "idle"]_wdvars

(* The fail-safe fires exactly once per trip; a crash between the          *)
(* fail-safe and the latch may repeat it, and nothing else does.           *)
FiresOnce == fired <= 1 + lost

(* The beat counter never runs backward.                                   *)
SeqMonotone == [][file'.seq >= file.seq]_wdvars

(* A tripped switch has done its fail-safe: on_trip comes first, so no     *)
(* crash or failure leaves a latch without a cancel behind it.             *)
TripIsBacked == Tripped => fired >= 1

-----------------------------------------------------------------------------
(* What holds even when they do                                            *)

(* A bot whose beats never grow older than Timeout is never tripped,       *)
(* however the reads and writes of the two processes interleave.           *)
PunctualNeverTripped == Punctual => fired = 0 /\ ~Tripped
=============================================================================
