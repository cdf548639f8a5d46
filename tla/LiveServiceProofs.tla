-------------------------- MODULE LiveServiceProofs --------------------------
(***************************************************************************)
(* Proofs about the dead-man's switch, and about the live loop it guards,  *)
(* for any timeout, any overlap of the supervisor's calls with the bot's,  *)
(* and any number of failures.  The latch, the single firing and the beat  *)
(* counter need the calls to be serialised; that a punctual bot is never   *)
(* tripped needs nothing.                                                  *)
(***************************************************************************)
EXTENDS LiveService, TLAPS

-----------------------------------------------------------------------------
(* Types                                                                   *)

LEMMA InitType == Init => TypeOK
  BY DEF Init, TypeOK, NoBeat, Beats, Resting, Writer, Watching, Guard

LEMMA NextType == TypeOK /\ [Next]_wdvars => TypeOK'
<1> SUFFICES ASSUME TypeOK, [Next]_wdvars PROVE TypeOK'
  OBVIOUS
<1> USE DEF TypeOK, Beats, Writer, Guard
<1>1. CASE BeatCall
  BY <1>1 DEF BeatCall, Resting, Watching, NoBeat, Kept, Latched, count
<1>2. CASE BeatRefused
  BY <1>2 DEF BeatRefused, Resting, Watching, NoBeat, Kept, Latched, count
<1>3. CASE BeatRead
  BY <1>3 DEF BeatRead, Resting, Watching, NoBeat, Kept, Latched, count
<1>4. CASE BeatWrite
  BY <1>4 DEF BeatWrite, Resting, Watching, NoBeat, Kept, Latched, count
<1>5. CASE BotCrash
  BY <1>5 DEF BotCrash, Resting, Watching, NoBeat, Kept, Latched, count
<1>6. CASE SupCall
  BY <1>6 DEF SupCall, Resting, Watching, NoBeat, Kept, Latched, count
<1>7. CASE SupHealthy
  BY <1>7 DEF SupHealthy, Resting, Watching, NoBeat, Kept, Latched, count
<1>8. CASE SupRead
  BY <1>8 DEF SupRead, Resting, Watching, NoBeat, Kept, Latched, count
<1>9. CASE TripFires
  BY <1>9 DEF TripFires, Resting, Watching, NoBeat, Kept, Latched, count
<1>10. CASE TripRaises
  BY <1>10 DEF TripRaises, Resting, Watching, NoBeat, Kept, Latched, count
<1>11. CASE Latch
  BY <1>11 DEF Latch, Resting, Watching, NoBeat, Kept, Latched, count
<1>12. CASE SupCrash
  BY <1>12 DEF SupCrash, Resting, Watching, NoBeat, Kept, Latched, count
<1>13. CASE ResetCall
  BY <1>13 DEF ResetCall, Resting, Watching, NoBeat, Kept, Latched, count
<1>14. CASE ResetRead
  BY <1>14 DEF ResetRead, Resting, Watching, NoBeat, Kept, Latched, count
<1>15. CASE ResetWrite
  BY <1>15 DEF ResetWrite, Resting, Watching, NoBeat, Kept, Latched, count
<1>16. CASE Tick
  BY <1>16 DEF Tick, actors, count
<1>17. CASE UNCHANGED wdvars
  BY <1>17 DEF wdvars, actors, count
<1> QED
  BY <1>1, <1>2, <1>3, <1>4, <1>5, <1>6, <1>7, <1>8, <1>9, <1>10, <1>11, <1>12, <1>13, <1>14, <1>15, <1>16, <1>17 DEF Next, SupStep, Operator

(* Every variable keeps its type, serialised or not.                       *)
THEOREM WatchdogTypes == Spec => []TypeOK
  BY InitType, NextType, PTL DEF Spec

-----------------------------------------------------------------------------
(* Serialised calls                                                        *)

(* At most one call is under way.                                          *)
Alone == /\ bot.at # "idle" => sup.at = "idle" /\ oper.at = "idle"
         /\ sup.at # "idle" => oper.at = "idle"

(* What a call read from the file is still there when it writes.           *)
NotStale == /\ bot.at = "write" => ~Tripped /\ bot.seq = file.seq + 1
            /\ oper.at = "write" => oper.seq = file.seq + 1
            /\ sup.at \in {"trip", "latch"} => sup.seen = file /\ ~Tripped

(* How often the fail-safe has fired.                                      *)
Firings == /\ Tripped => fired >= 1 /\ fired <= 1 + lost
           /\ sup.at = "latch" => fired >= 1
           /\ ~Tripped => fired <= lost + (IF sup.at = "latch" THEN 1 ELSE 0)

SerialInv == TypeOK /\ Alone /\ NotStale /\ Firings

LEMMA InitSerial == Init => SerialInv
  BY InitType
  DEF Init, SerialInv, Alone, NotStale, Firings, Tripped, NoBeat, Resting, Watching

LEMMA NextSerial == ASSUME Serialised PROVE SerialInv /\ [Next]_wdvars => SerialInv'
<1> SUFFICES ASSUME SerialInv, [Next]_wdvars PROVE Alone' /\ NotStale' /\ Firings'
  BY NextType DEF SerialInv
<1> USE DEF SerialInv, TypeOK, Beats, Writer, Guard, Alone, NotStale, Firings, Tripped
<1>1. CASE BeatCall
  BY <1>1 DEF BeatCall, MayCall, count
<1>2. CASE BeatRefused \/ BeatRead
  BY <1>2 DEF BeatRefused, BeatRead, Refuses, Resting, count
<1>3. CASE BeatWrite
  BY <1>3 DEF BeatWrite, Resting, count
<1>4. CASE BotCrash
  BY <1>4 DEF BotCrash, Resting, count
<1>5. CASE SupCall \/ SupHealthy
  BY <1>5 DEF SupCall, SupHealthy, MayCall, Watching, count
<1>6. CASE SupRead
  BY <1>6 DEF SupRead, count
<1>7. CASE TripFires
  BY <1>7 DEF TripFires
<1>8. CASE TripRaises
  BY <1>8 DEF TripRaises, Watching, Kept
<1>9. CASE Latch
  BY <1>9 DEF Latch, Watching, Latched, count
<1>10. CASE SupCrash
  BY <1>10 DEF SupCrash, Watching
<1>11. CASE ResetCall \/ ResetRead
  BY <1>11 DEF ResetCall, ResetRead, MayCall, count
<1>12. CASE ResetWrite
  BY <1>12 DEF ResetWrite, Resting
<1>13. CASE Tick \/ UNCHANGED wdvars
  BY <1>13 DEF Tick, wdvars, actors, count
<1> QED
  BY <1>1, <1>2, <1>3, <1>4, <1>5, <1>6, <1>7, <1>8, <1>9, <1>10, <1>11, <1>12, <1>13
  DEF Next, SupStep, Operator

LEMMA SerialAlways == ASSUME Serialised PROVE Spec => []SerialInv
  BY InitSerial, NextSerial, PTL DEF Spec

(* With serialised calls the fail-safe fires once per trip, but for the    *)
(* firings a crash kept from being latched.                                *)
THEOREM FiresExactlyOnce == ASSUME Serialised PROVE Spec => []FiresOnce
<1>1. SerialInv => FiresOnce
  BY DEF SerialInv, Firings, FiresOnce, TypeOK
<1> QED
  BY <1>1, SerialAlways, PTL

(* With serialised calls a latch is never written without a fail-safe.     *)
THEOREM LatchIsBacked == ASSUME Serialised PROVE Spec => []TripIsBacked
<1>1. SerialInv => TripIsBacked
  BY DEF SerialInv, Firings, TripIsBacked
<1> QED
  BY <1>1, SerialAlways, PTL

(* With serialised calls only the operator's reset un-trips the switch.    *)
THEOREM NeverSilentlyUntrips == ASSUME Serialised PROVE Spec => LatchHolds
<1>1. SerialInv /\ [Next]_wdvars
        => [Tripped /\ ~Tripped' => oper.at = "write" /\ oper'.at = "idle"]_wdvars
  <2> SUFFICES ASSUME SerialInv, Next, Tripped, ~Tripped'
               PROVE  oper.at = "write" /\ oper'.at = "idle"
    OBVIOUS
  <2> USE DEF SerialInv, NotStale, Tripped
  <2>1. CASE BeatWrite \/ Latch
    BY <2>1 DEF BeatWrite, Latch
  <2>2. CASE ResetWrite
    BY <2>2 DEF ResetWrite, Resting
  <2>3. CASE ~(BeatWrite \/ Latch \/ ResetWrite)
    BY <2>3 DEF Next, SupStep, Operator, BeatCall, BeatRefused, BeatRead, BotCrash, SupCall,
         SupHealthy, SupRead, TripFires, TripRaises, Kept, SupCrash, ResetCall, ResetRead, Tick
  <2> QED
    BY <2>1, <2>2, <2>3
<1> QED
  BY <1>1, SerialAlways, PTL DEF Spec, LatchHolds

(* With serialised calls the beat counter never runs backward.             *)
THEOREM SeqNeverFalls == ASSUME Serialised PROVE Spec => SeqMonotone
<1>1. SerialInv /\ [Next]_wdvars => [file'.seq >= file.seq]_wdvars
  <2> SUFFICES ASSUME SerialInv, Next PROVE file'.seq >= file.seq
    OBVIOUS
  <2> USE DEF SerialInv, NotStale, TypeOK, Beats
  <2>1. CASE BeatWrite \/ ResetWrite
    BY <2>1 DEF BeatWrite, ResetWrite
  <2>2. CASE Latch
    BY <2>2 DEF Latch, Latched
  <2>3. CASE ~(BeatWrite \/ Latch \/ ResetWrite)
    BY <2>3 DEF Next, SupStep, Operator, BeatCall, BeatRefused, BeatRead, BotCrash, SupCall,
         SupHealthy, SupRead, TripFires, TripRaises, Kept, SupCrash, ResetCall, ResetRead, Tick
  <2> QED
    BY <2>1, <2>2, <2>3
<1> QED
  BY <1>1, SerialAlways, PTL DEF Spec, SeqMonotone

-----------------------------------------------------------------------------
(* A punctual bot                                                          *)

(* No beat, written or under way, is overdue, and no call of supervise()   *)
(* holds a time later than the present.                                    *)
PunctualInv ==
  /\ TypeOK
  /\ ~Tripped /\ fired = 0 /\ sup.at \in {"idle", "read"} /\ oper.at = "idle"
  /\ Exists => clock <= file.ts + Timeout
  /\ bot.at # "idle" => bot.now <= clock /\ clock <= bot.now + Timeout
  /\ sup.at = "read" => sup.now <= clock

LEMMA InitPunctual == Init => PunctualInv
  BY InitType, TimeoutAssumption
  DEF Init, PunctualInv, Tripped, Exists, NoBeat, Resting, Watching

LEMMA NextPunctual ==
  ASSUME Punctual PROVE PunctualInv /\ [NextUnattended]_wdvars => PunctualInv'
<1> SUFFICES ASSUME PunctualInv, [NextUnattended]_wdvars PROVE PunctualInv'
  OBVIOUS
<1>0. TypeOK'
  BY NextType DEF PunctualInv, NextUnattended, Next
<1> USE TimeoutAssumption DEF PunctualInv, TypeOK, Beats, Writer, Guard, Tripped, Exists
<1>1. CASE BeatCall \/ BeatRefused \/ BeatRead
  BY <1>0, <1>1 DEF BeatCall, BeatRefused, BeatRead, Resting, count
<1>2. CASE BeatWrite \/ BotCrash
  BY <1>0, <1>2 DEF BeatWrite, BotCrash, Resting, count
<1>3. CASE SupCall \/ SupHealthy
  BY <1>0, <1>3 DEF SupCall, SupHealthy, Watching, count
<1>4. ASSUME SupRead PROVE FALSE
  BY <1>4 DEF SupRead, Overdue
<1>5. CASE TripFires \/ TripRaises \/ Latch \/ SupCrash
  BY <1>0, <1>5 DEF TripFires, TripRaises, Latch, SupCrash, Watching
<1>6. CASE Tick
  BY <1>0, <1>6 DEF Tick, OnTime, actors, count
<1>7. CASE UNCHANGED wdvars
  BY <1>0, <1>7 DEF wdvars, actors, count
<1> QED
  BY <1>1, <1>2, <1>3, <1>4, <1>5, <1>6, <1>7 DEF NextUnattended, SupStep

(* A punctual bot is never tripped, however the calls interleave.          *)
THEOREM PunctualIsSafe == ASSUME Punctual PROVE UnattendedSpec => []PunctualNeverTripped
<1>1. PunctualInv => PunctualNeverTripped
  BY DEF PunctualInv, PunctualNeverTripped
<1> QED
  BY <1>1, InitPunctual, NextPunctual, PTL DEF UnattendedSpec

-----------------------------------------------------------------------------
(* The guarded loop                                                        *)

(* Only the beat of a step holds the heartbeat file, and an order that is  *)
(* late leaves the loop before the point where another could follow.       *)
BeatIsAStage == bot.at # "idle" => stage = "beat"
LateIsPast == \/ late = 0
              \/ late = 1 /\ Tripped /\ stage \notin {"beat", "gate", "submit"}

LateInv == BeatIsAStage /\ LateIsPast

LEMMA InitLate == LiveInit => LateInv
  BY DEF LiveInit, Init, Resting, LateInv, BeatIsAStage, LateIsPast

LEMMA NextLate == LateInv /\ [LiveNext]_svars => LateInv'
<1> SUFFICES ASSUME LateInv, [LiveNext]_svars PROVE LateInv'
  OBVIOUS
<1> USE DEF LateInv, BeatIsAStage, LateIsPast, Tripped, Goto, GotoHalt, service, trading
<1>1. CASE Boot \/ Preflight \/ Recovered \/ FeedYields \/ FeedEnds
  BY <1>1 DEF Boot, Preflight, Refuse, Recovered, FeedYields, FeedEnds, wdvars, actors
<1>2. CASE RecoverRaises \/ Halt \/ HaltRaises
  BY <1>2 DEF RecoverRaises, Halt, CancelAll, HaltRaises, AfterExit, wdvars, actors
<1>3. CASE CheckTripped
  BY <1>3 DEF CheckTripped, wdvars, actors
<1>4. CASE Beat
  <2>1. CASE (BeatCall \/ BeatRead) /\ UNCHANGED service
    BY <1>4, <2>1 DEF Beat, BeatCall, BeatRead
  <2>2. CASE BeatRefused /\ GotoHalt("ERROR")
    BY <1>4, <2>2 DEF Beat, BeatRefused, Resting
  <2>3. CASE BeatWrite /\ Goto("gate")
    BY <1>4, <2>3 DEF Beat, BeatWrite, Resting
  <2> QED
    BY <1>4, <2>1, <2>2, <2>3 DEF Beat
<1>5. CASE Gate
  BY <1>5 DEF Gate, wdvars, actors
<1>6. CASE Submit \/ Raises
  BY <1>6 DEF Submit, Raises, Place, AfterSubmit, wdvars, actors
<1>7. CASE Kill
  BY <1>7 DEF Kill, Place, Resting
<1>8. CASE Supervisor \/ SupervisorDies
  BY <1>8 DEF Supervisor, SupervisorDies, FailSafe, CancelAll, TripFires, SupCall, SupHealthy, SupRead,
       TripRaises, Kept, Latch, Latched, SupCrash, count
<1>9. CASE Fills \/ Lands \/ TimePasses
  BY <1>9 DEF Fills, Lands, TimePasses, Tick, wdvars, actors
<1>10. CASE UNCHANGED svars
  BY <1>10 DEF svars, wdvars, actors
<1> QED
  BY <1>1, <1>2, <1>3, <1>4, <1>5, <1>6, <1>7, <1>8, <1>9, <1>10 DEF LiveNext, Bot

(* While the switch stays tripped at most one order is placed, over all    *)
(* the processes systemd starts.                                           *)
THEOREM AtMostOneLateOrder == LiveSpec => []OneLateOrder
<1>1. LateInv => OneLateOrder
  BY DEF LateInv, LateIsPast, OneLateOrder
<1> QED
  BY <1>1, InitLate, NextLate, PTL DEF LiveSpec

(* A service that has ended because it halted has run the fail-safe last:  *)
(* every order resting is spared, and only a landing POST adds another.    *)
Counts == book \in Nat /\ flying \in Nat /\ spared \in 0 .. book
SweptInv == Counts /\ HaltedIsSwept

LEMMA NextCounts == Counts /\ [LiveNext]_svars => Counts'
<1> SUFFICES ASSUME Counts, [LiveNext]_svars PROVE Counts'
  OBVIOUS
<1> USE DEF Counts, trading
<1>1. ASSUME Place PROVE Counts'
  BY <1>1 DEF Place
<1>2. ASSUME CancelAll PROVE Counts'
  BY <1>2 DEF CancelAll
<1>3. CASE UNCHANGED trading
  BY <1>3
<1>4. CASE Boot \/ Preflight \/ Recovered \/ RecoverRaises \/ FeedYields \/ FeedEnds
  BY <1>4 DEF Boot, Preflight, Recovered, RecoverRaises, FeedYields, FeedEnds
<1>5. CASE CheckTripped \/ Beat \/ Gate \/ HaltRaises \/ SupervisorDies \/ TimePasses
  BY <1>5 DEF CheckTripped, Beat, Gate, HaltRaises, SupervisorDies, TimePasses
<1>6. CASE Submit \/ Raises \/ Kill
  BY <1>1, <1>3, <1>6 DEF Submit, Raises, Kill
<1>7. CASE Halt \/ Supervisor
  BY <1>2, <1>3, <1>7 DEF Halt, Supervisor, FailSafe
<1>8. CASE Fills
  BY <1>8 DEF Fills
<1>9. CASE Lands
  BY <1>9 DEF Lands
<1>10. CASE UNCHANGED svars
  BY <1>10 DEF svars
<1> QED
  BY <1>3, <1>4, <1>5, <1>6, <1>7, <1>8, <1>9, <1>10 DEF LiveNext, Bot

LEMMA NextSwept == SweptInv /\ [LiveNext]_svars => SweptInv'
<1> SUFFICES ASSUME SweptInv, [LiveNext]_svars PROVE HaltedIsSwept'
  BY NextCounts DEF SweptInv
<1> USE DEF SweptInv, Counts, HaltedIsSwept, Swept, Goto, GotoHalt, service, trading
<1>1. CASE Boot \/ Preflight \/ Recovered \/ RecoverRaises
  BY <1>1 DEF Boot, Preflight, Refuse, Recovered, RecoverRaises
<1>2. CASE FeedYields \/ FeedEnds \/ CheckTripped \/ Beat \/ Gate
  BY <1>2 DEF FeedYields, FeedEnds, CheckTripped, Beat, Gate
<1>3. CASE Submit \/ Raises
  BY <1>3 DEF Submit, Raises, AfterSubmit
<1>4. CASE Halt \/ HaltRaises \/ Kill
  BY <1>4 DEF Halt, HaltRaises, Kill, CancelAll
<1>5. CASE Supervisor \/ SupervisorDies
  BY <1>5 DEF Supervisor, SupervisorDies, FailSafe, CancelAll
<1>6. CASE Fills
  BY <1>6 DEF Fills
<1>7. CASE Lands
  BY <1>7 DEF Lands
<1>8. CASE TimePasses \/ UNCHANGED svars
  BY <1>8 DEF TimePasses, svars
<1> QED
  BY <1>1, <1>2, <1>3, <1>4, <1>5, <1>6, <1>7, <1>8 DEF LiveNext, Bot

(* However often it was killed and restarted before, a service that halted *)
(* for good left nothing that the fail-safe did not see: what rests was in *)
(* a cancel the exchange did not carry out, or landed after it.            *)
THEOREM HaltLeavesNothingUnseen == LiveSpec => []HaltedIsSwept
<1>1. LiveInit => SweptInv
  BY DEF LiveInit, SweptInv, Counts, HaltedIsSwept
<1>2. SweptInv => HaltedIsSwept
  BY DEF SweptInv
<1> QED
  BY <1>1, <1>2, NextSwept, PTL DEF LiveSpec
=============================================================================
