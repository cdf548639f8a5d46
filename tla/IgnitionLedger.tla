--------------------------- MODULE IgnitionLedger ---------------------------
(* The forward test of the owner's picks.  A detector in a loop logs every   *)
(* ignition of a token and, when its hold window is over, books its outcome; *)
(* the owner marks picks by a command of its own.  They share an append-only *)
(* ledger and no lock, and each acts on what it read before.  One detector   *)
(* runs at a time: two do not see each other's lines within a pass, and book *)
(* an outcome twice.                                                         *)
EXTENDS Integers, Sequences, FiniteSets, SequencesExt, FiniteSetsExt

CONSTANTS Tokens,                 \* what ignites
          PageHours,              \* hours in one answer of the exchange
          ResolveHours, Cooldown, \* --resolve-hours, --cooldown-hours
          MaxHours, MaxEvents, MaxTears   \* bounds: the clock, the lines, the deaths

(* A hold window of an hour at least: with none, a bet could be booked and   *)
(* ignite again within the hour that is its name.                            *)
ASSUME WindowAssumption ==
  ResolveHours \in Nat \ {0} /\ Cooldown \in Int /\ PageHours \in Nat /\ MaxHours \in Nat

VARIABLES hours,    \* the wall clock
          ledger,   \* the lines of ledger.jsonl
          pass,     \* what the detector is in the middle of
          picker,   \* the id that mark_pick is about to mark
          tears,    \* deaths in the middle of a line
          candles   \* the hours in which the exchange saw a trade

ignvars == <<hours, ledger, pass, picker, tears, candles>>

NoPass == [phase |-> "none"]
NoPick == [token |-> "none", ts |-> -1]

(* path stands for the return, which is worked out of the candles.           *)
Event(kind, id, path) == [kind |-> kind, id |-> id, at |-> hours, path |-> path, line |-> "whole"]

(* append_event.  A line appended to a torn one is one line with it, and no  *)
(* JSON, whoever appends.                                                    *)
AppendEvent(file, e) ==
  IF file # <<>> /\ Last(file).line = "torn"
  THEN [file EXCEPT ![Len(file)].line = IF e.line = "whole" THEN "spoilt" ELSE "torn"]
  ELSE Append(file, e)

(* _state: the replay.  A later event overwrites what an earlier one said.   *)
Replayed(st, e) ==
  IF e.line # "whole" THEN st
  ELSE CASE e.kind = "ignition" ->
              [i \in DOMAIN st \cup {e.id} |->
                 IF i = e.id THEN [picked |-> FALSE, open |-> TRUE, path |-> {}] ELSE st[i]]
         [] e.kind = "pick" /\ e.id \in DOMAIN st -> [st EXCEPT ![e.id].picked = TRUE]
         [] e.kind = "resolved" /\ e.id \in DOMAIN st ->
              [st EXCEPT ![e.id].open = FALSE, ![e.id].path = e.path]
         [] OTHER -> st
State(file) == FoldLeft(Replayed, <<>>, file)

(* Who may not ignite again: open, or seen within the cooldown.              *)
OpenOrRecent(st, now) ==
  {i.token : i \in {j \in DOMAIN st : st[j].open \/ now - j.ts < Cooldown}}

Due(st, now) == {i \in DOMAIN st : st[i].open /\ now - i.ts >= ResolveHours}

(* path_since: backward from now, a page at a time, until the hour of the    *)
(* ignition, or a page that is empty or does not get any further.  The hour  *)
(* of the ignition itself began before it.                                   *)
Path(since) ==
  LET Chunk(from, to) == {c \in candles : c > since /\ from <= c /\ c <= to}
      Joined(chunk, end, earlier) ==
        IF chunk = {} \/ Min(chunk) >= end THEN chunk ELSE chunk \cup earlier[Min(chunk) - 1]
      back[end \in -1..MaxHours] ==
        IF end <= since THEN {} ELSE Joined(Chunk(end - PageHours, end), end, back)
  IN  Joined(Chunk(hours - PageHours + 1, hours), hours + 1, back)

Writes == Len(ledger) < MaxEvents

Begin ==
  /\ pass = NoPass
  /\ LET st == State(ledger)
     IN  pass' = [phase |-> "detect", st |-> st, now |-> hours,
                  todo |-> Tokens \ OpenOrRecent(st, hours)]
  /\ UNCHANGED <<hours, ledger, picker, tears, candles>>

(* detect: the candle of one token, which shows an ignition or does not.     *)
DetectOne ==
  /\ pass.phase = "detect"
  /\ \E t \in pass.todo :
       LET id == [token |-> t, ts |-> pass.now]
       IN  \/ /\ pass' = [pass EXCEPT !.todo = @ \ {t}]
              /\ UNCHANGED ledger
           \/ /\ Writes
              /\ ledger' = AppendEvent(ledger, Event("ignition", id, {}))
              /\ pass' = [pass EXCEPT !.todo = @ \ {t},
                              !.st = Replayed(@, Event("ignition", id, {}))]
  /\ UNCHANGED <<hours, picker, tears, candles>>

BeginResolve ==
  /\ pass.phase = "detect" /\ pass.todo = {}
  /\ pass' = [phase |-> "resolve", st |-> pass.st, now |-> hours,
              todo |-> Due(pass.st, hours)]
  /\ UNCHANGED <<hours, ledger, picker, tears, candles>>

(* resolve: the path of one ignition, which can be had or cannot.            *)
ResolveOne ==
  /\ pass.phase = "resolve"
  /\ \E i \in pass.todo :
       /\ pass' = [pass EXCEPT !.todo = @ \ {i}]
       /\ \/ UNCHANGED ledger
          \/ /\ Writes /\ Cardinality(Path(i.ts)) >= 2
             /\ ledger' = AppendEvent(ledger, Event("resolved", i, Path(i.ts)))
  /\ UNCHANGED <<hours, picker, tears, candles>>

EndPass ==
  /\ pass.phase = "resolve" /\ pass.todo = {}
  /\ pass' = NoPass
  /\ UNCHANGED <<hours, ledger, picker, tears, candles>>

(* mark_pick: the newest open ignition of the token, if not picked already.  *)
ReadPick ==
  /\ picker = NoPick
  /\ LET st == State(ledger)
         open == {i \in DOMAIN st : st[i].open}
     IN  \E i \in open :
           /\ \A j \in open : j.token = i.token => j.ts <= i.ts
           /\ ~st[i].picked
           /\ picker' = i
  /\ UNCHANGED <<hours, ledger, pass, tears, candles>>

WritePick ==
  /\ picker # NoPick /\ Writes
  /\ ledger' = AppendEvent(ledger, Event("pick", picker, {}))
  /\ picker' = NoPick
  /\ UNCHANGED <<hours, pass, tears, candles>>

(* A process dies in the middle of its line, or as soon as it is written.    *)
Tear ==
  /\ tears < MaxTears /\ tears' = tears + 1
  /\ \/ /\ picker # NoPick /\ Writes
        /\ \E s \in {"torn", "whole"} :
             ledger' = AppendEvent(ledger, [Event("pick", picker, {}) EXCEPT !.line = s])
        /\ picker' = NoPick /\ UNCHANGED pass
     \/ /\ pass.phase = "detect" /\ Writes
        /\ \E t \in pass.todo, s \in {"torn", "whole"} :
             ledger' = AppendEvent(ledger, [Event("ignition", [token |-> t, ts |-> pass.now], {})
                                              EXCEPT !.line = s])
        /\ pass' = NoPass /\ UNCHANGED picker
     \/ /\ pass.phase = "resolve" /\ Writes
        /\ \E i \in pass.todo, s \in {"torn", "whole"} :
             /\ Cardinality(Path(i.ts)) >= 2
             /\ ledger' = AppendEvent(ledger, [Event("resolved", i, Path(i.ts)) EXCEPT !.line = s])
        /\ pass' = NoPass /\ UNCHANGED picker
  /\ UNCHANGED <<hours, candles>>

Hour ==
  /\ hours < MaxHours /\ hours' = hours + 1
  /\ \E c \in SUBSET {hours + 1} : candles' = candles \cup c
  /\ UNCHANGED <<ledger, pass, picker, tears>>

IgnInit ==
  /\ hours = 0 /\ ledger = <<>> /\ picker = NoPick /\ tears = 0
  /\ pass = NoPass /\ candles = {}

IgnNext ==
  \/ Begin \/ DetectOne \/ BeginResolve \/ ResolveOne \/ EndPass
  \/ ReadPick \/ WritePick \/ Tear \/ Hour

Lines(kind, id) ==
  {n \in DOMAIN ledger : /\ ledger[n].line = "whole"
                         /\ ledger[n].kind = kind /\ ledger[n].id = id}

(* Every ignition is one bet with one outcome: a token does not ignite again *)
(* before its last bet is booked and the cooldown over, and an outcome that  *)
(* was booked stands, through torn lines and processes that die              *)
(* (ignition_detector.py 52-96).                                             *)
BetsAreSeparate ==
  LET bets == DOMAIN State(ledger)
  IN  \A i \in bets :
        /\ \A m, n \in Lines("resolved", i) : m = n
        /\ \A j \in bets :
             j.token = i.token /\ i.ts < j.ts =>
               /\ j.ts - i.ts >= Cooldown
               /\ \A n \in Lines("ignition", j) : \E m \in Lines("resolved", i) : m < n

(* A booked outcome was worked out of every candle since the ignition, save  *)
(* for those on the far side of a silence of more than a page                *)
(* (_coinbase.py 47-74, ignition_detector.py 77-89).                         *)
PathIsWhole ==
  \A n \in DOMAIN ledger :
    LET e == ledger[n]
    IN  e.kind = "resolved" =>
          \A c \in candles \ e.path, p \in e.path :
            e.id.ts < c /\ c <= e.at => p - c > PageHours

(* mark_pick.py:3: "BEFORE the outcome is known".  It looks at whether the   *)
(* outcome was booked, not at whether the hold window is over: a pick of     *)
(* after the window is taken, and so is one that was read before the booking *)
(* and written after it.                                                     *)
PicksAreForesight ==
  \A n \in DOMAIN ledger :
    ledger[n].kind = "pick" => ledger[n].at < ledger[n].id.ts + ResolveHours
=============================================================================
