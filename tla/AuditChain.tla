----------------------------- MODULE AuditChain -----------------------------
(***************************************************************************)
(* The audit log (treasuryforge/audit.py): every entry is sealed together  *)
(* with the seal before it.  A seal is modelled by what a hash stands for, *)
(* the entries it was computed from: equal seals, equal histories.  A      *)
(* write may fail or be cut short, and the next one is appended to what    *)
(* is there.  Whoever can write the file may change it after the fact, but *)
(* without the key has only the seals the log has made.                    *)
(***************************************************************************)
EXTENDS Naturals, Sequences, SequencesExt

CONSTANTS
  Entries,          \* what is recorded
  MaxLines,         \* bound: lines of the file
  MaxAuditFaults    \* bound: failed and crashed writes, changes from outside

VARIABLES
  audfile,     \* the lines; the last one may be torn, or lack its newline
  audprev,     \* self.prev of the running AuditLog
  audup,       \* a process holds an AuditLog
  audsaid,     \* history: the entries whose record() returned
  audslips,    \* history: a write left bytes and no answer, or a log was
               \* opened on another seal than the last one it returned
  audsealed,   \* history: every seal that was ever written
  audtouched,  \* history: the file was changed after the fact
  audbad,      \* history: verify_chain has not been true at some time
  audfaults    \* faults so far

audvars == <<audfile, audprev, audup, audsaid, audslips, audsealed, audtouched, audbad,
             audfaults>>

GENESIS == <<>>
Seal(prev, entry) == Append(prev, entry)
Line(prev, entry) ==
  [prev |-> prev, entry |-> entry, mac |-> Seal(prev, entry), state |-> "whole"]

(* The file after s more bytes: a line appended to one without a newline   *)
(* is one line with it, and no JSON.                                       *)
Written(file, line) ==
  IF file # <<>> /\ Last(file).state \in {"torn", "unended"}
  THEN [file EXCEPT ![Len(file)].state = IF line.state = "whole" THEN "spoilt" ELSE "torn"]
  ELSE Append(file, line)

(* What a write that did not return can have left of the line.             *)
Landed(file, line) ==
  {file} \cup {Written(file, [line EXCEPT !.state = s]) : s \in {"torn", "unended", "whole"}}

(* verify_chain()                                                          *)
CheckLink(v, line) ==
  IF v.says # "ok" THEN v
  ELSE IF line.state \in {"torn", "spoilt"} THEN [v EXCEPT !.says = "raises"]
  ELSE IF line.prev # v.prev THEN [v EXCEPT !.says = "false"]
  ELSE [v EXCEPT !.prev = line.mac]
CheckLine(v, line) ==
  IF v.says # "ok" THEN v
  ELSE IF line.state \in {"torn", "spoilt"} THEN [v EXCEPT !.says = "raises"]
  ELSE IF line.prev # v.prev \/ line.mac # Seal(v.prev, line.entry)
       THEN [v EXCEPT !.says = "false"]
  ELSE [v EXCEPT !.prev = line.mac]
VerifyChain(file) == FoldLeft(CheckLine, [says |-> "ok", prev |-> GENESIS], file).says

(* What whoever has no key can leave of a file: a line in another's place, *)
(* one more, one less, two exchanged.  A seal of one's own would be wrong. *)
Forged ==
  [prev : {GENESIS} \cup audsealed, entry : Entries, mac : audsealed, state : {"whole"}]
Changed(file) ==
  LET at == DOMAIN file IN
    {[file EXCEPT ![i] = l] : i \in at, l \in Forged}
    \cup {InsertAt(file, i, l) : i \in {k \in 1..(Len(file) + 1) : Len(file) < MaxLines}, l \in Forged}
    \cup {RemoveAt(file, i) : i \in at}
    \cup {[file EXCEPT ![i] = file[k], ![k] = file[i]] : i \in at, k \in at}

-----------------------------------------------------------------------------
(* record(): the line is written and synced, then prev moves on            *)

Record(entry) ==
  /\ audup /\ Len(audfile) < MaxLines
  /\ audfile' = Written(audfile, Line(audprev, entry))
  /\ audprev' = Seal(audprev, entry)
  /\ audsaid' = Append(audsaid, entry)
  /\ audsealed' = audsealed \cup {Seal(audprev, entry)}
  /\ audbad' = (audbad \/ VerifyChain(audfile') # "ok")
  /\ UNCHANGED <<audup, audslips, audtouched, audfaults>>

(* The write or the sync did not return: prev stays.                       *)
Slips(entry) ==
  /\ audup /\ Len(audfile) < MaxLines /\ audfaults < MaxAuditFaults
  /\ audfile' \in Landed(audfile, Line(audprev, entry))
  /\ audslips' = (audslips \/ audfile' # audfile)
  /\ audsealed' = audsealed \cup {s \in {Seal(audprev, entry)} : audfile' # audfile}
  /\ audbad' = (audbad \/ VerifyChain(audfile') # "ok")
  /\ audfaults' = audfaults + 1
  /\ UNCHANGED <<audprev, audsaid, audtouched>>

RecordRaises(entry) == Slips(entry) /\ UNCHANGED audup

AuditCrash(entry) == Slips(entry) /\ audup' = FALSE

(* The file is changed after the fact.                                     *)
Tamper ==
  /\ audfaults < MaxAuditFaults
  /\ audfile' \in Changed(audfile) \ {audfile}
  /\ audtouched' = TRUE /\ audfaults' = audfaults + 1
  /\ audbad' = (audbad \/ VerifyChain(audfile') # "ok")
  /\ UNCHANGED <<audprev, audup, audsaid, audslips, audsealed>>

(* AuditLog(path, key, prev_hash): the caller passes the seal of a line it *)
(* finds, or leaves the default.                                           *)
AuditOpen(prev) ==
  /\ ~audup
  /\ audup' = TRUE /\ audprev' = prev
  /\ audslips' = (audslips \/ prev # audprev)
  /\ UNCHANGED <<audfile, audsaid, audsealed, audtouched, audbad, audfaults>>

(* GET /api/audit/sample and POST /api/backtest/run: a log of its own in a *)
(* new file, removed when the answer has been made.                        *)
ApiSample(entries) ==
  /\ ~audup /\ audfile = <<>> /\ audsealed = {}
  /\ audfile' = FoldLeft(LAMBDA f, e : Append(f, Line(IF f = <<>> THEN GENESIS ELSE Last(f).mac, e)),
                         <<>>, entries)
  /\ audsaid' = entries
  /\ audprev' = Last(audfile').mac
  /\ audsealed' = {audfile'[i].mac : i \in DOMAIN audfile'}
  /\ audbad' = (VerifyChain(audfile') # "ok")
  /\ UNCHANGED <<audup, audslips, audtouched, audfaults>>

AuditInit ==
  /\ audfile = <<>> /\ audprev = GENESIS /\ audup \in BOOLEAN
  /\ audsaid = <<>> /\ audslips = FALSE /\ audbad = FALSE /\ audfaults = 0
  /\ audsealed = {} /\ audtouched = FALSE

AuditNext ==
  \/ \E e \in Entries : Record(e) \/ RecordRaises(e) \/ AuditCrash(e)
  \/ \E p \in {GENESIS} \cup {audfile[i].mac : i \in DOMAIN audfile} : AuditOpen(p)
  \/ Tamper
  \/ \E s \in UNION {[1..n -> Entries] : n \in 1..2} : ApiSample(s)

-----------------------------------------------------------------------------
(* How many of the acknowledged entries the file holds, in their order.    *)
Found == FoldLeft(LAMBDA n, line : IF n < Len(audsaid) /\ audsaid[n + 1] = line.entry
                                   THEN n + 1 ELSE n, 0, audfile)

(* A file that verifies is one history: every line is sealed over all the  *)
(* entries before it.  If the log was never resumed elsewhere and no write *)
(* of it stopped half-way, that history is the one it acknowledged, or the *)
(* beginning of it: an edited, inserted or exchanged line is told, and so  *)
(* is one missing from the middle, and a missing tail is not.  While       *)
(* nobody changes the file, such a log verifies; any log that does holds   *)
(* every acknowledged entry, in order; and one that once failed to verify  *)
(* never does again: no later record, crash or restart repairs or hides    *)
(* it.                                                                     *)
AuditTells ==
  /\ VerifyChain(audfile) = "ok" =>
       /\ \A i \in DOMAIN audfile :
            audfile[i].mac = [k \in 1..i |-> audfile[k].entry]
       /\ ~audslips => /\ Len(audfile) <= Len(audsaid)
                       /\ \A i \in DOMAIN audfile : audfile[i].entry = audsaid[i]
  /\ ~audtouched =>
       /\ ~audslips => VerifyChain(audfile) = "ok"
       /\ VerifyChain(audfile) = "ok" => Found = Len(audsaid)
       /\ audbad => VerifyChain(audfile) # "ok"
=============================================================================
