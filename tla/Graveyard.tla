------------------------------ MODULE Graveyard ------------------------------
(***************************************************************************)
(* The strategy graveyard (risk/graveyard.py) and the fingerprints of the  *)
(* reproducibility pack (risk/provenance.py).  A content hash is what was  *)
(* hashed; a metric is a number, or not measured.                          *)
(***************************************************************************)
EXTENDS Integers, Sequences, SequencesExt

CONSTANTS
  Ids, Contents,     \* strategy names; what data, config, strategy, report can be
  Stamps,            \* timestamps and commits of a pack
  Limits, Measures,  \* limits of revival conditions; measured values
  MaxBuried          \* bound: burials

VARIABLES
  graves,    \* the lines of the file, oldest first
  asked      \* the last question and its answer

gravevars == <<graves, asked>>

(* make_provenance(): four content hashes; the fingerprint leaves out      *)
(* when, on which commit and under which name the pack was made.           *)
Pack(content, stamp) == [content |-> content, stamp |-> stamp]
ContentFingerprint(pack) == pack.content
Reproduces(pack, other) == ContentFingerprint(pack) = ContentFingerprint(other)

Unmeasured == -1
NotAsked == [by |-> "nothing"]

(* bury(): one line is appended and synced.                                *)
Bury(id, pack, cond) ==
  /\ Len(graves) < MaxBuried
  /\ graves' = Append(graves, [id |-> id, fingerprint |-> ContentFingerprint(pack),
                               pack |-> pack, cond |-> cond])
  /\ asked' = NotAsked

(* find_by_fingerprint(): the oldest entry with the fingerprint.           *)
FindByFingerprint(pack) ==
  SelectInSeq(graves, LAMBDA e : e.fingerprint = ContentFingerprint(pack))

(* check_revival(): the conditions of the oldest burial under that name;   *)
(* what was not measured is not met.                                       *)
Holds(cond, measured) ==
  /\ measured # Unmeasured
  /\ IF cond.op = ">" THEN measured > cond.value ELSE measured < cond.value
CheckRevival(id, measured) ==
  LET k == SelectInSeq(graves, LAMBDA e : e.id = id)
  IN k # 0 /\ Holds(graves[k].cond, measured)

AskFingerprint(pack) ==
  /\ asked = NotAsked
  /\ asked' = [by |-> "pack", pack |-> pack, found |-> FindByFingerprint(pack)]
  /\ UNCHANGED graves

AskRevival(id, measured) ==
  /\ asked = NotAsked
  /\ asked' = [by |-> "id", id |-> id, measured |-> measured,
               revive |-> CheckRevival(id, measured)]
  /\ UNCHANGED graves

GraveInit == graves = <<>> /\ asked = NotAsked

Packs == {Pack(c, s) : c \in Contents, s \in Stamps}
Conditions == [op : {">", "<"}, value : Limits]

GraveNext ==
  \/ \E id \in Ids, p \in Packs, c \in Conditions : Bury(id, p, c)
  \/ \E p \in Packs : AskFingerprint(p)
  \/ \E id \in Ids, m \in Measures \cup {Unmeasured} : AskRevival(id, m)

(* A corpse is recognised under any name and at any time: a pack is found  *)
(* exactly when one that reproduces it lies there.  Nothing is revived     *)
(* that was not buried, or without a measurement that meets a condition    *)
(* it was buried with; later burials never make it easier.                 *)
CorpsesAreCaught ==
  /\ asked.by = "pack" =>
       ((asked.found # 0) <=> \E i \in DOMAIN graves : graves[i].pack.content = asked.pack.content)
  /\ asked.by = "id" /\ asked.revive =>
       /\ asked.measured # Unmeasured
       /\ \E i \in DOMAIN graves : graves[i].id = asked.id /\ Holds(graves[i].cond, asked.measured)
=============================================================================
