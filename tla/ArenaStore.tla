------------------------------- MODULE ArenaStore -------------------------------
(***************************************************************************)
(* ArenaStore (arena/store.py): one append-only, hash-chained event segment *)
(* that several processes extend under an exclusive file lock, each with    *)
(* the sequence and prior hash it read before; content-addressed artifacts, *)
(* written beside their place and linked into it; and the ledger of         *)
(* ArenaJobService (arena/operations.py).  A process may be killed in any   *)
(* write.  An event is its identity; the hash of a row stands for the row.  *)
(***************************************************************************)
EXTENDS Naturals, Sequences, SequencesExt, FiniteSets

CONSTANTS
    Writer,          \* processes that extend the segment
    MaxRows,         \* bound on the rows of the segment
    MaxKills,        \* bound on the kills
    NewlineLost,     \* whether a kill may cut exactly the newline of a row
    Putter,          \* processes that store the artifact
    JobRunner,       \* processes that run jobs
    Absent

ASSUME StoreAssumption == NewlineLost \in BOOLEAN /\ MaxRows \in Nat /\ MaxKills \in Nat

VARIABLES
    lines,           \* Seq(row): the lines of the segment that end in a newline
    cut,             \* what follows them: nothing, a part of a row, or a whole row
    next,            \* [Writer -> the sequence and prior it has read, or Absent]
    acked,           \* rows append_event() returned
    serial,          \* the next event identity
    kills,
    temp,            \* [Putter -> how far its temporary file is]
    artifact,        \* the artifact at its place: "none", "part" or "whole"
    stored,          \* putters whose put_artifact() returned
    ledger,          \* the readable rows <<job, outcome>> of the job ledger
    tail,            \* what follows them without a newline, as cut
    job              \* [JobRunner -> what it has done]

segment == <<lines, cut, next, acked, serial>>
artifacts == <<temp, artifact, stored>>
jobLedger == <<ledger, tail, job>>
storeVars == <<segment, kills, artifacts, jobLedger>>

Kill == kills < MaxKills /\ kills' = kills + 1

-----------------------------------------------------------------------------
(* The segment. *)

(* _read_path(): the rows a reader gets.  The last line may lack its        *)
(* newline; it is left out only if it does not parse.                       *)
Uncut == [kind |-> "none", row |-> Absent]

Rows == IF cut.kind = "row" THEN Append(lines, cut.row) ELSE lines

PriorOf(rows) == IF rows = <<>> THEN 0 ELSE Last(rows).id

(* Every row has its place as sequence and the row before as prior; a       *)
(* reader raises otherwise.                                                 *)
Chained(rows) ==
    \A i \in DOMAIN rows :
        rows[i].seq = i /\ rows[i].prior = PriorOf(SubSeq(rows, 1, i - 1))

ReadSegment(w) ==
    /\ next[w] = Absent /\ Chained(Rows)
    /\ next' = [next EXCEPT ![w] = [seq |-> Len(Rows) + 1, prior |-> PriorOf(Rows)]]
    /\ UNCHANGED <<lines, cut, acked, serial, kills, artifacts, jobLedger>>

(* append_event() under the lock: read again, cut an unfinished last line   *)
(* off, compare, write.  (Mutant: nothing is compared.)                     *)
Matches_Any(n) == TRUE

Matches(n) == n.seq = Len(Rows) + 1 /\ n.prior = PriorOf(Rows)

RowOf(n) == [seq |-> n.seq, prior |-> n.prior, id |-> serial]

(* What is left of an unfinished line. *)
CutOff == lines

AppendEvent(w) ==
    /\ next[w] # Absent /\ Chained(Rows) /\ Len(lines) < MaxRows
    /\ next' = [next EXCEPT ![w] = Absent]
    /\ cut' = Uncut
    /\ IF Matches(next[w])
         THEN /\ lines' = Append(CutOff, RowOf(next[w]))
              /\ acked' = acked \cup {RowOf(next[w])}
              /\ serial' = serial + 1
         ELSE lines' = CutOff /\ UNCHANGED <<acked, serial>>
    /\ UNCHANGED <<kills, artifacts, jobLedger>>

(* The process is killed in its write: nothing of the row, a part, all but  *)
(* its newline, or all of it is in the file.                                *)
Remains == {"none", "part", "all"} \cup (IF NewlineLost THEN {"row"} ELSE {})

AppendKilled(w, remains) ==
    /\ next[w] # Absent /\ Chained(Rows) /\ Matches(next[w]) /\ Len(lines) < MaxRows
    /\ Kill
    /\ next' = [next EXCEPT ![w] = Absent]
    /\ lines' = IF remains = "all" THEN Append(CutOff, RowOf(next[w])) ELSE CutOff
    /\ cut' = IF remains \in {"part", "row"} THEN [kind |-> remains, row |-> RowOf(next[w])]
              ELSE Uncut
    /\ serial' = serial + 1
    /\ UNCHANGED <<acked, artifacts, jobLedger>>

-----------------------------------------------------------------------------
(* put_artifact() and _put_record(): a temporary file of the process's own, *)
(* linked into place when it is whole.                                      *)

PutStarts(p) ==
    /\ temp[p] = "none" /\ artifact = "none" /\ p \notin stored
    /\ temp' = [temp EXCEPT ![p] = "part"]
    /\ UNCHANGED <<artifact, stored, segment, kills, jobLedger>>

(* The artifact is there already: its bytes are compared. *)
PutFinds(p) ==
    /\ temp[p] = "none" /\ artifact = "whole" /\ p \notin stored
    /\ stored' = stored \cup {p}
    /\ UNCHANGED <<temp, artifact, segment, kills, jobLedger>>

PutWrites(p) ==
    /\ temp[p] = "part"
    /\ temp' = [temp EXCEPT ![p] = "whole"]
    /\ UNCHANGED <<artifact, stored, segment, kills, jobLedger>>

PutLinks(p) ==
    /\ temp[p] = "whole"
    /\ artifact' = "whole"
    /\ temp' = [temp EXCEPT ![p] = "none"]
    /\ stored' = stored \cup {p}
    /\ UNCHANGED <<segment, kills, jobLedger>>

(* A killed process leaves its temporary file; the next one with its number *)
(* fails to create it, removes it and raises.                               *)
PutKilled(p) ==
    /\ temp[p] \in {"part", "whole"} /\ Kill
    /\ temp' = [temp EXCEPT ![p] = "left"]
    /\ UNCHANGED <<artifact, stored, segment, jobLedger>>

PutRefused(p) ==
    /\ temp[p] = "left"
    /\ temp' = [temp EXCEPT ![p] = "none"]
    /\ UNCHANGED <<artifact, stored, segment, kills, jobLedger>>

-----------------------------------------------------------------------------
(* ArenaJobService.run(): the operation, its row in the ledger, and for a   *)
(* failure the callbacks, of which one may raise itself.                    *)

JobOperates(j, ok) ==
    /\ job[j] = "idle"
    /\ job' = [job EXCEPT ![j] = IF ok THEN "ok" ELSE "failed"]
    /\ UNCHANGED <<ledger, tail, segment, kills, artifacts>>

(* _finish() appends to the file as it is: behind a tail without a newline  *)
(* the row and the tail are one line, which status() skips.                 *)
JobWrites(j, written) ==
    LET row == <<j, job[j]>>
    IN  /\ ledger' = IF written = "all" /\ tail = Uncut THEN ledger \cup {row} ELSE ledger
        /\ tail' = CASE written = "none" -> tail
                     [] written = "all" -> Uncut
                     [] OTHER -> [kind |-> IF tail = Uncut THEN written ELSE "part", row |-> row]

JobLedgered(j) ==
    /\ job[j] \in {"ok", "failed"}
    /\ JobWrites(j, "all")
    /\ job' = [job EXCEPT ![j] = IF @ = "ok" THEN "returned" ELSE "alerting"]
    /\ UNCHANGED <<segment, kills, artifacts>>

(* A kill or a full disk in the write. *)
JobCutOff(j, written) ==
    /\ job[j] \in {"ok", "failed"} /\ Kill
    /\ JobWrites(j, written)
    /\ job' = [job EXCEPT ![j] = "cut off"]
    /\ UNCHANGED <<segment, artifacts>>

(* status() *)
JobStatus == ledger \cup (IF tail.kind = "row" THEN {tail.row} ELSE {})

JobAlerted(j) ==
    /\ job[j] = "alerting"
    /\ job' = [job EXCEPT ![j] = "raised"]
    /\ UNCHANGED <<ledger, tail, segment, kills, artifacts>>

-----------------------------------------------------------------------------
StoreInit ==
    /\ lines = <<>> /\ cut = Uncut /\ next = [w \in Writer |-> Absent]
    /\ acked = {} /\ serial = 1 /\ kills = 0
    /\ temp = [p \in Putter |-> "none"] /\ artifact = "none" /\ stored = {}
    /\ ledger = {} /\ tail = Uncut /\ job = [j \in JobRunner |-> "idle"]

SegmentNext ==
    \E w \in Writer : ReadSegment(w) \/ AppendEvent(w) \/ \E r \in Remains : AppendKilled(w, r)

ArtifactNext ==
    \E p \in Putter : PutStarts(p) \/ PutFinds(p) \/ PutWrites(p) \/ PutLinks(p)
                      \/ PutKilled(p) \/ PutRefused(p)

JobNext ==
    \E j \in JobRunner :
        \/ JobLedgered(j) \/ JobAlerted(j)
        \/ \E ok \in BOOLEAN : JobOperates(j, ok)
        \/ \E written \in {"none", "part", "row", "all"} : JobCutOff(j, written)

StoreSpec == StoreInit /\ [][SegmentNext \/ ArtifactNext \/ JobNext]_storeVars

-----------------------------------------------------------------------------
(* Properties. *)

StoreTypeOK ==
    /\ Len(lines) <= MaxRows /\ kills \in 0 .. MaxKills
    /\ \A i \in DOMAIN lines : lines[i].id \in 1 .. (serial - 1)
    /\ artifact \in {"none", "part", "whole"} /\ stored \subseteq Putter
    /\ JobStatus \subseteq JobRunner \X {"ok", "failed"}

(* "A killed writer may leave one partial final record.  It was never a     *)
(* committed event, so remove exactly that tail before extending the log":  *)
(* whatever a kill leaves, the segment stays one unbroken chain, which any  *)
(* reader insists on.                                                       *)
LogStaysReadable == Chained(Rows)

(* An event append_event() returned stays in the segment, at its sequence,  *)
(* whoever is killed later and however two writers race for a sequence.     *)
AckedStays ==
    \A r \in acked : r.seq \in DOMAIN Rows /\ Rows[r.seq] = r

(* An artifact is at its place only when it is whole, and is there for good *)
(* once its digest was returned.                                            *)
ArtifactsWhole == artifact # "part" /\ (stored # {} => artifact = "whole")

(* Invocations that returned, or that reached their alert hooks.            *)
Returned(j) == job[j] = "returned"
Alerted(j) == job[j] \in {"alerting", "raised"}

(* Completed invocations without a row that status() reads.                 *)
Unlisted ==
    {j \in JobRunner : \/ Returned(j) /\ <<j, "ok">> \notin JobStatus
                       \/ Alerted(j) /\ <<j, "failed">> \notin JobStatus}

(* "A completed invocation has a durable JSONL row" (operations.py:24-25)   *)
(* as far as the code keeps it: every write that was cut off costs at most  *)
(* one completed invocation its row, whatever it left in the file and       *)
(* however many invocations follow.                                         *)
LostRowsAreBounded == Cardinality(Unlisted) <= kills

(* The store with writers killed in any write: the segment is a chain with  *)
(* every acknowledged event at its place, artifacts are whole, and a job    *)
(* that completed has its row unless a write before it was cut off.         *)
StoreIsWhole ==
    /\ StoreTypeOK /\ LogStaysReadable /\ AckedStays
    /\ ArtifactsWhole /\ LostRowsAreBounded
=============================================================================
