-------------------------- MODULE EpisodicMemory --------------------------
(***************************************************************************)
(* memory/episodic.py: the append-only, signed record store.               *)
(*                                                                         *)
(* One JSONL file per target.  write checks the status rules, signs the    *)
(* record and appends a line; load parses the lines, drops those whose     *)
(* signature does not verify, and removes what a loaded record supersedes. *)
(*                                                                         *)
(* The signature covers a canonical text of the record made from the       *)
(* Python object at write time and from the parsed JSON at load time, so   *)
(* what matters of a record's content is whether the two texts agree:      *)
(* json.dumps sorts the integer keys of a finding's preconditions as       *)
(* numbers, and the string keys they become as strings.                    *)
(*                                                                         *)
(* A process may die inside the append; the partial line has no newline    *)
(* and the next record lands on the same line.  A line cut inside a        *)
(* multi-byte character cannot be decoded at all, and load raises.         *)
(***************************************************************************)
EXTENDS Naturals, Sequences, FiniteSets

CONSTANTS
    RecordIds,   \* uuids
    Targets,     \* target files of one project
    Contents,    \* payloads: the precondition numbers of a finding
    NoRecord,
    Undecodable, \* a line cut inside a character
    MaxTears     \* bound: processes that die inside an append

Preconditions == 1..12     \* Finding.preconditions: "Keys 1-12"

ASSUME MemoryAssumption ==
    /\ NoRecord \notin RecordIds
    /\ Undecodable \notin RecordIds \cup {NoRecord}
    /\ IsFiniteSet(RecordIds) /\ IsFiniteSet(Targets)
    /\ MaxTears \in Nat
    /\ Contents \subseteq SUBSET Preconditions

VARIABLES
    record,    \* id -> the record given to write, or Unwritten
    lines,     \* target -> the lines of its file
    torn,      \* target -> whether its last line lacks the newline
    acked,     \* history: ids whose write returned
    tears      \* history: appends cut short, over all targets

vars == <<record, lines, torn, acked, tears>>

(* SourceType; write tells a human from all the others, which are one here. *)
Sources == {"human_input", "not_human"}

(* The status a record sets: none, one of the domain's, or one of          *)
(* REQUIRES_HUMAN_CONFIRMATION.                                            *)
StatusChanges == {"none", "ordinary", "privileged"}

Records ==
    [source : Sources, status : StatusChanges,
     supersedes : RecordIds \cup {NoRecord}, content : Contents]

Unwritten == [status |-> "unwritten"]

(* A line is one record, text that is not a record, or not even text.      *)
Garbage == NoRecord
Lines == RecordIds \cup {Garbage, Undecodable}

TypeOK ==
    /\ record \in [RecordIds -> Records \cup {Unwritten}]
    /\ \A r \in RecordIds :
          record[r].status = "privileged" => record[r].source = "human_input"
    /\ lines \in [Targets -> Seq(Lines)]
    /\ torn \in [Targets -> BOOLEAN]
    /\ acked \subseteq RecordIds
    /\ tears \in 0..MaxTears

Init ==
    /\ record = [r \in RecordIds |-> Unwritten]
    /\ lines = [t \in Targets |-> <<>>]
    /\ torn = [t \in Targets |-> FALSE]
    /\ acked = {}
    /\ tears = 0

-----------------------------------------------------------------------------
(* Canonical text.                                                         *)
LeadingDigit(n) == IF n < 10 THEN n ELSE n \div 10

(* The order of decimal strings up to two digits: "1" < "10" < "2".        *)
TextLess(m, n) ==
    \/ LeadingDigit(m) < LeadingDigit(n)
    \/ LeadingDigit(m) = LeadingDigit(n) /\ m < n

(* The keys are printed in the same order before and after a JSON round    *)
(* trip.                                                                   *)
SameKeyOrder(keys) == \A m, n \in keys : m < n <=> TextLess(m, n)

(* verify recomputes the signature that sign made.                         *)
Verifies(content) == SameKeyOrder(content)

-----------------------------------------------------------------------------
(* _enforce_status_rules: without a status change nothing is checked; with *)
(* one, a privileged status and a supersedes pointer each need a human.    *)
StatusRules(rec) ==
    rec.status # "none" =>
        /\ rec.status = "privileged" => rec.source = "human_input"
        /\ rec.supersedes # NoRecord => rec.source = "human_input"

(* What an append of text does to a file whose last line may be open.      *)
AppendLine(ls, open, line) ==
    CASE ~open                         -> Append(ls, line)
      [] open /\ Undecodable \in {ls[Len(ls)], line}
                                       -> [ls EXCEPT ![Len(ls)] = Undecodable]
      [] OTHER                         -> [ls EXCEPT ![Len(ls)] = Garbage]

(* Mistake for AppendsAreKept: the newline is left out.                    *)
WriteWithoutNewline(r, t, rec) ==
    /\ record[r] = Unwritten
    /\ StatusRules(rec)
    /\ record' = [record EXCEPT ![r] = rec]
    /\ lines' = [lines EXCEPT ![t] = AppendLine(@, torn[t], r)]
    /\ torn' = [torn EXCEPT ![t] = TRUE]
    /\ acked' = acked \cup {r}
    /\ UNCHANGED tears

(* write: check, sign, append record and newline.  A record that breaks    *)
(* the rules raises and changes nothing.                                   *)
Write(r, t, rec) ==
    /\ record[r] = Unwritten
    /\ StatusRules(rec)
    /\ record' = [record EXCEPT ![r] = rec]
    /\ lines' = [lines EXCEPT ![t] = AppendLine(@, torn[t], r)]
    /\ torn' = [torn EXCEPT ![t] = FALSE]
    /\ acked' = acked \cup {r}
    /\ UNCHANGED tears

(* The process dies in write: part of the record, perhaps cut inside a     *)
(* character, or all but the newline, is on disk.                          *)
TearWrite(r, t, rec) ==
    /\ record[r] = Unwritten
    /\ StatusRules(rec)
    /\ tears < MaxTears
    /\ record' = [record EXCEPT ![r] = rec]
    /\ \E line \in {r, Garbage, Undecodable} :
           lines' = [lines EXCEPT ![t] = AppendLine(@, torn[t], line)]
    /\ torn' = [torn EXCEPT ![t] = TRUE]
    /\ tears' = tears + 1
    /\ UNCHANGED acked

(* A correction names a record its author has seen.                        *)
Written == {r \in RecordIds : record[r] # Unwritten}

Next ==
    \E r \in RecordIds, t \in Targets, rec \in Records :
        /\ rec.supersedes \in Written \cup {NoRecord}
        /\ Write(r, t, rec) \/ TearWrite(r, t, rec)

Spec == Init /\ [][Next]_vars

-----------------------------------------------------------------------------
(* load and load_for_principal.                                            *)
InFile(t) == {lines[t][i] : i \in DOMAIN lines[t]} \cap RecordIds

Valid(t) == {r \in InFile(t) : Verifies(record[r].content)}

(* Mistake for CorrectionsLast: a correction that is itself corrected no   *)
(* longer counts.                                                          *)
SupersededByCurrent(t) ==
    LET by(s) == {r \in Valid(t) : record[r].supersedes = s}
    IN  {s \in RecordIds : \E r \in by(s) : by(r) = {}}

(* _apply_supersedes: every pointer of a valid record in the file counts.  *)
Superseded(t) == {record[r].supersedes : r \in Valid(t)} \cap RecordIds

(* Iterating over the file decodes it, outside the try block.              *)
LoadRaises(t) == \E i \in DOMAIN lines[t] : lines[t][i] = Undecodable

LoadFile(t) == IF LoadRaises(t) THEN {} ELSE Valid(t) \ Superseded(t)

Loaded == UNION {LoadFile(t) : t \in Targets}

-----------------------------------------------------------------------------
(* Acknowledged records that are on no line of their own.                  *)
Missing == {r \in acked : \A t \in Targets : r \notin InFile(t)}

(* An append never harms what earlier appends wrote, except that it may    *)
(* land on the open line a dying process left: every death inside write    *)
(* costs at most one record whose write returned, the next one.            *)
AppendsAreKept == Cardinality(Missing) <= tears

(* A correction whose write returned lasts: what it superseded never comes *)
(* back, whatever is written, torn or corrected afterwards.                *)
CorrectionsLast ==
    [][\A t \in Targets : \A r \in Valid(t) \cap acked :
          record[r].supersedes \notin LoadFile(t)']_vars

(* README.md: only human_input can issue corrections.                      *)
CorrectionsAreHuman ==
    \A r \in acked : record[r].supersedes # NoRecord => record[r].source = "human_input"

(* memory/hmac.py: the same record always produces the same bytes; with no *)
(* process dying, every record written is loaded until it is superseded.   *)
WrittenIsLoaded ==
    \A r \in acked : r \in Loaded \/ \E t \in Targets : r \in Superseded(t)

(* specs/001-secure-memory-agent/contracts/memory.md: load never raises on *)
(* an individual record failure, a corrupt record is dropped.              *)
LoadNeverRaises == \A t \in Targets : ~LoadRaises(t)
============================================================================
