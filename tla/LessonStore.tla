---------------------------- MODULE LessonStore ----------------------------
(* The lessons of memory/lessons.py: harness runs propose candidates         *)
(* (capture), one pending file per error signature; operators review and     *)
(* promote them with `sr-agent lessons` (cli.py), which writes the lesson    *)
(* and appends a signed record to the manifest; harness runs retrieve what   *)
(* verifies.  Nothing is locked: runs and operators are processes of their   *)
(* own, a file is truncated before it is written, and any of them may end    *)
(* (or fail to write) between two steps.                                     *)
EXTENDS Naturals, Sequences, SequencesExt

CONSTANTS
    Harnesses,      \* runs of the PoC queue
    Operators,      \* terminals running `sr-agent lessons`
    Sigs,           \* error signatures (sig_id)
    Texts,          \* contents of a candidate or of a lesson
    TopK,           \* how many lessons a prompt gets
    MaxPromotions, MaxCandidates, MaxDeaths   \* bounds

ASSUME LessonAssumption ==
    /\ Harnesses \cap Operators = {}
    /\ Texts \cap {"absent", "torn", "none"} = {} /\ "none" \notin Sigs
    /\ {TopK, MaxPromotions, MaxCandidates, MaxDeaths} \subseteq Nat

VARIABLES
    pending,   \* sig -> the candidate file
    lesson,    \* sig -> the lesson file
    manifest,  \* the lines of the manifest
    proc,      \* process -> what it is in the middle of
    given,     \* harness -> what its last retrieve returned
    spent,     \* how much of each bound is used
    seen,      \* history: operator, sig -> the text `show` last printed
    acked,     \* history: signatures whose promotion was reported to verify
    unseen,    \* history: signatures promoted with another text than shown
    blamed     \* history: what happened to a signature that may explain a loss

files == <<pending, lesson, manifest>>
history == <<seen, acked, unseen, blamed>>
vars == <<files, proc, given, spent, history>>

Procs == Harnesses \cup Operators
Contents == Texts \cup {"absent", "torn"}

(* A line is a signed record, one cut before its newline, or unparseable.   *)
Line(kind, s, text) == [kind |-> kind, sig |-> s, text |-> text]
Cut == Line("cut", "none", "none")
Junk == Line("junk", "none", "none")

Idle == [pc |-> "idle", sig |-> "none", text |-> "none", known |-> {}, changed |-> {}]
At(p, pc) == proc[p].pc = pc
Sig(p) == proc[p].sig
Goto(p, pc) == proc' = [proc EXCEPT ![p].pc = pc]
Busy(pc, s, text) == [Idle EXCEPT !.pc = pc, !.sig = s, !.text = text]

(* "death": a process ended inside a step on the signature. "glued": its    *)
(* record went to a line that a death had cut. "crossed": two writers of    *)
(* one of its files at once. "late": promoted between a capture's checks    *)
(* and its write. "requeued": an operator replaced or removed its candidate. *)
Causes == {"death", "glued", "crossed", "late", "requeued"}
Blame(s, causes) == blamed' = [blamed EXCEPT ![s] = @ \cup causes]
Blamed(s, causes) == blamed[s] \cap causes # {}

Spend(what) == spent' = [spent EXCEPT ![what] = @ + 1]

Init ==
    /\ pending = [s \in Sigs |-> "absent"] /\ lesson = [s \in Sigs |-> "absent"]
    /\ manifest = <<>>
    /\ proc = [p \in Procs |-> Idle]
    /\ given = [h \in Harnesses |-> {}]
    /\ spent = [candidates |-> 0, promotions |-> 0, deaths |-> 0]
    /\ seen = [o \in Operators |-> [s \in Sigs |-> "none"]]
    /\ acked = {} /\ unseen = {} /\ blamed = [s \in Sigs |-> {}]

-----------------------------------------------------------------------------
(* The files                                                                *)

(* What a write leaves over what another writer wrote since it truncated    *)
(* the file: a shorter text leaves a mix of the two.                        *)
Written(old, text) == IF old \in {"torn", text} THEN {text} ELSE {text, "torn"}

(* A line that does not parse is skipped.                                   *)
Signed == {line \in Range(manifest) : line.kind = "signed"}
IsPromoted(s) == \E r \in Signed : r.sig = s

(* Mistake for RetrievedIsSigned: a record vouches for whatever the file    *)
(* holds.                                                                   *)
LessonListed(r) == lesson[r.sig] # "absent"

(* Hash and signature are of the text that was promoted.                    *)
LessonOk(r) == lesson[r.sig] = r.text

(* What is appended to a line without its newline is lost with it.          *)
Glues == manifest # <<>> /\ Last(manifest) = Cut
Appended(line) == IF Glues THEN Append(Front(manifest), IF line = Cut THEN Cut ELSE Junk)
                  ELSE Append(manifest, line)

-----------------------------------------------------------------------------
(* Candidates                                                               *)

StartCandidate(p, pc, s, text) ==
    /\ At(p, "idle")
    /\ spent.candidates < MaxCandidates /\ Spend("candidates")
    /\ proc' = [proc EXCEPT ![p] = Busy(pc, s, text)]
    /\ UNCHANGED <<files, given, seen, acked, unseen>>

(* Mistake for PromotedIsReviewed: a pending candidate is captured again.   *)
CaptureAgain(h, s, text) ==
    /\ StartCandidate(h, "looked", s, text)
    /\ UNCHANGED blamed

(* capture: a signature that is pending already is left alone.              *)
Capture(h, s, text) ==
    /\ pending[s] = "absent"
    /\ StartCandidate(h, "looked", s, text)
    /\ UNCHANGED blamed

(* Mistake for PendingExplained: promoted signatures are proposed again.    *)
SkipPromoted(h) ==
    /\ At(h, "looked")
    /\ Goto(h, "free")
    /\ UNCHANGED <<files, given, spent, history>>

(* And so is one that is promoted already.                                  *)
CheckPromoted(h) ==
    /\ At(h, "looked")
    /\ proc' = [proc EXCEPT ![h] = IF IsPromoted(Sig(h)) THEN Idle ELSE [@ EXCEPT !.pc = "free"]]
    /\ UNCHANGED <<files, given, spent, history>>

(* `lessons add` checks nothing.                                            *)
Add(o, s, text) ==
    /\ StartCandidate(o, "free", s, text)
    /\ Blame(s, {"requeued"})

Writing(s) == {p \in Procs : Sig(p) = s /\ proc[p].pc \in {"looked", "free", "opened"}}

OpenPending(p) ==
    /\ At(p, "free")
    /\ pending' = [pending EXCEPT ![Sig(p)] = "torn"]
    /\ Goto(p, "opened")
    /\ Blame(Sig(p), IF Writing(Sig(p)) # {p} THEN {"crossed"} ELSE {})
    /\ UNCHANGED <<lesson, manifest, given, spent, seen, acked, unseen>>

(* The write ends in a file nobody can open when the candidate was removed  *)
(* meanwhile.                                                               *)
WritePending(p) ==
    /\ At(p, "opened") \/ At(p, "detached")
    /\ IF At(p, "opened")
       THEN \E text \in Written(pending[Sig(p)], proc[p].text) :
                pending' = [pending EXCEPT ![Sig(p)] = text]
       ELSE UNCHANGED pending
    /\ proc' = [proc EXCEPT ![p] = Idle]
    /\ UNCHANGED <<lesson, manifest, given, spent, history>>

(* Remove the candidate; a writer that holds it open keeps a file without a *)
(* name.                                                                    *)
Unlink(o, s, pc) ==
    /\ pending' = [pending EXCEPT ![s] = "absent"]
    /\ proc' = [p \in Procs |->
                  CASE p = o -> [proc[o] EXCEPT !.pc = pc]
                    [] p # o /\ Sig(p) = s /\ At(p, "opened") -> [proc[p] EXCEPT !.pc = "detached"]
                    [] OTHER -> proc[p]]

Dismiss(o, s) ==
    /\ At(o, "idle")
    /\ pending[s] # "absent"
    /\ Unlink(o, s, "idle")
    /\ Blame(s, {"requeued"})
    /\ UNCHANGED <<lesson, manifest, given, spent, seen, acked, unseen>>

(* `show` prints nothing of a file it cannot parse.                         *)
Show(o, s) ==
    /\ At(o, "idle")
    /\ pending[s] \in Texts
    /\ seen' = [seen EXCEPT ![o][s] = pending[s]]
    /\ UNCHANGED <<files, proc, given, spent, acked, unseen, blamed>>

-----------------------------------------------------------------------------
(* promote, the gate                                                        *)

Promoting(s) == {o \in Operators : Sig(o) = s /\ proc[o].pc \in {"approved", "replacing", "replaced"}}

StartPromotion(o, s, text) ==
    /\ At(o, "idle")
    /\ spent.promotions < MaxPromotions /\ Spend("promotions")
    /\ proc' = [proc EXCEPT ![o] = Busy("approved", s, text)]
    /\ Blame(s, IF Promoting(s) # {} THEN {"crossed"} ELSE {})
    /\ UNCHANGED <<files, given, seen, acked>>

(* The candidate as it is now, whatever `show` printed before.              *)
Approve(o, s) ==
    /\ pending[s] \in Texts
    /\ StartPromotion(o, s, pending[s])
    /\ unseen' = IF seen[o][s] \in {"none", pending[s]} THEN unseen ELSE unseen \cup {s}

(* --edit: the operator's text, with or without a candidate.                *)
ApproveEdited(o, s, text) ==
    /\ StartPromotion(o, s, text)
    /\ UNCHANGED unseen

(* A lesson file changed after a retrieve verified it.                      *)
WriteLesson(o, text, pc) ==
    /\ lesson' = [lesson EXCEPT ![Sig(o)] = text]
    /\ proc' = [p \in Procs |->
                  CASE p = o -> [proc[o] EXCEPT !.pc = pc]
                    [] p # o /\ At(p, "verified") -> [proc[p] EXCEPT !.changed = @ \cup {Sig(o)}]
                    [] OTHER -> proc[p]]
    /\ UNCHANGED <<pending, manifest, given, spent, history>>

OpenLesson(o) == At(o, "approved") /\ WriteLesson(o, "torn", "replacing")

ReplaceLesson(o) ==
    /\ At(o, "replacing")
    /\ \E text \in Written(lesson[Sig(o)], proc[o].text) : WriteLesson(o, text, "replaced")

(* Mistake for PromotionsLast: the record is of the candidate, not of the   *)
(* operator's edit.                                                         *)
AppendUnedited(o) ==
    /\ At(o, "replaced")
    /\ manifest' = Appended(Line("signed", Sig(o),
                   IF pending[Sig(o)] \in Texts THEN pending[Sig(o)] ELSE proc[o].text))
    /\ Goto(o, "listed")
    /\ Blame(Sig(o), IF Writing(Sig(o)) # {} THEN {"late"} ELSE {})
    /\ UNCHANGED <<pending, lesson, given, spent, seen, acked, unseen>>

AppendRecord(o) ==
    /\ At(o, "replaced")
    /\ manifest' = Appended(Line("signed", Sig(o), proc[o].text))
    /\ Goto(o, "listed")
    /\ Blame(Sig(o), (IF Glues THEN {"glued"} ELSE {})
                     \cup (IF Writing(Sig(o)) # {} THEN {"late"} ELSE {}))
    /\ UNCHANGED <<pending, lesson, given, spent, seen, acked, unseen>>

RemovePending(o) ==
    /\ At(o, "listed")
    /\ Unlink(o, Sig(o), "promoted")
    /\ UNCHANGED <<lesson, manifest, given, spent, history>>

(* What verify says of a signature is what it says of its last record.      *)
ReportedOk(s) ==
    \E i \in DOMAIN manifest :
        /\ manifest[i].sig = s /\ LessonOk(manifest[i])
        /\ \A j \in DOMAIN manifest : j > i => manifest[j].sig # s

Report(o) ==
    /\ At(o, "promoted")
    /\ acked' = IF ReportedOk(Sig(o)) THEN acked \cup {Sig(o)} ELSE acked
    /\ proc' = [proc EXCEPT ![o] = Idle]
    /\ UNCHANGED <<files, given, spent, seen, unseen, blamed>>

-----------------------------------------------------------------------------
(* retrieve                                                                 *)

Verify(h) ==
    /\ At(h, "idle")
    /\ \E r \in Signed : LessonOk(r)
    /\ proc' = [proc EXCEPT ![h] = [Idle EXCEPT !.pc = "verified",
                                    !.known = {r.sig : r \in {q \in Signed : LessonOk(q)}}]]
    /\ UNCHANGED <<files, given, spent, history>>

(* The knowledge base reads every lesson again; what scores is kept if its  *)
(* signature is among the verified ones.                                    *)
Read(h) ==
    /\ At(h, "verified")
    /\ \E hits \in SUBSET proc[h].known :
        /\ Cardinality(hits) <= TopK
        /\ given' = [given EXCEPT ![h] =
              {[record |-> Line("signed", s, lesson[s]), changed |-> s \in proc[h].changed] : s \in hits}]
    /\ proc' = [proc EXCEPT ![h] = Idle]
    /\ UNCHANGED <<files, spent, history>>

-----------------------------------------------------------------------------
(* A process ends, or its write fails: what it truncated stays so, and of a *)
(* record part of the line may be there.                                    *)
Interrupt(p) ==
    /\ ~At(p, "idle") /\ ~At(p, "verified")
    /\ spent.deaths < MaxDeaths /\ Spend("deaths")
    /\ proc' = [proc EXCEPT ![p] = Idle]
    /\ manifest' \in {manifest} \cup (IF At(p, "replaced") THEN {Appended(Cut)} ELSE {})
    /\ Blame(Sig(p), {"death"})
    /\ UNCHANGED <<pending, lesson, given, seen, acked, unseen>>

HarnessStep(h) ==
    \/ \E s \in Sigs, text \in Texts : Capture(h, s, text)
    \/ CheckPromoted(h) \/ Verify(h) \/ Read(h)

OperatorStep(o) ==
    \/ \E s \in Sigs, text \in Texts : Add(o, s, text) \/ ApproveEdited(o, s, text)
    \/ \E s \in Sigs : Dismiss(o, s) \/ Show(o, s) \/ Approve(o, s)
    \/ OpenLesson(o) \/ ReplaceLesson(o) \/ AppendRecord(o) \/ RemovePending(o) \/ Report(o)

Next ==
    \/ \E h \in Harnesses : HarnessStep(h)
    \/ \E o \in Operators : OperatorStep(o)
    \/ \E p \in Procs : OpenPending(p) \/ WritePending(p) \/ Interrupt(p)

Spec == Init /\ [][Next]_vars

-----------------------------------------------------------------------------
(* Properties                                                               *)

LessonTypeOK ==
    /\ pending \in [Sigs -> Contents] /\ lesson \in [Sigs -> Contents]
    /\ Range(manifest) \subseteq {Cut, Junk} \cup [kind: {"signed"}, sig: Sigs, text: Texts]
    /\ \A p \in Procs : Sig(p) \in Sigs \cup {"none"}
    /\ acked \subseteq Sigs /\ unseen \subseteq Sigs
    /\ blamed \in [Sigs -> SUBSET Causes]

(* Whatever a prompt was given is a text an operator promoted and the       *)
(* manifest has signed, unless its file was rewritten between retrieve's    *)
(* verification and its second read: a promotion that died before its       *)
(* record never reaches a model otherwise.                                  *)
RetrievedIsSigned ==
    \A h \in Harnesses : \A hit \in given[h] : hit.changed \/ hit.record \in Signed

(* A promotion the operator was told verifies can be retrieved from then    *)
(* on, but while the same lesson is being promoted again; it is lost only   *)
(* to an interrupted promotion, to a line one left, or to two at once.      *)
PromotionsLast ==
    \A s \in acked :
        \/ \E r \in Signed : r.sig = s /\ LessonOk(r)
        \/ Promoting(s) # {}
        \/ Blamed(s, {"death", "glued", "crossed"})

(* One item per signature, and none for a promoted one (FR-002): a          *)
(* candidate that is no candidate, or one next to its own promotion, has    *)
(* its writer or its operator still at work, or an overlap or a death       *)
(* behind it.                                                               *)
PendingExplained ==
    \A s \in Sigs :
        /\ pending[s] = "torn" =>
              \/ \E p \in Procs : Sig(p) = s /\ At(p, "opened")
              \/ Blamed(s, {"death", "crossed"})
        /\ pending[s] # "absent" /\ IsPromoted(s) =>
              \/ \E o \in Operators : Sig(o) = s /\ At(o, "listed")
              \/ Blamed(s, {"death", "crossed", "late", "requeued"})

(* What an operator who looked at a candidate approves is what it looked    *)
(* at, unless two captures crossed, an operator replaced or removed the     *)
(* candidate in between, or the record of its promotion was glued to a cut  *)
(* line: the candidate was removed all the same and captured anew.          *)
PromotedIsReviewed == \A s \in unseen : Blamed(s, {"crossed", "requeued", "glued"})
=============================================================================
