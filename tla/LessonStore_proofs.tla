------------------------ MODULE LessonStore_proofs ------------------------
(* Theorems about the lesson store, for any number of runs, operators,       *)
(* signatures, promotions and deaths.                                        *)
EXTENDS LessonStore, SequenceTheorems, TLAPS

Lines == {Cut, Junk} \cup [kind : {"signed"}, sig : Sigs, text : Texts]

ProcStates ==
    [pc : {"idle", "looked", "free", "opened", "detached", "approved", "replacing", "replaced",
           "listed", "promoted", "verified"},
     sig : Sigs \cup {"none"}, text : Texts \cup {"none"},
     known : SUBSET Sigs, changed : SUBSET Sigs]

Hits == [record : [kind : {"signed"}, sig : Sigs, text : Contents], changed : BOOLEAN]

FilesTypeOK ==
    /\ pending \in [Sigs -> Contents] /\ lesson \in [Sigs -> Contents]
    /\ manifest \in Seq(Lines)

ProcTypeOK ==
    /\ proc \in [Procs -> ProcStates]
    /\ \A p \in Procs : proc[p].pc \notin {"idle", "verified"} => Sig(p) \in Sigs /\ proc[p].text \in Texts
    /\ \A p \in Procs : proc[p].pc = "idle" => proc[p] = Idle

HistoryTypeOK ==
    /\ given \in [Harnesses -> SUBSET Hits]
    /\ seen \in [Operators -> [Sigs -> Texts \cup {"none"}]]
    /\ acked \subseteq Sigs /\ unseen \subseteq Sigs
    /\ blamed \in [Sigs -> SUBSET Causes]

(* What retrieve knows is signed, or was changed under it.                   *)
KnownInv ==
    \A h \in Harnesses : At(h, "verified") =>
        \A s \in proc[h].known : s \in proc[h].changed \/ Line("signed", s, lesson[s]) \in Signed

(* How far the lesson file is, of a promotion nothing went wrong with.       *)
LessonInv ==
    \A o \in Operators :
        /\ At(o, "replacing") =>
               lesson[Sig(o)] = "torn" \/ Blamed(Sig(o), {"death", "crossed"})
        /\ At(o, "replaced") =>
               lesson[Sig(o)] = proc[o].text \/ Blamed(Sig(o), {"death", "crossed"})

(* Two promotions of one signature at once are crossed.                      *)
OnePromotion ==
    \A s \in Sigs : \A o, q \in Promoting(s) : o # q => Blamed(s, {"crossed"})

(* A process that is past the checks proposes no promoted signature.         *)
FreeInv ==
    \A p \in Procs : proc[p].pc \in {"free", "opened"} /\ IsPromoted(Sig(p)) =>
        Blamed(Sig(p), {"late", "requeued"})

(* An open candidate is still truncated, and has one writer.                 *)
OpenedInv ==
    \A p \in Procs : At(p, "opened") =>
        /\ pending[Sig(p)] = "torn" \/ Blamed(Sig(p), {"crossed"})
        /\ \A q \in Procs : At(q, "opened") /\ Sig(q) = Sig(p) /\ q # p => Blamed(Sig(p), {"crossed"})

Reviewed == {"crossed", "requeued", "glued"}

(* Nobody is about to write a candidate that is there, but the writer that   *)
(* truncated it.                                                             *)
OneWriter ==
    \A s \in Sigs : \A p, q \in Writing(s) :
        pending[s] # "absent" /\ (p # q \/ ~At(p, "opened")) => Blamed(s, Reviewed)

(* A listed promotion has its record.                                        *)
ListedInv ==
    \A o \in Operators : At(o, "listed") => IsPromoted(Sig(o)) \/ Blamed(Sig(o), {"glued"})

(* What an operator saw of a signature is all there was to see of it.        *)
SeenInv ==
    \A o \in Operators, s \in Sigs : seen[o][s] # "none" /\ ~Blamed(s, Reviewed) =>
        /\ pending[s] \in Texts => pending[s] = seen[o][s]
        /\ pending[s] = "absent" => IsPromoted(s)
        /\ \A p \in Writing(s) : At(p, "looked") /\ IsPromoted(s)

IInv ==
    /\ FilesTypeOK /\ ProcTypeOK /\ HistoryTypeOK
    /\ KnownInv /\ LessonInv /\ OnePromotion /\ FreeInv /\ OpenedInv
    /\ OneWriter /\ ListedInv /\ SeenInv
    /\ RetrievedIsSigned /\ PromotionsLast /\ PendingExplained /\ PromotedIsReviewed

-----------------------------------------------------------------------------
(* The manifest. What was signed stays signed; a line is only lost to a cut. *)
LEMMA LinesAreTyped == \A s \in Sigs, text \in Texts : Line("signed", s, text) \in Lines
BY DEF Line, Lines

LEMMA SignedAreLines ==
    ASSUME manifest \in Seq(Lines)
    PROVE  Signed \subseteq [kind : {"signed"}, sig : Sigs, text : Texts]
<1>1. Range(manifest) \subseteq Lines
  BY DEF Range
<1>2. QED
  BY <1>1 DEF Signed, Lines, Cut, Junk, Line

LEMMA AppendedKeeps ==
    ASSUME manifest \in Seq(Lines), NEW line \in Lines
    PROVE  /\ Appended(line) \in Seq(Lines)
           /\ \A r \in Signed : r \in Range(Appended(line))
           /\ \A r \in Range(Appended(line)) : r.kind = "signed" => r \in Signed \/ r = line
           /\ ~Glues => line \in Range(Appended(line))
<1>1. CASE Glues
  <2> DEFINE new == IF line = Cut THEN Cut ELSE Junk
             m == Appended(line)
             n == Len(manifest)
  <2>1. n \in Nat \ {0} /\ manifest[n] = Cut
    BY <1>1 DEF Glues, Last
  <2>2. new \in Lines /\ new.kind # "signed"
    BY DEF Lines, Cut, Junk, Line
  <2>3. m = Append(SubSeq(manifest, 1, n - 1), new)
    BY <1>1 DEF Appended, Front
  <2> HIDE DEF new, m
  <2>4. /\ m \in Seq(Lines) /\ Len(m) = n
        /\ \A i \in 1..n : m[i] = IF i < n THEN manifest[i] ELSE new
    <3> DEFINE front == SubSeq(manifest, 1, n - 1)
    <3>1. front \in Seq(Lines) /\ Len(front) = n - 1 /\ \A i \in 1..(n - 1) : front[i] = manifest[i]
      <4>1. 1 \in Int /\ n - 1 \in Int /\ \A i \in 1..(n - 1) : manifest[i] \in Lines
        BY <2>1
      <4> HIDE DEF n
      <4>2. /\ front \in Seq(Lines)
            /\ Len(front) = IF 1 <= n - 1 THEN (n - 1) - 1 + 1 ELSE 0
            /\ \A i \in 1..((n - 1) - 1 + 1) : front[i] = manifest[1 + i - 1]
        BY <4>1, SubSeqProperties
      <4>3. QED
        BY <2>1, <4>2
    <3> HIDE DEF front
    <3>2. \A i \in 1..n : i \in 1..(n - 1) \/ i = n
      BY <2>1
    <3>3. /\ Append(front, new) \in Seq(Lines) /\ Len(Append(front, new)) = n
          /\ \A i \in 1..(n - 1) : Append(front, new)[i] = front[i]
          /\ Append(front, new)[n] = new
      BY <2>1, <2>2, <3>1
    <3>4. QED
      BY <2>1, <2>3, <3>1, <3>2, <3>3 DEF front
  <2>5. \A r \in Signed : r \in Range(m)
    <3> SUFFICES ASSUME NEW r \in Signed PROVE r \in Range(m)
      OBVIOUS
    <3>1. PICK i \in 1..n : manifest[i] = r
      BY DEF Signed, Range
    <3>2. i # n
      BY <2>1, <3>1 DEF Signed, Cut, Line
    <3>3. m[i] = r /\ i \in DOMAIN m
      BY <2>1, <2>4, <3>1, <3>2
    <3>4. QED
      BY <3>3 DEF Range
  <2>6. \A r \in Range(m) : r.kind = "signed" => r \in Signed
    <3> SUFFICES ASSUME NEW r \in Range(m), r.kind = "signed" PROVE r \in Signed
      OBVIOUS
    <3>1. PICK i \in 1..n : m[i] = r
      BY <2>4 DEF Range
    <3>2. manifest[i] = r /\ i \in DOMAIN manifest
      BY <2>1, <2>2, <2>4, <3>1
    <3>3. QED
      BY <3>2 DEF Signed, Range
  <2>7. QED
    BY <1>1, <2>4, <2>5, <2>6 DEF m
<1>2. CASE ~Glues
  <2> DEFINE m == Append(manifest, line)
             n == Len(manifest)
  <2>1. Appended(line) = m
    BY <1>2 DEF Appended
  <2>2. /\ m \in Seq(Lines) /\ Len(m) = n + 1 /\ n \in Nat
        /\ \A i \in 1..n : m[i] = manifest[i]
        /\ m[n + 1] = line
    OBVIOUS
  <2> HIDE DEF m
  <2>3. Range(m) = Range(manifest) \cup {line}
    <3>1. DOMAIN m = 1..n \cup {n + 1} /\ DOMAIN manifest = 1..n
      BY <2>2
    <3>2. QED
      BY <2>2, <3>1 DEF Range
  <2>4. QED
    BY <2>1, <2>2, <2>3 DEF Signed
<1>3. QED
  BY <1>1, <1>2

(* What a cut line or a record does to the set of signed records.            *)
LEMMA SignedGrows ==
    ASSUME manifest \in Seq(Lines), NEW line \in Lines, manifest' = Appended(line)
    PROVE  /\ manifest' \in Seq(Lines)
           /\ Signed \subseteq Signed'
           /\ Signed' \subseteq Signed \cup {line}
           /\ line.kind # "signed" => Signed' = Signed
           /\ ~Glues /\ line.kind = "signed" => line \in Signed'
<1>1. /\ manifest' \in Seq(Lines)
      /\ \A r \in Signed : r \in Range(manifest')
      /\ \A r \in Range(manifest') : r.kind = "signed" => r \in Signed \/ r = line
      /\ ~Glues => line \in Range(manifest')
  BY AppendedKeeps
<1>2. Signed' = {r \in Range(manifest') : r.kind = "signed"}
  BY DEF Signed
<1>3. \A r \in Signed : r.kind = "signed"
  BY DEF Signed
<1>4. QED
  BY <1>1, <1>2, <1>3

LEMMA InitInv == Init => IInv
<1> SUFFICES ASSUME Init PROVE IInv
  OBVIOUS
<1> USE DEF Init
<1>1. Signed = {}
  BY DEF Signed, Range
<1>2. FilesTypeOK /\ HistoryTypeOK
  BY DEF FilesTypeOK, HistoryTypeOK, Contents
<1>3. ProcTypeOK
  BY DEF ProcTypeOK, ProcStates, Idle
<1>4. KnownInv /\ LessonInv /\ OnePromotion /\ FreeInv /\ OpenedInv /\ OneWriter /\ ListedInv
  BY DEF KnownInv, LessonInv, OnePromotion, FreeInv, OpenedInv, OneWriter, ListedInv,
         Promoting, Writing, At, Idle, Procs
<1>5. SeenInv /\ PromotedIsReviewed
  BY DEF SeenInv, PromotedIsReviewed
<1>6. RetrievedIsSigned /\ PromotionsLast /\ PendingExplained
  BY <1>1, LessonAssumption DEF RetrievedIsSigned, PromotionsLast, PendingExplained, IsPromoted
<1>7. QED
  BY <1>2, <1>3, <1>4, <1>5, <1>6 DEF IInv

-----------------------------------------------------------------------------
(* The half of the invariant about lessons, and the half about candidates;   *)
(* most steps leave one of them alone.                                       *)
LessonHalf ==
    KnownInv /\ LessonInv /\ OnePromotion /\ RetrievedIsSigned /\ PromotionsLast

CandidateHalf ==
    /\ FreeInv /\ OpenedInv /\ OneWriter /\ ListedInv /\ SeenInv
    /\ PendingExplained /\ PromotedIsReviewed

BlameGrows == \A s \in Sigs : blamed[s] \subseteq blamed'[s]

SamePromotions ==
    LET pcs == {"approved", "replacing", "replaced", "verified"}
    IN  \A p \in Procs : proc'[p] = proc[p] \/ (proc[p].pc \notin pcs /\ proc'[p].pc \notin pcs)

SameCandidates ==
    LET pcs == {"looked", "free", "opened", "listed"}
    IN  \A p \in Procs : proc'[p] = proc[p] \/ (proc[p].pc \notin pcs /\ proc'[p].pc \notin pcs)

(* The lessons, of a step that touches none.                                 *)
LEMMA LessonFrame ==
    ASSUME IInv, SamePromotions, BlameGrows, Signed \subseteq Signed',
           lesson' = lesson, given' = given, acked' = acked
    PROVE  LessonHalf'
<1> USE DEF IInv, SamePromotions, BlameGrows
<1>1. KnownInv'
  BY DEF KnownInv, At, Procs
<1>2. LessonInv'
  BY DEF LessonInv, ProcTypeOK, At, Sig, Procs, Blamed
<1>3. \A s : Promoting(s)' = Promoting(s)
  BY DEF Promoting, Sig, Procs
<1>4. OnePromotion'
  BY <1>3 DEF OnePromotion, Blamed
<1>5. RetrievedIsSigned'
  BY DEF RetrievedIsSigned
<1>6. PromotionsLast'
  BY <1>3 DEF PromotionsLast, HistoryTypeOK, LessonOk, Blamed
<1>7. QED
  BY <1>1, <1>2, <1>4, <1>5, <1>6 DEF LessonHalf

(* The candidates, of a step that touches none and promotes none.            *)
LEMMA CandidateFrame ==
    ASSUME IInv, SameCandidates, BlameGrows, Signed' = Signed,
           pending' = pending, seen' = seen
    PROVE  /\ FreeInv' /\ OpenedInv' /\ OneWriter' /\ ListedInv' /\ SeenInv' /\ PendingExplained'
           /\ unseen' = unseen => CandidateHalf'
<1> USE DEF IInv, SameCandidates, BlameGrows
<1>1. \A s : IsPromoted(s)' = IsPromoted(s)
  BY DEF IsPromoted
<1>2. \A s : Writing(s)' = Writing(s)
  BY DEF Writing, Sig
<1>3. FreeInv' /\ OpenedInv'
  BY DEF FreeInv, OpenedInv, IsPromoted, ProcTypeOK, At, Sig, Blamed
<1>4. OneWriter'
  BY <1>2 DEF OneWriter, Writing, At, Blamed
<1>5. ListedInv'
  BY DEF ListedInv, IsPromoted, ProcTypeOK, Procs, At, Sig, Blamed
<1>6. SeenInv'
  BY <1>1, <1>2 DEF SeenInv, Writing, At, Blamed
<1>7. PendingExplained'
  BY <1>1 DEF PendingExplained, Procs, At, Sig, Blamed
<1>8. unseen' = unseen => PromotedIsReviewed'
  BY DEF PromotedIsReviewed, HistoryTypeOK, Blamed
<1>9. QED
  BY <1>3, <1>4, <1>5, <1>6, <1>7, <1>8 DEF CandidateHalf

-----------------------------------------------------------------------------
(* What every step keeps of the types.                                       *)
LEMMA ProcUpdate ==
    ASSUME ProcTypeOK, NEW p \in Procs, NEW st \in ProcStates, proc' = [proc EXCEPT ![p] = st],
           st.pc \notin {"idle", "verified"} => st.sig \in Sigs /\ st.text \in Texts,
           st.pc = "idle" => st = Idle
    PROVE  ProcTypeOK'
BY DEF ProcTypeOK, Sig

LEMMA IdleIsTyped == Idle \in ProcStates /\ Idle.pc = "idle"
BY DEF Idle, ProcStates

LEMMA BlameIsTyped ==
    ASSUME HistoryTypeOK, NEW s \in Sigs, NEW causes \in SUBSET Causes, Blame(s, causes)
    PROVE  /\ blamed' \in [Sigs -> SUBSET Causes]
           /\ BlameGrows
           /\ causes \subseteq blamed'[s]
BY DEF HistoryTypeOK, Blame, BlameGrows

(* A step that only moves a process on to another point of its procedure.    *)
LEMMA GotoKeepsTypes ==
    ASSUME ProcTypeOK, NEW p \in Procs, proc[p].pc \notin {"idle", "verified"},
           NEW pc, pc \in {"free", "opened", "replacing", "replaced", "listed", "promoted"}, Goto(p, pc)
    PROVE  ProcTypeOK'
<1> DEFINE st == [proc[p] EXCEPT !.pc = pc]
<1>1. st \in ProcStates /\ st.pc = pc /\ st.sig = proc[p].sig /\ st.text = proc[p].text
  BY DEF ProcTypeOK, ProcStates
<1>2. st.sig \in Sigs /\ st.text \in Texts
  BY <1>1 DEF ProcTypeOK, Sig
<1> HIDE DEF st
<1>3. proc' = [proc EXCEPT ![p] = st]
  BY DEF Goto, st
<1>4. QED
  BY <1>1, <1>2, <1>3, ProcUpdate

LEMMA IdleKeepsTypes ==
    ASSUME ProcTypeOK, NEW p \in Procs, proc' = [proc EXCEPT ![p] = Idle]
    PROVE  ProcTypeOK'
BY ProcUpdate, IdleIsTyped

LEMMA BusyKeepsTypes ==
    ASSUME ProcTypeOK, NEW p \in Procs, NEW pc, pc \in {"looked", "free", "approved"},
           NEW s \in Sigs, NEW text \in Texts, proc' = [proc EXCEPT ![p] = Busy(pc, s, text)]
    PROVE  ProcTypeOK'
<1> DEFINE st == Busy(pc, s, text)
<1>1. st \in ProcStates /\ st.pc = pc /\ st.sig = s /\ st.text = text
  BY DEF Busy, Idle, ProcStates
<1> HIDE DEF st
<1>2. proc' = [proc EXCEPT ![p] = st]
  BY DEF st
<1>3. QED
  BY <1>1, <1>2, ProcUpdate

(* Removing a candidate moves the operator on and detaches its writers.      *)
LEMMA UnlinkDetaches ==
    ASSUME ProcTypeOK, NEW o \in Operators, NEW s \in Sigs, NEW pc,
           \/ At(o, "idle") /\ pc = "idle"
           \/ At(o, "listed") /\ pc = "promoted",
           Unlink(o, s, pc)
    PROVE  /\ ProcTypeOK'
           /\ SamePromotions
           /\ proc'[o].pc = pc
           /\ \A p \in Procs : p # o /\ Sig(p) = s /\ At(p, "opened") => proc'[p].pc = "detached"
           /\ \A p \in Procs : \/ p = o
                               \/ proc'[p] = proc[p]
                               \/ proc[p].sig = s /\ At(p, "opened") /\ proc'[p].pc = "detached"
           /\ \A p \in Procs : proc'[p].sig = proc[p].sig
<1> DEFINE opened(p) == p # o /\ Sig(p) = s /\ At(p, "opened")
           st(p) == CASE p = o -> [proc[o] EXCEPT !.pc = pc]
                      [] p # o /\ Sig(p) = s /\ At(p, "opened") -> [proc[p] EXCEPT !.pc = "detached"]
                      [] OTHER -> proc[p]
<1>1. proc' = [p \in Procs |-> st(p)]
  BY DEF Unlink
<1>2. ASSUME NEW p \in Procs, p = o
      PROVE  /\ st(p) \in ProcStates /\ st(p).pc = pc
             /\ st(p).sig = proc[p].sig /\ st(p).text = proc[p].text
             /\ pc = "idle" => st(p) = Idle
  <2>1. st(p) = [proc[o] EXCEPT !.pc = pc]
    BY <1>2
  <2>2. proc[o] \in ProcStates
    BY DEF ProcTypeOK, Procs
  <2>3. pc = "idle" => proc[o] = Idle
    BY DEF ProcTypeOK, Procs, At
  <2>4. QED
    BY <1>2, <2>1, <2>2, <2>3 DEF ProcStates, Idle
<1>3. ASSUME NEW p \in Procs, opened(p)
      PROVE  /\ st(p) \in ProcStates /\ st(p).pc = "detached"
             /\ st(p).sig = proc[p].sig /\ st(p).text = proc[p].text
  BY <1>3 DEF ProcTypeOK, ProcStates
<1>4. ASSUME NEW p \in Procs, p # o, ~opened(p)
      PROVE  st(p) = proc[p]
  BY <1>4
<1> HIDE DEF st
<1>5. \A p \in Procs : proc'[p] = st(p)
  BY <1>1
<1>6. proc' \in [Procs -> ProcStates]
  BY <1>1, <1>2, <1>3, <1>4 DEF ProcTypeOK
<1>7. o \in Procs
  BY DEF Procs
<1>8. ProcTypeOK'
  BY <1>2, <1>3, <1>4, <1>5, <1>6, <1>7 DEF ProcTypeOK, Sig, At
<1>9. SamePromotions
  BY <1>2, <1>3, <1>4, <1>5, <1>7 DEF SamePromotions, At
<1>10. QED
  BY <1>2, <1>3, <1>4, <1>5, <1>7, <1>8, <1>9 DEF Sig

-----------------------------------------------------------------------------
(* The steps of a promotion, and what they do to the lessons.                *)
LEMMA StartPromotionKeepsLessons ==
    ASSUME IInv, NEW o \in Operators, NEW s \in Sigs, NEW text \in Texts, StartPromotion(o, s, text)
    PROVE  /\ FilesTypeOK' /\ ProcTypeOK' /\ LessonHalf' /\ BlameGrows /\ SameCandidates
           /\ blamed' \in [Sigs -> SUBSET Causes]
<1> USE DEF IInv
<1>1. /\ o \in Procs /\ proc[o].pc = "idle" /\ proc[o] \in ProcStates
      /\ proc' = [proc EXCEPT ![o] = Busy("approved", s, text)]
      /\ Blame(s, IF Promoting(s) # {} THEN {"crossed"} ELSE {})
      /\ UNCHANGED <<files, given, seen, acked>>
  BY DEF StartPromotion, Procs, At, ProcTypeOK
<1>2. /\ \A p \in Procs : p # o => proc'[p] = proc[p]
      /\ proc'[o].pc = "approved" /\ proc'[o].sig = s
  BY <1>1 DEF ProcTypeOK, Busy, Idle
<1>3. FilesTypeOK' /\ ProcTypeOK'
  BY <1>1, BusyKeepsTypes DEF FilesTypeOK, files
<1>4. /\ blamed' \in [Sigs -> SUBSET Causes] /\ BlameGrows
      /\ Promoting(s) # {} => "crossed" \in blamed'[s]
  BY <1>1, BlameIsTyped DEF Causes
<1>5. SameCandidates
  BY <1>1, <1>2 DEF SameCandidates
<1>6. Signed' = Signed /\ lesson' = lesson
  BY <1>1 DEF Signed, files
<1>7. KnownInv' /\ LessonInv'
  BY <1>1, <1>2, <1>4, <1>6 DEF KnownInv, LessonInv, Procs, At, Sig, Blamed, BlameGrows, ProcTypeOK
<1>8. \A t : Promoting(t)' = IF t = s THEN Promoting(t) \cup {o} ELSE Promoting(t)
  BY <1>1, <1>2 DEF Promoting, Sig, Procs
<1>9. OnePromotion'
  BY <1>4, <1>8 DEF OnePromotion, Blamed, BlameGrows
<1>10. RetrievedIsSigned' /\ PromotionsLast'
  BY <1>1, <1>4, <1>6, <1>8 DEF RetrievedIsSigned, PromotionsLast, LessonOk, Blamed, BlameGrows, HistoryTypeOK
<1>11. QED
  BY <1>3, <1>4, <1>5, <1>7, <1>9, <1>10 DEF LessonHalf

(* The promotion of a signature goes on, or others of it are under way.      *)
LEMMA WriteLessonKeepsLessons ==
    ASSUME IInv, NEW o \in Operators, NEW text \in Texts \cup {"torn"},
           NEW pc, \/ At(o, "approved") /\ pc = "replacing" /\ text = "torn"
                   \/ /\ At(o, "replacing") /\ pc = "replaced"
                      /\ text \in Written(lesson[Sig(o)], proc[o].text),
           WriteLesson(o, text, pc)
    PROVE  FilesTypeOK' /\ ProcTypeOK' /\ LessonHalf' /\ SameCandidates
<1> USE DEF IInv
<1> DEFINE s == Sig(o)
<1>1. /\ o \in Procs /\ s \in Sigs /\ s = proc[o].sig /\ proc[o].text \in Texts
      /\ proc[o] \in ProcStates
      /\ proc[o].pc \in {"approved", "replacing"} /\ o \in Promoting(s)
  BY DEF ProcTypeOK, Procs, At, Promoting, Sig
<1>2. /\ lesson' = [lesson EXCEPT ![s] = text]
      /\ UNCHANGED <<pending, manifest, given, spent, history>>
  BY DEF WriteLesson
<1> DEFINE st(p) == CASE p = o -> [proc[o] EXCEPT !.pc = pc]
                      [] p # o /\ At(p, "verified") -> [proc[p] EXCEPT !.changed = @ \cup {s}]
                      [] OTHER -> proc[p]
<1>3. proc' = [p \in Procs |-> st(p)]
  BY DEF WriteLesson
<1>4. /\ st(o) \in ProcStates /\ st(o).pc = pc
      /\ st(o).sig = proc[o].sig /\ st(o).text = proc[o].text
  BY <1>1 DEF ProcStates
<1>5. ASSUME NEW p \in Procs, p # o, At(p, "verified")
      PROVE  /\ st(p) \in ProcStates /\ st(p).pc = "verified" /\ st(p).sig = proc[p].sig
             /\ st(p).known = proc[p].known /\ st(p).changed = proc[p].changed \cup {s}
  BY <1>1, <1>5 DEF ProcTypeOK, ProcStates, At
<1>6. \A p \in Procs : p # o /\ ~At(p, "verified") => st(p) = proc[p]
  OBVIOUS
<1> HIDE DEF st
<1>7. \A p \in Procs : proc'[p] = st(p)
  BY <1>3
<1>8. FilesTypeOK'
  BY <1>1, <1>2 DEF FilesTypeOK, Contents
<1>9. ProcTypeOK'
  <2>1. proc' \in [Procs -> ProcStates]
    BY <1>3, <1>4, <1>5, <1>6 DEF ProcTypeOK
  <2>2. QED
    BY <1>1, <1>4, <1>5, <1>6, <1>7, <2>1 DEF ProcTypeOK, Sig, At
<1>10. SameCandidates
  BY <1>1, <1>4, <1>5, <1>6, <1>7 DEF SameCandidates, At
<1>11. Signed' = Signed /\ \A t \in Sigs : lesson'[t] = IF t = s THEN text ELSE lesson[t]
  BY <1>1, <1>2 DEF Signed, FilesTypeOK
<1>12. KnownInv'
  BY <1>1, <1>4, <1>5, <1>6, <1>7, <1>11 DEF KnownInv, Procs, At, ProcTypeOK, ProcStates
<1>13. \A t : Promoting(t)' = Promoting(t)
  BY <1>1, <1>4, <1>5, <1>6, <1>7 DEF Promoting, Sig, Procs, At
<1>14. OnePromotion'
  BY <1>2, <1>13 DEF OnePromotion, Blamed, history
<1>15. LessonInv'
  <2>1. ASSUME NEW q \in Operators, q # o, proc'[q].pc \in {"replacing", "replaced"}
        PROVE  /\ proc'[q] = proc[q]
               /\ Sig(q) = s => Blamed(s, {"crossed"})
    <3>1. q \in Procs /\ proc'[q] = proc[q]
      BY <1>5, <1>6, <1>7, <2>1 DEF Procs
    <3>2. q \in Promoting(Sig(q))
      BY <2>1, <3>1 DEF Promoting, Procs
    <3>3. QED
      BY <1>1, <2>1, <3>1, <3>2 DEF OnePromotion
  <2>2. ASSUME NEW q \in Operators, q # o
        PROVE  /\ proc'[q].pc = "replacing" =>
                      lesson'[proc'[q].sig] = "torn" \/ blamed'[proc'[q].sig] \cap {"death", "crossed"} # {}
               /\ proc'[q].pc = "replaced" =>
                      lesson'[proc'[q].sig] = proc'[q].text
                         \/ blamed'[proc'[q].sig] \cap {"death", "crossed"} # {}
    <3>1. q \in Procs /\ blamed' = blamed
      BY <1>2 DEF Procs, history
    <3>2. proc'[q].pc \in {"replacing", "replaced"} => proc[q].sig \in Sigs
      BY <2>1, <2>2, <3>1 DEF ProcTypeOK, Sig
    <3>3. QED
      BY <1>11, <2>1, <2>2, <3>1, <3>2 DEF LessonInv, At, Sig, Blamed
  <2>3. /\ proc'[o].pc = "replacing" => lesson'[s] = "torn"
        /\ proc'[o].pc = "replaced" =>
              lesson'[s] = proc'[o].text \/ blamed'[s] \cap {"death", "crossed"} # {}
    BY <1>1, <1>2, <1>4, <1>7, <1>11 DEF LessonInv, Written, At, Blamed, history
  <2>4. proc'[o].sig = s
    BY <1>1, <1>4, <1>7
  <2>5. QED
    BY <2>2, <2>3, <2>4 DEF LessonInv, At, Sig, Blamed
<1>16. RetrievedIsSigned' /\ PromotionsLast'
  BY <1>1, <1>2, <1>11, <1>13 DEF RetrievedIsSigned, PromotionsLast, LessonOk, Blamed, history, HistoryTypeOK,
       Signed
<1>17. QED
  BY <1>8, <1>9, <1>10, <1>12, <1>14, <1>15, <1>16 DEF LessonHalf

(* A record of what the lesson file holds, or one to blame.                  *)
LEMMA AppendRecordKeepsLessons ==
    ASSUME IInv, NEW o \in Operators, AppendRecord(o)
    PROVE  /\ FilesTypeOK' /\ ProcTypeOK' /\ LessonHalf' /\ BlameGrows
           /\ blamed' \in [Sigs -> SUBSET Causes]
           /\ Signed \subseteq Signed'
           /\ Signed' \subseteq Signed \cup {Line("signed", Sig(o), proc[o].text)}
           /\ ~Glues => Line("signed", Sig(o), proc[o].text) \in Signed'
           /\ Glues => "glued" \in blamed'[Sig(o)]
           /\ Writing(Sig(o)) # {} => "late" \in blamed'[Sig(o)]
           /\ \A p \in Procs : p # o => proc'[p] = proc[p]
           /\ proc'[o].pc = "listed" /\ proc'[o].sig = proc[o].sig
<1> USE DEF IInv
<1> DEFINE s == Sig(o)
           record == Line("signed", s, proc[o].text)
           causes == (IF Glues THEN {"glued"} ELSE {}) \cup (IF Writing(s) # {} THEN {"late"} ELSE {})
<1>1. /\ o \in Procs /\ s \in Sigs /\ s = proc[o].sig /\ proc[o].text \in Texts
      /\ proc[o] \in ProcStates /\ proc[o].pc = "replaced"
      /\ manifest' = Appended(record) /\ Goto(o, "listed") /\ Blame(s, causes)
      /\ UNCHANGED <<pending, lesson, given, spent, seen, acked, unseen>>
  BY DEF AppendRecord, ProcTypeOK, Procs, At, Sig
<1>2. record \in Lines /\ record.kind = "signed" /\ record.sig = s /\ record.text = proc[o].text
  BY <1>1, LinesAreTyped DEF Line
<1>3. /\ manifest' \in Seq(Lines) /\ Signed \subseteq Signed' /\ Signed' \subseteq Signed \cup {record}
      /\ ~Glues => record \in Signed'
  BY <1>1, <1>2, SignedGrows DEF FilesTypeOK
<1>4. causes \in SUBSET Causes
  BY DEF Causes
<1>5. blamed' \in [Sigs -> SUBSET Causes] /\ BlameGrows /\ causes \subseteq blamed'[s]
  BY <1>1, <1>4, BlameIsTyped
<1>6. FilesTypeOK' /\ ProcTypeOK'
  BY <1>1, <1>3, GotoKeepsTypes DEF FilesTypeOK
<1>7. /\ \A p \in Procs : p # o => proc'[p] = proc[p]
      /\ proc'[o].pc = "listed" /\ proc'[o].sig = s
  BY <1>1 DEF Goto, ProcTypeOK, ProcStates
<1>8. KnownInv'
  BY <1>1, <1>3, <1>7 DEF KnownInv, At, Procs
<1>9. LessonInv'
  BY <1>1, <1>5, <1>7 DEF LessonInv, At, Sig, Blamed, BlameGrows, ProcTypeOK, Procs
<1>10. \A t : Promoting(t)' = Promoting(t) \ {o}
  BY <1>1, <1>7 DEF Promoting, Sig, Procs
<1>11. OnePromotion'
  BY <1>5, <1>10 DEF OnePromotion, Blamed, BlameGrows
<1>12. RetrievedIsSigned'
  BY <1>1, <1>3 DEF RetrievedIsSigned
<1>13. PromotionsLast'
  <2> SUFFICES ASSUME NEW t \in acked
               PROVE  \/ \E r \in Signed' : r.sig = t /\ lesson[r.sig] = r.text
                      \/ (Promoting(t) \ {o}) # {}
                      \/ blamed'[t] \cap {"death", "glued", "crossed"} # {}
    BY <1>1, <1>10 DEF PromotionsLast, LessonOk, Blamed
  <2>1. t \in Sigs
    BY DEF HistoryTypeOK
  <2>2. CASE t # s
    <3>1. o \notin Promoting(t)
      BY <1>1, <2>2 DEF Promoting
    <3>2. QED
      BY <1>3, <1>5, <2>1, <3>1 DEF PromotionsLast, LessonOk, Blamed, BlameGrows
  <2>3. CASE t = s /\ Glues
    BY <1>5, <2>3
  <2>4. CASE t = s /\ ~Glues
    <3>1. record \in Signed'
      BY <1>3, <2>4
    <3>2. lesson[s] = proc[o].text \/ Blamed(s, {"death", "crossed"})
      BY <1>1 DEF LessonInv, At
    <3>3. QED
      BY <1>2, <1>5, <2>1, <2>4, <3>1, <3>2 DEF Blamed, BlameGrows
  <2>5. QED
    BY <2>2, <2>3, <2>4
<1>14. QED
  BY <1>1, <1>3, <1>5, <1>6, <1>7, <1>8, <1>9, <1>11, <1>12, <1>13 DEF LessonHalf

(* What is acknowledged can be retrieved: a record vouches for the lesson.   *)
LEMMA ReportKeepsInv ==
    ASSUME IInv, NEW o \in Operators, Report(o)
    PROVE  IInv'
<1> USE DEF IInv
<1> DEFINE s == Sig(o)
<1>1. /\ o \in Procs /\ s \in Sigs /\ proc[o].pc = "promoted"
      /\ acked' = (IF ReportedOk(s) THEN acked \cup {s} ELSE acked)
      /\ proc' = [proc EXCEPT ![o] = Idle]
      /\ UNCHANGED <<files, given, spent, seen, unseen, blamed>>
  BY DEF Report, ProcTypeOK, Procs, At, Sig
<1>2. /\ \A p \in Procs : p # o => proc'[p] = proc[p]
      /\ proc'[o].pc = "idle"
  BY <1>1, IdleIsTyped DEF ProcTypeOK
<1>3. FilesTypeOK' /\ ProcTypeOK' /\ HistoryTypeOK'
  BY <1>1, IdleKeepsTypes DEF FilesTypeOK, HistoryTypeOK, files
<1>4. SamePromotions /\ SameCandidates /\ BlameGrows /\ Signed' = Signed
  BY <1>1, <1>2 DEF SamePromotions, SameCandidates, BlameGrows, Signed, files
<1>5. CandidateHalf'
  BY <1>1, <1>4, CandidateFrame DEF files
<1>6. KnownInv' /\ LessonInv' /\ OnePromotion' /\ RetrievedIsSigned'
  <2>1. \A t : Promoting(t)' = Promoting(t)
    BY <1>1, <1>2 DEF Promoting, Sig, Procs
  <2>2. QED
    BY <1>1, <1>2, <1>4, <2>1 DEF KnownInv, LessonInv, OnePromotion, RetrievedIsSigned, files,
       Procs, At, Sig, Blamed
<1>7. PromotionsLast'
  <2>1. ReportedOk(s) => \E r \in Signed : r.sig = s /\ LessonOk(r)
    <3> SUFFICES ASSUME ReportedOk(s) PROVE \E r \in Signed : r.sig = s /\ LessonOk(r)
      OBVIOUS
    <3>1. PICK i \in DOMAIN manifest : manifest[i].sig = s /\ LessonOk(manifest[i])
      BY DEF ReportedOk
    <3>2. manifest[i] \in Lines /\ manifest[i] \in Range(manifest)
      BY DEF FilesTypeOK, Range
    <3>3. manifest[i].kind = "signed"
      BY <1>1, <3>1, <3>2, LessonAssumption DEF Lines, Cut, Junk, Line
    <3>4. QED
      BY <3>1, <3>2, <3>3 DEF Signed
  <2>2. \A t : Promoting(t)' = Promoting(t)
    BY <1>1, <1>2 DEF Promoting, Sig, Procs
  <2>3. QED
    BY <1>1, <1>4, <2>1, <2>2 DEF PromotionsLast, LessonOk, Blamed, files
<1>8. QED
  BY <1>3, <1>5, <1>6, <1>7 DEF LessonHalf, CandidateHalf

-----------------------------------------------------------------------------
(* retrieve                                                                  *)
LEMMA VerifyKeepsInv ==
    ASSUME IInv, NEW h \in Harnesses, Verify(h)
    PROVE  IInv'
<1> USE DEF IInv
<1> DEFINE known == {r.sig : r \in {q \in Signed : LessonOk(q)}}
           st == [Idle EXCEPT !.pc = "verified", !.known = known]
<1>1. h \in Procs /\ proc[h].pc = "idle" /\ proc' = [proc EXCEPT ![h] = st]
      /\ UNCHANGED <<files, given, spent, history>>
  BY DEF Verify, At, Procs
<1>2. /\ known \subseteq Sigs
      /\ \A s \in known : Line("signed", s, lesson[s]) \in Signed
  <2>1. Signed \subseteq [kind : {"signed"}, sig : Sigs, text : Texts]
    BY SignedAreLines DEF FilesTypeOK
  <2>2. ASSUME NEW r \in Signed, LessonOk(r)
        PROVE  r.sig \in Sigs /\ Line("signed", r.sig, lesson[r.sig]) = r
    BY <2>1, <2>2 DEF LessonOk, Line
  <2>3. QED
    BY <2>2
<1>3. /\ st \in ProcStates /\ st.pc = "verified" /\ st.known = known
  BY <1>2 DEF Idle, ProcStates
<1> HIDE DEF st, known
<1>4. /\ ProcTypeOK' /\ FilesTypeOK' /\ HistoryTypeOK'
      /\ \A p \in Procs : p # h => proc'[p] = proc[p]
      /\ proc'[h] = st
  BY <1>1, <1>3, ProcUpdate DEF FilesTypeOK, HistoryTypeOK, files, history, ProcTypeOK
<1>5. SameCandidates /\ BlameGrows /\ Signed' = Signed
  BY <1>1, <1>3, <1>4 DEF SameCandidates, BlameGrows, Signed, files, history
<1>6. CandidateHalf'
  BY <1>1, <1>5, CandidateFrame DEF files, history
<1>7. KnownInv'
  BY <1>1, <1>2, <1>3, <1>4, <1>5 DEF KnownInv, At, files, Procs
<1>8. \A t : Promoting(t)' = Promoting(t)
  BY <1>1, <1>3, <1>4 DEF Promoting, Sig, Procs
<1>9. LessonInv' /\ OnePromotion' /\ RetrievedIsSigned' /\ PromotionsLast'
  BY <1>1, <1>3, <1>4, <1>5, <1>8
     DEF LessonInv, OnePromotion, RetrievedIsSigned, PromotionsLast, LessonOk, files, history, At, Sig,
         Blamed, Procs
<1>10. QED
  BY <1>4, <1>6, <1>7, <1>9 DEF CandidateHalf

(* What is known is signed still, or its file was changed meanwhile.         *)
LEMMA ReadKeepsInv ==
    ASSUME IInv, NEW h \in Harnesses, Read(h)
    PROVE  IInv'
<1> USE DEF IInv
<1>1. PICK hits \in SUBSET proc[h].known :
         given' = [given EXCEPT ![h] =
            {[record |-> Line("signed", s, lesson[s]), changed |-> s \in proc[h].changed] : s \in hits}]
  BY DEF Read
<1> DEFINE hit(s) == [record |-> Line("signed", s, lesson[s]), changed |-> s \in proc[h].changed]
           new == {hit(s) : s \in hits}
<1>2. /\ h \in Procs /\ proc[h].pc = "verified" /\ proc' = [proc EXCEPT ![h] = Idle]
      /\ UNCHANGED <<files, spent, history>>
  BY DEF Read, At, Procs
<1>3. ASSUME NEW s \in hits
      PROVE  hit(s) \in Hits /\ (hit(s).changed \/ hit(s).record \in Signed)
  <2>1. s \in Sigs /\ lesson[s] \in Contents
    BY <1>2 DEF ProcTypeOK, ProcStates, FilesTypeOK
  <2>2. s \in proc[h].changed \/ Line("signed", s, lesson[s]) \in Signed
    BY <1>2 DEF KnownInv, At
  <2>3. hit(s).record = Line("signed", s, lesson[s]) /\ hit(s).changed = (s \in proc[h].changed)
    OBVIOUS
  <2>4. hit(s) \in Hits
    <3>1. Line("signed", s, lesson[s]) \in [kind : {"signed"}, sig : Sigs, text : Contents]
      BY <2>1 DEF Line
    <3>2. (s \in proc[h].changed) \in BOOLEAN
      OBVIOUS
    <3>3. QED
      BY <3>1, <3>2, Zenon DEF Hits
  <2>5. QED
    BY <2>2, <2>3, <2>4
<1>4. given' = [given EXCEPT ![h] = new]
  BY <1>1
<1>5. new \subseteq Hits /\ \A x \in new : x.changed \/ x.record \in Signed
  BY <1>3
<1> HIDE DEF hit, new
<1>6. /\ ProcTypeOK' /\ FilesTypeOK' /\ HistoryTypeOK'
      /\ \A p \in Procs : p # h => proc'[p] = proc[p]
      /\ proc'[h].pc = "idle"
  BY <1>2, <1>4, <1>5, IdleKeepsTypes, IdleIsTyped
     DEF FilesTypeOK, HistoryTypeOK, files, history, ProcTypeOK
<1>7. SameCandidates /\ BlameGrows /\ Signed' = Signed
  BY <1>2, <1>6 DEF SameCandidates, BlameGrows, Signed, files, history
<1>8. CandidateHalf'
  BY <1>2, <1>7, CandidateFrame DEF files, history
<1>9. \A t : Promoting(t)' = Promoting(t)
  BY <1>2, <1>6 DEF Promoting, Sig, Procs
<1>10. KnownInv' /\ LessonInv' /\ OnePromotion' /\ PromotionsLast'
  BY <1>2, <1>6, <1>7, <1>9
     DEF KnownInv, LessonInv, OnePromotion, PromotionsLast, LessonOk, files, history, At, Sig,
         Blamed, Procs
<1>11. RetrievedIsSigned'
  BY <1>4, <1>5, <1>7 DEF RetrievedIsSigned, HistoryTypeOK
<1>12. QED
  BY <1>6, <1>8, <1>10, <1>11 DEF CandidateHalf

-----------------------------------------------------------------------------
(* A process that ends gives the blame to its signature.                     *)
LEMMA InterruptKeepsInv ==
    ASSUME IInv, NEW d \in Procs, Interrupt(d)
    PROVE  IInv'
<1> USE DEF IInv
<1> DEFINE s == Sig(d)
<1>1. /\ s \in Sigs /\ s = proc[d].sig /\ proc[d].pc \notin {"idle", "verified"}
      /\ proc' = [proc EXCEPT ![d] = Idle]
      /\ manifest' = manifest \/ manifest' = Appended(Cut)
      /\ Blame(s, {"death"})
      /\ UNCHANGED <<pending, lesson, given, seen, acked, unseen>>
  BY DEF Interrupt, ProcTypeOK, At, Sig
<1>2. /\ \A p \in Procs : p # d => proc'[p] = proc[p]
      /\ proc'[d].pc = "idle"
  BY <1>1, IdleIsTyped DEF ProcTypeOK
<1>3. blamed' \in [Sigs -> SUBSET Causes] /\ BlameGrows /\ "death" \in blamed'[s]
  BY <1>1, BlameIsTyped DEF Causes
<1>4. manifest' \in Seq(Lines) /\ Signed' = Signed
  <2>1. Cut \in Lines /\ Cut.kind # "signed"
    BY DEF Lines, Cut, Line
  <2>2. CASE manifest' = manifest
    BY <2>2 DEF FilesTypeOK, Signed
  <2>3. CASE manifest' = Appended(Cut)
    BY <2>1, <2>3, SignedGrows DEF FilesTypeOK
  <2>4. QED
    BY <1>1, <2>2, <2>3
<1>5. FilesTypeOK' /\ ProcTypeOK' /\ HistoryTypeOK'
  BY <1>1, <1>3, <1>4, IdleKeepsTypes DEF FilesTypeOK, HistoryTypeOK
<1>6. /\ \A t : Promoting(t)' = Promoting(t) \ {d}
      /\ \A t : Writing(t)' = Writing(t) \ {d}
      /\ \A t : IsPromoted(t)' = IsPromoted(t)
  BY <1>1, <1>2, <1>4 DEF Promoting, Writing, IsPromoted, Sig, Procs
<1>7. KnownInv' /\ LessonInv' /\ OnePromotion' /\ RetrievedIsSigned'
  BY <1>1, <1>2, <1>3, <1>4, <1>6
     DEF KnownInv, LessonInv, OnePromotion, RetrievedIsSigned, Blamed, BlameGrows, At, Sig, Procs,
         ProcTypeOK
<1>8. PromotionsLast'
  <2> SUFFICES ASSUME NEW t \in acked
               PROVE  \/ \E r \in Signed : r.sig = t /\ LessonOk(r)
                      \/ Promoting(t) \ {d} # {}
                      \/ blamed'[t] \cap {"death", "glued", "crossed"} # {}
    BY <1>1, <1>4, <1>6 DEF PromotionsLast, LessonOk, Blamed
  <2>1. t \in Sigs
    BY DEF HistoryTypeOK
  <2>2. CASE t = s
    BY <1>3, <2>2
  <2>3. CASE t # s
    <3>1. d \notin Promoting(t)
      BY <1>1, <2>3 DEF Promoting
    <3>2. QED
      BY <1>3, <2>1, <3>1 DEF PromotionsLast, Blamed, BlameGrows
  <2>4. QED
    BY <2>2, <2>3
<1>9. FreeInv' /\ OpenedInv'
  BY <1>1, <1>2, <1>3, <1>6 DEF FreeInv, OpenedInv, IsPromoted, Blamed, BlameGrows, At, Sig, ProcTypeOK
<1>10. OneWriter'
  <2> SUFFICES ASSUME NEW t \in Sigs, NEW p \in Writing(t)', NEW q \in Writing(t)',
                      pending[t] # "absent", p # q \/ ~(proc'[p].pc = "opened")
               PROVE  blamed'[t] \cap Reviewed # {}
    BY <1>1 DEF OneWriter, Blamed, At
  <2>1. p \in Writing(t) /\ q \in Writing(t) /\ p # d /\ proc'[p] = proc[p]
    BY <1>2, <1>6 DEF Writing
  <2>2. QED
    BY <1>3, <2>1 DEF OneWriter, Blamed, BlameGrows, At
<1>11. ListedInv'
  BY <1>1, <1>2, <1>3, <1>6 DEF ListedInv, IsPromoted, Blamed, BlameGrows, At, Sig, ProcTypeOK, Procs
<1>12. SeenInv'
  <2> SUFFICES ASSUME NEW o \in Operators, NEW t \in Sigs,
                      seen[o][t] # "none", ~(blamed'[t] \cap Reviewed # {})
               PROVE  /\ pending[t] \in Texts => pending[t] = seen[o][t]
                      /\ pending[t] = "absent" => IsPromoted(t)
                      /\ \A p \in Writing(t)' : proc'[p].pc = "looked" /\ IsPromoted(t)
    BY <1>1, <1>6 DEF SeenInv, Blamed, At
  <2>1. ~Blamed(t, Reviewed)
    BY <1>3 DEF Blamed, BlameGrows
  <2>2. \A p \in Writing(t)' : p \in Writing(t) /\ proc'[p] = proc[p]
    BY <1>2, <1>6 DEF Writing
  <2>3. QED
    BY <2>1, <2>2 DEF SeenInv, At
<1>13. PendingExplained'
  <2> SUFFICES ASSUME NEW t \in Sigs
               PROVE  /\ pending[t] = "torn" =>
                            \/ \E p \in Procs : proc'[p].sig = t /\ proc'[p].pc = "opened"
                            \/ blamed'[t] \cap {"death", "crossed"} # {}
                      /\ pending[t] # "absent" /\ IsPromoted(t) =>
                            \/ \E o \in Operators : proc'[o].sig = t /\ proc'[o].pc = "listed"
                            \/ blamed'[t] \cap {"death", "crossed", "late", "requeued"} # {}
    BY <1>1, <1>6 DEF PendingExplained, Blamed, At, Sig
  <2>1. CASE t = s
    BY <1>3, <2>1
  <2>2. CASE t # s
    <3>1. \A p \in Procs : proc[p].sig = t => proc'[p] = proc[p]
      BY <1>1, <1>2, <2>2
    <3>2. QED
      BY <1>3, <3>1 DEF PendingExplained, Blamed, BlameGrows, At, Sig, Procs
  <2>3. QED
    BY <2>1, <2>2
<1>14. PromotedIsReviewed'
  BY <1>1, <1>3 DEF PromotedIsReviewed, HistoryTypeOK, Blamed, BlameGrows
<1>15. QED
  BY <1>5, <1>7, <1>8, <1>9, <1>10, <1>11, <1>12, <1>13, <1>14

-----------------------------------------------------------------------------
(* Candidates. A process that starts is the only one whose state changes.    *)
LEMMA StartCandidateKeepsLessons ==
    ASSUME IInv, NEW p \in Procs, NEW pc \in {"looked", "free"}, NEW s \in Sigs, NEW text \in Texts,
           StartCandidate(p, pc, s, text), BlameGrows
    PROVE  /\ FilesTypeOK' /\ ProcTypeOK' /\ LessonHalf' /\ Signed' = Signed
           /\ pending' = pending /\ seen' = seen /\ unseen' = unseen
           /\ given' = given /\ acked' = acked
           /\ proc[p].pc = "idle"
           /\ \A q \in Procs : q # p => proc'[q] = proc[q]
           /\ proc'[p].pc = pc /\ proc'[p].sig = s
<1> USE DEF IInv
<1>1. /\ proc[p].pc = "idle" /\ proc' = [proc EXCEPT ![p] = Busy(pc, s, text)]
      /\ UNCHANGED <<files, given, seen, acked, unseen>>
  BY DEF StartCandidate, At
<1>2. FilesTypeOK' /\ ProcTypeOK'
  BY <1>1, BusyKeepsTypes DEF FilesTypeOK, files
<1>3. /\ \A q \in Procs : q # p => proc'[q] = proc[q]
      /\ proc'[p].pc = pc /\ proc'[p].sig = s
  BY <1>1 DEF ProcTypeOK, Busy, Idle
<1>4. SamePromotions /\ Signed' = Signed
  BY <1>1, <1>3 DEF SamePromotions, Signed, files
<1>5. LessonHalf'
  BY <1>1, <1>4, LessonFrame DEF files
<1>6. QED
  BY <1>1, <1>2, <1>3, <1>4, <1>5 DEF files

(* A capture starts where there is no candidate.                             *)
LEMMA CaptureKeepsInv ==
    ASSUME IInv, NEW h \in Harnesses, NEW s \in Sigs, NEW text \in Texts, Capture(h, s, text)
    PROVE  IInv'
<1> USE DEF IInv
<1>1. /\ h \in Procs /\ pending[s] = "absent" /\ StartCandidate(h, "looked", s, text)
      /\ blamed' = blamed
  BY DEF Capture, Procs
<1>2. BlameGrows
  BY <1>1 DEF BlameGrows
<1>3. /\ FilesTypeOK' /\ ProcTypeOK' /\ LessonHalf' /\ Signed' = Signed
      /\ pending' = pending /\ seen' = seen /\ unseen' = unseen
      /\ given' = given /\ acked' = acked
      /\ proc[h].pc = "idle"
      /\ \A q \in Procs : q # h => proc'[q] = proc[q]
      /\ proc'[h].pc = "looked" /\ proc'[h].sig = s
  BY <1>1, <1>2, StartCandidateKeepsLessons
<1>4. HistoryTypeOK'
  BY <1>1, <1>3 DEF HistoryTypeOK
<1>5. /\ \A t : Writing(t)' = IF t = s THEN Writing(t) \cup {h} ELSE Writing(t)
      /\ \A t : IsPromoted(t)' = IsPromoted(t)
  BY <1>1, <1>3 DEF Writing, IsPromoted, Sig
<1>6. FreeInv' /\ OpenedInv' /\ ListedInv'
  BY <1>1, <1>3, <1>5 DEF FreeInv, OpenedInv, ListedInv, IsPromoted, Blamed, At, Sig, Procs
<1>7. OneWriter'
  <2> SUFFICES ASSUME NEW t \in Sigs, NEW p \in Writing(t)', NEW q \in Writing(t)',
                      pending[t] # "absent", p # q \/ ~(proc'[p].pc = "opened")
               PROVE  blamed[t] \cap Reviewed # {}
    BY <1>1, <1>3 DEF OneWriter, Blamed, At
  <2>1. p \in Writing(t) /\ q \in Writing(t) /\ proc'[p] = proc[p]
    BY <1>1, <1>3, <1>5 DEF Writing
  <2>2. QED
    BY <2>1 DEF OneWriter, Blamed, At
<1>8. SeenInv'
  <2> SUFFICES ASSUME NEW o \in Operators, NEW t \in Sigs,
                      seen[o][t] # "none", ~(blamed[t] \cap Reviewed # {})
               PROVE  /\ pending[t] \in Texts => pending[t] = seen[o][t]
                      /\ pending[t] = "absent" => IsPromoted(t)
                      /\ \A p \in Writing(t)' : proc'[p].pc = "looked" /\ IsPromoted(t)
    BY <1>1, <1>3, <1>5 DEF SeenInv, Blamed, At
  <2>1. \A p \in Writing(t)' : \/ p = h /\ t = s
                               \/ p \in Writing(t) /\ proc'[p] = proc[p]
    BY <1>3, <1>5 DEF Writing
  <2>2. QED
    BY <1>1, <1>3, <2>1 DEF SeenInv, At, Blamed
<1>9. PendingExplained' /\ PromotedIsReviewed'
  BY <1>1, <1>3, <1>5 DEF PendingExplained, PromotedIsReviewed, Blamed, At, Sig, Procs
<1>10. QED
  BY <1>3, <1>4, <1>6, <1>7, <1>8, <1>9 DEF LessonHalf

(* An operator that adds a candidate takes the blame for it.                 *)
LEMMA AddKeepsInv ==
    ASSUME IInv, NEW o \in Operators, NEW s \in Sigs, NEW text \in Texts, Add(o, s, text)
    PROVE  IInv'
<1> USE DEF IInv
<1>1. o \in Procs /\ StartCandidate(o, "free", s, text) /\ Blame(s, {"requeued"})
  BY DEF Add, Procs
<1>2. blamed' \in [Sigs -> SUBSET Causes] /\ BlameGrows /\ "requeued" \in blamed'[s]
  BY <1>1, BlameIsTyped DEF Causes
<1>3. /\ FilesTypeOK' /\ ProcTypeOK' /\ LessonHalf' /\ Signed' = Signed
      /\ pending' = pending /\ seen' = seen /\ unseen' = unseen
      /\ given' = given /\ acked' = acked
      /\ proc[o].pc = "idle"
      /\ \A q \in Procs : q # o => proc'[q] = proc[q]
      /\ proc'[o].pc = "free" /\ proc'[o].sig = s
  BY <1>1, <1>2, StartCandidateKeepsLessons
<1>4. HistoryTypeOK'
  BY <1>2, <1>3 DEF HistoryTypeOK
<1>5. /\ \A t : Writing(t)' = IF t = s THEN Writing(t) \cup {o} ELSE Writing(t)
      /\ \A t : IsPromoted(t)' = IsPromoted(t)
  BY <1>1, <1>3 DEF Writing, IsPromoted, Sig
<1>6. FreeInv' /\ OpenedInv' /\ ListedInv'
  BY <1>1, <1>2, <1>3, <1>5
     DEF FreeInv, OpenedInv, ListedInv, IsPromoted, Blamed, BlameGrows, At, Sig, Procs, ProcTypeOK
<1>7. OneWriter' /\ SeenInv'
  <2>1. \A t \in Sigs : t # s => \A p \in Writing(t)' : p \in Writing(t) /\ proc'[p] = proc[p]
    BY <1>3, <1>5 DEF Writing, Sig
  <2>2. blamed'[s] \cap Reviewed # {}
    BY <1>2 DEF Reviewed
  <2>3. OneWriter'
    BY <1>2, <1>3, <2>1, <2>2 DEF OneWriter, Blamed, BlameGrows, At
  <2>4. SeenInv'
    BY <1>2, <1>3, <1>5, <2>1, <2>2 DEF SeenInv, Blamed, BlameGrows, At
  <2>5. QED
    BY <2>3, <2>4
<1>8. PendingExplained' /\ PromotedIsReviewed'
  BY <1>1, <1>2, <1>3, <1>5
     DEF PendingExplained, PromotedIsReviewed, Blamed, BlameGrows, At, Sig, Procs, HistoryTypeOK
<1>9. QED
  BY <1>3, <1>4, <1>6, <1>7, <1>8 DEF LessonHalf

(* A signature that was promoted meanwhile is not proposed.                  *)
LEMMA CheckPromotedKeepsInv ==
    ASSUME IInv, NEW h \in Harnesses, CheckPromoted(h)
    PROVE  IInv'
<1> USE DEF IInv
<1> DEFINE s == Sig(h)
<1>1. /\ h \in Procs /\ s \in Sigs /\ s = proc[h].sig /\ proc[h].pc = "looked"
      /\ UNCHANGED <<files, given, spent, history>>
      /\ \/ IsPromoted(s) /\ proc' = [proc EXCEPT ![h] = Idle]
         \/ ~IsPromoted(s) /\ Goto(h, "free")
  BY DEF CheckPromoted, Goto, ProcTypeOK, Procs, At, Sig
<1>2. ProcTypeOK' /\ FilesTypeOK' /\ HistoryTypeOK'
  BY <1>1, IdleKeepsTypes, GotoKeepsTypes DEF FilesTypeOK, HistoryTypeOK, files, history
<1>3. /\ \A q \in Procs : q # h => proc'[q] = proc[q]
      /\ \/ IsPromoted(s) /\ proc'[h].pc = "idle"
         \/ ~IsPromoted(s) /\ proc'[h].pc = "free" /\ proc'[h].sig = s
  BY <1>1, IdleIsTyped DEF Goto, ProcTypeOK, ProcStates
<1>4. /\ SamePromotions /\ BlameGrows /\ Signed' = Signed
      /\ pending' = pending /\ blamed' = blamed /\ seen' = seen /\ unseen' = unseen
  BY <1>1, <1>3 DEF SamePromotions, BlameGrows, Signed, files, history
<1>5. LessonHalf'
  BY <1>1, <1>4, LessonFrame DEF files, history
<1>6. /\ \A t : Writing(t)' \subseteq Writing(t)
      /\ \A t : IsPromoted(t)' = IsPromoted(t)
  BY <1>1, <1>3, <1>4 DEF Writing, IsPromoted, Sig
<1>7. FreeInv' /\ OpenedInv' /\ ListedInv'
  BY <1>1, <1>3, <1>4, <1>6 DEF FreeInv, OpenedInv, ListedInv, IsPromoted, Blamed, At, Sig, Procs
<1>8. OneWriter'
  <2> SUFFICES ASSUME NEW t \in Sigs, NEW p \in Writing(t)', NEW q \in Writing(t)',
                      pending[t] # "absent", p # q \/ ~(proc'[p].pc = "opened")
               PROVE  blamed[t] \cap Reviewed # {}
    BY <1>4 DEF OneWriter, Blamed, At
  <2>1. p \in Writing(t) /\ q \in Writing(t) /\ (p # q \/ ~(proc[p].pc = "opened"))
    BY <1>1, <1>3, <1>6 DEF Writing
  <2>2. QED
    BY <2>1 DEF OneWriter, Blamed, At
<1>9. SeenInv'
  <2> SUFFICES ASSUME NEW o \in Operators, NEW t \in Sigs,
                      seen[o][t] # "none", ~(blamed[t] \cap Reviewed # {})
               PROVE  /\ pending[t] \in Texts => pending[t] = seen[o][t]
                      /\ pending[t] = "absent" => IsPromoted(t)
                      /\ \A p \in Writing(t)' : proc'[p].pc = "looked" /\ IsPromoted(t)
    BY <1>4, <1>6 DEF SeenInv, Blamed, At
  <2>1. /\ pending[t] \in Texts => pending[t] = seen[o][t]
        /\ pending[t] = "absent" => IsPromoted(t)
        /\ \A p \in Writing(t) : proc[p].pc = "looked" /\ IsPromoted(t)
    BY DEF SeenInv, Blamed, At
  <2>2. ASSUME NEW p \in Writing(t)'
        PROVE  p # h
    <3>1. p \in Writing(t) /\ IsPromoted(t)
      BY <1>6, <2>1
    <3>2. p = h => t = s
      BY <1>1, <3>1 DEF Writing
    <3>3. QED
      BY <1>3, <3>1, <3>2 DEF Writing
  <2>3. QED
    BY <1>3, <1>6, <2>1, <2>2 DEF Writing
<1>10. PendingExplained' /\ PromotedIsReviewed'
  BY <1>1, <1>3, <1>4, <1>6 DEF PendingExplained, PromotedIsReviewed, Blamed, At, Sig, Procs
<1>11. QED
  BY <1>2, <1>5, <1>7, <1>8, <1>9, <1>10 DEF LessonHalf

(* Truncating the candidate: whoever else is about to write it is crossed.   *)
LEMMA OpenPendingKeepsInv ==
    ASSUME IInv, NEW p \in Procs, OpenPending(p)
    PROVE  IInv'
<1> USE DEF IInv
<1> DEFINE s == Sig(p)
           causes == IF Writing(s) # {p} THEN {"crossed"} ELSE {}
<1>1. /\ s \in Sigs /\ s = proc[p].sig /\ proc[p].pc = "free"
      /\ pending' = [pending EXCEPT ![s] = "torn"]
      /\ Goto(p, "opened") /\ Blame(s, causes)
      /\ UNCHANGED <<lesson, manifest, given, spent, seen, acked, unseen>>
  BY DEF OpenPending, ProcTypeOK, At, Sig
<1>2. /\ blamed' \in [Sigs -> SUBSET Causes] /\ BlameGrows
      /\ Writing(s) # {p} => "crossed" \in blamed'[s]
  <2>1. causes \in SUBSET Causes
    BY DEF Causes
  <2>2. QED
    BY <1>1, <2>1, BlameIsTyped
<1>3. ProcTypeOK' /\ FilesTypeOK' /\ HistoryTypeOK'
  BY <1>1, <1>2, GotoKeepsTypes DEF FilesTypeOK, HistoryTypeOK, Contents
<1>4. /\ \A q \in Procs : q # p => proc'[q] = proc[q]
      /\ proc'[p].pc = "opened" /\ proc'[p].sig = s
      /\ \A t \in Sigs : pending'[t] = IF t = s THEN "torn" ELSE pending[t]
  BY <1>1 DEF Goto, ProcTypeOK, ProcStates, FilesTypeOK
<1>5. SamePromotions /\ Signed' = Signed
  BY <1>1, <1>4 DEF SamePromotions, Signed
<1>6. LessonHalf'
  BY <1>1, <1>2, <1>5, LessonFrame
<1>7. /\ \A t : Writing(t)' = Writing(t)
      /\ \A t : IsPromoted(t)' = IsPromoted(t)
      /\ p \in Writing(s)
  BY <1>1, <1>4, <1>5 DEF Writing, IsPromoted, Sig
<1>8. FreeInv' /\ ListedInv'
  <2>1. ASSUME NEW q \in Procs
        PROVE  /\ proc'[q].sig = proc[q].sig
               /\ proc'[q].pc = "listed" => proc[q].pc = "listed"
               /\ proc'[q].pc \in {"free", "opened"} => proc[q].pc \in {"free", "opened"}
               /\ proc[q].pc \in {"free", "opened", "listed"} => proc[q].sig \in Sigs
    BY <1>1, <1>4 DEF ProcTypeOK, Sig
  <2>2. FreeInv'
    BY <1>2, <1>5, <2>1 DEF FreeInv, IsPromoted, Blamed, BlameGrows, Sig
  <2>3. ListedInv'
    BY <1>2, <1>5, <2>1 DEF ListedInv, IsPromoted, Blamed, BlameGrows, At, Sig, Procs
  <2>4. QED
    BY <2>2, <2>3
<1>9. OpenedInv'
  <2> SUFFICES ASSUME NEW q \in Procs, proc'[q].pc = "opened"
               PROVE  /\ \/ pending'[proc'[q].sig] = "torn"
                         \/ blamed'[proc'[q].sig] \cap {"crossed"} # {}
                      /\ \A r \in Procs :
                            proc'[r].pc = "opened" /\ proc'[r].sig = proc'[q].sig /\ r # q =>
                                blamed'[proc'[q].sig] \cap {"crossed"} # {}
    BY DEF OpenedInv, Blamed, At, Sig
  <2>1. proc'[q].sig = proc[q].sig /\ proc'[q].sig \in Sigs
    BY <1>1, <1>3, <1>4 DEF ProcTypeOK, Sig
  <2>2. CASE proc'[q].sig = s
    <3>1. \A r \in Procs : proc'[r].pc = "opened" /\ proc'[r].sig = s => r \in Writing(s)
      BY <1>7 DEF Writing, Sig
    <3>2. \A r \in Procs : proc'[r].pc = "opened" /\ proc'[r].sig = s /\ r # q => Writing(s) # {p}
      BY <2>2, <3>1
    <3>3. pending'[s] = "torn"
      BY <1>1, <1>4
    <3>4. QED
      BY <1>2, <2>2, <3>2, <3>3
  <2>3. CASE proc'[q].sig # s
    <3>1. /\ q # p /\ proc[q].pc = "opened" /\ pending'[proc[q].sig] = pending[proc[q].sig]
          /\ \A r \in Procs : proc'[r].sig = proc'[q].sig => proc'[r] = proc[r]
      BY <1>1, <1>4, <2>1, <2>3
    <3>2. QED
      BY <1>2, <2>1, <3>1 DEF OpenedInv, Blamed, BlameGrows, At, Sig
  <2>4. QED
    BY <2>2, <2>3
<1>10. OneWriter'
  <2> SUFFICES ASSUME NEW t \in Sigs, NEW q \in Writing(t)', NEW r \in Writing(t)',
                      pending'[t] # "absent", q # r \/ ~(proc'[q].pc = "opened")
               PROVE  blamed'[t] \cap Reviewed # {}
    BY DEF OneWriter, Blamed, At
  <2>1. q \in Writing(t) /\ r \in Writing(t)
    BY <1>7
  <2>2. CASE t = s
    <3>1. Writing(s) # {p}
      BY <1>4, <2>1, <2>2
    <3>2. QED
      BY <1>2, <2>2, <3>1 DEF Reviewed
  <2>3. CASE t # s
    <3>1. q # p
      BY <1>1, <2>1, <2>3 DEF Writing
    <3>2. QED
      BY <1>2, <1>4, <2>1, <2>3, <3>1 DEF OneWriter, Blamed, BlameGrows, At, Writing
  <2>4. QED
    BY <2>2, <2>3
<1>11. SeenInv'
  <2> SUFFICES ASSUME NEW o \in Operators, NEW t \in Sigs,
                      seen[o][t] # "none", ~(blamed'[t] \cap Reviewed # {})
               PROVE  /\ pending'[t] \in Texts => pending'[t] = seen[o][t]
                      /\ pending'[t] = "absent" => IsPromoted(t)
                      /\ \A q \in Writing(t) : proc'[q].pc = "looked" /\ IsPromoted(t)
    BY <1>1, <1>7 DEF SeenInv, Blamed, At
  <2>1. /\ pending[t] \in Texts => pending[t] = seen[o][t]
        /\ pending[t] = "absent" => IsPromoted(t)
        /\ \A q \in Writing(t) : proc[q].pc = "looked" /\ IsPromoted(t)
    BY <1>2 DEF SeenInv, Blamed, BlameGrows, At
  <2>2. t # s
    BY <1>1, <1>7, <2>1
  <2>3. \A q \in Writing(t) : proc'[q] = proc[q]
    BY <1>1, <1>4, <2>2 DEF Writing, Sig
  <2>4. QED
    BY <1>4, <2>1, <2>2, <2>3
<1>12. PendingExplained'
  <2> SUFFICES ASSUME NEW t \in Sigs
               PROVE  /\ pending'[t] = "torn" =>
                            \/ \E q \in Procs : proc'[q].sig = t /\ proc'[q].pc = "opened"
                            \/ blamed'[t] \cap {"death", "crossed"} # {}
                      /\ pending'[t] # "absent" /\ IsPromoted(t) =>
                            \/ \E o \in Operators : proc'[o].sig = t /\ proc'[o].pc = "listed"
                            \/ blamed'[t] \cap {"death", "crossed", "late", "requeued"} # {}
    BY <1>7 DEF PendingExplained, Blamed, At, Sig
  <2>1. CASE t = s
    <3>1. IsPromoted(s) => blamed[s] \cap {"late", "requeued"} # {}
      BY <1>1 DEF FreeInv, Blamed
    <3>2. QED
      BY <1>1, <1>2, <1>4, <2>1, <3>1 DEF BlameGrows
  <2>2. CASE t # s
    <3>1. \A q \in Procs : proc[q].sig = t => proc'[q] = proc[q]
      BY <1>1, <1>4, <2>2
    <3>2. QED
      BY <1>2, <1>4, <2>2, <3>1 DEF PendingExplained, Blamed, BlameGrows, At, Sig, Procs
  <2>3. QED
    BY <2>1, <2>2
<1>13. PromotedIsReviewed'
  BY <1>1, <1>2 DEF PromotedIsReviewed, HistoryTypeOK, Blamed, BlameGrows
<1>14. QED
  BY <1>3, <1>6, <1>8, <1>9, <1>10, <1>11, <1>12, <1>13 DEF LessonHalf

(* A writer alone on its candidate leaves its text there.                    *)
LEMMA WritePendingKeepsInv ==
    ASSUME IInv, NEW p \in Procs, WritePending(p)
    PROVE  IInv'
<1> USE DEF IInv
<1> DEFINE s == Sig(p)
<1>1. /\ s \in Sigs /\ s = proc[p].sig /\ proc[p].text \in Texts
      /\ proc[p].pc \in {"opened", "detached"}
      /\ proc' = [proc EXCEPT ![p] = Idle]
      /\ UNCHANGED <<lesson, manifest, given, spent, history>>
  BY DEF WritePending, ProcTypeOK, At, Sig
<1>2. /\ \A q \in Procs : q # p => proc'[q] = proc[q]
      /\ proc'[p].pc = "idle"
      /\ ProcTypeOK'
  BY <1>1, IdleIsTyped, IdleKeepsTypes DEF ProcTypeOK
<1>3. /\ SamePromotions /\ BlameGrows /\ Signed' = Signed /\ HistoryTypeOK'
      /\ seen' = seen /\ unseen' = unseen /\ blamed' = blamed
  BY <1>1, <1>2 DEF SamePromotions, BlameGrows, Signed, HistoryTypeOK, history
<1>4. LessonHalf'
  BY <1>1, <1>3, LessonFrame DEF history
<1>5. CASE proc[p].pc = "detached"
  <2>1. pending' = pending
    BY <1>5 DEF WritePending, At
  <2>2. FilesTypeOK'
    BY <1>1, <2>1 DEF FilesTypeOK
  <2>3. SameCandidates
    BY <1>2, <1>5 DEF SameCandidates
  <2>4. QED
    BY <1>2, <1>3, <1>4, <2>1, <2>2, <2>3, CandidateFrame DEF LessonHalf, CandidateHalf
<1>6. CASE proc[p].pc = "opened"
  <2>1. PICK text \in Written(pending[s], proc[p].text) : pending' = [pending EXCEPT ![s] = text]
    BY <1>6 DEF WritePending, At
  <2>2. /\ text \in Texts \cup {"torn"}
        /\ text = "torn" => Blamed(s, {"crossed"})
    BY <1>1, <1>6, LessonAssumption DEF Written, OpenedInv, At
  <2>3. /\ FilesTypeOK'
        /\ \A t \in Sigs : pending'[t] = IF t = s THEN text ELSE pending[t]
    BY <1>1, <2>1, <2>2 DEF FilesTypeOK, Contents
  <2>4. /\ p \in Writing(s)
        /\ \A t : Writing(t)' = Writing(t) \ {p}
        /\ \A t : IsPromoted(t)' = IsPromoted(t)
    BY <1>1, <1>2, <1>3, <1>6 DEF Writing, IsPromoted, Sig
  <2>5. FreeInv' /\ ListedInv'
    BY <1>2, <1>3, <1>6, <2>4 DEF FreeInv, ListedInv, IsPromoted, Blamed, At, Sig, Procs
  <2>6. OpenedInv'
    <3> SUFFICES ASSUME NEW q \in Procs, proc'[q].pc = "opened"
                 PROVE  /\ \/ pending'[proc'[q].sig] = "torn"
                           \/ blamed[proc'[q].sig] \cap {"crossed"} # {}
                        /\ \A r \in Procs :
                              proc'[r].pc = "opened" /\ proc'[r].sig = proc'[q].sig /\ r # q =>
                                  blamed[proc'[q].sig] \cap {"crossed"} # {}
      BY <1>3 DEF OpenedInv, Blamed, At, Sig
    <3>1. q # p /\ proc'[q] = proc[q] /\ proc[q].sig \in Sigs
      BY <1>2 DEF ProcTypeOK, Sig
    <3>2. proc[q].sig = s => blamed[s] \cap {"crossed"} # {}
      BY <1>1, <1>6, <3>1 DEF OpenedInv, Blamed, At, Sig
    <3>3. QED
      BY <1>2, <2>3, <3>1, <3>2 DEF OpenedInv, Blamed, At, Sig
  <2>7. OneWriter'
    <3> SUFFICES ASSUME NEW t \in Sigs, NEW q \in Writing(t)', NEW r \in Writing(t)',
                        pending'[t] # "absent", q # r \/ ~(proc'[q].pc = "opened")
                 PROVE  blamed[t] \cap Reviewed # {}
      BY <1>3 DEF OneWriter, Blamed, At
    <3>1. q \in Writing(t) /\ r \in Writing(t) /\ q # p /\ proc'[q] = proc[q]
      BY <1>2, <2>4 DEF Writing
    <3>2. CASE t = s
      <4>1. pending[s] # "absent" \/ blamed[s] \cap {"crossed"} # {}
        BY <1>1, <1>6 DEF OpenedInv, Blamed, At
      <4>2. QED
        BY <2>4, <3>1, <3>2, <4>1 DEF OneWriter, Blamed, Reviewed
    <3>3. CASE t # s
      BY <2>3, <3>1, <3>3 DEF OneWriter, Blamed, At
    <3>4. QED
      BY <3>2, <3>3
  <2>8. SeenInv'
    <3> SUFFICES ASSUME NEW o \in Operators, NEW t \in Sigs,
                        seen[o][t] # "none", ~(blamed[t] \cap Reviewed # {})
                 PROVE  /\ pending'[t] \in Texts => pending'[t] = seen[o][t]
                        /\ pending'[t] = "absent" => IsPromoted(t)
                        /\ \A q \in Writing(t)' : proc'[q].pc = "looked" /\ IsPromoted(t)
      BY <1>3, <2>4 DEF SeenInv, Blamed, At
    <3>1. /\ pending[t] \in Texts => pending[t] = seen[o][t]
          /\ pending[t] = "absent" => IsPromoted(t)
          /\ \A q \in Writing(t) : proc[q].pc = "looked" /\ IsPromoted(t)
      BY DEF SeenInv, Blamed, At
    <3>2. t # s
      BY <1>6, <2>4, <3>1
    <3>3. \A q \in Writing(t)' : q \in Writing(t) /\ proc'[q] = proc[q]
      BY <1>2, <2>4 DEF Writing
    <3>4. QED
      BY <2>3, <3>1, <3>2, <3>3
  <2>9. PendingExplained'
    <3> SUFFICES ASSUME NEW t \in Sigs
                 PROVE  /\ pending'[t] = "torn" =>
                              \/ \E q \in Procs : proc'[q].sig = t /\ proc'[q].pc = "opened"
                              \/ blamed[t] \cap {"death", "crossed"} # {}
                        /\ pending'[t] # "absent" /\ IsPromoted(t) =>
                              \/ \E o \in Operators : proc'[o].sig = t /\ proc'[o].pc = "listed"
                              \/ blamed[t] \cap {"death", "crossed", "late", "requeued"} # {}
      BY <1>3, <2>4 DEF PendingExplained, Blamed, At, Sig
    <3>1. CASE t = s
      <4>1. IsPromoted(s) => blamed[s] \cap {"late", "requeued"} # {}
        BY <1>1, <1>6 DEF FreeInv, Blamed
      <4>2. pending'[s] = "torn" => blamed[s] \cap {"crossed"} # {}
        BY <1>1, <2>2, <2>3 DEF Blamed
      <4>3. QED
        BY <3>1, <4>1, <4>2
    <3>2. CASE t # s
      <4>1. \A q \in Procs : proc[q].sig = t => proc'[q] = proc[q]
        BY <1>1, <1>2, <3>2
      <4>2. QED
        BY <2>3, <3>2, <4>1 DEF PendingExplained, Blamed, At, Sig, Procs
    <3>3. QED
      BY <3>1, <3>2
  <2>10. PromotedIsReviewed'
    BY <1>3 DEF PromotedIsReviewed, Blamed
  <2>11. QED
    BY <1>2, <1>3, <1>4, <2>3, <2>5, <2>6, <2>7, <2>8, <2>9, <2>10 DEF LessonHalf
<1>7. QED
  BY <1>1, <1>5, <1>6

(* Dismiss and the last step of a promotion remove the candidate.            *)
LEMMA UnlinkKeepsCandidates ==
    ASSUME IInv, NEW o \in Operators, NEW s \in Sigs,
           NEW pc, \/ At(o, "idle") /\ pc = "idle"
                   \/ At(o, "listed") /\ pc = "promoted" /\ Sig(o) = s,
           Unlink(o, s, pc), BlameGrows, UNCHANGED <<lesson, manifest, given, seen, acked, unseen>>,
           IsPromoted(s) \/ blamed'[s] \cap Reviewed # {},
           blamed' \in [Sigs -> SUBSET Causes]
    PROVE  IInv'
<1> USE DEF IInv
<1>1. /\ o \in Procs /\ ProcTypeOK' /\ SamePromotions
      /\ proc'[o].pc = pc /\ proc[o].pc \in {"idle", "listed"} /\ pc \in {"idle", "promoted"}
      /\ proc[o].pc = "listed" => proc[o].sig = s
      /\ \A p \in Procs : p # o /\ proc[p].sig = s /\ proc[p].pc = "opened" => proc'[p].pc = "detached"
      /\ \A p \in Procs : \/ p = o
                          \/ proc'[p] = proc[p]
                          \/ proc[p].sig = s /\ proc[p].pc = "opened" /\ proc'[p].pc = "detached"
      /\ \A p \in Procs : proc'[p].sig = proc[p].sig
  BY UnlinkDetaches DEF Procs, At, Sig
<1>2. /\ FilesTypeOK' /\ HistoryTypeOK' /\ Signed' = Signed
      /\ \A t \in Sigs : pending'[t] = IF t = s THEN "absent" ELSE pending[t]
  BY DEF Unlink, FilesTypeOK, HistoryTypeOK, Contents, Signed
<1>3. LessonHalf'
  BY <1>1, <1>2, LessonFrame
<1>4. \A t : IsPromoted(t)' = IsPromoted(t)
  BY <1>2 DEF IsPromoted
<1>5. \A t : \A p \in Writing(t)' : p \in Writing(t) /\ proc'[p] = proc[p]
  BY <1>1 DEF Writing, Sig
<1>6. ASSUME NEW p \in Procs, proc'[p].pc \in {"free", "opened", "listed"}
      PROVE  /\ proc'[p] = proc[p] /\ proc[p].sig \in Sigs
             /\ proc'[p].pc = "opened" => proc[p].sig # s
  BY <1>1, <1>6 DEF ProcTypeOK, Sig
<1>7. FreeInv'
  BY <1>2, <1>6 DEF FreeInv, IsPromoted, Blamed, BlameGrows, Sig
<1>8. ListedInv'
  BY <1>2, <1>6 DEF ListedInv, IsPromoted, Blamed, BlameGrows, At, Sig, Procs
<1>9. OpenedInv'
  <2> SUFFICES ASSUME NEW q \in Procs, proc'[q].pc = "opened"
               PROVE  /\ \/ pending'[proc'[q].sig] = "torn"
                         \/ blamed'[proc'[q].sig] \cap {"crossed"} # {}
                      /\ \A r \in Procs :
                            proc'[r].pc = "opened" /\ proc'[r].sig = proc'[q].sig /\ r # q =>
                                blamed'[proc'[q].sig] \cap {"crossed"} # {}
    BY DEF OpenedInv, Blamed, At, Sig
  <2>1. /\ proc'[q] = proc[q] /\ proc[q].sig \in Sigs /\ pending'[proc[q].sig] = pending[proc[q].sig]
        /\ \A r \in Procs : proc'[r].pc = "opened" => proc'[r] = proc[r]
    BY <1>2, <1>6
  <2>2. QED
    BY <2>1 DEF OpenedInv, Blamed, BlameGrows, At, Sig
<1>10. OneWriter'
  <2> SUFFICES ASSUME NEW t \in Sigs, NEW q \in Writing(t)', NEW r \in Writing(t)',
                      pending'[t] # "absent", q # r \/ ~(proc'[q].pc = "opened")
               PROVE  blamed'[t] \cap Reviewed # {}
    BY DEF OneWriter, Blamed, At
  <2>1. q \in Writing(t) /\ r \in Writing(t) /\ proc'[q] = proc[q] /\ pending[t] # "absent"
    BY <1>2, <1>5
  <2>2. QED
    BY <2>1 DEF OneWriter, Blamed, BlameGrows, At
<1>11. SeenInv'
  <2> SUFFICES ASSUME NEW q \in Operators, NEW t \in Sigs,
                      seen[q][t] # "none", ~(blamed'[t] \cap Reviewed # {})
               PROVE  /\ pending'[t] \in Texts => pending'[t] = seen[q][t]
                      /\ pending'[t] = "absent" => IsPromoted(t)
                      /\ \A p \in Writing(t)' : proc'[p].pc = "looked" /\ IsPromoted(t)
    BY <1>4 DEF SeenInv, Blamed, At
  <2>1. /\ pending[t] \in Texts => pending[t] = seen[q][t]
        /\ pending[t] = "absent" => IsPromoted(t)
        /\ \A p \in Writing(t) : proc[p].pc = "looked" /\ IsPromoted(t)
    BY DEF SeenInv, Blamed, BlameGrows, At
  <2>2. QED
    BY <1>2, <1>5, <2>1, LessonAssumption
<1>12. PendingExplained'
  <2> SUFFICES ASSUME NEW t \in Sigs, t # s
               PROVE  /\ pending'[t] = "torn" =>
                            \/ \E q \in Procs : proc'[q].sig = t /\ proc'[q].pc = "opened"
                            \/ blamed'[t] \cap {"death", "crossed"} # {}
                      /\ pending'[t] # "absent" /\ IsPromoted(t) =>
                            \/ \E q \in Operators : proc'[q].sig = t /\ proc'[q].pc = "listed"
                            \/ blamed'[t] \cap {"death", "crossed", "late", "requeued"} # {}
    BY <1>2, <1>4 DEF PendingExplained, Blamed, At, Sig
  <2>1. \A q \in Procs : proc[q].sig = t /\ proc[q].pc \in {"opened", "listed"} => proc'[q] = proc[q]
    BY <1>1
  <2>2. QED
    BY <1>2, <2>1 DEF PendingExplained, Blamed, BlameGrows, At, Sig, Procs
<1>13. PromotedIsReviewed'
  BY DEF PromotedIsReviewed, HistoryTypeOK, Blamed, BlameGrows
<1>14. QED
  BY <1>1, <1>2, <1>3, <1>7, <1>8, <1>9, <1>10, <1>11, <1>12, <1>13 DEF LessonHalf

LEMMA DismissKeepsInv ==
    ASSUME IInv, NEW o \in Operators, NEW s \in Sigs, Dismiss(o, s)
    PROVE  IInv'
<1>1. blamed' \in [Sigs -> SUBSET Causes] /\ BlameGrows /\ "requeued" \in blamed'[s]
  BY BlameIsTyped DEF IInv, Dismiss, Causes
<1>2. blamed'[s] \cap Reviewed # {}
  BY <1>1 DEF Reviewed
<1>3. /\ At(o, "idle") /\ Unlink(o, s, "idle")
      /\ UNCHANGED <<lesson, manifest, given, seen, acked, unseen>>
  BY DEF Dismiss
<1>4. QED
  BY <1>1, <1>2, <1>3, UnlinkKeepsCandidates

LEMMA RemovePendingKeepsInv ==
    ASSUME IInv, NEW o \in Operators, RemovePending(o)
    PROVE  IInv'
<1> DEFINE s == Sig(o)
<1>1. /\ s \in Sigs /\ At(o, "listed") /\ Unlink(o, s, "promoted")
      /\ UNCHANGED <<lesson, manifest, given, seen, acked, unseen, blamed>>
  BY DEF RemovePending, IInv, ProcTypeOK, At, Procs, history
<1>2. BlameGrows /\ blamed' \in [Sigs -> SUBSET Causes]
  BY <1>1 DEF BlameGrows, IInv, HistoryTypeOK
<1>3. IsPromoted(s) \/ blamed'[s] \cap Reviewed # {}
  BY <1>1 DEF IInv, ListedInv, Blamed, Reviewed
<1>4. QED
  BY <1>1, <1>2, <1>3, UnlinkKeepsCandidates

(* Who is shown a candidate is shown a whole one.                            *)
LEMMA ShowKeepsInv ==
    ASSUME IInv, NEW o \in Operators, NEW s \in Sigs, Show(o, s)
    PROVE  IInv'
<1> USE DEF IInv
<1>1. /\ pending[s] \in Texts /\ seen' = [seen EXCEPT ![o][s] = pending[s]]
      /\ UNCHANGED <<files, proc, given, spent, acked, unseen, blamed>>
  BY DEF Show
<1>2. FilesTypeOK' /\ ProcTypeOK' /\ HistoryTypeOK' /\ Signed' = Signed
  BY <1>1 DEF FilesTypeOK, ProcTypeOK, HistoryTypeOK, files, Sig, Signed
<1>3. \A t : IsPromoted(t)' = IsPromoted(t) /\ Writing(t)' = Writing(t)
  BY <1>1, <1>2 DEF IsPromoted, Writing, Sig
<1>4. SamePromotions /\ BlameGrows
  BY <1>1 DEF SamePromotions, BlameGrows
<1>5. LessonHalf'
  BY <1>1, <1>2, <1>4, LessonFrame DEF files
<1>6. FreeInv' /\ OpenedInv' /\ OneWriter' /\ ListedInv'
  BY <1>1, <1>3 DEF FreeInv, OpenedInv, OneWriter, ListedInv, files, At, Sig, Blamed
<1>7. SeenInv'
  <2> SUFFICES ASSUME NEW q \in Operators, NEW t \in Sigs,
                      seen'[q][t] # "none", ~(blamed[t] \cap Reviewed # {})
               PROVE  /\ pending[t] \in Texts => pending[t] = seen'[q][t]
                      /\ pending[t] = "absent" => IsPromoted(t)
                      /\ \A p \in Writing(t) : proc[p].pc = "looked" /\ IsPromoted(t)
    BY <1>1, <1>3 DEF SeenInv, Blamed, At, files
  <2>1. CASE q = o /\ t = s
    <3>1. seen'[o][s] = pending[s]
      BY <1>1 DEF HistoryTypeOK
    <3>2. pending[s] # "absent" /\ pending[s] # "torn"
      BY <1>1, LessonAssumption
    <3>3. \A p \in Writing(s) : FALSE
      <4> SUFFICES ASSUME NEW p \in Writing(s) PROVE FALSE
        OBVIOUS
      <4>1. CASE proc[p].pc = "opened"
        BY <2>1, <3>2, <4>1 DEF OpenedInv, Writing, At, Blamed, Reviewed
      <4>2. CASE proc[p].pc # "opened"
        BY <2>1, <3>2, <4>2 DEF OneWriter, At, Blamed
      <4>3. QED
        BY <4>1, <4>2
    <3>4. QED
      BY <2>1, <3>1, <3>2, <3>3
  <2>2. CASE ~(q = o /\ t = s)
    <3>1. seen'[q][t] = seen[q][t]
      BY <1>1, <2>2 DEF HistoryTypeOK
    <3>2. QED
      BY <3>1 DEF SeenInv, Blamed, At
  <2>3. QED
    BY <2>1, <2>2
<1>8. PendingExplained' /\ PromotedIsReviewed'
  BY <1>1, <1>3 DEF PendingExplained, PromotedIsReviewed, files, At, Sig, Blamed
<1>9. QED
  BY <1>2, <1>5, <1>6, <1>7, <1>8 DEF LessonHalf

-----------------------------------------------------------------------------
(* Promotions. The candidate is there until its record is.                   *)
LEMMA ApproveKeepsInv ==
    ASSUME IInv, NEW o \in Operators, NEW s \in Sigs, Approve(o, s)
    PROVE  IInv'
<1> USE DEF IInv
<1>1. /\ pending[s] \in Texts /\ StartPromotion(o, s, pending[s])
      /\ unseen' = IF seen[o][s] \in {"none", pending[s]} THEN unseen ELSE unseen \cup {s}
      /\ UNCHANGED <<files, given, seen, acked>>
  BY DEF Approve, StartPromotion
<1>2. /\ FilesTypeOK' /\ ProcTypeOK' /\ LessonHalf' /\ BlameGrows /\ SameCandidates
      /\ blamed' \in [Sigs -> SUBSET Causes]
  BY <1>1, StartPromotionKeepsLessons
<1>3. HistoryTypeOK' /\ Signed' = Signed
  BY <1>1, <1>2 DEF HistoryTypeOK, Signed, files
<1>4. FreeInv' /\ OpenedInv' /\ OneWriter' /\ ListedInv' /\ SeenInv' /\ PendingExplained'
  BY <1>1, <1>2, <1>3, CandidateFrame DEF files
<1>5. PromotedIsReviewed'
  <2>1. seen[o][s] \notin {"none", pending[s]} => blamed'[s] \cap Reviewed # {}
    BY <1>1, <1>2 DEF SeenInv, Blamed, BlameGrows
  <2>2. \A t \in unseen : blamed'[t] \cap Reviewed # {}
    BY <1>2 DEF PromotedIsReviewed, HistoryTypeOK, Blamed, BlameGrows, Reviewed
  <2>3. \A t \in unseen' : blamed'[t] \cap Reviewed # {}
    BY <1>1, <2>1, <2>2
  <2>4. QED
    BY <2>3 DEF PromotedIsReviewed, Blamed, Reviewed
<1>6. QED
  BY <1>2, <1>3, <1>4, <1>5 DEF LessonHalf

LEMMA ApproveEditedKeepsInv ==
    ASSUME IInv, NEW o \in Operators, NEW s \in Sigs, NEW text \in Texts, ApproveEdited(o, s, text)
    PROVE  IInv'
<1> USE DEF IInv
<1>1. StartPromotion(o, s, text) /\ UNCHANGED <<files, given, seen, acked, unseen>>
  BY DEF ApproveEdited, StartPromotion
<1>2. /\ FilesTypeOK' /\ ProcTypeOK' /\ LessonHalf' /\ BlameGrows /\ SameCandidates
      /\ blamed' \in [Sigs -> SUBSET Causes]
  BY <1>1, StartPromotionKeepsLessons
<1>3. HistoryTypeOK' /\ Signed' = Signed
  BY <1>1, <1>2 DEF HistoryTypeOK, Signed, files
<1>4. CandidateHalf'
  BY <1>1, <1>2, <1>3, CandidateFrame DEF files
<1>5. QED
  BY <1>2, <1>3, <1>4 DEF LessonHalf, CandidateHalf

LEMMA WriteLessonKeepsInv ==
    ASSUME IInv, NEW o \in Operators, OpenLesson(o) \/ ReplaceLesson(o)
    PROVE  IInv'
<1> USE DEF IInv
<1>1. /\ FilesTypeOK' /\ ProcTypeOK' /\ LessonHalf' /\ SameCandidates
      /\ UNCHANGED <<pending, manifest, given, spent, history>>
  <2>1. CASE OpenLesson(o)
    BY <2>1, WriteLessonKeepsLessons DEF OpenLesson, WriteLesson
  <2>2. CASE ReplaceLesson(o)
    <3>1. PICK text \in Written(lesson[Sig(o)], proc[o].text) : WriteLesson(o, text, "replaced")
      BY <2>2 DEF ReplaceLesson
    <3>2. text \in Texts \cup {"torn"}
      BY <2>2 DEF ReplaceLesson, Written, ProcTypeOK, Procs, At
    <3>3. QED
      BY <2>2, <3>1, <3>2, WriteLessonKeepsLessons DEF ReplaceLesson, WriteLesson
  <2>3. QED
    BY <2>1, <2>2
<1>2. HistoryTypeOK' /\ Signed' = Signed /\ BlameGrows
  BY <1>1 DEF HistoryTypeOK, Signed, history, BlameGrows
<1>3. CandidateHalf'
  BY <1>1, <1>2, CandidateFrame DEF history
<1>4. QED
  BY <1>1, <1>2, <1>3 DEF LessonHalf, CandidateHalf

LEMMA AppendRecordKeepsInv ==
    ASSUME IInv, NEW o \in Operators, AppendRecord(o)
    PROVE  IInv'
<1> USE DEF IInv
<1> DEFINE s == Sig(o)
           record == Line("signed", s, proc[o].text)
<1>1. /\ FilesTypeOK' /\ ProcTypeOK' /\ LessonHalf' /\ BlameGrows
      /\ blamed' \in [Sigs -> SUBSET Causes]
      /\ Signed \subseteq Signed' /\ Signed' \subseteq Signed \cup {record}
      /\ ~Glues => record \in Signed'
      /\ Glues => "glued" \in blamed'[s]
      /\ Writing(s) # {} => "late" \in blamed'[s]
      /\ \A p \in Procs : p # o => proc'[p] = proc[p]
      /\ proc'[o].pc = "listed" /\ proc'[o].sig = s
  BY AppendRecordKeepsLessons DEF Sig
<1>2. /\ o \in Procs /\ s \in Sigs /\ s = proc[o].sig /\ proc[o].pc = "replaced"
      /\ UNCHANGED <<pending, lesson, given, spent, seen, acked, unseen>>
  BY DEF AppendRecord, ProcTypeOK, Procs, At, Sig
<1>3. HistoryTypeOK'
  BY <1>1, <1>2 DEF HistoryTypeOK
<1>4. record.sig = s
  BY DEF Line
<1>5. /\ \A t : IsPromoted(t) => IsPromoted(t)'
      /\ \A t : t # s /\ IsPromoted(t)' => IsPromoted(t)
  <2> HIDE DEF record
  <2>1. \A t : IsPromoted(t)' <=> \E r \in Signed' : r.sig = t
    BY DEF IsPromoted
  <2>2. \A t : IsPromoted(t) <=> \E r \in Signed : r.sig = t
    BY DEF IsPromoted
  <2>3. QED
    BY <1>1, <1>4, <2>1, <2>2 DEF record
<1>6. \A t : Writing(t)' = Writing(t)
  BY <1>1, <1>2 DEF Writing, Sig
<1>7. FreeInv'
  <2> SUFFICES ASSUME NEW p \in Procs, proc'[p].pc \in {"free", "opened"},
                      \E r \in Signed' : r.sig = proc'[p].sig
               PROVE  blamed'[proc'[p].sig] \cap {"late", "requeued"} # {}
    BY DEF FreeInv, IsPromoted, Blamed, Sig
  <2>1. p # o /\ proc'[p] = proc[p] /\ proc[p].sig \in Sigs
    BY <1>1 DEF ProcTypeOK, Sig
  <2>2. CASE proc[p].sig = s
    <3>1. p \in Writing(s)
      BY <2>1, <2>2 DEF Writing, Sig
    <3>2. QED
      BY <1>1, <2>1, <2>2, <3>1
  <2>3. CASE proc[p].sig # s
    <3>1. \E r \in Signed : r.sig = proc[p].sig
      BY <1>1, <1>4, <2>1, <2>3
    <3>2. QED
      BY <1>1, <2>1, <3>1 DEF FreeInv, IsPromoted, Blamed, BlameGrows, Sig
  <2>4. QED
    BY <2>2, <2>3
<1>8. OpenedInv'
  BY <1>1, <1>2 DEF OpenedInv, Blamed, BlameGrows, At, Sig, ProcTypeOK
<1>9. OneWriter'
  <2>1. \A t : \A p \in Writing(t) : proc'[p] = proc[p]
    BY <1>1, <1>2 DEF Writing
  <2>2. QED
    BY <1>1, <1>2, <1>6, <2>1 DEF OneWriter, Blamed, BlameGrows, At
<1>10. ListedInv'
  <2> SUFFICES ASSUME NEW q \in Operators, proc'[q].pc = "listed"
               PROVE  \/ \E r \in Signed' : r.sig = proc'[q].sig
                      \/ blamed'[proc'[q].sig] \cap {"glued"} # {}
    BY DEF ListedInv, IsPromoted, Blamed, At, Sig
  <2>1. CASE q = o
    BY <1>1, <1>4, <2>1
  <2>2. CASE q # o
    BY <1>1, <2>2 DEF ListedInv, IsPromoted, Blamed, BlameGrows, At, Sig, Procs, ProcTypeOK
  <2>3. QED
    BY <2>1, <2>2
<1>11. SeenInv'
  <2> SUFFICES ASSUME NEW q \in Operators, NEW t \in Sigs,
                      seen[q][t] # "none", ~(blamed'[t] \cap Reviewed # {})
               PROVE  /\ pending[t] \in Texts => pending[t] = seen[q][t]
                      /\ pending[t] = "absent" => IsPromoted(t)'
                      /\ \A p \in Writing(t) : proc'[p].pc = "looked" /\ IsPromoted(t)'
    BY <1>2, <1>6 DEF SeenInv, Blamed, At
  <2>1. /\ pending[t] \in Texts => pending[t] = seen[q][t]
        /\ pending[t] = "absent" => IsPromoted(t)
        /\ \A p \in Writing(t) : proc[p].pc = "looked" /\ IsPromoted(t)
    BY <1>1 DEF SeenInv, Blamed, BlameGrows, At
  <2>2. \A p \in Writing(t) : proc'[p] = proc[p]
    BY <1>1, <1>2 DEF Writing
  <2>3. QED
    BY <1>5, <2>1, <2>2
<1>12. PendingExplained'
  <2> SUFFICES ASSUME NEW t \in Sigs
               PROVE  /\ pending[t] = "torn" =>
                            \/ \E q \in Procs : proc'[q].sig = t /\ proc'[q].pc = "opened"
                            \/ blamed'[t] \cap {"death", "crossed"} # {}
                      /\ pending[t] # "absent" /\ IsPromoted(t)' =>
                            \/ \E q \in Operators : proc'[q].sig = t /\ proc'[q].pc = "listed"
                            \/ blamed'[t] \cap {"death", "crossed", "late", "requeued"} # {}
    BY <1>2 DEF PendingExplained, Blamed, At, Sig
  <2>1. \A q \in Procs : proc[q].pc \in {"opened", "listed"} => proc'[q] = proc[q]
    BY <1>1, <1>2
  <2>2. pending[t] = "torn" => \/ \E q \in Procs : proc'[q].sig = t /\ proc'[q].pc = "opened"
                               \/ blamed'[t] \cap {"death", "crossed"} # {}
    BY <1>1, <2>1 DEF PendingExplained, Blamed, BlameGrows, At, Sig
  <2>3. CASE t = s
    BY <1>1, <2>2, <2>3
  <2>4. CASE t # s
    BY <1>1, <1>5, <2>1, <2>2, <2>4 DEF PendingExplained, Blamed, BlameGrows, At, Sig, Procs
  <2>5. QED
    BY <2>3, <2>4
<1>13. PromotedIsReviewed'
  BY <1>1, <1>2 DEF PromotedIsReviewed, HistoryTypeOK, Blamed, BlameGrows
<1>14. QED
  BY <1>1, <1>3, <1>7, <1>8, <1>9, <1>10, <1>11, <1>12, <1>13 DEF LessonHalf

-----------------------------------------------------------------------------
LEMMA OperatorStepKeepsInv ==
    ASSUME IInv, NEW o \in Operators, OperatorStep(o)
    PROVE  IInv'
<1>1. CASE \E s \in Sigs, text \in Texts : Add(o, s, text) \/ ApproveEdited(o, s, text)
  BY <1>1, AddKeepsInv, ApproveEditedKeepsInv
<1>2. CASE \E s \in Sigs : Dismiss(o, s) \/ Show(o, s) \/ Approve(o, s)
  BY <1>2, DismissKeepsInv, ShowKeepsInv, ApproveKeepsInv
<1>3. CASE OpenLesson(o) \/ ReplaceLesson(o)
  BY <1>3, WriteLessonKeepsInv
<1>4. CASE AppendRecord(o)
  BY <1>4, AppendRecordKeepsInv
<1>5. CASE RemovePending(o)
  BY <1>5, RemovePendingKeepsInv
<1>6. CASE Report(o)
  BY <1>6, ReportKeepsInv
<1>7. QED
  BY <1>1, <1>2, <1>3, <1>4, <1>5, <1>6 DEF OperatorStep

LEMMA NextKeepsInv == IInv /\ [Next]_vars => IInv'
<1> SUFFICES ASSUME IInv, [Next]_vars PROVE IInv'
  OBVIOUS
<1>1. ASSUME NEW h \in Harnesses, HarnessStep(h) PROVE IInv'
  BY <1>1, CaptureKeepsInv, CheckPromotedKeepsInv, VerifyKeepsInv, ReadKeepsInv DEF HarnessStep
<1>2. ASSUME NEW o \in Operators, OperatorStep(o) PROVE IInv'
  BY <1>2, OperatorStepKeepsInv
<1>3. ASSUME NEW p \in Procs, OpenPending(p) \/ WritePending(p) \/ Interrupt(p) PROVE IInv'
  BY <1>3, OpenPendingKeepsInv, WritePendingKeepsInv, InterruptKeepsInv
<1>4. CASE UNCHANGED vars
  <2>1. /\ FilesTypeOK' /\ ProcTypeOK' /\ HistoryTypeOK' /\ BlameGrows
        /\ SamePromotions /\ SameCandidates /\ Signed' = Signed
    BY <1>4 DEF vars, files, history, IInv, FilesTypeOK, ProcTypeOK, HistoryTypeOK, BlameGrows,
                SamePromotions, SameCandidates, Signed, Sig
  <2>2. LessonHalf' /\ CandidateHalf'
    BY <1>4, <2>1, LessonFrame, CandidateFrame DEF vars, files, history
  <2>3. QED
    BY <2>1, <2>2 DEF IInv, LessonHalf, CandidateHalf
<1>5. QED
  BY <1>1, <1>2, <1>3, <1>4 DEF Next

(* The inductive invariant, for any number of processes, promotions, deaths. *)
THEOREM InvariantHolds == Spec => []IInv
<1>1. QED
  BY InitInv, NextKeepsInv, PTL DEF Spec

(* Files, manifest, processes and histories have the types they should.      *)
THEOREM TypeCorrect == Spec => []LessonTypeOK
<1>1. IInv => LessonTypeOK
  BY DEF IInv, FilesTypeOK, ProcTypeOK, ProcStates, HistoryTypeOK, LessonTypeOK, Lines, Range, Sig, Procs
<1>2. QED
  BY <1>1, InvariantHolds, PTL

(* A prompt is given promoted texts only, or ones rewritten under its eyes.  *)
THEOREM RetrievedSigned == Spec => []RetrievedIsSigned
<1>1. QED
  BY InvariantHolds, PTL DEF IInv

(* A promotion reported to verify is lost only to a death, a line one left,  *)
(* or another promotion of the same signature at once.                       *)
THEOREM PromotionsStay == Spec => []PromotionsLast
<1>1. QED
  BY InvariantHolds, PTL DEF IInv

(* What is left in the queue has a process still at work or something that   *)
(* went wrong behind it.                                                     *)
THEOREM QueueExplained == Spec => []PendingExplained
<1>1. QED
  BY InvariantHolds, PTL DEF IInv

(* What is approved is what was looked at, or there is a reason.             *)
THEOREM ReviewsHold == Spec => []PromotedIsReviewed
<1>1. QED
  BY InvariantHolds, PTL DEF IInv
=============================================================================
