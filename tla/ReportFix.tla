----------------------------- MODULE ReportFix -----------------------------
(* The fix an audit report suggests for a finding, as a patch that can be    *)
(* applied with certainty, or not at all (scripts/poc_queue_runner.py        *)
(* extract_fix_for_finding and _git_apply, scripts/patch_reconstruct.py).    *)
(* A line is [indent, text]; a title or heading is a set of words.           *)
EXTENDS Integers, Sequences, FiniteSets, FiniteSetsExt, SequencesExt

CONSTANTS
    Report,     \* the finding sections: [heading, block], in order
    LongWords   \* words of seven letters or more

(* No patch and no file is empty: an anchor stays where it was.              *)
Refused == <<>>
Failed == <<>>

-----------------------------------------------------------------------------
(* Which section is the finding's own                                        *)

Sections == DOMAIN Report
Frequency(w) == Cardinality({i \in Sections : w \in Report[i].heading})

(* The rarer a shared word the more it counts: 1 over the headings it is in, *)
(* scaled to whole numbers.                                                  *)
Scale == FoldLeft(LAMBDA product, i : product * i, 1, [i \in Sections |-> i])
Score(title, i) == MapThenSumSet(LAMBDA w : Scale \div Frequency(w), title \cap Report[i].heading)

BestSection(title) ==
    CHOOSE i \in Sections :
        /\ \A j \in Sections : Score(title, j) <= Score(title, i)
        /\ \A j \in 1..(i - 1) : Score(title, j) < Score(title, i)

(* Mistake for VerdictsAreEarned: a distinctive shared word is enough.       *)
Anchored(title, i) ==
    LET shared == title \cap Report[i].heading
    IN  Cardinality(shared) >= 2 /\ \E w \in shared : Frequency(w) <= 2 /\ w \in LongWords

(* Two shared words, one of them rare and long, and three in five of the     *)
(* finding's own.                                                            *)
Confident(title, i) ==
    LET shared == title \cap Report[i].heading
    IN  /\ Cardinality(shared) >= 2
        /\ \E w \in shared : Frequency(w) <= 2 /\ w \in LongWords
        /\ 10 * Cardinality(shared) >= 6 * Cardinality(title)

NoBlock == [kind |-> "none", files |-> <<>>]
ExtractFix(title) ==
    IF Sections # {} /\ title # {} /\ Confident(title, BestSection(title))
    THEN Report[BestSection(title)].block ELSE NoBlock

-----------------------------------------------------------------------------
(* Reconstruction.  A block has files [path, hunks]; a hunk of a report has  *)
(* an anchor, the text of a source line, and a body of [kind, line].         *)
SourceLines == [indent : Nat, text : STRING]
ReportHunks ==
    [anchor : STRING, body : Seq([kind : {"context", "removal", "addition"}, line : SourceLines])]

Old(body) ==
    FlattenSeq([k \in DOMAIN body |-> IF body[k].kind = "addition" THEN <<>> ELSE <<body[k].line>>])
New(body) ==
    FlattenSeq([k \in DOMAIN body |-> IF body[k].kind = "removal" THEN <<>> ELSE <<body[k].line>>])

Hits(source, anchor) == {i \in DOMAIN source : source[i].text = anchor}

(* Mistake for PatchesLandWhole: the first of several matches will do.       *)
FirstAnchor(source, anchor) ==
    IF Hits(source, anchor) = {} THEN 0 ELSE Min(Hits(source, anchor))

(* The one line whose stripped text is the anchor's; 0 for none or several.  *)
LocateAnchor(source, anchor) ==
    IF Cardinality(Hits(source, anchor)) = 1 THEN Min(Hits(source, anchor)) ELSE 0

(* Context and removed lines must follow the anchor verbatim.                *)
HunkRefused(source, hunk) ==
    LET i == LocateAnchor(source, hunk.anchor)
        last == i + Len(Old(hunk.body))
    IN  i = 0 \/ last > Len(source) \/ SubSeq(source, i + 1, last) # Old(hunk.body)

TrailingContext == 3

(* A hunk that ends in a change is followed by up to three source lines.     *)
Trailing(source, hunk) ==
    LET next == LocateAnchor(source, hunk.anchor) + Len(Old(hunk.body)) + 1
    IN  IF hunk.body # <<>> /\ Last(hunk.body).kind # "context"
        THEN SubSeq(source, next, Min({next + TrailingContext - 1, Len(source)})) ELSE <<>>

ReconstructHunk(source, hunk, delta) ==
    LET i == LocateAnchor(source, hunk.anchor)
    IN  [start |-> i + delta,
         old |-> <<source[i]>> \o Old(hunk.body) \o Trailing(source, hunk),
         new |-> <<source[i]>> \o New(hunk.body) \o Trailing(source, hunk)]

Delta(hunks) == FoldLeft(LAMBDA d, h : d + Len(New(h.body)) - Len(Old(h.body)), 0, hunks)

(* One refusal refuses the whole fix; a genuine diff is taken as it is.      *)
Reconstruct(sources, block) ==
    LET files == block.files
        refused(f) == \/ f.path \notin DOMAIN sources
                      \/ \E h \in Range(f.hunks) : HunkRefused(sources[f.path], h)
    IN  IF block.kind = "real" THEN files
        ELSE IF (\A f \in Range(files) : f.hunks = <<>>) \/ (\E f \in Range(files) : refused(f)) THEN Refused
        ELSE [k \in DOMAIN files |->
                [path |-> files[k].path,
                 hunks |-> [j \in DOMAIN files[k].hunks |->
                    ReconstructHunk(sources[files[k].path], files[k].hunks[j],
                                    Delta(SubSeq(files[k].hunks, 1, j - 1)))]]]

-----------------------------------------------------------------------------
(* git apply (or patch): hunk after hunk, each where its old lines are found *)
(* nearest to its line number, in no line that an earlier hunk put there.    *)

Distance(m, n) == IF m < n THEN n - m ELSE m - n
Fits(image, hunk) ==
    {p \in 1..(Len(image) - Len(hunk.old) + 1) :
        \A k \in DOMAIN hunk.old : image[p + k - 1] = [line |-> hunk.old[k], fresh |-> FALSE]}

ApplyHunk(image, hunk) ==
    IF image = Failed THEN Failed
    ELSE IF Fits(image, hunk) = {} THEN Failed
    ELSE LET p == CHOOSE p \in Fits(image, hunk) :
                     \A q \in Fits(image, hunk) : Distance(p, hunk.start) <= Distance(q, hunk.start)
         IN  SubSeq(image, 1, p - 1)
             \o [k \in DOMAIN hunk.new |-> [line |-> hunk.new[k], fresh |-> TRUE]]
             \o SubSeq(image, p + Len(hunk.old), Len(image))

ApplyFile(source, hunks) ==
    LET image == FoldLeft(ApplyHunk, [i \in DOMAIN source |-> [line |-> source[i], fresh |-> FALSE]], hunks)
    IN  IF image = Failed THEN Failed ELSE [i \in DOMAIN image |-> image[i].line]

(* All files of the patch, or none.                                          *)
GitApply(sources, patch) ==
    LET paths == {patch[k].path : k \in DOMAIN patch}
        hunksOf(p) == FlattenSeq([k \in DOMAIN patch |-> IF patch[k].path = p THEN patch[k].hunks ELSE <<>>])
        after == [p \in paths |-> ApplyFile(sources[p], hunksOf(p))]
    IN  IF \E p \in paths : after[p] = Failed THEN Failed
        ELSE [p \in DOMAIN sources |-> IF p \in paths THEN after[p] ELSE sources[p]]

-----------------------------------------------------------------------------
(* What the report means: in each hunk the lines after the one its anchor    *)
(* names are kept or removed, and the others inserted where they stand.      *)
Place(source, hunk, k) ==
    (CHOOSE i \in DOMAIN source : source[i].text = hunk.anchor) + Len(Old(SubSeq(hunk.body, 1, k)))
Removes(source, hunk, i) ==
    \E k \in DOMAIN hunk.body : hunk.body[k].kind = "removal" /\ Place(source, hunk, k) = i
Inserts(source, hunk, i) ==
    FlattenSeq([k \in DOMAIN hunk.body |->
        IF hunk.body[k].kind = "addition" /\ Place(source, hunk, k) = i THEN <<hunk.body[k].line>> ELSE <<>>])
EditedAt(source, hunks, i) ==
    (IF \E h \in Range(hunks) : Removes(source, h, i) THEN <<>> ELSE <<source[i]>>)
    \o FlattenSeq([j \in DOMAIN hunks |-> Inserts(source, hunks[j], i)])
Edited(source, hunks) == FlattenSeq([i \in DOMAIN source |-> EditedAt(source, hunks, i)])

(* "A patch landed in the wrong place produces a WRONG verified signal ...   *)
(* exactly one anchor match, verbatim context" (patch_reconstruct.py): over  *)
(* the sources and hunks given, a patch that is made and applies makes the   *)
(* edit the report means at an anchor that is unique, all of its hunks and   *)
(* nothing else, in whatever order the report has them.                      *)
LandsWhole(source, hunks) ==
    LET patch == Reconstruct([file |-> source], [kind |-> "illustrative",
                                                 files |-> <<[path |-> "file", hunks |-> hunks]>>])
        after == GitApply([file |-> source], patch)
    IN  patch # Refused => \/ after = Failed
                           \/ /\ \A h \in Range(hunks) : Cardinality(Hits(source, h.anchor)) = 1
                              /\ after.file = Edited(source, hunks)
=============================================================================
