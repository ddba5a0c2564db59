--------------------------- MODULE StructuredEdit ---------------------------
(***************************************************************************)
(* propose_edit (code_agent/patching/structured_edit.py): exact            *)
(* replacements, made one after the other in the text of a file at the     *)
(* revision they name, become a unified diff, and the diff goes through    *)
(* the matcher (HunkEngine) like one the model wrote itself.  One file;    *)
(* the diff is propose_patch's if no edit is made.                         *)
(***************************************************************************)
EXTENDS HunkEngine

CONSTANTS
  Files,         \* texts of the file
  OldTexts, NewTexts,
  Dashes,        \* the words that begin with two dashes
  Pluses,        \* those that begin with two plus signs
  Titles,        \* those of them that go on with a space
  MaxEdits,
  ContextLines   \* kept lines around a change (3 for difflib)

ASSUME EditAssumption ==
  /\ MaxEdits \in Nat /\ ContextLines \in Nat /\ Dashes \subseteq Words
  /\ Pluses \subseteq Words /\ Titles \subseteq Pluses
  /\ Files \subseteq Seq(Symbols) \ {<< >>}
  /\ OldTexts \subseteq Seq(Symbols) \ {<< >>} /\ NewTexts \subseteq Seq(Symbols)

VARIABLES
  modified,   \* the text after the edits so far
  edits       \* the accepted edits

vars == <<engine, modified, edits>>

Init ==
  /\ phase \in {"edit", "matching"} /\ original \in Files /\ MatcherInit
  /\ modified = original /\ edits = << >>

----------------------------------------------------------------------------
(* The edits.                                                              *)

\* Fault: line ends stay what the model wrote.
NewlinesKept(text, of) == text

\* _with_file_newlines: every line end becomes the file's own.
WithNewlines(text, of) ==
  [k \in DOMAIN text |-> IF text[k] \in LineEnds THEN NewlineOf(of) ELSE text[k]]

\* Start positions, overlapping ones included.
Occurrences(text, needle) ==
  {k \in 1..Len(text) : /\ k + Len(needle) <= Len(text) + 1
                        /\ SubSeq(text, k, k + Len(needle) - 1) = needle}

Replaced(text, k, old, new) ==
  SubSeq(text, 1, k - 1) \o new \o SubSeq(text, k + Len(old), Len(text))

Edit(old, new) ==
  LET o == WithNewlines(old, modified)
      n == WithNewlines(new, modified)
  IN /\ phase = "edit" /\ Len(edits) < MaxEdits /\ old # new
     /\ \E k \in Occurrences(modified, o) :
          /\ Occurrences(modified, o) = {k}
          /\ modified' = Replaced(modified, k, o, n)
     /\ edits' = Append(edits, [old |-> old, new |-> new])
     /\ UNCHANGED engine

\* old_text is not found or found more than once: the proposal is refused.
EditRefused(old) ==
  /\ phase = "edit" /\ Len(edits) < MaxEdits
  /\ ~ \E k \in 1..Len(modified) :
         Occurrences(modified, WithNewlines(old, modified)) = {k}
  /\ UNCHANGED hunks /\ Refused("edit_refused") /\ UNCHANGED <<modified, edits>>

----------------------------------------------------------------------------
(* The diff.                                                               *)

Smaller(m, n) == IF m < n THEN m ELSE n

\* Lines that two sequences have in common at their beginning.
Common(s, t) ==
  CHOOSE n \in 0..Smaller(Len(s), Len(t)) :
    /\ \A k \in 1..n : s[k] = t[k]
    /\ n = Smaller(Len(s), Len(t)) \/ s[n + 1] # t[n + 1]

Tagged(tag, s) == [k \in DOMAIN s |-> <<tag>> \o s[k]]

\* difflib.unified_diff: the changed lines between some kept ones, as the
\* lines of the diff, each with its tag in front.  Changes far apart share
\* one hunk here.
DiffLines(old, new) ==
  LET head == Common(old, new)
      tail == Common(Reverse(SubSeq(old, head + 1, Len(old))),
                     Reverse(SubSeq(new, head + 1, Len(new))))
      above == Smaller(head, ContextLines)
  IN [start |-> head - above + 1,
      lines |-> Tagged(" ", SubSeq(old, head - above + 1, head)) \o
                Tagged("-", SubSeq(old, head + 1, Len(old) - tail)) \o
                Tagged("+", SubSeq(new, head + 1, Len(new) - tail)) \o
                Tagged(" ", SubSeq(old, Len(old) - tail + 1,
                                   Len(old) - tail + Smaller(tail, ContextLines)))]

\* With its tag, a deleted line that begins with two dashes looks like the old
\* name of a file, and an added one that begins with two plus signs like the
\* new name.
LooksLikeHeader(line) ==
  /\ Len(line) > 1
  /\ \/ line[1] = "-" /\ line[2] \in Dashes
     \/ line[1] = "+" /\ line[2] \in Pluses

\* A line that the policy takes for the name of one more file (_parse_diff_files):
\* one that affected_files does not list, or the file itself a second time.
NamesFile(line) == Len(line) > 1 /\ line[1] = "+" /\ line[2] \in Titles

\* The lines are joined as they are, without a mark for a missing line end,
\* and split again by the parser.
Reread(diff) == Lines(FlattenSeq(diff.lines))

\* The parser drops what looks like a file header.
Parsed(diff) ==
  LET split == Reread(diff)
      Read(line) == IF LooksLikeHeader(line) THEN << >>
                    ELSE <<[tag |-> Head(line), text |-> Bare(Tail(line))]>>
  IN [start |-> diff.start, lines |-> FlattenSeq([k \in DOMAIN split |-> Read(split[k])])]

\* The edits change nothing, or the policy refuses what they do.
NoPatch ==
  \/ modified = original
  \/ \E line \in ToSet(Reread(DiffLines(Source, Lines(modified)))) : NamesFile(line)

Build ==
  /\ phase = "edit" /\ edits # << >> /\ UNCHANGED <<modified, edits>>
  /\ IF NoPatch
       THEN Refused("edit_refused") /\ UNCHANGED hunks
       ELSE /\ phase' = "matching"
            /\ UNCHANGED <<original, matching, patched, outcome>>

\* The hunks that may come next: the one that the edits have made, or those
\* of a diff of the model's own.
Upcoming ==
  IF edits # << >>
    THEN {h \in {Parsed(DiffLines(Source, Lines(modified)))} : hunks = << >>}
    ELSE {h \in Hunks : Len(hunks) < MaxHunks}

Match ==
  /\ phase = "matching" /\ UNCHANGED <<modified, edits>>
  /\ \/ \E h \in Upcoming : NextHunk(h)
     \/ Finish
     \/ edits = << >> /\ NoHunks

Next ==
  \/ \E old \in OldTexts, new \in NewTexts : Edit(old, new)
  \/ \E old \in OldTexts : EditRefused(old)
  \/ Build \/ Match
  \/ phase = "done" /\ UNCHANGED vars

Spec == Init /\ [][Next]_vars

----------------------------------------------------------------------------
(* Properties.                                                             *)

Terminated(text) == text = << >> \/ Last(text) \in LineEnds
Uniform(text) == ~(Contains(text, LF) /\ Contains(text, CRLF))

Arrived == patched = modified \/ (patched = Append(modified, NewlineOf(original)) /\ ~Terminated(modified))

\* In a file where every line has its line end, all of one kind, and of which
\* the edits leave one, accepted edits arrive: their diff fits at the line it
\* names, and applying it gives the text the edits made (a new last line is
\* given a line end), unless they delete a line that begins with two dashes or
\* add one that begins with two plus signs (parse_hunks drops both).
Tidy ==
  /\ phase = "done" /\ edits # << >> /\ hunks # << >>
  /\ Terminated(original) /\ Uniform(original) /\ Contains(modified, NewlineOf(original))
EditsRoundTrip ==
  /\ Tidy
  /\ \A line \in ToSet(DiffLines(Source, Lines(modified)).lines) : ~LooksLikeHeader(line)
  => outcome = "applied" /\ at = <<hunks[1].start - 1>> /\ Arrived

\* Claimed: "Turn uniquely matching exact replacements into a standard unified
\* diff" (build_structured_proposal): what is applied are the replacements.
ReplacementsApplied == Tidy /\ outcome = "applied" => Arrived
=============================================================================
