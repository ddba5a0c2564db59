----------------------------- MODULE HunkEngine -----------------------------
(***************************************************************************)
(* The exact matcher that preflight and apply share                        *)
(* (code_agent/patching/hunk_engine.py): hunks of a unified diff are       *)
(* placed in a file one after the other, at the line they name or at the   *)
(* only place where their old lines occur, or the diff is refused.         *)
(*                                                                         *)
(* A text is a sequence of words and line ends, so that a last line        *)
(* without line end is one like in the file, and lines glue as they do.    *)
(***************************************************************************)
EXTENDS Integers, SequencesExt

CONSTANTS
  Words, LF, CRLF,   \* what texts are made of
  Hunks,             \* hunks that a diff may have
  MaxHunks

LineEnds == {LF, CRLF}
Symbols == Words \cup LineEnds
Tags == {" ", "+", "-"}

ASSUME TextAssumption ==
  /\ LF # CRLF /\ (Words \cup Tags) \cap LineEnds = {} /\ MaxHunks \in Nat

\* hunk_pattern only takes digits for the line; a line loses its line end
\* when it is read.
ASSUME HunkAssumption ==
  \A h \in Hunks : /\ h.start \in Nat
                   /\ h.lines \in Seq([tag : Tags, text : Seq(Words)])

\* str.splitlines(keepends=True).
AddSymbol(lines, s) ==
  IF lines = << >> \/ Last(Last(lines)) \in LineEnds
    THEN Append(lines, <<s>>)
    ELSE Append(Front(lines), Append(Last(lines), s))
LinesUpto(text) ==
  LET lines[k \in 0..Len(text)] ==
        IF k = 0 THEN << >> ELSE AddSymbol(lines[k - 1], text[k])
  IN lines
Lines(text) == LinesUpto(text)[Len(text)]

Bare(line) == IF line # << >> /\ Last(line) \in LineEnds THEN Front(line) ELSE line

\* detect_newline: one CRLF makes it the line end of every added line.
NewlineOf(text) == IF Contains(text, CRLF) THEN CRLF ELSE LF

\* A hunk names a line of the old file (old_start; the counts are parsed and
\* never used) and has kept, deleted and added lines.
OldAmong(lines) ==
  FlattenSeq([k \in DOMAIN lines |-> IF lines[k].tag = "+" THEN << >> ELSE <<lines[k].text>>])
Old(h) == OldAmong(h.lines)

\* Positions are numbers of lines before the block.
MatchesAt(source, at, old) ==
  at + Len(old) <= Len(source) /\ \A k \in DOMAIN old : Bare(source[at + k]) = old[k]
Candidates(source, old) == {at \in 0..Len(source) : MatchesAt(source, at, old)}

VARIABLES
  phase,      \* what is done next
  original,   \* the text of the file that is patched
  hunks,      \* the hunks seen so far, a refused one included
  at,         \* where they were placed
  src_index,  \* lines of the file used up
  output,     \* the new lines (the variable result)
  patched,    \* the new text
  outcome     \* "none", "applied" or the kind of a refusal

matching == <<hunks, at, src_index, output>>
engine == <<phase, original, matching, patched, outcome>>

Source == Lines(original)
Refused(kind) ==
  /\ phase' = "done" /\ outcome' = kind
  /\ UNCHANGED <<original, at, src_index, output, patched>>

MatcherInit ==
  /\ hunks = << >> /\ at = << >> /\ src_index = 0 /\ output = << >>
  /\ patched = << >> /\ outcome = "none"

----------------------------------------------------------------------------
\* Fault: the first of several places is taken.
PlacesFirst(h) ==
  LET old == Old(h)
      found == {p \in Candidates(Source, old) : p >= src_index}
  IN IF old = << >> THEN {h.start - 1}
     ELSE IF h.start >= 1 /\ MatchesAt(Source, h.start - 1, old) THEN {h.start - 1}
     ELSE {p \in found : \A q \in found : p <= q}

\* Fault: a hunk only goes to the line it names.
PlacesNamed(h) ==
  {p \in {h.start - 1} : Old(h) = << >> \/ (h.start >= 1 /\ MatchesAt(Source, p, Old(h)))}

\* Where a hunk goes: the line it names if its old lines are there, or if it
\* has none; else the only place where they are, unless a hunk before it
\* reached that far.
Places(h) ==
  LET old == Old(h)
      found == Candidates(Source, old)
  IN IF old = << >> \/ (h.start >= 1 /\ MatchesAt(Source, h.start - 1, old))
       THEN {h.start - 1}
       ELSE {p \in found : found = {p} /\ p >= src_index}

\* _first_hunk_mismatch names the kind; it only knows the place that was named.
Kind(h) ==
  LET start == IF h.start >= 1 THEN h.start - 1 ELSE 0
      kept == SelectSeq(h.lines, LAMBDA l : l.tag # "+")
      wrong == {k \in DOMAIN kept : ~MatchesAt(Source, start + k - 1, <<kept[k].text>>)}
      first == CHOOSE k \in wrong : \A j \in wrong : k <= j
  IN IF wrong # {} /\ kept[first].tag = "-" THEN "deletion_mismatch" ELSE "context_mismatch"

Mismatch(h) ==
  /\ Places(h) = {} /\ hunks' = Append(hunks, h)
  /\ Refused(IF \E p, q \in Candidates(Source, Old(h)) : p # q
               THEN "ambiguous_context" ELSE Kind(h))

\* Hunks out of order, or an addition before the first line (line 0).
Overlap(h) ==
  /\ \E p \in Places(h) : p < src_index
  /\ hunks' = Append(hunks, h) /\ Refused("overlapping_hunk")

\* What the lines of a hunk become when its old lines are lines p+1.. of the
\* file: kept lines stay as they are, line end and all.
Becomes(h, p, k) ==
  LET line == h.lines[k]
  IN CASE line.tag = " " -> <<Source[p + Len(OldAmong(SubSeq(h.lines, 1, k)))]>>
       [] line.tag = "+" -> <<Append(line.text, NewlineOf(original))>>
       [] OTHER -> << >>
Emitted(h, p) == FlattenSeq([k \in DOMAIN h.lines |-> Becomes(h, p, k)])

Upto(n) == IF n < Len(Source) THEN n ELSE Len(Source)

\* Fault: deleted lines are not used up.
PlaceKeeping(h) ==
  \E p \in Places(h) :
    /\ p >= src_index
    /\ output' = output \o SubSeq(Source, src_index + 1, Upto(p)) \o Emitted(h, p)
    /\ src_index' = p + Len(SelectSeq(h.lines, LAMBDA l : l.tag = " "))
    /\ hunks' = Append(hunks, h) /\ at' = Append(at, p)
    /\ UNCHANGED <<phase, original, patched, outcome>>

Place(h) ==
  \E p \in Places(h) :
    /\ p >= src_index
    /\ output' = output \o SubSeq(Source, src_index + 1, Upto(p)) \o Emitted(h, p)
    /\ src_index' = p + Len(Old(h))
    /\ hunks' = Append(hunks, h) /\ at' = Append(at, p)
    /\ UNCHANGED <<phase, original, patched, outcome>>

NextHunk(h) == Mismatch(h) \/ Overlap(h) \/ Place(h)

NoHunks == hunks = << >> /\ UNCHANGED hunks /\ Refused("no_hunks")

Finish ==
  /\ hunks # << >> /\ phase' = "done" /\ outcome' = "applied"
  /\ patched' = FlattenSeq(output \o SubSeq(Source, src_index + 1, Len(Source)))
  /\ UNCHANGED <<original, matching>>

----------------------------------------------------------------------------
(* Properties.                                                             *)

\* The file with every block replaced where it was placed, from the last one
\* back to the first so that line numbers stay those of the file.
Splice(k, lines) ==
  SubSeq(lines, 1, Upto(at[k])) \o Emitted(hunks[k], at[k]) \o
  SubSeq(lines, Upto(at[k]) + Len(Old(hunks[k])) + 1, Len(lines))
SplicedFrom ==
  LET new[j \in 0..Len(hunks)] ==
        IF j = 0 THEN Source ELSE Splice(Len(hunks) + 1 - j, new[j - 1])
  IN new
Spliced == SplicedFrom[Len(hunks)]

Placed(k) ==
  LET old == Old(hunks[k])
  IN /\ old # << >> => MatchesAt(Source, at[k], old)
     /\ \/ at[k] = hunks[k].start - 1
        \/ Candidates(Source, old) = {at[k]}

\* A diff that is applied is applied whole and exactly: each hunk replaces its
\* old lines, all of them found word for word, at the line it names or at the
\* only place in the file that has them, hunks neither overlap nor change
\* order, and every other line stays as it was (docs/PATCH_RECOVERY.md,
\* "Unique exact relocation").
AppliedExactly ==
  outcome = "applied" =>
    /\ patched = FlattenSeq(Spliced)
    /\ \A k \in DOMAIN hunks :
         Placed(k) /\ (k > 1 => at[k] >= at[k - 1] + Len(Old(hunks[k - 1])))

\* The other direction: old lines that the file has only once each, in order
\* and apart from each other, are found whatever lines the hunks name.
UniqueBlocksFound ==
  outcome \notin {"none", "applied", "no_hunks"} /\ phase = "done" /\ Len(hunks) > Len(at) =>
    ~ \E p \in [DOMAIN hunks -> 0..Len(Source)] :
        \A k \in DOMAIN hunks :
          /\ Old(hunks[k]) # << >> /\ Candidates(Source, Old(hunks[k])) = {p[k]}
          /\ k > 1 => p[k] >= p[k - 1] + Len(Old(hunks[k - 1]))
=============================================================================
