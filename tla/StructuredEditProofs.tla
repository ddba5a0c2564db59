------------------------ MODULE StructuredEditProofs ------------------------
(***************************************************************************)
(* Edits and diffs of StructuredEdit: whatever the matcher is given is a   *)
(* hunk and a text, so that what HunkEngineProofs shows of it holds of     *)
(* every step of the specification.                                        *)
(*                                                                         *)
(* Then the way of an edit into the file: the diff of two texts has four   *)
(* parts (DiffIsChange), whose old lines are lines of the file             *)
(* (ChangeFits), and which spliced in are the new text (ChangeArrives).    *)
(***************************************************************************)
EXTENDS StructuredEdit, HunkEngineProofs

\* The common beginning of two sequences exists.
LEMMA CommonFound ==
  ASSUME NEW s, NEW t, Len(s) \in Nat, Len(t) \in Nat
  PROVE  /\ Common(s, t) \in 0..Len(s) /\ Common(s, t) \in 0..Len(t)
         /\ \A k \in 1..Common(s, t) : s[k] = t[k]
<1>1. PICK m \in Nat : m = Smaller(Len(s), Len(t)) /\ m <= Len(s) /\ m <= Len(t)
  BY DEF Smaller
<1> DEFINE Ends(n) == n = m \/ s[n + 1] # t[n + 1]
           S == {n \in 0..m : \A k \in 1..n : s[k] = t[k]}
<1>2. \E n \in S : Ends(n)
  <2>1. SUFFICES ASSUME \A n \in S : ~Ends(n) PROVE FALSE
    OBVIOUS
  <2>2. 0 \in S
    OBVIOUS
  <2>3. ASSUME NEW n \in 1..m, n - 1 \in S PROVE n \in S
    <3>1. s[(n - 1) + 1] = t[(n - 1) + 1] /\ (n - 1) + 1 = n
      BY <2>1, <2>3, SMTT(30)
    <3>2. \A k \in 1..n : k \in 1..(n - 1) \/ k = n
      OBVIOUS
    <3> QED BY <2>3, <3>1, <3>2
  <2>4. m \in 0..m /\ Ends(m)
    OBVIOUS
  <2> HIDE DEF S
  <2>5. 0..m \subseteq S
    BY <2>2, <2>3, Induction
  <2> QED BY <2>1, <2>4, <2>5
<1>3. PICK n \in 0..m : (\A k \in 1..n : s[k] = t[k]) /\ Ends(n)
  BY <1>2
<1>4. Common(s, t) = CHOOSE i \in 0..m : (\A k \in 1..i : s[k] = t[k]) /\ (i = m \/ s[i + 1] # t[i + 1])
  BY <1>1 DEF Common
<1>5. Common(s, t) \in 0..m /\ \A k \in 1..Common(s, t) : s[k] = t[k]
  BY <1>3, <1>4
<1> QED BY <1>1, <1>5

\* What the edits make is a text.
LEMMA NewlineType ==
  ASSUME NEW text
  PROVE  NewlineOf(text) \in LineEnds /\ NewlineOf(text) \in Symbols
  BY DEF NewlineOf, LineEnds, Symbols

LEMMA WithNewlinesType ==
  ASSUME NEW text \in Seq(Symbols), NEW of
  PROVE  WithNewlines(text, of) \in Seq(Symbols) /\ Len(WithNewlines(text, of)) = Len(text)
<1>1. Len(text) \in Nat /\ DOMAIN text = 1..Len(text) /\ \A k \in 1..Len(text) : text[k] \in Symbols
  BY LenProperties
<1>2. NewlineOf(of) \in Symbols
  BY NewlineType
<1>3. \A k \in 1..Len(text) : (IF text[k] \in LineEnds THEN NewlineOf(of) ELSE text[k]) \in Symbols
  BY <1>1, <1>2
<1> QED BY <1>1, <1>3 DEF WithNewlines

LEMMA ReplacedType ==
  ASSUME NEW text \in Seq(Symbols), NEW old \in Seq(Symbols), NEW new \in Seq(Symbols),
         NEW k \in Occurrences(text, old)
  PROVE  Replaced(text, k, old, new) \in Seq(Symbols)
<1>1. k \in 1..Len(text) /\ k + Len(old) <= Len(text) + 1 /\ Len(old) \in Nat
  BY DEF Occurrences
<1>2. SubSeq(text, 1, k - 1) \in Seq(Symbols) /\ SubSeq(text, k + Len(old), Len(text)) \in Seq(Symbols)
  BY <1>1
<1> QED BY <1>2 DEF Replaced

\* How two texts of lines differ: head lines at the beginning and tail lines
\* at the end are the same; above and below of them are kept in the hunk.
Differ(old, new, head, tail, above, below) ==
  /\ head \in Nat /\ tail \in Nat /\ above \in 0..head /\ below \in 0..tail
  /\ head + tail <= Len(old) /\ head + tail <= Len(new)
  /\ \A k \in 1..head : old[k] = new[k]
  /\ \A k \in 1..tail : old[Len(old) - tail + k] = new[Len(new) - tail + k]

LEMMA LastLines ==
  ASSUME NEW V, NEW s \in Seq(V), NEW h \in 0..Len(s)
  PROVE  LET a == SubSeq(s, h + 1, Len(s))
         IN Len(a) = Len(s) - h /\ \A k \in 1..(Len(s) - h) : a[k] = s[h + k]
<1>1. SubSeq(s, h + 1, Len(s)) = [i \in 1..((1 + Len(s)) - (h + 1)) |-> s[(i + (h + 1)) - 1]]
  BY DEF SubSeq
<1>2. PICK n \in Nat : n = Len(s) - h /\ (1 + Len(s)) - (h + 1) = n
  OBVIOUS
<1>3. \A i \in 1..n : (i + (h + 1)) - 1 = h + i
  OBVIOUS
<1>4. SubSeq(s, h + 1, Len(s)) = [i \in 1..n |-> s[h + i]]
  BY <1>1, <1>2, <1>3
<1>5. Len([i \in 1..n |-> s[h + i]]) = n
  OBVIOUS
<1> QED BY <1>2, <1>4, <1>5

\* Every diff has such a shape.
LEMMA DiffShape ==
  ASSUME NEW V, NEW old \in Seq(V), NEW new \in Seq(V)
  PROVE  \E head, tail, above, below :
           /\ Differ(old, new, head, tail, above, below)
           /\ DiffLines(old, new) =
                [start |-> head - above + 1,
                 lines |-> Tagged(" ", SubSeq(old, head - above + 1, head)) \o
                           Tagged("-", SubSeq(old, head + 1, Len(old) - tail)) \o
                           Tagged("+", SubSeq(new, head + 1, Len(new) - tail)) \o
                           Tagged(" ", SubSeq(old, Len(old) - tail + 1, Len(old) - tail + below))]
<1>1. PICK m \in Nat, n \in Nat : m = Len(old) /\ n = Len(new)
  OBVIOUS
<1>2. PICK head \in 0..m : head = Common(old, new) /\ head <= n /\ \A k \in 1..head : old[k] = new[k]
  BY <1>1, CommonFound
<1>3. PICK a, b : a = SubSeq(old, head + 1, m) /\ b = SubSeq(new, head + 1, n)
  OBVIOUS
<1>4. /\ Len(a) = m - head /\ \A k \in 1..(m - head) : a[k] = old[head + k]
      /\ Len(b) = n - head /\ \A k \in 1..(n - head) : b[k] = new[head + k]
  <2>1. head \in 0..Len(old) /\ head \in 0..Len(new)
    BY <1>1, <1>2
  <2>2. Len(a) = Len(old) - head /\ \A k \in 1..(Len(old) - head) : a[k] = old[head + k]
    BY <1>1, <1>3, <2>1, LastLines, Zenon
  <2>3. Len(b) = Len(new) - head /\ \A k \in 1..(Len(new) - head) : b[k] = new[head + k]
    BY <1>1, <1>3, <2>1, LastLines, Zenon
  <2> QED BY <1>1, <2>2, <2>3
<1>5. PICK ra, rb : ra = Reverse(a) /\ rb = Reverse(b)
  OBVIOUS
<1>6. /\ Len(ra) = m - head /\ \A k \in 1..(m - head) : ra[k] = old[(m - k) + 1]
      /\ Len(rb) = n - head /\ \A k \in 1..(n - head) : rb[k] = new[(n - k) + 1]
  <2>1. ra = [i \in 1..(m - head) |-> a[((m - head) - i) + 1]]
    BY <1>4, <1>5 DEF Reverse
  <2>2. rb = [i \in 1..(n - head) |-> b[((n - head) - i) + 1]]
    BY <1>4, <1>5 DEF Reverse
  <2>3. m - head \in Nat /\ n - head \in Nat
    BY <1>2
  <2>4. ASSUME NEW k \in 1..(m - head) PROVE ra[k] = old[(m - k) + 1]
    <3>1. ((m - head) - k) + 1 \in 1..(m - head) /\ head + (((m - head) - k) + 1) = (m - k) + 1
      BY <2>3
    <3> QED BY <1>4, <2>1, <3>1
  <2>5. ASSUME NEW k \in 1..(n - head) PROVE rb[k] = new[(n - k) + 1]
    <3>1. ((n - head) - k) + 1 \in 1..(n - head) /\ head + (((n - head) - k) + 1) = (n - k) + 1
      BY <2>3
    <3> QED BY <1>4, <2>2, <3>1
  <2>6. Len(ra) = m - head /\ Len(rb) = n - head
    BY <2>1, <2>2, <2>3
  <2> QED BY <2>4, <2>5, <2>6
<1>7. PICK tail \in Nat : /\ tail = Common(ra, rb) /\ tail \in 0..(m - head) /\ tail \in 0..(n - head)
                          /\ \A k \in 1..tail : ra[k] = rb[k]
  <2>1. Len(ra) \in Nat /\ Len(rb) \in Nat
    BY <1>2, <1>6
  <2> QED BY <1>6, <2>1, CommonFound, SMTT(30)
<1>8. ASSUME NEW k \in 1..tail PROVE old[m - tail + k] = new[n - tail + k]
  <2>1. PICK j \in 1..tail : j = (tail - k) + 1
    OBVIOUS
  <2>2. j \in 1..(m - head) /\ j \in 1..(n - head) /\ (m - j) + 1 = m - tail + k /\ (n - j) + 1 = n - tail + k
    <3>1. tail <= m - head /\ tail <= n - head /\ m - head \in Nat /\ n - head \in Nat
      BY <1>2, <1>7
    <3>2. j <= tail /\ j >= 1
      OBVIOUS
    <3> QED BY <2>1, <3>1, <3>2
  <2>3. ra[j] = rb[j]
    BY <1>7
  <2> QED BY <1>6, <2>2, <2>3
<1>9. PICK above \in 0..head, below \in 0..tail :
        above = Smaller(head, ContextLines) /\ below = Smaller(tail, ContextLines)
  <2>1. head \in Nat /\ tail \in Nat /\ ContextLines \in Nat
    BY EditAssumption
  <2>2. Smaller(head, ContextLines) \in 0..head /\ Smaller(tail, ContextLines) \in 0..tail
    BY <2>1 DEF Smaller
  <2> QED BY <2>2, Zenon
<1>10. Differ(old, new, head, tail, above, below)
  BY <1>1, <1>2, <1>7, <1>8, <1>9 DEF Differ
<1>11. DiffLines(old, new) =
         [start |-> head - above + 1,
          lines |-> Tagged(" ", SubSeq(old, head - above + 1, head)) \o
                    Tagged("-", SubSeq(old, head + 1, Len(old) - tail)) \o
                    Tagged("+", SubSeq(new, head + 1, Len(new) - tail)) \o
                    Tagged(" ", SubSeq(old, Len(old) - tail + 1, Len(old) - tail + below))]
  <2>1. tail = Common(Reverse(SubSeq(old, head + 1, Len(old))), Reverse(SubSeq(new, head + 1, Len(new))))
    BY <1>1, <1>3, <1>5, <1>7
  <2> QED BY <1>2, <1>9, <2>1, Zenon DEF DiffLines
<1> QED BY <1>10, <1>11, Zenon

\* The lines of a diff, and the hunk read from it.
LEMMA SliceType ==
  ASSUME NEW V, NEW s \in Seq(V), NEW m \in 0..Len(s), NEW n \in m..Len(s)
  PROVE  SubSeq(s, m + 1, n) \in Seq(V) /\ Len(SubSeq(s, m + 1, n)) = n - m
  OBVIOUS

LEMMA TaggedType ==
  ASSUME NEW V, NEW s \in Seq(Seq(V)), NEW tag \in V
  PROVE  Tagged(tag, s) \in Seq(Seq(V)) /\ Len(Tagged(tag, s)) = Len(s)
           /\ \A k \in 1..Len(s) : Tagged(tag, s)[k] = <<tag>> \o s[k]
<1>1. Len(s) \in Nat /\ DOMAIN s = 1..Len(s) /\ \A k \in 1..Len(s) : s[k] \in Seq(V)
  BY LenProperties
<1>2. <<tag>> \in Seq(V)
  OBVIOUS
<1>3. \A x \in Seq(V), y \in Seq(V) : x \o y \in Seq(V)
  OBVIOUS
<1>4. \A k \in 1..Len(s) : <<tag>> \o s[k] \in Seq(V)
  BY <1>1, <1>2, <1>3, Zenon
<1> QED BY <1>1, <1>4 DEF Tagged

LEMMA DiffLinesType ==
  ASSUME NEW V, Tags \subseteq V, NEW old \in Seq(Seq(V)), NEW new \in Seq(Seq(V))
  PROVE  DiffLines(old, new).start \in Int /\ DiffLines(old, new).lines \in Seq(Seq(V))
<1>1. PICK head, tail, above, below :
           /\ Differ(old, new, head, tail, above, below)
           /\ DiffLines(old, new) =
                [start |-> head - above + 1,
                 lines |-> Tagged(" ", SubSeq(old, head - above + 1, head)) \o
                           Tagged("-", SubSeq(old, head + 1, Len(old) - tail)) \o
                           Tagged("+", SubSeq(new, head + 1, Len(new) - tail)) \o
                           Tagged(" ", SubSeq(old, Len(old) - tail + 1, Len(old) - tail + below))]
  BY DiffShape
<1>2. PICK m, n, i, j, k, l :
        /\ m = Len(old) /\ n = Len(new) /\ i = head - above
        /\ j = Len(old) - tail /\ k = Len(new) - tail /\ l = Len(old) - tail + below
  OBVIOUS
<1>9. /\ m \in Nat /\ n \in Nat /\ i \in 0..m /\ head \in i..m /\ head \in 0..m /\ j \in head..m
      /\ head \in 0..n /\ k \in head..n /\ j \in 0..m /\ l \in j..m
  <2>1. /\ head \in Nat /\ tail \in Nat /\ above \in 0..head /\ below \in 0..tail
        /\ head + tail <= m /\ head + tail <= n /\ m \in Nat /\ n \in Nat
    <3>1. Differ(old, new, head, tail, above, below)
      BY <1>1, Zenon
    <3>2. Len(old) \in Nat /\ Len(new) \in Nat
      OBVIOUS
    <3> QED BY <1>2, <3>1, <3>2 DEF Differ
  <2> QED BY <1>2, <2>1
<1>3. /\ SubSeq(old, i + 1, head) \in Seq(Seq(V)) /\ SubSeq(old, head + 1, j) \in Seq(Seq(V))
      /\ SubSeq(new, head + 1, k) \in Seq(Seq(V)) /\ SubSeq(old, j + 1, l) \in Seq(Seq(V))
  BY <1>2, <1>9, SliceType
<1>4. " " \in V /\ "-" \in V /\ "+" \in V
  BY DEF Tags
<1>5. PICK t1, t2, t3, t4 :
        /\ t1 = Tagged(" ", SubSeq(old, i + 1, head)) /\ t2 = Tagged("-", SubSeq(old, head + 1, j))
        /\ t3 = Tagged("+", SubSeq(new, head + 1, k)) /\ t4 = Tagged(" ", SubSeq(old, j + 1, l))
  OBVIOUS
<1>6. t1 \in Seq(Seq(V)) /\ t2 \in Seq(Seq(V)) /\ t3 \in Seq(Seq(V)) /\ t4 \in Seq(Seq(V))
  BY <1>3, <1>4, <1>5, TaggedType
<1>7. DiffLines(old, new) = [start |-> i + 1, lines |-> t1 \o t2 \o t3 \o t4]
  BY <1>1, <1>2, <1>5
<1>8. t1 \o t2 \o t3 \o t4 \in Seq(Seq(V))
  BY <1>6
<1> QED BY <1>7, <1>8, <1>9

LEMMA ParsedType ==
  ASSUME NEW V, NEW diff, diff.start \in Int, diff.lines \in Seq(Seq(V))
  PROVE  IsHunk(Parsed(diff))
<1>1. PICK split : split = Lines(FlattenSeq(diff.lines)) /\ split \in Seq(Seq(V))
  BY FlattenType, LinesType
<1> DEFINE Read(line) == IF LooksLikeHeader(line) THEN << >>
                         ELSE <<[tag |-> Head(line), text |-> Bare(Tail(line))]>>
           W == {[tag |-> Head(split[k]), text |-> Bare(Tail(split[k]))] : k \in DOMAIN split}
           parts == [k \in DOMAIN split |-> Read(split[k])]
<1>2. Parsed(diff) = [start |-> diff.start, lines |-> FlattenSeq(parts)]
  BY <1>1 DEF Parsed, Reread
<1>3. parts \in Seq(Seq(W))
  <2>1. DOMAIN split = 1..Len(split) /\ Len(split) \in Nat
    BY <1>1, LenProperties
  <2>2. ASSUME NEW k \in DOMAIN split PROVE Read(split[k]) \in Seq(W)
    <3>1. PICK x \in W : x = [tag |-> Head(split[k]), text |-> Bare(Tail(split[k]))]
      OBVIOUS
    <3> HIDE DEF W
    <3>2. << >> \in Seq(W) /\ <<x>> \in Seq(W)
      OBVIOUS
    <3> QED BY <3>1, <3>2
  <2> HIDE DEF Read, W
  <2> QED BY <2>1, <2>2
<1>4. FlattenSeq(parts) \in Seq(W)
  <2> HIDE DEF W, parts
  <2> QED BY <1>3, FlattenType
<1>5. IsSeq(FlattenSeq(parts))
  <2> HIDE DEF W, parts
  <2> QED BY <1>4 DEF IsSeq
<1> HIDE DEF parts
<1> QED BY <1>2, <1>5 DEF IsHunk

----------------------------------------------------------------------------

\* The text that the edits work on is a text, and so is the file.
TextInv == original \in Seq(Symbols) /\ modified \in Seq(Symbols)

\* Whatever the matcher is given, it is a hunk.
LEMMA UpcomingIsHunk ==
  ASSUME TextInv, NEW h \in Upcoming
  PROVE  IsHunk(h)
<1>1. CASE edits # << >>
  <2>1. h = Parsed(DiffLines(Source, Lines(modified)))
    BY <1>1 DEF Upcoming
  <2>2. Symbols \subseteq Symbols \cup Tags /\ Tags \subseteq Symbols \cup Tags
    OBVIOUS
  <2>3. original \in Seq(Symbols \cup Tags) /\ modified \in Seq(Symbols \cup Tags)
    BY <2>2, SeqMonotonic DEF TextInv
  <2>4. Source \in Seq(Seq(Symbols \cup Tags)) /\ Lines(modified) \in Seq(Seq(Symbols \cup Tags))
    BY <2>3, LinesType DEF Source
  <2> QED BY <2>1, <2>2, <2>4, DiffLinesType, ParsedType
<1>2. CASE edits = << >>
  <2>1. h \in Hunks
    BY <1>2 DEF Upcoming
  <2> QED BY <2>1, HunkAssumption DEF IsHunk, IsSeq
<1> QED BY <1>1, <1>2

\* One step at a time.
LEMMA EditKeepsText ==
  ASSUME TextInv, NEW old \in OldTexts, NEW new \in NewTexts, Edit(old, new)
  PROVE  TextInv'
<1>1. old \in Seq(Symbols) /\ new \in Seq(Symbols)
  BY EditAssumption
<1>2. PICK o, n : o = WithNewlines(old, modified) /\ n = WithNewlines(new, modified)
  OBVIOUS
<1>3. o \in Seq(Symbols) /\ n \in Seq(Symbols)
  BY <1>1, <1>2, WithNewlinesType
<1>4. PICK k \in Occurrences(modified, o) : modified' = Replaced(modified, k, o, n)
  BY <1>2 DEF Edit
<1>5. modified' \in Seq(Symbols)
  BY <1>3, <1>4, ReplacedType DEF TextInv
<1>6. original' = original
  BY DEF Edit, engine
<1> QED BY <1>5, <1>6 DEF TextInv

LEMMA MatchKeepsEngine ==
  ASSUME TextInv, EngineInv, Match
  PROVE  EngineInv' /\ UNCHANGED <<original, modified, edits>>
<1>1. phase = "matching" /\ UNCHANGED <<modified, edits>>
  BY DEF Match
<1>2. ASSUME NEW h \in Upcoming, NextHunk(h) PROVE EngineInv' /\ UNCHANGED original
  <2>1. IsHunk(h)
    BY UpcomingIsHunk
  <2>2. CASE Mismatch(h) \/ Overlap(h)
    <3>1. EngineInv'
      BY <1>1, <2>1, <2>2, StopKeepsOrder
    <3> QED BY <2>2, <3>1 DEF Mismatch, Overlap, Refused
  <2>3. CASE Place(h)
    <3>1. EngineInv'
      BY <1>1, <2>1, <2>3, PlaceKeepsOrder
    <3> QED BY <2>3, <3>1 DEF Place
  <2> QED BY <1>2, <2>2, <2>3 DEF NextHunk
<1>3. CASE Finish
  <2>1. EngineInv'
    BY <1>1, <1>3, FinishKeepsOrder
  <2> QED BY <1>1, <1>3, <2>1 DEF Finish
<1>4. CASE NoHunks
  <2>1. EngineInv'
    BY <1>1, <1>4, NoHunksKeepsOrder DEF NoHunks
  <2> QED BY <1>1, <1>4, <2>1 DEF NoHunks, Refused
<1> QED BY <1>1, <1>2, <1>3, <1>4 DEF Match

\* What holds initially and after every step of an edited or a given diff.
EditInv == TextInv /\ EngineInv

LEMMA InitEditInv ==
  ASSUME Init
  PROVE  EditInv
<1>1. TextInv
  BY EditAssumption DEF Init, TextInv
<1>2. IsSeq(original)
  BY <1>1 DEF TextInv, IsSeq
<1> QED BY <1>1, <1>2, MatcherInitInv DEF Init, EditInv

LEMMA NextEditInv ==
  ASSUME EditInv, [Next]_vars
  PROVE  EditInv'
<1>0. TextInv /\ EngineInv
  BY DEF EditInv
<1>1. ASSUME NEW old \in OldTexts, NEW new \in NewTexts, Edit(old, new) PROVE EditInv'
  <2>1. TextInv'
    BY <1>0, <1>1, EditKeepsText
  <2>2. EngineInv'
    BY <1>0, <1>1, StutterKeepsOrder DEF Edit
  <2> QED BY <2>1, <2>2 DEF EditInv
<1>2. ASSUME NEW old \in OldTexts, EditRefused(old) PROVE EditInv'
  <2>1. phase # "done" /\ UNCHANGED hunks /\ Refused("edit_refused") /\ UNCHANGED modified
    BY <1>2 DEF EditRefused
  <2>2. EngineInv'
    BY <1>0, <2>1, NoHunksKeepsOrder
  <2> QED BY <1>0, <2>1, <2>2 DEF EditInv, TextInv, Refused
<1>3. CASE Build
  <2>1. phase # "done" /\ UNCHANGED <<original, modified>>
    BY <1>3 DEF Build, Refused
  <2>2. CASE NoPatch
    <3>1. UNCHANGED hunks /\ Refused("edit_refused")
      BY <1>3, <2>2 DEF Build
    <3>2. EngineInv'
      BY <1>0, <2>1, <3>1, NoHunksKeepsOrder
    <3> QED BY <1>0, <2>1, <3>2 DEF EditInv, TextInv
  <2>3. CASE ~NoPatch
    <3>1. phase' = "matching" /\ UNCHANGED <<original, matching, patched, outcome>>
      BY <1>3, <2>3 DEF Build
    <3>2. EngineInv'
      BY <1>0, <2>1, <3>1, StartKeepsOrder
    <3> QED BY <1>0, <2>1, <3>2 DEF EditInv, TextInv
  <2> QED BY <2>2, <2>3
<1>4. CASE Match
  <2>1. EngineInv' /\ UNCHANGED <<original, modified>>
    BY <1>0, <1>4, MatchKeepsEngine
  <2> QED BY <1>0, <2>1 DEF EditInv, TextInv
<1>5. CASE UNCHANGED vars
  <2>1. UNCHANGED engine /\ UNCHANGED <<original, modified>>
    BY <1>5 DEF vars, engine
  <2>2. EngineInv'
    BY <1>0, <2>1, StutterKeepsOrder
  <2> QED BY <1>0, <2>1, <2>2 DEF EditInv, TextInv
<1> QED BY <1>1, <1>2, <1>3, <1>4, <1>5 DEF Next

\* Hunks stay in order and apart, what is put out are the lines before them and
\* the lines they emit, and only a hunk without a place of its own stops the
\* matcher, whatever the texts, the edits and the diffs are.
THEOREM EditsKeepOrder == Spec => []EditInv
<1>1. Init => EditInv
  BY InitEditInv
<1>2. EditInv /\ [Next]_vars => EditInv'
  BY NextEditInv
<1> QED BY <1>1, <1>2, PTL DEF Spec

\* exact_apply_hunks: a diff is applied whole and exactly or not at all, for
\* every file, hunk and number of hunks.
THEOREM AppliesExactly == Spec => []AppliedExactly
<1>1. EditInv => AppliedExactly
  BY AppliedExactlyFromInv DEF EditInv
<1> QED BY <1>1, EditsKeepOrder, PTL

\* Blocks that the file has once each, in order and apart, are never refused.
THEOREM FindsUniqueBlocks == Spec => []UniqueBlocksFound
<1>1. EditInv => UniqueBlocksFound
  BY UniqueBlocksFoundFromInv DEF EditInv
<1> QED BY <1>1, EditsKeepOrder, PTL

\* The lines of a placed hunk are where the block was found, so the second
\* comparison, made while the output grows, refuses no hunk halfway, and Place
\* needs no branch for it.
THEOREM PlacedLinesStay == Spec => []PlacedLinesFit
<1>1. EditInv => PlacedLinesFit
  BY PlacedLinesFitFromInv DEF EditInv
<1> QED BY <1>1, EditsKeepOrder, PTL

----------------------------------------------------------------------------

AllClosed(ls) == \A k \in 1..Len(ls) : Closed(ls[k])

\* Some of the lines of a text.
LEMMA SliceFacts ==
  ASSUME NEW V, NEW s \in Seq(V), NEW m \in 0..Len(s), NEW n \in m..Len(s)
  PROVE  /\ SubSeq(s, m + 1, n) \in Seq(V) /\ Len(SubSeq(s, m + 1, n)) = n - m
         /\ \A k \in 1..(n - m) : SubSeq(s, m + 1, n)[k] = s[m + k]
<1>0. PICK a : a = SubSeq(s, m + 1, n)
  OBVIOUS
<1>1. a \in Seq(V) /\ Len(a) = n - m
  BY <1>0
<1>2. a = [i \in 1..((1 + n) - (m + 1)) |-> s[(i + (m + 1)) - 1]]
  BY <1>0 DEF SubSeq
<1>3. PICK c \in Nat : c = n - m /\ (1 + n) - (m + 1) = c
  OBVIOUS
<1>4. \A i \in 1..c : (i + (m + 1)) - 1 = m + i
  OBVIOUS
<1>5. a = [i \in 1..c |-> s[m + i]]
  BY <1>2, <1>3, <1>4
<1> QED BY <1>0, <1>1, <1>3, <1>5

\* Such a part, and two such texts one after the other, are split as they were.
LEMMA SplitSlice ==
  ASSUME NEW V, NEW s, Split(V, s), NEW m \in 0..Len(s), NEW n \in m..Len(s)
  PROVE  /\ Split(V, SubSeq(s, m + 1, n))
         /\ n < Len(s) \/ AllClosed(s) => AllClosed(SubSeq(s, m + 1, n))
<1>0. PICK a, c : a = SubSeq(s, m + 1, n) /\ c = n - m
  OBVIOUS
<1>1. /\ s \in Seq(Seq(V)) /\ Len(s) \in Nat /\ m \in Nat /\ n \in Nat /\ m <= n /\ n <= Len(s)
      /\ \A k \in 1..Len(s) : IsLine(V, s[k]) /\ (k < Len(s) => Closed(s[k]))
  BY LenProperties DEF Split
<1>2. a \in Seq(Seq(V)) /\ Len(a) = c /\ c \in Nat /\ \A k \in 1..c : a[k] = s[m + k]
  <2>1. m \in 0..Len(s) /\ n \in m..Len(s)
    OBVIOUS
  <2>2. c \in Nat
    BY <1>0, <1>1
  <2> QED BY <1>0, <1>1, <2>1, <2>2, SliceFacts, Zenon
<1>3. ASSUME NEW k \in 1..c
      PROVE  /\ a[k] = s[m + k] /\ IsLine(V, a[k]) /\ (k < c => Closed(a[k]))
             /\ (n < Len(s) \/ AllClosed(s) => Closed(a[k]))
  <2>1. m + k \in 1..Len(s) /\ (k < c => m + k < Len(s)) /\ (n < Len(s) => m + k < Len(s))
    BY <1>0, <1>1
  <2> QED BY <1>1, <1>2, <2>1 DEF AllClosed
<1>4. Split(V, a)
  BY <1>2, <1>3 DEF Split
<1>5. n < Len(s) \/ AllClosed(s) => AllClosed(a)
  BY <1>2, <1>3 DEF AllClosed
<1> QED BY <1>0, <1>4, <1>5

LEMMA SplitConcat ==
  ASSUME NEW U, NEW a, NEW b, Split(U, a), AllClosed(a), Split(U, b)
  PROVE  Split(U, a \o b) /\ (AllClosed(b) => AllClosed(a \o b))
<1>1. PICK t, m, n : t = a \o b /\ m = Len(a) /\ n = Len(b)
  OBVIOUS
<1>2. /\ a \in Seq(Seq(U)) /\ b \in Seq(Seq(U)) /\ m \in Nat /\ n \in Nat
      /\ \A k \in 1..m : IsLine(U, a[k]) /\ Closed(a[k])
      /\ \A k \in 1..n : IsLine(U, b[k]) /\ (k < n => Closed(b[k]))
  BY <1>1, LenProperties DEF Split, AllClosed
<1>3. /\ t \in Seq(Seq(U)) /\ Len(t) = m + n
      /\ \A k \in 1..m : t[k] = a[k]
      /\ \A k \in 1..n : t[m + k] = b[k]
  BY <1>1, <1>2, ConcatFacts
<1>4. ASSUME NEW k \in 1..(m + n)
      PROVE  IsLine(U, t[k]) /\ (k < m + n => Closed(t[k])) /\ (AllClosed(b) => Closed(t[k]))
  <2>1. CASE k \in 1..m
    BY <1>2, <1>3, <2>1
  <2>2. CASE k \notin 1..m
    <3>1. k - m \in 1..n /\ m + (k - m) = k /\ (k < m + n => k - m < n)
      BY <1>2, <2>2
    <3>2. t[k] = b[k - m]
      BY <1>3, <3>1
    <3> QED BY <1>1, <1>2, <3>1, <3>2 DEF AllClosed
  <2> QED BY <2>1, <2>2
<1>5. Split(U, t)
  BY <1>3, <1>4 DEF Split
<1>6. AllClosed(b) => AllClosed(t)
  BY <1>3, <1>4 DEF AllClosed
<1> QED BY <1>1, <1>5, <1>6

\* A line with its tag in front.
LEMMA TaggedLine ==
  ASSUME NEW U, NEW l \in Seq(U), NEW tag \in U, NEW t, t = <<tag>> \o l
  PROVE  /\ t \in Seq(U) /\ Len(t) = Len(l) + 1 /\ Len(l) \in Nat
         /\ t[1] = tag /\ \A k \in 1..Len(l) : t[k + 1] = l[k]
         /\ Head(t) = tag /\ Tail(t) = l
<1>1. <<tag>> \in Seq(U) /\ Len(<<tag>>) = 1 /\ <<tag>>[1] = tag
  OBVIOUS
<1>2. PICK n : n = Len(l) /\ n \in Nat
  BY LenProperties
<1>3. /\ t \in Seq(U) /\ Len(t) = 1 + n /\ t[1] = tag /\ \A k \in 1..n : t[1 + k] = l[k]
  BY <1>1, <1>2
<1>4. \A k \in 1..n : t[k + 1] = l[k]
  <2>1. \A k \in 1..n : 1 + k = k + 1
    OBVIOUS
  <2> QED BY <1>3, <2>1
<1>5. Head(t) = tag
  BY <1>3 DEF Head
<1>6. Tail(t) = l
  <2>1. t # << >> /\ t \in Seq(U)
    BY <1>2, <1>3
  <2>2. Tail(t) \in Seq(U) /\ Len(Tail(t)) = n
    BY <1>2, <1>3, <2>1
  <2>3. \A k \in 1..n : Tail(t)[k] = t[k + 1]
    BY <1>2, <1>3, <2>1
  <2> QED BY <1>2, <1>4, <2>2, <2>3, SeqEqual
<1> QED BY <1>2, <1>3, <1>4, <1>5, <1>6

LEMMA TaggedSplit ==
  ASSUME NEW V, NEW s, Split(V, s), NEW tag \in Tags
  PROVE  /\ Split(V \cup Tags, Tagged(tag, s))
         /\ AllClosed(s) => AllClosed(Tagged(tag, s))
<1>0. PICK U : U = V \cup Tags
  OBVIOUS
<1>1. PICK t, n : t = Tagged(tag, s) /\ n = Len(s)
  OBVIOUS
<1>2. s \in Seq(Seq(V)) /\ s \in Seq(Seq(U)) /\ n \in Nat /\ tag \in U /\ tag \notin LineEnds
  <2>1. Seq(V) \subseteq Seq(U)
    BY <1>0, SeqMonotonic
  <2> QED BY <1>0, <1>1, <2>1, SeqMonotonic, LenProperties, TextAssumption DEF Split
<1>3. t \in Seq(Seq(U)) /\ Len(t) = n /\ \A k \in 1..n : t[k] = <<tag>> \o s[k]
  BY <1>1, <1>2, TaggedType
<1>4. ASSUME NEW k \in 1..n
      PROVE  IsLine(U, t[k]) /\ (Closed(s[k]) => Closed(t[k]))
  <2>1. IsLine(V, s[k])
    BY <1>1 DEF Split
  <2>2. PICK l, tl : l = s[k] /\ tl = <<tag>> \o l
    OBVIOUS
  <2>3. l \in Seq(U) /\ l # << >> /\ \A q \in 1..(Len(l) - 1) : l[q] \notin LineEnds
    <3>1. l \in Seq(V) /\ V \subseteq U
      BY <1>0, <2>1, <2>2 DEF IsLine
    <3> QED BY <2>1, <2>2, <3>1, SeqMonotonic DEF IsLine
  <2>4. /\ tl \in Seq(U) /\ Len(tl) = Len(l) + 1 /\ Len(l) \in Nat /\ tl[1] = tag
        /\ \A q \in 1..Len(l) : tl[q + 1] = l[q]
    <3>1. l \in Seq(U) /\ tag \in U
      BY <1>2, <2>3
    <3> QED BY <2>2, <3>1, TaggedLine
  <2>5. Len(l) # 0
    BY <2>3, EmptySeq
  <2>6. ASSUME NEW q \in 1..(Len(tl) - 1) PROVE tl[q] \notin LineEnds
    <3>1. CASE q = 1
      BY <1>2, <2>4, <3>1
    <3>2. CASE q # 1
      <4>1. q - 1 \in 1..Len(l) /\ q - 1 \in 1..(Len(l) - 1) /\ (q - 1) + 1 = q
        BY <2>4, <3>2
      <4> QED BY <2>3, <2>4, <4>1
    <3> QED BY <3>1, <3>2
  <2>7. tl # << >>
    BY <2>4
  <2>8. IsLine(U, tl)
    BY <2>4, <2>6, <2>7 DEF IsLine
  <2>9. Closed(l) => Closed(tl)
    BY <2>4, <2>5 DEF Closed
  <2> QED BY <1>3, <2>2, <2>8, <2>9
<1>5. Split(U, t) /\ (AllClosed(s) => AllClosed(t))
  <2>1. \A k \in 1..n : k < n => Closed(s[k])
    BY <1>1 DEF Split
  <2> QED BY <1>1, <1>3, <1>4, <2>1 DEF Split, AllClosed
<1> QED BY <1>0, <1>1, <1>5

\* A text that ends with a line end has it in every line.
LEMMA ClosedText ==
  ASSUME NEW V, NEW text \in Seq(V), Terminated(text)
  PROVE  AllClosed(Lines(text))
<1>1. PICK ls : ls = Lines(text)
  OBVIOUS
<1>2. Split(V, ls) /\ FlattenSeq(ls) = text
  BY <1>1, LinesSplit
<1>3. ls \in Seq(Seq(V)) /\ Len(ls) \in Nat
  BY <1>2, LenProperties DEF Split
<1>4. ASSUME NEW k \in 1..Len(ls) PROVE Closed(ls[k])
  <2>1. CASE k < Len(ls)
    BY <1>2, <2>1 DEF Split
  <2>2. CASE k = Len(ls)
    <3>1. ls # << >>
      BY <1>3
    <3>2. PICK f, l : f = Front(ls) /\ l = Last(ls)
      OBVIOUS
    <3>3. f \in Seq(Seq(V)) /\ l \in Seq(V) /\ ls = Append(f, l) /\ l = ls[k]
      <4>1. l = ls[k]
        BY <2>2, <3>2 DEF Last
      <4> QED BY <1>3, <3>1, <3>2, <4>1, FrontAndLast, Zenon
    <3>4. FlattenSeq(ls) = FlattenSeq(f) \o l /\ FlattenSeq(f) \in Seq(V)
      BY <3>3, FlattenAppend, FlattenType
    <3>5. l # << >> /\ Len(l) \in Nat
      BY <1>2, <3>3, LenProperties DEF Split, IsLine
    <3>6. PICK x : x = FlattenSeq(f) /\ x \in Seq(V)
      BY <3>4
    <3>7. Len(x) \in Nat /\ Len(l) # 0 /\ text = x \o l
      BY <1>2, <3>3, <3>4, <3>5, <3>6, LenProperties, EmptySeq
    <3>8. Len(text) = Len(x) + Len(l) /\ text[Len(x) + Len(l)] = l[Len(l)]
      <4>1. Len(l) \in 1..Len(l)
        BY <3>5, <3>7
      <4> QED BY <3>3, <3>6, <3>7, <4>1, ConcatFacts
    <3>9. text # << >>
      BY <3>5, <3>7, <3>8
    <3>10. Last(text) \in LineEnds
      BY <3>9 DEF Terminated
    <3> QED BY <3>3, <3>8, <3>10 DEF Closed, Last
  <2> QED BY <2>1, <2>2
<1> QED BY <1>1, <1>4 DEF AllClosed

----------------------------------------------------------------------------

\* A line of a diff without headers, as it is read.
AsRead(line) == [tag |-> Head(line), text |-> Bare(Tail(line))]
AllRead(ls) == [k \in DOMAIN ls |-> AsRead(ls[k])]

\* Tagging and reading back gives the marked lines.
LEMMA ReadTagged ==
  ASSUME NEW U, NEW s \in Seq(Seq(U)), NEW tag \in U
  PROVE  AllRead(Tagged(tag, s)) = Marked(tag, s)
<1>1. PICK t, n : t = Tagged(tag, s) /\ n = Len(s)
  OBVIOUS
<1>2. /\ n \in Nat /\ DOMAIN s = 1..n /\ t \in Seq(Seq(U)) /\ Len(t) = n
      /\ \A k \in 1..n : t[k] = <<tag>> \o s[k] /\ s[k] \in Seq(U)
  <2>1. n \in Nat /\ DOMAIN s = 1..n
    BY <1>1, LenProperties
  <2>2. t \in Seq(Seq(U)) /\ Len(t) = n /\ \A k \in 1..n : t[k] = <<tag>> \o s[k]
    BY <1>1, TaggedType, Zenon
  <2>3. \A k \in 1..n : s[k] \in Seq(U)
    BY <2>1
  <2> QED BY <2>1, <2>2, <2>3, Zenon
<1>3. DOMAIN t = 1..n
  BY <1>2, LenProperties
<1>4. ASSUME NEW k \in 1..n PROVE AsRead(t[k]) = [tag |-> tag, text |-> Bare(s[k])]
  <2>1. s[k] \in Seq(U) /\ t[k] = <<tag>> \o s[k]
    BY <1>2
  <2>2. Head(t[k]) = tag /\ Tail(t[k]) = s[k]
    BY <2>1, TaggedLine
  <2> QED BY <2>2, Zenon DEF AsRead
<1> QED BY <1>1, <1>2, <1>3, <1>4, Zenon DEF AllRead, Marked

\* Lines are read one by one.
LEMMA ReadType ==
  ASSUME NEW U, NEW ls \in Seq(Seq(U))
  PROVE  /\ DOMAIN ls = 1..Len(ls) /\ Len(ls) \in Nat
         /\ Len(AllRead(ls)) = Len(ls) /\ \A k \in 1..Len(ls) : AllRead(ls)[k] = AsRead(ls[k])
         /\ \A W : (\A k \in 1..Len(ls) : AsRead(ls[k]) \in W) => AllRead(ls) \in Seq(W)
<1>1. PICK n : n = Len(ls)
  OBVIOUS
<1>2. n \in Nat /\ DOMAIN ls = 1..n
  BY <1>1, LenProperties
<1>3. PICK f : f = [k \in 1..n |-> AsRead(ls[k])]
  OBVIOUS
<1>4. AllRead(ls) = f
  BY <1>2, <1>3 DEF AllRead
<1>5. Len(f) = n /\ \A k \in 1..n : f[k] = AsRead(ls[k])
  BY <1>2, <1>3
<1>6. \A W : (\A k \in 1..n : AsRead(ls[k]) \in W) => f \in Seq(W)
  BY <1>2, <1>3
<1> QED BY <1>1, <1>2, <1>4, <1>5, <1>6

LEMMA ReadConcat ==
  ASSUME NEW U, NEW a \in Seq(Seq(U)), NEW b \in Seq(Seq(U))
  PROVE  AllRead(a \o b) = AllRead(a) \o AllRead(b)
<1>1. PICK m, n, ab : m = Len(a) /\ n = Len(b) /\ ab = a \o b
  OBVIOUS
<1>2. m \in Nat /\ n \in Nat /\ DOMAIN a = 1..m /\ DOMAIN b = 1..n
  BY <1>1, LenProperties
<1>3. /\ ab \in Seq(Seq(U)) /\ Len(ab) = m + n
      /\ \A k \in 1..m : ab[k] = a[k]
      /\ \A k \in 1..n : ab[m + k] = b[k]
  BY <1>1, <1>2, ConcatFacts
<1>4. PICK ra, rb, rab : ra = AllRead(a) /\ rb = AllRead(b) /\ rab = AllRead(ab)
  OBVIOUS
<1>5. /\ Len(ra) = m /\ \A k \in 1..m : ra[k] = AsRead(a[k])
      /\ \A W : (\A k \in 1..m : AsRead(a[k]) \in W) => ra \in Seq(W)
  BY <1>1, <1>4, ReadType
<1>6. /\ Len(rb) = n /\ \A k \in 1..n : rb[k] = AsRead(b[k])
      /\ \A W : (\A k \in 1..n : AsRead(b[k]) \in W) => rb \in Seq(W)
  BY <1>1, <1>4, ReadType
<1>7. /\ Len(rab) = m + n /\ \A k \in 1..(m + n) : rab[k] = AsRead(ab[k])
      /\ \A W : (\A k \in 1..(m + n) : AsRead(ab[k]) \in W) => rab \in Seq(W)
  BY <1>3, <1>4, ReadType
<1>8. PICK W : W = {AsRead(ab[k]) : k \in 1..(m + n)}
  OBVIOUS
<1>9. \A k \in 1..(m + n) : AsRead(ab[k]) \in W
  BY <1>8
<1>10. rab \in Seq(W)
  BY <1>7, <1>9, Zenon
<1>11. ra \in Seq(W)
  <2>1. ASSUME NEW k \in 1..m PROVE AsRead(a[k]) \in W
    <3>1. k \in 1..(m + n) /\ ab[k] = a[k]
      BY <1>2, <1>3
    <3> QED BY <1>9, <3>1
  <2> QED BY <1>5, <2>1, Zenon
<1>12. rb \in Seq(W)
  <2>1. ASSUME NEW k \in 1..n PROVE AsRead(b[k]) \in W
    <3>1. m + k \in 1..(m + n) /\ ab[m + k] = b[k]
      BY <1>2, <1>3
    <3> QED BY <1>9, <3>1
  <2> QED BY <1>6, <2>1, Zenon
<1>13. \A k \in 1..m : rab[k] = ra[k]
  <2>1. \A k \in 1..m : k \in 1..(m + n)
    BY <1>2
  <2> QED BY <1>3, <1>5, <1>7, <2>1
<1>14. \A k \in 1..n : rab[m + k] = rb[k]
  <2>1. \A k \in 1..n : m + k \in 1..(m + n)
    BY <1>2
  <2> QED BY <1>3, <1>6, <1>7, <2>1
<1>15. Joined(W, rab, ra, rb)
  BY <1>5, <1>6, <1>7, <1>10, <1>11, <1>12, <1>13, <1>14 DEF Joined
<1>16. rab = ra \o rb
  BY <1>15, JoinedIsConcat
<1> QED BY <1>1, <1>4, <1>16

\* Lines that are lines are read one by one.
LEMMA ParsedPlain ==
  ASSUME NEW U, NEW diff, Split(U, diff.lines),
         \A line \in ToSet(diff.lines) : ~LooksLikeHeader(line)
  PROVE  Parsed(diff) = [start |-> diff.start, lines |-> AllRead(diff.lines)]
<1>1. PICK ls, n : ls = diff.lines /\ n = Len(ls)
  OBVIOUS
<1>2. ls \in Seq(Seq(U)) /\ n \in Nat /\ DOMAIN ls = 1..n
  BY <1>1, LenProperties DEF Split
<1>3. Lines(FlattenSeq(ls)) = ls
  BY <1>1, LinesOfSplit
<1>4. \A k \in 1..n : ~LooksLikeHeader(ls[k])
  BY <1>1, <1>2 DEF ToSet
<1> DEFINE Read(line) == IF LooksLikeHeader(line) THEN << >>
                         ELSE <<[tag |-> Head(line), text |-> Bare(Tail(line))]>>
<1>5. Parsed(diff) = [start |-> diff.start, lines |-> FlattenSeq([k \in DOMAIN ls |-> Read(ls[k])])]
  BY <1>1, <1>3 DEF Parsed, Reread
<1>6. PICK r : r = AllRead(ls)
  OBVIOUS
<1>7. /\ Len(r) = n /\ (\A k \in 1..n : r[k] = AsRead(ls[k]))
      /\ \A W : (\A k \in 1..n : AsRead(ls[k]) \in W) => r \in Seq(W)
  BY <1>1, <1>2, <1>6, ReadType
<1>8. PICK W : W = {AsRead(ls[k]) : k \in 1..n}
  OBVIOUS
<1>9. r \in Seq(W)
  <2>1. \A k \in 1..n : AsRead(ls[k]) \in W
    BY <1>8
  <2> QED BY <1>7, <2>1, Zenon
<1>10. DOMAIN r = 1..n
  BY <1>7, <1>9, LenProperties
<1>11. \A k \in 1..n : Read(ls[k]) = <<r[k]>>
  BY <1>4, <1>7 DEF AsRead
<1>12. [k \in DOMAIN ls |-> Read(ls[k])] = [k \in DOMAIN r |-> <<r[k]>>]
  <2> HIDE DEF Read
  <2> QED BY <1>2, <1>10, <1>11
<1>13. FlattenSeq([k \in DOMAIN r |-> <<r[k]>>]) = r
  BY <1>9, FlattenSingletons
<1> HIDE DEF Read
<1> QED BY <1>1, <1>5, <1>6, <1>12, <1>13, Zenon

----------------------------------------------------------------------------

TheHunk == Parsed(DiffLines(Source, Lines(modified)))
Plain == \A line \in ToSet(DiffLines(Source, Lines(modified)).lines) : ~LooksLikeHeader(line)

\* All line ends of both texts are the file's own, and the file ends with one.
OneEnd(V) ==
  /\ original \in Seq(V) /\ modified \in Seq(V) /\ Terminated(original)
  /\ NewlineOf(original) \in V /\ V \cap LineEnds = {NewlineOf(original)}

\* Up to head the lines are the same, and from j and k on; i..l is in the hunk.
Numbers(old, new, i, head, j, k, l) ==
  /\ i \in Nat /\ head \in Nat /\ j \in Nat /\ k \in Nat /\ l \in Nat
  /\ i <= head /\ head <= j /\ j <= l /\ l <= Len(old) /\ head <= k /\ k <= Len(new)
  /\ Len(old) - j = Len(new) - k
  /\ \A q \in 1..head : old[q] = new[q]
  /\ \A q \in 1..(Len(old) - j) : old[j + q] = new[k + q]

\* The diff of two sequences of lines has such numbers.
LEMMA DiffNumbers ==
  ASSUME NEW V, NEW old \in Seq(V), NEW new \in Seq(V)
  PROVE  \E i, head, j, k, l :
           /\ Numbers(old, new, i, head, j, k, l)
           /\ DiffLines(old, new) =
                [start |-> i + 1,
                 lines |-> ((Tagged(" ", SubSeq(old, i + 1, head)) \o Tagged("-", SubSeq(old, head + 1, j)))
                            \o Tagged("+", SubSeq(new, head + 1, k))) \o Tagged(" ", SubSeq(old, j + 1, l))]
<1>1. PICK head, tail, above, below :
           /\ Differ(old, new, head, tail, above, below)
           /\ DiffLines(old, new) =
                [start |-> head - above + 1,
                 lines |-> Tagged(" ", SubSeq(old, head - above + 1, head)) \o
                           Tagged("-", SubSeq(old, head + 1, Len(old) - tail)) \o
                           Tagged("+", SubSeq(new, head + 1, Len(new) - tail)) \o
                           Tagged(" ", SubSeq(old, Len(old) - tail + 1, Len(old) - tail + below))]
  BY DiffShape
<1>2. PICK m, n, i, j, k, l :
        /\ m = Len(old) /\ n = Len(new) /\ i = head - above
        /\ j = Len(old) - tail /\ k = Len(new) - tail /\ l = Len(old) - tail + below
  OBVIOUS
<1>3. m \in Nat /\ n \in Nat
  BY <1>2, LenProperties
<1>4. /\ head \in Nat /\ tail \in Nat /\ above \in 0..head /\ below \in 0..tail
      /\ head + tail <= m /\ head + tail <= n
      /\ \A q \in 1..head : old[q] = new[q]
      /\ \A q \in 1..tail : old[j + q] = new[k + q]
  BY <1>1, <1>2, Zenon DEF Differ
<1>5. /\ i \in Nat /\ j \in Nat /\ k \in Nat /\ l \in Nat
      /\ i <= head /\ head <= j /\ j <= l /\ l <= m /\ head <= k /\ k <= n
      /\ m - j = n - k /\ m - j = tail
  BY <1>2, <1>3, <1>4
<1>6. Numbers(old, new, i, head, j, k, l)
  BY <1>2, <1>4, <1>5, Zenon DEF Numbers
<1> QED BY <1>1, <1>2, <1>6, Zenon

\* Nothing to cut, nothing to tag.
LEMMA EmptySlice ==
  ASSUME NEW V, NEW s \in Seq(V), NEW j \in 0..Len(s)
  PROVE  SubSeq(s, j + 1, j) = << >>
<1>1. SubSeq(s, j + 1, j) \in Seq(V) /\ Len(SubSeq(s, j + 1, j)) = j - j
  OBVIOUS
<1>2. j - j = 0
  OBVIOUS
<1> QED BY <1>1, <1>2, EmptySeq

LEMMA TaggedEmpty == ASSUME NEW tag PROVE Tagged(tag, << >>) = << >>
  BY DEF Tagged

\* The diff of two such texts is read as a hunk of one change.
ChangeIs(h, i, head, j, k, l) ==
  /\ h.start = i + 1
  /\ OneChange(h, SubSeq(Source, i + 1, head), SubSeq(Source, head + 1, j),
               SubSeq(Lines(modified), head + 1, k), SubSeq(Source, j + 1, l))

LEMMA DiffIsChange ==
  ASSUME NEW V, OneEnd(V), Plain
  PROVE  \E i, head, j, k, l :
           /\ Numbers(Source, Lines(modified), i, head, j, k, l)
           /\ ChangeIs(TheHunk, i, head, j, k, l)
<1>1. PICK old, new, U : old = Source /\ new = Lines(modified) /\ U = V \cup Tags
  OBVIOUS
<1>2. Split(V, old) /\ Split(V, new) /\ AllClosed(old) /\ old \in Seq(Seq(V)) /\ new \in Seq(Seq(V))
  <2>1. original \in Seq(V) /\ modified \in Seq(V) /\ Terminated(original)
    BY DEF OneEnd
  <2> QED BY <1>1, <2>1, LinesSplit, ClosedText DEF Source, Split
<1>3. PICK i, head, j, k, l :
           /\ Numbers(old, new, i, head, j, k, l)
           /\ DiffLines(old, new) =
                [start |-> i + 1,
                 lines |-> ((Tagged(" ", SubSeq(old, i + 1, head)) \o Tagged("-", SubSeq(old, head + 1, j)))
                            \o Tagged("+", SubSeq(new, head + 1, k))) \o Tagged(" ", SubSeq(old, j + 1, l))]
  BY <1>2, DiffNumbers
<1>4. /\ Len(old) \in Nat /\ Len(new) \in Nat
      /\ i \in 0..Len(old) /\ head \in i..Len(old) /\ head \in 0..Len(old) /\ j \in head..Len(old)
      /\ head \in 0..Len(new) /\ k \in head..Len(new) /\ j \in 0..Len(old) /\ l \in j..Len(old)
      /\ k < Len(new) \/ l = j
  <2>1. Len(old) \in Nat /\ Len(new) \in Nat
    BY <1>2, LenProperties
  <2>2. /\ i \in Nat /\ head \in Nat /\ j \in Nat /\ k \in Nat /\ l \in Nat
        /\ i <= head /\ head <= j /\ j <= l /\ l <= Len(old) /\ head <= k /\ k <= Len(new)
        /\ Len(old) - j = Len(new) - k
    BY <1>3, Zenon DEF Numbers
  <2> QED BY <2>1, <2>2
<1>5. PICK o1, o2, n3, o4 :
        /\ o1 = SubSeq(old, i + 1, head) /\ o2 = SubSeq(old, head + 1, j)
        /\ n3 = SubSeq(new, head + 1, k) /\ o4 = SubSeq(old, j + 1, l)
  OBVIOUS
<1>6. /\ Split(V, o1) /\ AllClosed(o1) /\ Split(V, o2) /\ AllClosed(o2)
      /\ Split(V, n3) /\ (k < Len(new) => AllClosed(n3)) /\ Split(V, o4)
  BY <1>2, <1>4, <1>5, SplitSlice
<1>7. PICK t1, t2, t3, t4 :
        /\ t1 = Tagged(" ", o1) /\ t2 = Tagged("-", o2) /\ t3 = Tagged("+", n3) /\ t4 = Tagged(" ", o4)
  OBVIOUS
<1>8. " " \in Tags /\ "-" \in Tags /\ "+" \in Tags /\ " " \in U /\ "-" \in U /\ "+" \in U
  BY <1>1 DEF Tags
<1>9. /\ Split(U, t1) /\ AllClosed(t1) /\ Split(U, t2) /\ AllClosed(t2)
      /\ Split(U, t3) /\ (k < Len(new) => AllClosed(t3)) /\ Split(U, t4)
  BY <1>1, <1>6, <1>7, <1>8, TaggedSplit
<1>10. t1 \in Seq(Seq(U)) /\ t2 \in Seq(Seq(U)) /\ t3 \in Seq(Seq(U)) /\ t4 \in Seq(Seq(U))
  BY <1>9 DEF Split
<1>11. Split(U, t1 \o t2) /\ AllClosed(t1 \o t2)
  BY <1>9, SplitConcat
<1>12. Split(U, (t1 \o t2) \o t3) /\ (k < Len(new) => AllClosed((t1 \o t2) \o t3))
  BY <1>9, <1>11, SplitConcat
<1>13. Split(U, ((t1 \o t2) \o t3) \o t4)
  <2>1. CASE k < Len(new)
    BY <1>9, <1>12, <2>1, SplitConcat
  <2>2. CASE l = j
    <3>1. o4 = << >>
      BY <1>2, <1>4, <1>5, <2>2, EmptySlice
    <3>2. t4 = << >>
      BY <1>7, <3>1, TaggedEmpty
    <3>3. PICK x : x = (t1 \o t2) \o t3
      OBVIOUS
    <3>4. Split(U, x) /\ x \in Seq(Seq(U))
      BY <1>12, <3>3 DEF Split
    <3>5. x \o << >> = x
      BY <3>4, ConcatEmptySeq
    <3> QED BY <3>2, <3>3, <3>4, <3>5
  <2> QED BY <1>4, <2>1, <2>2
<1>14. PICK d : d = DiffLines(old, new)
  OBVIOUS
<1>15. d.start = i + 1 /\ d.lines = ((t1 \o t2) \o t3) \o t4
  <2>1. PICK ls : ls = ((t1 \o t2) \o t3) \o t4
    OBVIOUS
  <2>2. d = [start |-> i + 1, lines |-> ls]
    BY <1>3, <1>5, <1>7, <1>14, <2>1, Zenon
  <2>3. d.start = i + 1 /\ d.lines = ls
    BY <2>2
  <2> QED BY <2>1, <2>3
<1>16. TheHunk = [start |-> d.start, lines |-> AllRead(d.lines)]
  <2>1. \A line \in ToSet(d.lines) : ~LooksLikeHeader(line)
    BY <1>1, <1>14, Zenon DEF Plain
  <2>2. Split(U, d.lines)
    BY <1>13, <1>15
  <2>3. TheHunk = Parsed(d)
    BY <1>1, <1>14 DEF TheHunk
  <2> QED BY <2>1, <2>2, <2>3, ParsedPlain
<1>17. AllRead(((t1 \o t2) \o t3) \o t4) = ((AllRead(t1) \o AllRead(t2)) \o AllRead(t3)) \o AllRead(t4)
  <2>1. t1 \o t2 \in Seq(Seq(U)) /\ (t1 \o t2) \o t3 \in Seq(Seq(U))
    BY <1>11, <1>12 DEF Split
  <2>2. AllRead(t1 \o t2) = AllRead(t1) \o AllRead(t2)
    BY <1>10, ReadConcat
  <2>3. AllRead((t1 \o t2) \o t3) = AllRead(t1 \o t2) \o AllRead(t3)
    BY <1>10, <2>1, ReadConcat
  <2>4. AllRead(((t1 \o t2) \o t3) \o t4) = AllRead((t1 \o t2) \o t3) \o AllRead(t4)
    BY <1>10, <2>1, ReadConcat
  <2> QED BY <2>2, <2>3, <2>4, Zenon
<1>18. /\ AllRead(t1) = Marked(" ", o1) /\ AllRead(t2) = Marked("-", o2)
       /\ AllRead(t3) = Marked("+", n3) /\ AllRead(t4) = Marked(" ", o4)
  <2>1. Seq(V) \subseteq Seq(U)
    BY <1>1, SeqMonotonic
  <2>2. o1 \in Seq(Seq(U)) /\ o2 \in Seq(Seq(U)) /\ n3 \in Seq(Seq(U)) /\ o4 \in Seq(Seq(U))
    BY <1>6, <2>1, SeqMonotonic DEF Split
  <2> QED BY <1>7, <1>8, <2>2, ReadTagged
<1>19. OneChange(TheHunk, o1, o2, n3, o4)
  <2>1. TheHunk.lines = AllRead(d.lines)
    BY <1>16
  <2> QED BY <1>15, <1>17, <1>18, <2>1, Zenon DEF OneChange
<1>20. TheHunk.start = i + 1
  BY <1>15, <1>16
<1>21. ChangeIs(TheHunk, i, head, j, k, l)
  BY <1>1, <1>5, <1>19, <1>20, Zenon DEF ChangeIs
<1> QED BY <1>1, <1>3, <1>21, Zenon

\* Where the change goes, and what the file is then.
LEMMA BaresType ==
  ASSUME NEW V, NEW s \in Seq(Seq(V))
  PROVE  /\ Bares(s) \in Seq(Seq(V)) /\ Len(Bares(s)) = Len(s)
         /\ \A k \in 1..Len(s) : Bares(s)[k] = Bare(s[k])
<1>1. "-" \in Tags
  BY DEF Tags
<1> QED BY <1>1, MarkedType

LEMMA BaresOfConcat ==
  ASSUME NEW V, NEW a \in Seq(Seq(V)), NEW b \in Seq(Seq(V))
  PROVE  Bares(a \o b) = Bares(a) \o Bares(b)
<1>1. PICK m, n, ab : m = Len(a) /\ n = Len(b) /\ ab = a \o b
  OBVIOUS
<1>2. m \in Nat /\ n \in Nat
  BY <1>1, LenProperties
<1>3. /\ ab \in Seq(Seq(V)) /\ Len(ab) = m + n
      /\ \A k \in 1..m : ab[k] = a[k]
      /\ \A k \in 1..n : ab[m + k] = b[k]
  BY <1>1, <1>2, ConcatFacts
<1>4. PICK ra, rb, rab : ra = Bares(a) /\ rb = Bares(b) /\ rab = Bares(ab)
  OBVIOUS
<1>6. /\ ra \in Seq(Seq(V)) /\ Len(ra) = m /\ \A k \in 1..m : ra[k] = Bare(a[k])
      /\ rb \in Seq(Seq(V)) /\ Len(rb) = n /\ \A k \in 1..n : rb[k] = Bare(b[k])
      /\ rab \in Seq(Seq(V)) /\ Len(rab) = m + n /\ \A k \in 1..(m + n) : rab[k] = Bare(ab[k])
  <2>1. ra \in Seq(Seq(V)) /\ Len(ra) = m /\ \A k \in 1..m : ra[k] = Bare(a[k])
    BY <1>1, <1>4, BaresType, Zenon
  <2>2. rb \in Seq(Seq(V)) /\ Len(rb) = n /\ \A k \in 1..n : rb[k] = Bare(b[k])
    BY <1>1, <1>4, BaresType, Zenon
  <2>3. rab \in Seq(Seq(V)) /\ Len(rab) = m + n /\ \A k \in 1..(m + n) : rab[k] = Bare(ab[k])
    BY <1>3, <1>4, BaresType, Zenon
  <2> QED BY <2>1, <2>2, <2>3
<1>7. \A k \in 1..m : rab[k] = ra[k]
  <2>1. \A k \in 1..m : k \in 1..(m + n)
    BY <1>2
  <2> QED BY <1>3, <1>6, <2>1
<1>8. \A k \in 1..n : rab[m + k] = rb[k]
  <2>1. \A k \in 1..n : m + k \in 1..(m + n)
    BY <1>2
  <2> QED BY <1>3, <1>6, <2>1
<1>9. Joined(Seq(V), rab, ra, rb)
  BY <1>6, <1>7, <1>8 DEF Joined
<1> QED BY <1>1, <1>4, <1>9, JoinedIsConcat

\* Two parts that follow each other join to one.
LEMMA JoinedSlices ==
  ASSUME NEW V, NEW s \in Seq(V), NEW a \in 0..Len(s), NEW b \in a..Len(s), NEW c \in b..Len(s)
  PROVE  SubSeq(s, a + 1, b) \o SubSeq(s, b + 1, c) = SubSeq(s, a + 1, c)
<1>1. PICK x, y, z : x = SubSeq(s, a + 1, b) /\ y = SubSeq(s, b + 1, c) /\ z = SubSeq(s, a + 1, c)
  OBVIOUS
<1>2. /\ a \in 0..Len(s) /\ b \in a..Len(s) /\ b \in 0..Len(s) /\ c \in b..Len(s) /\ c \in a..Len(s)
      /\ a \in Nat /\ b \in Nat /\ c \in Nat /\ a <= b /\ b <= c
  <2>1. Len(s) \in Nat
    BY LenProperties
  <2> QED BY <2>1
<1>3. /\ x \in Seq(V) /\ Len(x) = b - a /\ \A k \in 1..(b - a) : x[k] = s[a + k]
      /\ y \in Seq(V) /\ Len(y) = c - b /\ \A k \in 1..(c - b) : y[k] = s[b + k]
      /\ z \in Seq(V) /\ Len(z) = c - a /\ \A k \in 1..(c - a) : z[k] = s[a + k]
  BY <1>1, <1>2, SliceFacts, Zenon
<1>4. \A k \in 1..Len(x) : z[k] = x[k]
  <2>1. \A k \in 1..(b - a) : k \in 1..(c - a)
    BY <1>2
  <2> QED BY <1>3, <2>1
<1>5. ASSUME NEW k \in 1..Len(y) PROVE z[Len(x) + k] = y[k]
  <2>1. k \in 1..(c - b) /\ (b - a) + k \in 1..(c - a) /\ a + ((b - a) + k) = b + k
    BY <1>2, <1>3
  <2> QED BY <1>3, <2>1
<1>6. Len(z) = Len(x) + Len(y)
  BY <1>2, <1>3
<1>7. Joined(V, z, x, y)
  BY <1>3, <1>4, <1>5, <1>6 DEF Joined
<1> QED BY <1>1, <1>7, JoinedIsConcat

Agree(s, t, a, b, n) ==
  /\ a \in 0..Len(s) /\ b \in 0..Len(t) /\ n \in Nat /\ a + n <= Len(s) /\ b + n <= Len(t)
  /\ \A q \in 1..n : s[a + q] = t[b + q]
SameThere(s, t, a, b, n) == SubSeq(s, a + 1, a + n) = SubSeq(t, b + 1, b + n)

\* Parts of two sequences that agree are the same.
LEMMA SameSlices ==
  ASSUME NEW V, NEW s, NEW t, s \in Seq(V), t \in Seq(V), NEW a, NEW b, NEW n, Agree(s, t, a, b, n)
  PROVE  SameThere(s, t, a, b, n)
<1>0. /\ a \in 0..Len(s) /\ b \in 0..Len(t) /\ n \in Nat /\ a + n <= Len(s) /\ b + n <= Len(t)
      /\ \A q \in 1..n : s[a + q] = t[b + q]
  BY Zenon DEF Agree
<1>1. PICK c, d : c = a + n /\ d = b + n
  OBVIOUS
<1>2. PICK x, y : x = SubSeq(s, a + 1, c) /\ y = SubSeq(t, b + 1, d)
  OBVIOUS
<1>3. c \in a..Len(s) /\ d \in b..Len(t) /\ c - a = n /\ d - b = n
  <2>1. Len(s) \in Nat /\ Len(t) \in Nat
    BY LenProperties
  <2> QED BY <1>1, <1>0, <2>1
<1>4. x \in Seq(V) /\ Len(x) = c - a /\ \A q \in 1..(c - a) : x[q] = s[a + q]
  BY <1>0, <1>2, <1>3, SliceFacts, Zenon
<1>5. y \in Seq(V) /\ Len(y) = d - b /\ \A q \in 1..(d - b) : y[q] = t[b + q]
  BY <1>0, <1>2, <1>3, SliceFacts, Zenon
<1>6. \A q \in 1..n : x[q] = y[q]
  BY <1>0, <1>3, <1>4, <1>5
<1>7. x = y
  BY <1>3, <1>4, <1>5, <1>6, SeqEqual
<1> QED BY <1>1, <1>2, <1>7 DEF SameThere

\* Its old lines are lines i+1..l of the file.
LEMMA ChangeFits ==
  ASSUME NEW V, Source \in Seq(Seq(V)), Lines(modified) \in Seq(Seq(V)), NEW h,
         NEW i, NEW head, NEW j, NEW k, NEW l,
         Numbers(Source, Lines(modified), i, head, j, k, l), ChangeIs(h, i, head, j, k, l)
  PROVE  /\ Len(Old(h)) = l - i /\ MatchesAt(Source, i, Old(h)) /\ IsHunk(h)
         /\ i \in Nat /\ l <= Len(Source)
<1>1. PICK old, new : old = Source /\ new = Lines(modified) /\ old \in Seq(Seq(V)) /\ new \in Seq(Seq(V))
  OBVIOUS
<1>2. Len(old) \in Nat /\ Len(new) \in Nat
  BY <1>1, LenProperties
<1>3. /\ i \in Nat /\ head \in Nat /\ j \in Nat /\ k \in Nat /\ l \in Nat
      /\ i <= head /\ head <= j /\ j <= l /\ l <= Len(old) /\ head <= k /\ k <= Len(new)
  BY <1>1, Zenon DEF Numbers
<1>4. /\ i \in 0..Len(old) /\ head \in i..Len(old) /\ head \in 0..Len(old) /\ j \in head..Len(old)
      /\ j \in i..Len(old) /\ j \in 0..Len(old) /\ l \in j..Len(old) /\ l \in i..Len(old)
      /\ head \in 0..Len(new) /\ k \in head..Len(new)
  BY <1>2, <1>3
<1>5. PICK o1, o2, n3, o4 :
        /\ o1 = SubSeq(old, i + 1, head) /\ o2 = SubSeq(old, head + 1, j)
        /\ n3 = SubSeq(new, head + 1, k) /\ o4 = SubSeq(old, j + 1, l)
  OBVIOUS
<1>6. o1 \in Seq(Seq(V)) /\ o2 \in Seq(Seq(V)) /\ n3 \in Seq(Seq(V)) /\ o4 \in Seq(Seq(V))
  BY <1>1, <1>4, <1>5, SliceFacts, Zenon
<1>7. OneChange(h, o1, o2, n3, o4)
  BY <1>1, <1>5, Zenon DEF ChangeIs
<1>8. h.lines \in HunkLines(V) /\ Old(h) = (Bares(o1) \o Bares(o2)) \o Bares(o4)
  BY <1>6, <1>7, OldOfChange
<1>9. PICK s : s = SubSeq(old, i + 1, l)
  OBVIOUS
<1>10. s \in Seq(Seq(V)) /\ Len(s) = l - i /\ \A q \in 1..(l - i) : s[q] = old[i + q]
  BY <1>1, <1>4, <1>9, SliceFacts, ZenonT(30)
<1>11. Old(h) = Bares(s)
  <2>1. o1 \o o2 = SubSeq(old, i + 1, j)
    BY <1>1, <1>4, <1>5, JoinedSlices, Zenon
  <2>2. SubSeq(old, i + 1, j) \o o4 = s
    BY <1>1, <1>4, <1>5, <1>9, JoinedSlices, Zenon
  <2>3. o1 \o o2 \in Seq(Seq(V))
    BY <1>6
  <2>4. Bares(o1 \o o2) = Bares(o1) \o Bares(o2)
    BY <1>6, BaresOfConcat
  <2>5. Bares((o1 \o o2) \o o4) = Bares(o1 \o o2) \o Bares(o4)
    BY <1>6, <2>3, BaresOfConcat
  <2> QED BY <1>8, <2>1, <2>2, <2>4, <2>5, Zenon
<1>12. Bares(s) \in Seq(Seq(V)) /\ Len(Bares(s)) = l - i /\ \A q \in 1..(l - i) : Bares(s)[q] = Bare(old[i + q])
  <2>1. Bares(s) \in Seq(Seq(V)) /\ Len(Bares(s)) = Len(s) /\ \A q \in 1..Len(s) : Bares(s)[q] = Bare(s[q])
    BY <1>10, BaresType, Zenon
  <2> QED BY <1>10, <2>1
<1>13. MatchesAt(old, i, Bares(s))
  <2>1. DOMAIN Bares(s) = 1..(l - i)
    BY <1>12, LenProperties
  <2>2. i + (l - i) <= Len(old)
    BY <1>3
  <2> QED BY <1>12, <2>1, <2>2 DEF MatchesAt
<1>14. IsHunk(h)
  <2>1. h.start \in Int
    BY <1>3 DEF ChangeIs
  <2>2. IsSeq(h.lines)
    BY <1>8 DEF HunkLines, IsSeq
  <2> QED BY <2>1, <2>2 DEF IsHunk
<1> QED BY <1>1, <1>3, <1>11, <1>12, <1>13, <1>14

\* Added lines are those of the text, except that a last one is given a line end.
LEMMA AddedLine ==
  ASSUME NEW V, OneEnd(V), NEW l, IsLine(V, l)
  PROVE  /\ Closed(l) => Append(Bare(l), NewlineOf(original)) = l
         /\ ~Closed(l) => Bare(l) = l
<1>1. l \in Seq(V) /\ l # << >> /\ V \cap LineEnds = {NewlineOf(original)}
  BY DEF IsLine, OneEnd
<1>2. Last(l) \in V /\ l = Append(Front(l), Last(l))
  BY <1>1, FrontAndLast
<1>3. Closed(l) <=> Last(l) \in LineEnds
  BY DEF Closed, Last
<1>4. CASE Closed(l)
  <2>1. Last(l) = NewlineOf(original)
    BY <1>1, <1>2, <1>3, <1>4
  <2>2. Bare(l) = Front(l)
    BY <1>1, <1>3, <1>4 DEF Bare
  <2> QED BY <1>2, <1>4, <2>1, <2>2
<1>5. CASE ~Closed(l)
  BY <1>3, <1>5 DEF Bare
<1> QED BY <1>4, <1>5

\* A text's lines, added: the same, but for a last one without a line end.
LEMMA AddedLines ==
  ASSUME NEW V, OneEnd(V), NEW s, Split(V, s)
  PROVE  /\ AllClosed(s) => Added(s) = s
         /\ ~AllClosed(s) => FlattenSeq(Added(s)) = Append(FlattenSeq(s), NewlineOf(original))
<1>1. PICK ad, n, nl : ad = Added(s) /\ n = Len(s) /\ nl = NewlineOf(original)
  OBVIOUS
<1>2. /\ s \in Seq(Seq(V)) /\ n \in Nat /\ nl \in V
      /\ \A k \in 1..n : IsLine(V, s[k]) /\ (k < n => Closed(s[k]))
  BY <1>1, LenProperties DEF Split, OneEnd
<1>3. ad \in Seq(Seq(V)) /\ Len(ad) = n /\ \A k \in 1..n : ad[k] = Append(Bare(s[k]), nl)
  BY <1>1, <1>2, AddedType
<1>4. \A k \in 1..n : Closed(s[k]) => ad[k] = s[k]
  BY <1>1, <1>2, <1>3, AddedLine
<1>5. CASE AllClosed(s)
  <2>1. \A k \in 1..n : ad[k] = s[k]
    BY <1>1, <1>4, <1>5 DEF AllClosed
  <2> QED BY <1>1, <1>2, <1>3, <1>5, <2>1, SeqEqual
<1>6. CASE ~AllClosed(s)
  <2>1. n \in 1..n /\ ~Closed(s[n])
    BY <1>1, <1>2, <1>6 DEF AllClosed
  <2>2. PICK f, l : f = Front(s) /\ l = Last(s)
    OBVIOUS
  <2>3. s # << >>
    BY <1>1, <1>2, <2>1
  <2>4. /\ f \in Seq(Seq(V)) /\ l \in Seq(V) /\ s = Append(f, l) /\ Len(f) = n - 1
        /\ \A k \in 1..(n - 1) : f[k] = s[k]
    BY <1>1, <1>2, <2>2, <2>3, FrontAndLast, Zenon
  <2>5. l = s[n]
    BY <1>1, <2>2 DEF Last
  <2>6. ad[n] = Append(l, nl) /\ Append(l, nl) \in Seq(V)
    <3>1. Bare(s[n]) = s[n]
      BY <1>2, <2>1, AddedLine
    <3>2. Append(l, nl) \in Seq(V)
      BY <1>2, <2>4, AppendFacts
    <3> QED BY <1>3, <2>1, <2>5, <3>1, <3>2
  <2>7. PICK m, b : m = Append(l, nl) /\ b = Append(f, m)
    OBVIOUS
  <2>8. m \in Seq(V)
    BY <2>6, <2>7
  <2>9. b \in Seq(Seq(V)) /\ Len(b) = (n - 1) + 1 /\ b[(n - 1) + 1] = m /\ \A k \in 1..(n - 1) : b[k] = f[k]
    <3>1. b \in Seq(Seq(V)) /\ Len(b) = Len(f) + 1 /\ b[Len(f) + 1] = m /\ \A k \in 1..Len(f) : b[k] = f[k]
      BY <2>4, <2>7, <2>8, AppendFacts
    <3> QED BY <2>4, <3>1
  <2>10. \A k \in 1..n : ad[k] = b[k]
    <3>1. ASSUME NEW k \in 1..n PROVE ad[k] = b[k]
      <4>1. CASE k \in 1..(n - 1)
        <5>1. k < n /\ k \in 1..n
          BY <1>2, <4>1
        <5>2. Closed(s[k])
          BY <1>2, <5>1
        <5>3. ad[k] = s[k] /\ f[k] = s[k] /\ b[k] = f[k]
          BY <1>4, <2>4, <2>9, <4>1, <5>1, <5>2, Zenon
        <5> QED BY <5>3
      <4>2. CASE k = n
        <5>1. (n - 1) + 1 = n
          BY <1>2
        <5> QED BY <2>6, <2>7, <2>9, <4>2, <5>1
      <4> QED BY <1>2, <4>1, <4>2
    <3> QED BY <3>1
  <2>11. ad = b
    <3>1. Len(b) = n
      BY <1>2, <2>9
    <3> QED BY <1>3, <2>9, <2>10, <3>1, SeqEqual
  <2>12. FlattenSeq(b) = FlattenSeq(f) \o m /\ FlattenSeq(s) = FlattenSeq(f) \o l /\ FlattenSeq(f) \in Seq(V)
    BY <2>4, <2>7, <2>8, FlattenAppend, FlattenType
  <2>13. \A x \in Seq(V), y \in Seq(V) : x \o Append(y, nl) = Append(x \o y, nl)
    BY <1>2
  <2>14. FlattenSeq(ad) = Append(FlattenSeq(s), nl)
    BY <2>4, <2>7, <2>11, <2>12, <2>13, Zenon
  <2> QED BY <1>1, <1>6, <2>14
<1> QED BY <1>5, <1>6

Regrouped(x, a, b, c, y) == (x \o ((a \o b) \o c)) \o y = ((x \o a) \o b) \o (c \o y)

\* Joining five sequences, grouped in two ways.
LEMMA Regroup ==
  ASSUME NEW W, NEW x \in Seq(W), NEW a \in Seq(W), NEW b \in Seq(W), NEW c \in Seq(W), NEW y \in Seq(W)
  PROVE  Regrouped(x, a, b, c, y)
<1> DEFINE Cat(p, q) == p \o q
<1>1. \A p \in Seq(W), q \in Seq(W) : Cat(p, q) \in Seq(W)
  OBVIOUS
<1>2. ASSUME NEW p \in Seq(W), NEW q \in Seq(W), NEW r \in Seq(W)
      PROVE  Cat(Cat(p, q), r) = Cat(p, Cat(q, r))
  BY SMTT(30)
<1> HIDE DEF Cat
<1>3. Cat(Cat(x, Cat(Cat(a, b), c)), y) = Cat(x, Cat(Cat(Cat(a, b), c), y))
  <2>1. Cat(Cat(a, b), c) \in Seq(W)
    BY <1>1
  <2> QED BY <1>2, <2>1
<1>4. Cat(Cat(Cat(a, b), c), y) = Cat(Cat(a, b), Cat(c, y))
  BY <1>1, <1>2
<1>5. Cat(x, Cat(Cat(a, b), Cat(c, y))) = Cat(Cat(x, Cat(a, b)), Cat(c, y))
  <2>1. Cat(a, b) \in Seq(W) /\ Cat(c, y) \in Seq(W)
    BY <1>1
  <2> QED BY <1>2, <2>1
<1>6. Cat(x, Cat(a, b)) = Cat(Cat(x, a), b)
  BY <1>2
<1>7. Cat(Cat(x, Cat(Cat(a, b), c)), y) = Cat(Cat(Cat(x, a), b), Cat(c, y))
  BY <1>3, <1>4, <1>5, <1>6
<1> QED BY <1>7, Zenon DEF Cat, Regrouped

IsSlice(a, s, m, n) == m \in 0..Len(s) /\ n \in m..Len(s) /\ a = SubSeq(s, m + 1, n)
SliceHas(V, a, s, m, n) == a \in Seq(V) /\ Len(a) = n - m /\ \A k \in 1..(n - m) : a[k] = s[m + k]

\* A part of a sequence, as a fact about a name for it.
LEMMA SliceOf ==
  ASSUME NEW V, NEW s, s \in Seq(V), NEW m, NEW n, NEW a, IsSlice(a, s, m, n)
  PROVE  SliceHas(V, a, s, m, n)
<1>1. m \in 0..Len(s) /\ n \in m..Len(s) /\ a = SubSeq(s, m + 1, n)
  BY DEF IsSlice
<1> QED BY <1>1, SliceFacts DEF SliceHas

Inside(V, h, p, o1, o2, n3, o4) ==
  /\ o1 \in Seq(Seq(V)) /\ o2 \in Seq(Seq(V)) /\ n3 \in Seq(Seq(V)) /\ o4 \in Seq(Seq(V))
  /\ OneChange(h, o1, o2, n3, o4) /\ NewlineOf(original) \in V /\ p \in Int
  /\ InFile(o1, p) /\ InFile(o4, p + (Len(o1) + Len(o2)))
Emits(h, p, o1, n3, o4) == Emitted(h, p) = (o1 \o Added(n3)) \o o4

\* EmittedOfChange, with its conditions under one name.
LEMMA EmittedIs ==
  ASSUME NEW V, NEW h, NEW p, NEW o1, NEW o2, NEW n3, NEW o4, Inside(V, h, p, o1, o2, n3, o4)
  PROVE  Emits(h, p, o1, n3, o4)
<1>1. /\ o1 \in Seq(Seq(V)) /\ o2 \in Seq(Seq(V)) /\ n3 \in Seq(Seq(V)) /\ o4 \in Seq(Seq(V))
      /\ OneChange(h, o1, o2, n3, o4) /\ NewlineOf(original) \in V /\ p \in Int
      /\ InFile(o1, p) /\ InFile(o4, p + (Len(o1) + Len(o2)))
  BY Zenon DEF Inside
<1>2. Emitted(h, p) = (o1 \o Added(n3)) \o o4
  BY <1>1, EmittedOfChange
<1> QED BY <1>2, Zenon DEF Emits

\* The change spliced in: the lines of the new text, the added ones as they are added.
LEMMA ChangeSpliced ==
  ASSUME NEW V, OneEnd(V), Source \in Seq(Seq(V)), Lines(modified) \in Seq(Seq(V)), NEW h,
         NEW i, NEW head, NEW j, NEW k, NEW l,
         Numbers(Source, Lines(modified), i, head, j, k, l), ChangeIs(h, i, head, j, k, l),
         hunks = <<h>>, at = <<i>>
  PROVE  Spliced = (SubSeq(Lines(modified), 1, head) \o Added(SubSeq(Lines(modified), head + 1, k)))
                     \o SubSeq(Lines(modified), k + 1, Len(Lines(modified)))
<1>1. PICK old, new, m, n :
        /\ old = Source /\ new = Lines(modified) /\ m = Len(old) /\ n = Len(new)
        /\ old \in Seq(Seq(V)) /\ new \in Seq(Seq(V))
  OBVIOUS
<1>2. m \in Nat /\ n \in Nat
  BY <1>1, LenProperties
<1>3. /\ i \in Nat /\ head \in Nat /\ j \in Nat /\ k \in Nat /\ l \in Nat
      /\ i <= head /\ head <= j /\ j <= l /\ l <= m /\ head <= k /\ k <= n /\ m - j = n - k
      /\ \A q \in 1..head : old[q] = new[q]
      /\ \A q \in 1..(m - j) : old[j + q] = new[k + q]
  BY <1>1, Zenon DEF Numbers
<1>4. /\ 0 \in 0..Len(old) /\ i \in 0..Len(old) /\ head \in i..Len(old) /\ head \in 0..Len(old)
      /\ j \in head..Len(old) /\ j \in 0..Len(old) /\ l \in j..Len(old) /\ l \in 0..Len(old) /\ m \in l..Len(old)
      /\ head \in 0..Len(new) /\ k \in head..Len(new) /\ k \in 0..Len(new) /\ n \in k..Len(new)
  BY <1>1, <1>2, <1>3
<1>5. PICK o1, o2, n3, o4, x, y :
        /\ o1 = SubSeq(old, i + 1, head) /\ o2 = SubSeq(old, head + 1, j)
        /\ n3 = SubSeq(new, head + 1, k) /\ o4 = SubSeq(old, j + 1, l)
        /\ x = SubSeq(old, 0 + 1, i) /\ y = SubSeq(old, l + 1, m)
  OBVIOUS
<1>6. /\ o1 \in Seq(Seq(V)) /\ Len(o1) = head - i /\ \A q \in 1..(head - i) : o1[q] = old[i + q]
      /\ o2 \in Seq(Seq(V)) /\ Len(o2) = j - head
      /\ n3 \in Seq(Seq(V))
      /\ o4 \in Seq(Seq(V)) /\ Len(o4) = l - j /\ \A q \in 1..(l - j) : o4[q] = old[j + q]
      /\ x \in Seq(Seq(V)) /\ y \in Seq(Seq(V))
  <2>1. o1 \in Seq(Seq(V)) /\ Len(o1) = head - i /\ \A q \in 1..(head - i) : o1[q] = old[i + q]
    <3>1. IsSlice(o1, old, i, head)
      BY <1>4, <1>5, Zenon DEF IsSlice
    <3>2. SliceHas(Seq(V), o1, old, i, head)
      BY <1>1, <3>1, SliceOf, Zenon
    <3> QED BY <3>2, Zenon DEF SliceHas
  <2>2. o2 \in Seq(Seq(V)) /\ Len(o2) = j - head /\ n3 \in Seq(Seq(V))
    <3>1. IsSlice(o2, old, head, j) /\ IsSlice(n3, new, head, k)
      BY <1>4, <1>5, Zenon DEF IsSlice
    <3>2. SliceHas(Seq(V), o2, old, head, j) /\ SliceHas(Seq(V), n3, new, head, k)
      BY <1>1, <3>1, SliceOf, Zenon
    <3> QED BY <3>2, Zenon DEF SliceHas
  <2>3. o4 \in Seq(Seq(V)) /\ Len(o4) = l - j /\ \A q \in 1..(l - j) : o4[q] = old[j + q]
    <3>1. IsSlice(o4, old, j, l)
      BY <1>4, <1>5, Zenon DEF IsSlice
    <3>2. SliceHas(Seq(V), o4, old, j, l)
      BY <1>1, <3>1, SliceOf, Zenon
    <3> QED BY <3>2, Zenon DEF SliceHas
  <2>4. x \in Seq(Seq(V)) /\ y \in Seq(Seq(V))
    <3>1. i \in 0..Len(old)
      BY <1>4
    <3> QED BY <1>1, <1>4, <1>5, <3>1, SliceFacts, Zenon
  <2> QED BY <2>1, <2>2, <2>3, <2>4, Zenon
<1>7. OneChange(h, o1, o2, n3, o4)
  BY <1>1, <1>5, Zenon DEF ChangeIs
<1>8. Emitted(h, i) = (o1 \o Added(n3)) \o o4
  <2>1. NewlineOf(original) \in V /\ i \in Int
    BY <1>3 DEF OneEnd
  <2>2. InFile(o1, i)
    BY <1>1, <1>6, Zenon DEF InFile
  <2>3. i + (Len(o1) + Len(o2)) = j
    <3>1. i + ((head - i) + (j - head)) = j
      BY <1>3
    <3> QED BY <1>6, <3>1, Zenon
  <2>4. InFile(o4, i + (Len(o1) + Len(o2)))
    BY <1>1, <1>6, <2>3, Zenon DEF InFile
  <2>5. o1 \in Seq(Seq(V)) /\ o2 \in Seq(Seq(V)) /\ n3 \in Seq(Seq(V)) /\ o4 \in Seq(Seq(V))
    BY <1>6, Zenon
  <2>6. Inside(V, h, i, o1, o2, n3, o4)
    BY <1>7, <2>1, <2>2, <2>4, <2>5, Zenon DEF Inside
  <2>7. Emits(h, i, o1, n3, o4)
    BY <2>6, EmittedIs, Zenon
  <2> QED BY <2>7, Zenon DEF Emits
<1>9. Len(Old(h)) = l - i
  BY ChangeFits
<1>10. Spliced = Splice(1, Source)
  <2>1. Len(hunks) = 1 /\ Len(hunks) \in Nat
    OBVIOUS
  <2>2. SplicedFrom[0] = Source /\ \A c \in 1..Len(hunks) : SplicedFrom[c] = Splice(Len(hunks) + 1 - c, SplicedFrom[c - 1])
    BY <2>1, SplicedFromRecursion
  <2>3. 1 \in 1..Len(hunks) /\ Len(hunks) + 1 - 1 = 1 /\ 1 - 1 = 0
    BY <2>1
  <2>4. SplicedFrom[1] = Splice(1, Source)
    BY <2>2, <2>3
  <2> QED BY <2>1, <2>4 DEF Spliced
<1>11. Splice(1, Source) = (x \o Emitted(h, i)) \o y
  <2>1. hunks[1] = h /\ at[1] = i
    OBVIOUS
  <2>2. Upto(i) = i
    <3>1. i <= Len(Source)
      BY <1>1, <1>3
    <3> QED BY <1>1, <1>2, <1>3, <3>1 DEF Upto
  <2>3. i + Len(Old(h)) + 1 = l + 1 /\ 0 + 1 = 1
    BY <1>3, <1>9
  <2>4. Splice(1, Source) = (SubSeq(Source, 1, i) \o Emitted(h, i)) \o SubSeq(Source, i + Len(Old(h)) + 1, Len(Source))
    BY <2>1, <2>2, Zenon DEF Splice
  <2> QED BY <1>1, <1>5, <2>3, <2>4, Zenon
<1>12. PICK ad : ad = Added(n3)
  OBVIOUS
<1>13. ad \in Seq(Seq(V))
  BY <1>6, <1>12, AddedType DEF OneEnd
<1>14. Spliced = ((x \o o1) \o ad) \o (o4 \o y)
  <2>1. (x \o ((o1 \o ad) \o o4)) \o y = ((x \o o1) \o ad) \o (o4 \o y)
    <3>1. PICK W : W = Seq(V) /\ x \in Seq(W) /\ o1 \in Seq(W) /\ ad \in Seq(W) /\ o4 \in Seq(W) /\ y \in Seq(W)
      BY <1>6, <1>13
    <3>2. Regrouped(x, o1, ad, o4, y)
      BY <3>1, Regroup, Zenon
    <3> QED BY <3>2, Zenon DEF Regrouped
  <2> QED BY <1>8, <1>10, <1>11, <1>12, <2>1, Zenon
<1>15. x \o o1 = SubSeq(old, 0 + 1, head) /\ o4 \o y = SubSeq(old, j + 1, m)
  BY <1>1, <1>4, <1>5, JoinedSlices, Zenon
<1>16. SubSeq(old, 0 + 1, 0 + head) = SubSeq(new, 0 + 1, 0 + head)
  <2>1. \A q \in 1..head : old[0 + q] = new[0 + q]
    BY <1>3
  <2>2. 0 \in 0..Len(old) /\ 0 \in 0..Len(new) /\ 0 + head <= Len(old) /\ 0 + head <= Len(new)
    BY <1>1, <1>2, <1>3
  <2>3. Agree(old, new, 0, 0, head)
    BY <1>3, <2>1, <2>2 DEF Agree
  <2>4. SameThere(old, new, 0, 0, head)
    BY <1>1, <2>3, SameSlices, Zenon
  <2> QED BY <2>4, Zenon DEF SameThere
<1>17. SubSeq(old, j + 1, j + (m - j)) = SubSeq(new, k + 1, k + (m - j))
  <2>1. m - j \in Nat /\ j + (m - j) <= Len(old) /\ k + (m - j) <= Len(new)
    BY <1>1, <1>2, <1>3
  <2>2. PICK c \in Nat : c = m - j
    BY <2>1
  <2>3. j \in 0..Len(old) /\ k \in 0..Len(new) /\ j + c <= Len(old) /\ k + c <= Len(new)
          /\ \A q \in 1..c : old[j + q] = new[k + q]
    BY <1>3, <1>4, <2>1, <2>2
  <2>4. SubSeq(old, j + 1, j + c) = SubSeq(new, k + 1, k + c)
    <3>1. Agree(old, new, j, k, c)
      BY <2>3, Zenon DEF Agree
    <3>2. SameThere(old, new, j, k, c)
      BY <1>1, <3>1, SameSlices, Zenon
    <3> QED BY <3>2, Zenon DEF SameThere
  <2> QED BY <2>2, <2>4
<1>18. j + (m - j) = m /\ k + (m - j) = n /\ 0 + head = head /\ 0 + 1 = 1
  BY <1>2, <1>3
<1>19. x \o o1 = SubSeq(new, 1, head) /\ o4 \o y = SubSeq(new, k + 1, n)
  BY <1>15, <1>16, <1>17, <1>18, Zenon
<1> QED BY <1>1, <1>5, <1>12, <1>14, <1>19, Zenon

\* The patched text is the edited one, a last line ended if it was not.
LEMMA ChangeArrives ==
  ASSUME NEW V, OneEnd(V), NEW h, NEW i, NEW head, NEW j, NEW k, NEW l,
         Numbers(Source, Lines(modified), i, head, j, k, l), ChangeIs(h, i, head, j, k, l),
         hunks = <<h>>, at = <<i>>, patched = FlattenSeq(Spliced)
  PROVE  Arrived
<1>1. PICK new, n : new = Lines(modified) /\ n = Len(new)
  OBVIOUS
<1>2. /\ original \in Seq(V) /\ modified \in Seq(V) /\ NewlineOf(original) \in V
      /\ Split(V, new) /\ FlattenSeq(new) = modified /\ new \in Seq(Seq(V)) /\ n \in Nat
      /\ Source \in Seq(Seq(V))
  BY <1>1, LinesSplit, LenProperties DEF OneEnd, Split, Source
<1>3. head \in Nat /\ k \in Nat /\ head <= k /\ k <= n
  BY <1>1, Zenon DEF Numbers
<1>4. 0 \in 0..Len(new) /\ head \in 0..Len(new) /\ k \in head..Len(new) /\ n \in k..Len(new) /\ k \in 0..Len(new)
        /\ n \in head..Len(new)
  BY <1>1, <1>2, <1>3
<1>5. PICK a, n3, c : a = SubSeq(new, 0 + 1, head) /\ n3 = SubSeq(new, head + 1, k) /\ c = SubSeq(new, k + 1, n)
  OBVIOUS
<1>6. a \in Seq(Seq(V)) /\ n3 \in Seq(Seq(V)) /\ c \in Seq(Seq(V))
  BY <1>2, <1>4, <1>5, SliceFacts, Zenon
<1>7. Spliced = (a \o Added(n3)) \o c
  <2>1. 0 + 1 = 1
    OBVIOUS
  <2>2. Lines(modified) \in Seq(Seq(V))
    BY <1>1, <1>2
  <2>3. Spliced = (SubSeq(Lines(modified), 1, head) \o Added(SubSeq(Lines(modified), head + 1, k)))
                     \o SubSeq(Lines(modified), k + 1, Len(Lines(modified)))
    BY <1>2, <2>2, ChangeSpliced
  <2> QED BY <1>1, <1>5, <2>1, <2>3, Zenon
<1>8. (a \o n3) \o c = new
  <2>1. a \o n3 = SubSeq(new, 0 + 1, k)
    BY <1>2, <1>4, <1>5, JoinedSlices, Zenon
  <2>2. SubSeq(new, 0 + 1, k) \o c = SubSeq(new, 0 + 1, n)
    BY <1>2, <1>4, <1>5, JoinedSlices, Zenon
  <2>3. SubSeq(new, 0 + 1, n) = new
    BY <1>1, <1>2, SubSeqFull
  <2> QED BY <2>1, <2>2, <2>3, Zenon
<1>9. Split(V, n3) /\ (k < n \/ AllClosed(new) => AllClosed(n3))
  BY <1>1, <1>2, <1>4, <1>5, SplitSlice
<1>10. CASE AllClosed(n3)
  <2>1. Added(n3) = n3
    BY <1>9, <1>10, AddedLines
  <2>2. patched = modified
    BY <1>2, <1>7, <1>8, <2>1, Zenon
  <2> QED BY <2>2 DEF Arrived
<1>11. CASE ~AllClosed(n3)
  <2>1. PICK ad, nl : ad = Added(n3) /\ nl = NewlineOf(original)
    OBVIOUS
  <2>2. FlattenSeq(ad) = Append(FlattenSeq(n3), nl) /\ ad \in Seq(Seq(V))
    BY <1>2, <1>6, <1>9, <1>11, <2>1, AddedLines, AddedType
  <2>3. c = << >>
    <3>1. k = n
      BY <1>3, <1>2, <1>9, <1>11
    <3> QED BY <1>2, <1>4, <1>5, <3>1, EmptySlice
  <2>4. Spliced = a \o ad /\ new = a \o n3
    <3>1. a \o ad \in Seq(Seq(V)) /\ a \o n3 \in Seq(Seq(V))
      BY <1>6, <2>2
    <3>2. (a \o ad) \o << >> = a \o ad /\ (a \o n3) \o << >> = a \o n3
      BY <3>1, ConcatEmptySeq
    <3> QED BY <1>7, <1>8, <2>1, <2>3, <3>2, Zenon
  <2>5. FlattenSeq(a \o ad) = FlattenSeq(a) \o FlattenSeq(ad) /\ FlattenSeq(a \o n3) = FlattenSeq(a) \o FlattenSeq(n3)
          /\ FlattenSeq(a) \in Seq(V) /\ FlattenSeq(n3) \in Seq(V)
    BY <1>6, <2>2, FlattenConcat, FlattenType
  <2>6. \A p \in Seq(V), q \in Seq(V) : p \o Append(q, nl) = Append(p \o q, nl)
    BY <1>2, <2>1
  <2>7. patched = Append(modified, nl)
    BY <1>2, <2>2, <2>4, <2>5, <2>6, ZenonT(30)
  <2>8. ~Terminated(modified)
    BY <1>1, <1>2, <1>9, <1>11, ClosedText
  <2> QED BY <2>1, <2>7, <2>8 DEF Arrived
<1> QED BY <1>10, <1>11

----------------------------------------------------------------------------

\* An edited diff is one hunk, what is refused has a hunk too many, and the
\* edits leave one kind of line end in a file that has one.
OneHunk == edits # << >> /\ hunks # << >> => hunks = <<TheHunk>>
NoneBefore == phase = "edit" => hunks = << >>
LastRefused == phase = "done" /\ hunks # << >> /\ outcome # "applied" => Len(hunks) > Len(at)
OneNewline ==
  Uniform(original) =>
    \/ modified \in Seq(Words \cup {LF})
    \/ Contains(original, CRLF) /\ modified \in Seq(Words \cup {CRLF})
RoundInv == OneHunk /\ NoneBefore /\ LastRefused /\ OneNewline

\* A text without one of the line ends, and the other way round.
LEMMA Without ==
  ASSUME NEW text \in Seq(Symbols), NEW e \in LineEnds, NEW d \in LineEnds, e # d, ~Contains(text, d)
  PROVE  text \in Seq(Words \cup {e})
<1>1. Len(text) \in Nat /\ DOMAIN text = 1..Len(text) /\ \A k \in 1..Len(text) : text[k] \in Symbols
  BY LenProperties
<1>2. \A k \in 1..Len(text) : text[k] # d
  BY DEF Contains
<1>3. \A k \in 1..Len(text) : text[k] \in Words \cup {e}
  BY <1>1, <1>2 DEF Symbols, LineEnds
<1> QED BY <1>1, <1>3, SeqOfRange

LEMMA Absent ==
  ASSUME NEW e, NEW d \in LineEnds, e # d, NEW text \in Seq(Words \cup {e})
  PROVE  ~Contains(text, d)
<1>1. d \notin Words
  BY TextAssumption
<1>2. \A k \in 1..Len(text) : text[k] \in Words \cup {e}
  OBVIOUS
<1> QED BY <1>1, <1>2 DEF Contains

\* Replacements bring in no other line end than the one the text has.
LEMMA WithOneNewline ==
  ASSUME NEW text \in Seq(Symbols), NEW of
  PROVE  WithNewlines(text, of) \in Seq(Words \cup {NewlineOf(of)})
<1>1. Len(text) \in Nat /\ DOMAIN text = 1..Len(text) /\ \A k \in 1..Len(text) : text[k] \in Symbols
  BY LenProperties
<1>2. PICK nl, t : nl = NewlineOf(of) /\ t = WithNewlines(text, of)
  OBVIOUS
<1>3. \A k \in 1..Len(text) : (IF text[k] \in LineEnds THEN nl ELSE text[k]) \in Words \cup {nl}
  BY <1>1 DEF Symbols
<1>4. t = [k \in 1..Len(text) |-> IF text[k] \in LineEnds THEN nl ELSE text[k]]
  BY <1>1, <1>2 DEF WithNewlines
<1>5. t \in Seq(Words \cup {nl})
  BY <1>1, <1>3, <1>4
<1> QED BY <1>2, <1>5

LEMMA ReplacedKeeps ==
  ASSUME NEW V, NEW text \in Seq(V), NEW old, NEW new \in Seq(V), Len(old) \in Nat,
         NEW k \in Occurrences(text, old)
  PROVE  Replaced(text, k, old, new) \in Seq(V)
<1>1. k \in 1..Len(text) /\ k + Len(old) <= Len(text) + 1
  BY DEF Occurrences
<1>2. SubSeq(text, 1, k - 1) \in Seq(V) /\ SubSeq(text, k + Len(old), Len(text)) \in Seq(V)
  BY <1>1
<1> QED BY <1>2 DEF Replaced

\* An edit leaves at most one kind of line end, unless the last CRLF was edited
\* away before: then it is LF from there on.
LEMMA EditKeepsNewline ==
  ASSUME EditInv, OneNewline, NEW old \in OldTexts, NEW new \in NewTexts, Edit(old, new)
  PROVE  OneNewline'
<1>1. old \in Seq(Symbols) /\ new \in Seq(Symbols)
  BY EditAssumption
<1>2. PICK o, n, nl : o = WithNewlines(old, modified) /\ n = WithNewlines(new, modified) /\ nl = NewlineOf(modified)
  OBVIOUS
<1>3. n \in Seq(Words \cup {nl}) /\ Len(o) \in Nat
  BY <1>1, <1>2, WithOneNewline, WithNewlinesType, LenProperties
<1>4. PICK k \in Occurrences(modified, o) : modified' = Replaced(modified, k, o, n)
  BY <1>2 DEF Edit
<1>5. original' = original
  BY DEF Edit, engine
<1>6. CASE modified \in Seq(Words \cup {LF})
  <2>1. ~Contains(modified, CRLF)
    BY <1>6, Absent, TextAssumption DEF LineEnds
  <2>2. nl = LF
    BY <1>2, <2>1 DEF NewlineOf
  <2>3. modified' \in Seq(Words \cup {LF})
    BY <1>3, <1>4, <1>6, <2>2, ReplacedKeeps
  <2> QED BY <2>3 DEF OneNewline
<1>7. CASE Contains(original, CRLF) /\ modified \in Seq(Words \cup {CRLF}) /\ modified \notin Seq(Words \cup {LF})
  <2>1. modified \in Seq(Symbols)
    BY DEF EditInv, TextInv
  <2>2. Contains(modified, CRLF)
    BY <1>7, <2>1, Without, TextAssumption DEF LineEnds
  <2>3. nl = CRLF
    BY <1>2, <2>2 DEF NewlineOf
  <2>4. modified' \in Seq(Words \cup {CRLF})
    BY <1>3, <1>4, <1>7, <2>3, ReplacedKeeps
  <2> QED BY <1>5, <1>7, <2>4 DEF OneNewline
<1> QED BY <1>5, <1>6, <1>7 DEF OneNewline

\* RoundInv holds initially and after every step.
LEMMA InitRoundInv ==
  ASSUME Init
  PROVE  RoundInv
<1>1. hunks = << >> /\ modified = original /\ original \in Seq(Symbols)
  BY EditAssumption DEF Init, MatcherInit
<1>2. CASE Contains(original, CRLF) /\ ~Contains(original, LF)
  <2>1. original \in Seq(Words \cup {CRLF})
    BY <1>1, <1>2, Without, TextAssumption DEF LineEnds
  <2> QED BY <1>1, <1>2, <2>1 DEF RoundInv, OneHunk, NoneBefore, LastRefused, OneNewline
<1>3. CASE ~Contains(original, CRLF)
  <2>1. original \in Seq(Words \cup {LF})
    BY <1>1, <1>3, Without, TextAssumption DEF LineEnds
  <2> QED BY <1>1, <2>1 DEF RoundInv, OneHunk, NoneBefore, LastRefused, OneNewline
<1> QED BY <1>1, <1>2, <1>3 DEF RoundInv, OneHunk, NoneBefore, LastRefused, OneNewline, Uniform

\* A step that leaves both texts leaves their line ends, and the hunk they make.
LEMMA SameTexts ==
  ASSUME OneNewline, UNCHANGED <<original, modified>>
  PROVE  OneNewline' /\ TheHunk' = TheHunk
  BY DEF OneNewline, TheHunk, Source

LEMMA RefusedRound ==
  ASSUME RoundInv, hunks = << >>, UNCHANGED <<hunks, modified, edits>>, NEW kind, Refused(kind)
  PROVE  RoundInv'
<1>1. OneNewline'
  BY SameTexts DEF RoundInv, Refused
<1> QED BY <1>1 DEF RoundInv, OneHunk, NoneBefore, LastRefused, Refused

LEMMA MatchRound ==
  ASSUME EditInv, RoundInv, Match
  PROVE  RoundInv'
<1>1. phase = "matching" /\ UNCHANGED <<original, modified, edits>> /\ EngineInv
  BY MatchKeepsEngine DEF Match, EditInv
<1>2. OneNewline' /\ TheHunk' = TheHunk /\ OneHunk
  BY <1>1, SameTexts DEF RoundInv
<1>3. ASSUME NEW h \in Upcoming, NextHunk(h) PROVE RoundInv'
  <2>1. hunks' = Append(hunks, h)
    BY <1>3 DEF NextHunk, Mismatch, Overlap, Place
  <2>2. OneHunk'
    <3>1. ASSUME edits # << >> PROVE hunks' = <<TheHunk>>
      <4>1. hunks = << >> /\ h = TheHunk
        BY <3>1 DEF Upcoming, TheHunk
      <4> QED BY <2>1, <4>1
    <3> QED BY <1>1, <1>2, <3>1 DEF OneHunk
  <2>3. CASE Mismatch(h) \/ Overlap(h)
    <3>1. Len(hunks') = Len(hunks) + 1 /\ Len(hunks) \in Nat /\ Len(at) = Len(hunks) /\ at' = at
      <4>1. Shape
        BY <1>1 DEF EngineInv
      <4>2. at' = at
        BY <2>3 DEF Mismatch, Overlap, Refused
      <4> QED BY <1>1, <2>1, <4>1, <4>2, AppendedHunk DEF Shape
    <3>2. phase' = "done"
      BY <2>3 DEF Mismatch, Overlap, Refused
    <3> QED BY <1>2, <2>2, <3>1, <3>2 DEF RoundInv, NoneBefore, LastRefused
  <2>4. CASE Place(h)
    <3>1. phase' = "matching"
      BY <1>1, <2>4 DEF Place
    <3> QED BY <1>2, <2>2, <3>1 DEF RoundInv, NoneBefore, LastRefused
  <2> QED BY <1>3, <2>3, <2>4 DEF NextHunk
<1>4. CASE Finish
  <2>1. phase' = "done" /\ outcome' = "applied" /\ hunks' = hunks
    BY <1>4 DEF Finish, matching
  <2>2. OneHunk'
    BY <1>1, <1>2, <2>1 DEF OneHunk
  <2> QED BY <1>2, <2>1, <2>2 DEF RoundInv, NoneBefore, LastRefused
<1>5. CASE NoHunks
  BY <1>1, <1>5, RefusedRound DEF NoHunks
<1> QED BY <1>3, <1>4, <1>5 DEF Match

LEMMA NextRoundInv ==
  ASSUME EditInv, RoundInv, [Next]_vars
  PROVE  RoundInv'
<1>1. ASSUME NEW old \in OldTexts, NEW new \in NewTexts, Edit(old, new) PROVE RoundInv'
  <2>1. OneNewline'
    BY <1>1, EditKeepsNewline DEF RoundInv
  <2>2. hunks' = << >> /\ phase' = "edit"
    BY <1>1 DEF Edit, engine, matching, RoundInv, NoneBefore
  <2> QED BY <2>1, <2>2 DEF RoundInv, OneHunk, NoneBefore, LastRefused
<1>2. ASSUME NEW old \in OldTexts, EditRefused(old) PROVE RoundInv'
  BY <1>2, RefusedRound DEF EditRefused, RoundInv, NoneBefore
<1>3. CASE Build
  <2>1. hunks = << >> /\ UNCHANGED <<original, modified, edits>>
    BY <1>3 DEF Build, Refused, RoundInv, NoneBefore
  <2>2. CASE NoPatch
    BY <1>3, <2>1, <2>2, RefusedRound DEF Build
  <2>3. CASE ~NoPatch
    <3>1. hunks' = << >> /\ phase' = "matching"
      BY <1>3, <2>1, <2>3 DEF Build, matching
    <3>2. OneNewline'
      BY <2>1, SameTexts DEF RoundInv
    <3> QED BY <3>1, <3>2 DEF RoundInv, OneHunk, NoneBefore, LastRefused
  <2> QED BY <2>2, <2>3
<1>4. CASE Match
  BY <1>4, MatchRound
<1>5. CASE UNCHANGED vars
  <2>1. UNCHANGED <<phase, original, hunks, at, outcome, modified, edits>>
    BY <1>5 DEF vars, engine, matching
  <2>2. OneNewline' /\ TheHunk' = TheHunk
    BY <2>1, SameTexts DEF RoundInv
  <2> QED BY <2>1, <2>2 DEF RoundInv, OneHunk, NoneBefore, LastRefused
<1> QED BY <1>1, <1>2, <1>3, <1>4, <1>5 DEF Next

\* In a tidy file both texts have the file's line end and no other.
LEMMA TidyOneEnd ==
  ASSUME TextInv, OneNewline, Tidy
  PROVE  \E V : OneEnd(V)
<1>1. PICK nl, V : nl = NewlineOf(original) /\ V = Words \cup {nl}
  OBVIOUS
<1>2. nl \in LineEnds /\ Words \cap LineEnds = {} /\ LF # CRLF /\ LF \in LineEnds /\ CRLF \in LineEnds
  BY <1>1, TextAssumption DEF NewlineOf, LineEnds
<1>3. nl \in V /\ V \cap LineEnds = {nl}
  BY <1>1, <1>2
<1>4. /\ Terminated(original) /\ Uniform(original) /\ Contains(modified, nl)
      /\ original \in Seq(Symbols) /\ modified \in Seq(Symbols)
  BY <1>1 DEF Tidy, TextInv
<1>5. CASE Contains(original, CRLF)
  <2>1. nl = CRLF
    BY <1>1, <1>5 DEF NewlineOf
  <2>2. original \in Seq(V)
    <3>1. ~Contains(original, LF)
      BY <1>4, <1>5 DEF Uniform
    <3> QED BY <1>1, <1>2, <1>4, <2>1, <3>1, Without
  <2>3. modified \notin Seq(Words \cup {LF})
    BY <1>2, <1>4, <2>1, Absent
  <2>4. modified \in Seq(V)
    BY <1>1, <1>4, <2>1, <2>3 DEF OneNewline
  <2> QED BY <1>1, <1>3, <1>4, <2>2, <2>4 DEF OneEnd
<1>6. CASE ~Contains(original, CRLF)
  <2>1. nl = LF
    BY <1>1, <1>6 DEF NewlineOf
  <2>2. original \in Seq(V)
    BY <1>1, <1>2, <1>4, <1>6, <2>1, Without
  <2>3. modified \in Seq(V)
    BY <1>1, <1>4, <1>6, <2>1 DEF OneNewline
  <2> QED BY <1>1, <1>3, <1>4, <2>2, <2>3 DEF OneEnd
<1> QED BY <1>5, <1>6

\* A hunk whose old lines are where it says they are goes there.
LEMMA FitsWhereNamed ==
  ASSUME EngineInv, NEW h, NEW i \in Nat, hunks = <<h>>, IsHunk(h), h.start = i + 1,
         MatchesAt(Source, i, Old(h)), LastRefused, phase = "done"
  PROVE  outcome = "applied" /\ at = <<i>>
<1>1. Shape /\ InOrder /\ Refusal /\ Len(hunks) = 1 /\ hunks[1] = h /\ hunks # << >> /\ 1 \in 1..1
  BY DEF EngineInv
<1>2. Len(at) \in Nat /\ Len(Source) \in Nat /\ Len(Old(h)) \in Nat
  BY <1>1, SourceType, OldType, IsSeqRange DEF Shape
<1>3. (i + 1) - 1 = i /\ h.start >= 1 /\ h.start - 1 = i
  OBVIOUS
<1>4. Places(h) = {i} /\ i \in Candidates(Source, Old(h))
  BY <1>2, <1>3 DEF Places, Candidates, MatchesAt
<1>5. outcome = "applied"
  <2>1. SUFFICES ASSUME outcome # "applied" PROVE FALSE
    OBVIOUS
  <2>2. Len(hunks) > Len(at)
    BY <1>1, <2>1 DEF LastRefused
  <2>3. Len(at) = 0 /\ (Places(h) = {} \/ \E p \in Places(h) : p < src_index)
    BY <1>1, <1>2, <2>2 DEF Refusal
  <2>4. src_index = 0
    BY <1>1, <2>3 DEF InOrder, Used
  <2> QED BY <1>4, <2>3, <2>4
<1>6. Len(at) = 1 /\ at[1] = i
  <2>1. Len(at) = 1
    BY <1>1, <1>5 DEF Shape
  <2>2. Placed(1)
    BY <1>1, <2>1 DEF InOrder
  <2>3. at[1] = h.start - 1 \/ Candidates(Source, Old(h)) = {at[1]}
    BY <1>1, <2>2 DEF Placed
  <2> QED BY <1>3, <1>4, <2>1, <2>3
<1>7. PICK S : at \in Seq(S)
  BY <1>1 DEF Shape, IsSeq
<1>8. at = <<i>>
  BY <1>6, <1>7
<1> QED BY <1>5, <1>8

\* The diff is one change, it fits where it says, so it is placed there, and what
\* is put out are the edited lines.
LEMMA EditsRoundTripFromInv ==
  ASSUME EditInv, RoundInv
  PROVE  EditsRoundTrip
<1>1. SUFFICES ASSUME Tidy, Plain
               PROVE  outcome = "applied" /\ at = <<hunks[1].start - 1>> /\ Arrived
  BY DEF EditsRoundTrip, Plain
<1>2. TextInv /\ EngineInv /\ OneNewline /\ OneHunk /\ LastRefused
  BY DEF EditInv, RoundInv
<1>3. PICK V : OneEnd(V)
  BY <1>1, <1>2, TidyOneEnd
<1>4. PICK h : h = TheHunk
  OBVIOUS
<1>5. phase = "done" /\ hunks = <<h>>
  BY <1>1, <1>2, <1>4 DEF Tidy, OneHunk
<1>6. PICK i, head, j, k, l :
        Numbers(Source, Lines(modified), i, head, j, k, l) /\ ChangeIs(h, i, head, j, k, l)
  BY <1>1, <1>3, <1>4, DiffIsChange
<1>7. Source \in Seq(Seq(V)) /\ Lines(modified) \in Seq(Seq(V))
  BY <1>3, LinesSplit DEF OneEnd, Split, Source
<1>8. MatchesAt(Source, i, Old(h)) /\ IsHunk(h) /\ i \in Nat
  BY <1>6, <1>7, ChangeFits
<1>9. h.start = i + 1
  BY <1>6 DEF ChangeIs
<1>10. outcome = "applied" /\ at = <<i>>
  BY <1>2, <1>5, <1>8, <1>9, FitsWhereNamed
<1>11. patched = FlattenSeq(Spliced)
  BY <1>2, <1>10, AppliedExactlyFromInv DEF AppliedExactly
<1>12. Arrived
  BY <1>3, <1>5, <1>6, <1>10, <1>11, ChangeArrives
<1>13. hunks[1].start - 1 = i
  BY <1>5, <1>8, <1>9
<1> QED BY <1>10, <1>12, <1>13

\* propose_edit: in a file where every line has its line end, all of one kind,
\* accepted edits arrive, for all texts, edits and numbers of context lines.
THEOREM EditsArrive == Spec => []EditsRoundTrip
<1>1. Init => EditInv /\ RoundInv
  BY InitEditInv, InitRoundInv
<1>2. EditInv /\ RoundInv /\ [Next]_vars => EditInv' /\ RoundInv'
  BY NextEditInv, NextRoundInv
<1>3. EditInv /\ RoundInv => EditsRoundTrip
  BY EditsRoundTripFromInv
<1> QED BY <1>1, <1>2, <1>3, PTL DEF Spec
=============================================================================
