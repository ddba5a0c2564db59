-------------------------- MODULE HunkEngineProofs --------------------------
(***************************************************************************)
(* The matcher of HunkEngine, for every file, every hunk and every number  *)
(* of hunks.                                                               *)
(*                                                                         *)
(* The recursive functions of the model (FlattenSeq, LinesUpto,            *)
(* SplicedFrom) are first given as recursions on 0..n, by well-founded     *)
(* induction on the natural numbers.  Then two ways of replacing blocks of *)
(* a sequence are shown to give the same: forward, as the matcher puts out *)
(* lines, and from the last block back, as Spliced says.  EngineInv says   *)
(* that the matcher's steps are the forward way.                           *)
(***************************************************************************)
EXTENDS HunkEngine, SequenceTheorems, WellFoundedInduction, TLAPS

\* What holds at 0 and goes on from k-1 to k holds up to n (by well-founded
\* induction, as a fact about one set).
LEMMA Induction ==
  ASSUME NEW n \in Nat, NEW S, 0 \in S, \A k \in 1..n : k - 1 \in S => k \in S
  PROVE  0..n \subseteq S
<1> DEFINE T == (0..n) \ S
<1>1. SUFFICES ASSUME T # {} PROVE FALSE
  OBVIOUS
<1>2. IsWellFoundedOn(OpToRel(<, Nat), Nat)
  BY NatLessThanWellFounded
<1>3. \E x \in T : \A y \in T : ~(<<y, x>> \in OpToRel(<, Nat))
  <2>1. T \subseteq Nat
    OBVIOUS
  <2> HIDE DEF T
  <2> QED BY <1>1, <1>2, <2>1, WFMin
<1>4. PICK x \in T : \A y \in T : ~(y < x)
  <2>1. T \subseteq Nat
    OBVIOUS
  <2> HIDE DEF T
  <2> QED BY <1>3, <2>1 DEF OpToRel
<1>5. x \in 1..n /\ x - 1 \in S
  BY <1>4
<1> QED BY <1>4, <1>5

----------------------------------------------------------------------------

IsSeq(s) == \E S : s \in Seq(S)

LEMMA IsSeqEmpty == IsSeq(<< >>)
  BY DEF IsSeq

LEMMA IsSeqAppend ==
  ASSUME NEW s, IsSeq(s), NEW x
  PROVE  IsSeq(Append(s, x)) /\ Len(Append(s, x)) = Len(s) + 1 /\ Len(s) \in Nat
<1>1. PICK S : s \in Seq(S)
  BY DEF IsSeq
<1>2. s \in Seq(S \cup {x})
  BY <1>1, SeqMonotonic
<1>3. Append(s, x) \in Seq(S \cup {x}) /\ Len(Append(s, x)) = Len(s) + 1
  BY <1>2, AppendProperties
<1> QED BY <1>1, <1>3, LenProperties DEF IsSeq

LEMMA IsSeqRange ==
  ASSUME NEW s, IsSeq(s)
  PROVE  s \in Seq(Range(s)) /\ Len(s) \in Nat
  BY SeqOfRange, LenProperties DEF IsSeq

-----------------------------------------------------------------------------

FlattenUpto(seqs) ==
  LET flatten[i \in 1..Len(seqs)] ==
        IF i = 1 THEN seqs[i] ELSE flatten[i-1] \o seqs[i]
  IN flatten

\* FlattenSeq as a recursive function on the length of a prefix.
LEMMA FlattenUptoRecursion ==
  ASSUME NEW s, Len(s) \in Nat
  PROVE  \A k \in 1..Len(s) :
           FlattenUpto(s)[k] = IF k = 1 THEN s[k] ELSE FlattenUpto(s)[k - 1] \o s[k]
<1> DEFINE n == Len(s)
           Body(f, k) == IF k = 1 THEN s[k] ELSE f[k - 1] \o s[k]
           S == {m \in 0..n : \E f : f = [k \in 1..m |-> Body(f, k)]}
<1>1. 0 \in S
  <2>1. << >> = [k \in 1..0 |-> Body(<< >>, k)]
    OBVIOUS
  <2>2. \E f : f = [k \in 1..0 |-> Body(f, k)]
    BY <2>1, Zenon
  <2>3. 0 \in 0..n
    OBVIOUS
  <2> HIDE DEF Body
  <2> QED BY <2>2, <2>3, Zenon
<1>2. ASSUME NEW m \in 1..n, m - 1 \in S PROVE m \in S
  <2>1. PICK f : f = [k \in 1..(m - 1) |-> Body(f, k)]
    <3> HIDE DEF Body
    <3> QED BY <1>2
  <2> DEFINE g == [k \in 1..m |-> IF k = m THEN Body(f, k) ELSE f[k]]
  <2>2. \A k \in 1..(m - 1) : g[k] = f[k] /\ f[k] = Body(f, k)
    <3> HIDE DEF Body
    <3> QED BY <2>1
  <2>3. \A k \in 1..m : Body(g, k) = Body(f, k)
    BY <2>2
  <2>4. g = [k \in 1..m |-> Body(g, k)]
    <3> HIDE DEF Body
    <3>1. ASSUME NEW k \in 1..m PROVE g[k] = Body(g, k)
      <4>1. k \in 1..(m - 1) => g[k] = Body(f, k)
        BY <2>2
      <4>2. k = m => g[k] = Body(f, k)
        OBVIOUS
      <4>3. k \in 1..(m - 1) \/ k = m
        OBVIOUS
      <4> QED BY <2>3, <4>1, <4>2, <4>3
    <3> QED BY <3>1
  <2>5. \E f_ : f_ = [k \in 1..m |-> Body(f_, k)]
    BY <2>4, Zenon
  <2> HIDE DEF Body
  <2> QED BY <2>5
<1>3. \E f : f = [k \in 1..n |-> Body(f, k)]
  <2> HIDE DEF S, Body
  <2>1. 0..n \subseteq S
    BY <1>1, <1>2, Induction
  <2>2. n \in S
    BY <2>1
  <2> QED BY <2>2, Zenon DEF S
<1>4. FlattenUpto(s) = [k \in 1..n |-> Body(FlattenUpto(s), k)]
  BY <1>3, Zenon DEF FlattenUpto
<1>5. \A k \in 1..n : FlattenUpto(s)[k] = Body(FlattenUpto(s), k)
  <2> HIDE DEF Body
  <2> QED BY <1>4
<1> QED BY <1>5

LEMMA FlattenByPrefix ==
  ASSUME NEW s
  PROVE  FlattenSeq(s) = IF Len(s) = 0 THEN s ELSE FlattenUpto(s)[Len(s)]
  BY DEF FlattenSeq, FlattenUpto

LEMMA FlattenEmpty == FlattenSeq(<< >>) = << >>
  BY FlattenByPrefix

LEMMA FlattenType ==
  ASSUME NEW V, NEW s \in Seq(Seq(V))
  PROVE  FlattenSeq(s) \in Seq(V)
<1>1. Len(s) \in Nat /\ \A k \in 1..Len(s) : s[k] \in Seq(V)
  BY LenProperties
<1> DEFINE S == {k \in 0..Len(s) : k # 0 => FlattenUpto(s)[k] \in Seq(V)}
<1>2. 0 \in S
  BY <1>1
<1>3. ASSUME NEW k \in 1..Len(s), k - 1 \in S PROVE k \in S
  <2>1. CASE k = 1
    BY <1>1, <2>1, FlattenUptoRecursion
  <2>2. CASE k # 1
    <3>1. FlattenUpto(s)[k - 1] \in Seq(V) /\ s[k] \in Seq(V)
      BY <1>1, <1>3, <2>2
    <3>2. FlattenUpto(s)[k] = FlattenUpto(s)[k - 1] \o s[k]
      BY <1>1, <2>2, FlattenUptoRecursion
    <3>3. FlattenUpto(s)[k] \in Seq(V)
      BY <3>1, <3>2, ConcatProperties
    <3> QED BY <3>3
  <2> QED BY <2>1, <2>2
<1> HIDE DEF S
<1>4. 0..Len(s) \subseteq S
  BY <1>1, <1>2, <1>3, Induction
<1>5. Len(s) \in S
  BY <1>1, <1>4
<1>6. CASE s = << >>
  BY <1>6, FlattenEmpty, EmptySeq
<1>7. CASE s # << >>
  <2>1. Len(s) # 0
    BY <1>7, EmptySeq
  <2> QED BY <1>5, <2>1, FlattenByPrefix DEF S
<1> QED BY <1>6, <1>7

\* Joining one more, or the sequences of two sequences, joins the results.
LEMMA FlattenAppend ==
  ASSUME NEW V, NEW s \in Seq(Seq(V)), NEW x \in Seq(V)
  PROVE  FlattenSeq(Append(s, x)) = FlattenSeq(s) \o x
<1> DEFINE n == Len(s)
           t == Append(s, x)
<1>1. n \in Nat /\ t \in Seq(Seq(V)) /\ Len(t) = n + 1 /\ t[n + 1] = x
        /\ \A k \in 1..n : t[k] = s[k]
  BY LenProperties, AppendProperties
<1> HIDE DEF n, t
<1> DEFINE S == {k \in 0..n : k # 0 => FlattenUpto(t)[k] = FlattenUpto(s)[k]}
<1>2. 0 \in S
  BY <1>1
<1>3. ASSUME NEW k \in 1..n, k - 1 \in S PROVE k \in S
  <2>1. FlattenUpto(t)[k] = IF k = 1 THEN t[k] ELSE FlattenUpto(t)[k - 1] \o t[k]
    <3>1. k \in 1..Len(t) /\ Len(t) \in Nat
      BY <1>1
    <3> QED BY <3>1, FlattenUptoRecursion
  <2>2. FlattenUpto(s)[k] = IF k = 1 THEN s[k] ELSE FlattenUpto(s)[k - 1] \o s[k]
    BY <1>1, FlattenUptoRecursion DEF n
  <2> QED BY <1>1, <1>3, <2>1, <2>2
<1> HIDE DEF S
<1>4. 0..n \subseteq S
  BY <1>1, <1>2, <1>3, Induction
<1>5. n \in S
  BY <1>1, <1>4
<1>6. FlattenUpto(t)[n + 1] = IF n = 0 THEN x ELSE FlattenUpto(t)[n] \o x
  <2>1. n + 1 \in 1..Len(t) /\ Len(t) \in Nat /\ (n + 1) - 1 = n
    BY <1>1
  <2>2. FlattenUpto(t)[n + 1] = IF n + 1 = 1 THEN t[n + 1] ELSE FlattenUpto(t)[(n + 1) - 1] \o t[n + 1]
    BY <2>1, FlattenUptoRecursion
  <2> QED BY <1>1, <2>1, <2>2
<1>7. FlattenSeq(t) = FlattenUpto(t)[n + 1]
  BY <1>1, FlattenByPrefix
<1>8. CASE n = 0
  <2>1. s = << >>
    BY <1>8, EmptySeq DEF n
  <2> QED BY <1>6, <1>7, <1>8, <2>1, FlattenEmpty, ConcatEmptySeq DEF t
<1>9. CASE n # 0
  BY <1>1, <1>5, <1>6, <1>7, <1>9, FlattenByPrefix DEF S, t, n
<1> QED BY <1>8, <1>9

LEMMA FlattenPrefix ==
  ASSUME NEW V, NEW s \in Seq(Seq(V)), NEW k \in 1..Len(s)
  PROVE  FlattenSeq(SubSeq(s, 1, k)) = FlattenSeq(SubSeq(s, 1, k - 1)) \o s[k]
<1>1. SubSeq(s, 1, k - 1) \in Seq(Seq(V)) /\ s[k] \in Seq(V)
  BY LenProperties, SubSeqProperties
<1>2. SubSeq(s, 1, k) = SubSeq(s, 1, k - 1) \o <<s[k]>>
  BY SubSeqRecursiveSecond, LenProperties
<1>3. SubSeq(s, 1, k) = Append(SubSeq(s, 1, k - 1), s[k])
  BY <1>1, <1>2, AppendIsConcat
<1> QED BY <1>1, <1>3, FlattenAppend

LEMMA FlattenConcat ==
  ASSUME NEW V, NEW s \in Seq(Seq(V)), NEW t \in Seq(Seq(V))
  PROVE  FlattenSeq(s \o t) = FlattenSeq(s) \o FlattenSeq(t)
<1> DEFINE Head_(k) == SubSeq(t, 1, k)
           S == {k \in 0..Len(t) : FlattenSeq(s \o Head_(k)) = FlattenSeq(s) \o FlattenSeq(Head_(k))}
<1>0. Len(t) \in Nat
  BY LenProperties
<1>1. 0 \in S
  <2>1. Head_(0) = << >>
    BY SubSeqEmpty
  <2>2. FlattenSeq(s) \in Seq(V)
    BY FlattenType
  <2>3. s \o << >> = s /\ FlattenSeq(s) \o << >> = FlattenSeq(s)
    BY <2>2, ConcatEmptySeq
  <2>4. FlattenSeq(s \o Head_(0)) = FlattenSeq(s) \o FlattenSeq(Head_(0))
    BY <2>1, <2>3, FlattenEmpty
  <2> QED BY <1>0, <2>4
<1>2. ASSUME NEW k \in 1..Len(t), k - 1 \in S PROVE k \in S
  <2>1. Head_(k - 1) \in Seq(Seq(V)) /\ t[k] \in Seq(V)
    BY LenProperties, SubSeqProperties
  <2>2. Head_(k) = Head_(k - 1) \o <<t[k]>>
    BY SubSeqRecursiveSecond, LenProperties
  <2> HIDE DEF Head_
  <2>3. Head_(k) = Append(Head_(k - 1), t[k])
    BY <2>1, <2>2, AppendIsConcat
  <2>4. s \o Head_(k) = Append(s \o Head_(k - 1), t[k])
    <3>1. <<t[k]>> \in Seq(Seq(V))
      BY <2>1
    <3>2. (s \o Head_(k - 1)) \o <<t[k]>> = s \o (Head_(k - 1) \o <<t[k]>>)
      BY <2>1, <3>1
    <3>3. s \o Head_(k) = (s \o Head_(k - 1)) \o <<t[k]>>
      BY <2>2, <3>2
    <3>4. s \o Head_(k - 1) \in Seq(Seq(V))
      BY <2>1, ConcatProperties
    <3> QED BY <2>1, <3>3, <3>4, AppendIsConcat
  <2>5. FlattenSeq(s \o Head_(k)) = FlattenSeq(s \o Head_(k - 1)) \o t[k]
    BY <2>1, <2>4, FlattenAppend, ConcatProperties
  <2>6. FlattenSeq(Head_(k)) = FlattenSeq(Head_(k - 1)) \o t[k]
    BY <2>1, <2>3, FlattenAppend
  <2>7. FlattenSeq(s) \in Seq(V) /\ FlattenSeq(Head_(k - 1)) \in Seq(V)
    BY <2>1, FlattenType
  <2>8. FlattenSeq(s \o Head_(k - 1)) = FlattenSeq(s) \o FlattenSeq(Head_(k - 1))
    BY <1>2
  <2>9. (FlattenSeq(s) \o FlattenSeq(Head_(k - 1))) \o t[k]
          = FlattenSeq(s) \o (FlattenSeq(Head_(k - 1)) \o t[k])
    <3>1. \A u, v, w \in Seq(V) : (u \o v) \o w = u \o (v \o w)
      BY ConcatAssociative, SMTT(30)
    <3> QED BY <2>1, <2>7, <3>1, Zenon
  <2>10. FlattenSeq(s \o Head_(k)) = FlattenSeq(s) \o FlattenSeq(Head_(k))
    BY <2>5, <2>6, <2>8, <2>9
  <2> QED BY <2>10
<1> HIDE DEF S
<1>3. 0..Len(t) \subseteq S
  BY <1>0, <1>1, <1>2, Induction
<1>4. Len(t) \in S
  BY <1>0, <1>3
<1> QED BY <1>4, SubSeqFull DEF S

----------------------------------------------------------------------------

\* Splitting a text, one symbol after the other.
LEMMA LinesUptoRecursion ==
  ASSUME NEW text, Len(text) \in Nat
  PROVE  /\ LinesUpto(text)[0] = << >>
         /\ \A k \in 1..Len(text) :
              LinesUpto(text)[k] = AddSymbol(LinesUpto(text)[k - 1], text[k])
<1> DEFINE n == Len(text)
           Body(f, k) == IF k = 0 THEN << >>
                         ELSE AddSymbol(f[k - 1], text[k])
           S == {m \in 0..n : \E f : f = [k \in 0..m |-> Body(f, k)]}
<1>1. 0 \in S
  <2>1. [k \in 0..0 |-> << >>] = [k \in 0..0 |-> Body([j \in 0..0 |-> << >>], k)]
    OBVIOUS
  <2>2. \E f : f = [k \in 0..0 |-> Body(f, k)]
    BY <2>1, Zenon
  <2>3. 0 \in 0..n
    OBVIOUS
  <2> HIDE DEF Body
  <2> QED BY <2>2, <2>3, Zenon
<1>2. ASSUME NEW m \in 1..n, m - 1 \in S PROVE m \in S
  <2>1. PICK f : f = [k \in 0..(m - 1) |-> Body(f, k)]
    <3> HIDE DEF Body
    <3> QED BY <1>2
  <2> DEFINE g == [k \in 0..m |-> IF k = m THEN Body(f, k) ELSE f[k]]
  <2>2. \A k \in 0..(m - 1) : g[k] = f[k] /\ f[k] = Body(f, k)
    <3> HIDE DEF Body
    <3> QED BY <2>1
  <2>3. \A k \in 0..m : Body(g, k) = Body(f, k)
    BY <2>2
  <2>4. g = [k \in 0..m |-> Body(g, k)]
    <3> HIDE DEF Body
    <3>1. ASSUME NEW k \in 0..m PROVE g[k] = Body(g, k)
      <4>1. k \in 0..(m - 1) => g[k] = Body(f, k)
        BY <2>2
      <4>2. k = m => g[k] = Body(f, k)
        OBVIOUS
      <4>3. k \in 0..(m - 1) \/ k = m
        OBVIOUS
      <4> QED BY <2>3, <4>1, <4>2, <4>3
    <3> QED BY <3>1
  <2>5. \E f_ : f_ = [k \in 0..m |-> Body(f_, k)]
    BY <2>4, Zenon
  <2> HIDE DEF Body
  <2> QED BY <2>5
<1>3. \E f : f = [k \in 0..n |-> Body(f, k)]
  <2> HIDE DEF S, Body
  <2>1. 0..n \subseteq S
    BY <1>1, <1>2, Induction
  <2>2. n \in S
    BY <2>1
  <2> QED BY <2>2, Zenon DEF S
<1>4. LinesUpto(text) = [k \in 0..n |-> Body(LinesUpto(text), k)]
  BY <1>3, Zenon DEF LinesUpto
<1>5. \A k \in 0..n : LinesUpto(text)[k] = Body(LinesUpto(text), k)
  <2> HIDE DEF Body
  <2> QED BY <1>4
<1> QED BY <1>5

LEMMA AddSymbolType ==
  ASSUME NEW V, NEW lines \in Seq(Seq(V)), NEW s \in V
  PROVE  AddSymbol(lines, s) \in Seq(Seq(V))
<1>1. <<s>> \in Seq(V)
  OBVIOUS
<1>2. CASE lines = << >>
  BY <1>1, <1>2, AppendProperties DEF AddSymbol
<1>3. CASE lines # << >>
  <2>1. Len(lines) \in Nat \ {0}
    BY <1>3, EmptySeq
  <2>2. Last(lines) \in Seq(V)
    BY <2>1, LenProperties DEF Last
  <2>3. Front(lines) \in Seq(Seq(V))
    BY <2>1, LenProperties, SubSeqProperties DEF Front
  <2>4. Append(Last(lines), s) \in Seq(V)
    BY <2>2, AppendProperties
  <2>5. Append(lines, <<s>>) \in Seq(Seq(V)) /\ Append(Front(lines), Append(Last(lines), s)) \in Seq(Seq(V))
    BY <1>1, <2>3, <2>4, AppendProperties
  <2> QED BY <2>5 DEF AddSymbol
<1> QED BY <1>2, <1>3

LEMMA LinesType ==
  ASSUME NEW V, NEW text \in Seq(V)
  PROVE  Lines(text) \in Seq(Seq(V))
<1>1. Len(text) \in Nat /\ \A k \in 1..Len(text) : text[k] \in V
  BY LenProperties
<1> DEFINE S == {k \in 0..Len(text) : LinesUpto(text)[k] \in Seq(Seq(V))}
<1>2. 0 \in S
  <2>1. LinesUpto(text)[0] = << >> /\ 0 \in 0..Len(text)
    BY <1>1, LinesUptoRecursion
  <2>2. << >> \in Seq(Seq(V))
    OBVIOUS
  <2> QED BY <2>1, <2>2
<1>3. ASSUME NEW k \in 1..Len(text), k - 1 \in S PROVE k \in S
  <2>1. LinesUpto(text)[k] = AddSymbol(LinesUpto(text)[k - 1], text[k])
    BY <1>1, LinesUptoRecursion
  <2>2. AddSymbol(LinesUpto(text)[k - 1], text[k]) \in Seq(Seq(V))
    BY <1>1, <1>3, AddSymbolType
  <2> QED BY <2>1, <2>2
<1> HIDE DEF S
<1>4. 0..Len(text) \subseteq S
  BY <1>1, <1>2, <1>3, Induction
<1>5. Len(text) \in S
  BY <1>1, <1>4
<1> QED BY <1>5 DEF S, Lines

----------------------------------------------------------------------------

\* The old lines of a hunk, and the lines that it puts out.
LEMMA OldAmongType ==
  ASSUME NEW lines, IsSeq(lines)
  PROVE  IsSeq(OldAmong(lines)) /\ Len(OldAmong(lines)) \in Nat
<1> DEFINE V == {lines[k].text : k \in DOMAIN lines}
           parts == [k \in DOMAIN lines |-> IF lines[k].tag = "+" THEN << >> ELSE <<lines[k].text>>]
<1>1. DOMAIN lines = 1..Len(lines) /\ Len(lines) \in Nat
  BY IsSeqRange, LenProperties
<1>2. ASSUME NEW k \in DOMAIN lines PROVE parts[k] \in Seq(V)
  <2>1. parts[k] = << >> \/ parts[k] = <<lines[k].text>>
    OBVIOUS
  <2>2. lines[k].text \in V
    OBVIOUS
  <2> HIDE DEF parts, V
  <2>3. <<lines[k].text>> \in Seq(V) /\ << >> \in Seq(V)
    BY <2>2
  <2> QED BY <2>1, <2>3
<1>3. parts \in Seq(Seq(V))
  <2> HIDE DEF V
  <2> QED BY <1>1, <1>2
<1>4. FlattenSeq(parts) \in Seq(V)
  BY <1>3, FlattenType
<1> QED BY <1>4, LenProperties DEF OldAmong, IsSeq

LEMMA EmittedType ==
  ASSUME NEW h, IsSeq(h.lines), NEW p
  PROVE  IsSeq(Emitted(h, p))
<1> DEFINE V == UNION {Range(Becomes(h, p, k)) : k \in DOMAIN h.lines}
           parts == [k \in DOMAIN h.lines |-> Becomes(h, p, k)]
<1>1. DOMAIN h.lines = 1..Len(h.lines) /\ Len(h.lines) \in Nat
  BY IsSeqRange, LenProperties
<1>2. ASSUME NEW k \in DOMAIN h.lines PROVE Becomes(h, p, k) \in Seq(V)
  <2>1. IsSeq(Becomes(h, p, k))
    <3>1. \A x : <<x>> \in Seq({x})
      OBVIOUS
    <3> QED BY <3>1, IsSeqEmpty, Zenon DEF Becomes, IsSeq
  <2>2. Becomes(h, p, k) \in Seq(Range(Becomes(h, p, k)))
    BY <2>1, IsSeqRange
  <2>3. Range(Becomes(h, p, k)) \subseteq V
    OBVIOUS
  <2> QED BY <2>2, <2>3, SeqMonotonic
<1>3. parts \in Seq(Seq(V))
  <2> HIDE DEF V
  <2> QED BY <1>1, <1>2
<1>4. FlattenSeq(parts) \in Seq(V)
  <2> HIDE DEF V, parts
  <2> QED BY <1>3, FlattenType
<1> QED BY <1>4 DEF Emitted, IsSeq

\* Splicing, one hunk after the other.
LEMMA SplicedFromRecursion ==
  ASSUME Len(hunks) \in Nat
  PROVE  /\ SplicedFrom[0] = Source
         /\ \A k \in 1..Len(hunks) :
              SplicedFrom[k] = Splice(Len(hunks) + 1 - k, SplicedFrom[k - 1])
<1> DEFINE n == Len(hunks)
           Body(f, k) == IF k = 0 THEN Source
                         ELSE Splice(Len(hunks) + 1 - k, f[k - 1])
           S == {m \in 0..n : \E f : f = [k \in 0..m |-> Body(f, k)]}
<1>1. 0 \in S
  <2>1. [k \in 0..0 |-> Source] = [k \in 0..0 |-> Body([j \in 0..0 |-> Source], k)]
    OBVIOUS
  <2>2. \E f : f = [k \in 0..0 |-> Body(f, k)]
    BY <2>1, Zenon
  <2>3. 0 \in 0..n
    OBVIOUS
  <2> HIDE DEF Body
  <2> QED BY <2>2, <2>3, Zenon
<1>2. ASSUME NEW m \in 1..n, m - 1 \in S PROVE m \in S
  <2>1. PICK f : f = [k \in 0..(m - 1) |-> Body(f, k)]
    <3> HIDE DEF Body
    <3> QED BY <1>2
  <2> DEFINE g == [k \in 0..m |-> IF k = m THEN Body(f, k) ELSE f[k]]
  <2>2. \A k \in 0..(m - 1) : g[k] = f[k] /\ f[k] = Body(f, k)
    <3> HIDE DEF Body
    <3> QED BY <2>1
  <2>3. \A k \in 0..m : Body(g, k) = Body(f, k)
    BY <2>2
  <2>4. g = [k \in 0..m |-> Body(g, k)]
    <3> HIDE DEF Body
    <3>1. ASSUME NEW k \in 0..m PROVE g[k] = Body(g, k)
      <4>1. k \in 0..(m - 1) => g[k] = Body(f, k)
        BY <2>2
      <4>2. k = m => g[k] = Body(f, k)
        OBVIOUS
      <4>3. k \in 0..(m - 1) \/ k = m
        OBVIOUS
      <4> QED BY <2>3, <4>1, <4>2, <4>3
    <3> QED BY <3>1
  <2>5. \E f_ : f_ = [k \in 0..m |-> Body(f_, k)]
    BY <2>4, Zenon
  <2> HIDE DEF Body
  <2> QED BY <2>5
<1>3. \E f : f = [k \in 0..n |-> Body(f, k)]
  <2> HIDE DEF S, Body
  <2>1. 0..n \subseteq S
    BY <1>1, <1>2, Induction
  <2>2. n \in S
    BY <2>1
  <2> QED BY <2>2, Zenon DEF S
<1>4. SplicedFrom = [k \in 0..n |-> Body(SplicedFrom, k)]
  BY <1>3, Zenon DEF SplicedFrom
<1>5. \A k \in 0..n : SplicedFrom[k] = Body(SplicedFrom, k)
  <2> HIDE DEF Body
  <2> QED BY <1>4
<1> QED BY <1>5

----------------------------------------------------------------------------

\* Parts of sequences.
LEMMA PrefixSplit ==
  ASSUME NEW V, NEW s \in Seq(V), NEW k \in 0..Len(s), NEW m \in 0..k
  PROVE  SubSeq(s, 1, k) = SubSeq(s, 1, m) \o SubSeq(s, m + 1, k)
  OBVIOUS

LEMMA PrefixOfConcat ==
  ASSUME NEW V, NEW s \in Seq(V), NEW t \in Seq(V), NEW m \in 0..Len(s)
  PROVE  SubSeq(s \o t, 1, m) = SubSeq(s, 1, m)
  OBVIOUS

LEMMA PrefixOfPrefix ==
  ASSUME NEW V, NEW s \in Seq(V), NEW k \in 0..Len(s), NEW m \in 0..k
  PROVE  SubSeq(SubSeq(s, 1, k), 1, m) = SubSeq(s, 1, m)
  OBVIOUS

LEMMA SuffixOfConcat ==
  ASSUME NEW V, NEW s \in Seq(V), NEW t \in Seq(V)
  PROVE  SubSeq(s \o t, Len(s) + 1, Len(s \o t)) = t
  OBVIOUS

----------------------------------------------------------------------------

\* A line has a line end at most at its end; all but the last line of a text
\* have one.
IsLine(V, l) == l \in Seq(V) /\ l # << >> /\ \A k \in 1..(Len(l) - 1) : l[k] \notin LineEnds
Closed(l) == l[Len(l)] \in LineEnds
Split(V, ls) ==
  /\ ls \in Seq(Seq(V))
  /\ \A k \in 1..Len(ls) : IsLine(V, ls[k]) /\ (k < Len(ls) => Closed(ls[k]))

LEMMA LinesEmpty == Lines(<< >>) = << >>
<1>1. Len(<< >>) = 0 /\ Len(<< >>) \in Nat
  OBVIOUS
<1> QED BY <1>1, LinesUptoRecursion DEF Lines

\* Appending, and the first and the last parts of a sequence, element by element.
LEMMA AppendFacts ==
  ASSUME NEW V, NEW s \in Seq(V), NEW x \in V
  PROVE  /\ Append(s, x) \in Seq(V) /\ Len(s) \in Nat /\ Len(Append(s, x)) = Len(s) + 1
         /\ Append(s, x)[Len(s) + 1] = x /\ \A k \in 1..Len(s) : Append(s, x)[k] = s[k]
  BY AppendProperties, LenProperties

\* Splitting a text with one more symbol adds that symbol to the lines.
LEMMA LinesAppend ==
  ASSUME NEW V, NEW text \in Seq(V), NEW s \in V
  PROVE  Lines(Append(text, s)) = AddSymbol(Lines(text), s)
<1>0. PICK t, n : t = Append(text, s) /\ n = Len(text)
  OBVIOUS
<1>1. /\ t = Append(text, s) /\ n = Len(text) /\ n \in Nat /\ Len(t) = n + 1 /\ t[n + 1] = s
      /\ \A k \in 1..n : t[k] = text[k]
  BY <1>0, AppendFacts
<1> DEFINE S == {k \in 0..n : LinesUpto(t)[k] = LinesUpto(text)[k]}
<1>2. n \in Nat /\ Len(t) \in Nat /\ Len(text) \in Nat
  BY <1>1
<1>3. 0 \in S
  BY <1>2, LinesUptoRecursion
<1>4. ASSUME NEW k \in 1..n, k - 1 \in S PROVE k \in S
  <2>1. k \in 1..Len(t) /\ k \in 1..Len(text) /\ t[k] = text[k]
    BY <1>1
  <2>2. LinesUpto(t)[k] = AddSymbol(LinesUpto(t)[k - 1], t[k])
    BY <1>2, <2>1, LinesUptoRecursion
  <2>3. LinesUpto(text)[k] = AddSymbol(LinesUpto(text)[k - 1], text[k])
    BY <1>2, <2>1, LinesUptoRecursion
  <2> QED BY <1>4, <2>1, <2>2, <2>3
<1> HIDE DEF S
<1>5. 0..n \subseteq S
  BY <1>2, <1>3, <1>4, Induction
<1>6. LinesUpto(t)[n] = LinesUpto(text)[n]
  BY <1>2, <1>5 DEF S
<1>7. n + 1 \in 1..Len(t) /\ (n + 1) - 1 = n
  BY <1>1
<1>8. LinesUpto(t)[n + 1] = AddSymbol(LinesUpto(t)[(n + 1) - 1], t[n + 1])
  BY <1>2, <1>7, LinesUptoRecursion
<1> QED BY <1>1, <1>6, <1>7, <1>8 DEF Lines

LEMMA LastOfAppend ==
  ASSUME NEW V, NEW s \in Seq(V), NEW x \in V
  PROVE  /\ Append(s, x) \in Seq(V) /\ Append(s, x) # << >>
         /\ Last(Append(s, x)) = x /\ Front(Append(s, x)) = s
         /\ Len(Append(s, x)) = Len(s) + 1
<1>0. PICK t : t = Append(s, x)
  OBVIOUS
<1>1. /\ t = Append(s, x) /\ t \in Seq(V) /\ Len(t) = Len(s) + 1 /\ t[Len(s) + 1] = x
      /\ Len(s) \in Nat /\ \A k \in 1..Len(s) : t[k] = s[k]
  BY <1>0, AppendFacts
<1>2. t # << >>
  BY <1>1
<1>3. Last(t) = x
  BY <1>1 DEF Last
<1>4. Front(t) = s
  BY <1>1 DEF Front
<1> QED BY <1>1, <1>2, <1>3, <1>4

LEMMA FrontAndLast ==
  ASSUME NEW V, NEW s \in Seq(V), s # << >>
  PROVE  /\ Front(s) \in Seq(V) /\ Last(s) \in V /\ s = Append(Front(s), Last(s))
         /\ Len(s) \in Nat \ {0} /\ Len(Front(s)) = Len(s) - 1
         /\ \A k \in 1..(Len(s) - 1) : Front(s)[k] = s[k]
<1>1. PICK n \in Nat : n = Len(s) - 1 /\ Len(s) = n + 1
  BY LenProperties, EmptySeq
<1>2. PICK f : f = SubSeq(s, 1, n)
  OBVIOUS
<1>3. f \in Seq(V) /\ Len(f) = n /\ \A k \in 1..n : f[k] = s[k]
  BY <1>1, <1>2
<1>4. s[n + 1] \in V
  BY <1>1
<1>5. s = Append(f, s[n + 1])
  BY <1>1, <1>3, <1>4
<1> QED BY <1>1, <1>2, <1>3, <1>4, <1>5 DEF Front, Last

\* One more symbol.
LEMMA AddSymbolSplits ==
  ASSUME NEW V, NEW ls, Split(V, ls), NEW s \in V
  PROVE  /\ Split(V, AddSymbol(ls, s))
         /\ FlattenSeq(AddSymbol(ls, s)) = Append(FlattenSeq(ls), s)
<1>1. ls \in Seq(Seq(V)) /\ Len(ls) \in Nat /\ FlattenSeq(ls) \in Seq(V)
  BY FlattenType DEF Split
<1>2. CASE ls = << >> \/ Last(Last(ls)) \in LineEnds
  <2>1. AddSymbol(ls, s) = Append(ls, <<s>>)
    BY <1>2 DEF AddSymbol
  <2>2. <<s>> \in Seq(V) /\ FlattenSeq(ls) \o <<s>> = Append(FlattenSeq(ls), s)
    BY <1>1, AppendIsConcat
  <2>3. FlattenSeq(AddSymbol(ls, s)) = Append(FlattenSeq(ls), s)
    BY <1>1, <2>1, <2>2, FlattenAppend
  <2>0. PICK t : t = Append(ls, <<s>>)
    OBVIOUS
  <2>4. /\ t = Append(ls, <<s>>) /\ t \in Seq(Seq(V)) /\ Len(t) = Len(ls) + 1
        /\ t[Len(ls) + 1] = <<s>> /\ \A k \in 1..Len(ls) : t[k] = ls[k]
    BY <1>1, <2>0, <2>2, AppendFacts
  <2>5. IsLine(V, <<s>>)
    BY <2>2 DEF IsLine
  <2>6. ASSUME NEW k \in 1..Len(ls) PROVE IsLine(V, ls[k]) /\ Closed(ls[k])
    <3>1. CASE k < Len(ls)
      BY <3>1 DEF Split
    <3>2. CASE k = Len(ls)
      <4>1. ls # << >>
        BY <1>1
      <4> QED BY <1>2, <3>2, <4>1 DEF Split, Closed, Last
    <3> QED BY <1>1, <3>1, <3>2
  <2>7. ASSUME NEW k \in 1..Len(t) PROVE IsLine(V, t[k]) /\ (k < Len(t) => Closed(t[k]))
    <3>1. CASE k \in 1..Len(ls)
      BY <2>4, <2>6, <3>1
    <3>2. CASE k = Len(ls) + 1
      BY <1>1, <2>4, <2>5, <3>2
    <3> QED BY <1>1, <2>4, <3>1, <3>2
  <2>8. Split(V, t)
    BY <2>4, <2>7 DEF Split
  <2> QED BY <2>1, <2>3, <2>4, <2>8
<1>3. CASE ls # << >> /\ Last(Last(ls)) \notin LineEnds
  <2>0. PICK f, l : f = Front(ls) /\ l = Last(ls)
    OBVIOUS
  <2>1. /\ f = Front(ls) /\ l = Last(ls) /\ f \in Seq(Seq(V)) /\ l \in Seq(V)
        /\ ls = Append(f, l) /\ Len(ls) = Len(f) + 1 /\ Len(f) \in Nat
        /\ \A k \in 1..Len(f) : f[k] = ls[k]
    <3>1. ls # << >>
      BY <1>3
    <3>2. /\ f \in Seq(Seq(V)) /\ l \in Seq(V) /\ ls = Append(f, l) /\ Len(ls) \in Nat \ {0}
          /\ Len(f) = Len(ls) - 1 /\ \A k \in 1..(Len(ls) - 1) : f[k] = ls[k]
      BY <1>1, <2>0, <3>1, FrontAndLast, Zenon
    <3> QED BY <2>0, <3>2
  <2>2. AddSymbol(ls, s) = Append(f, Append(l, s))
    BY <1>3, <2>1 DEF AddSymbol
  <2>a. PICK m : m = Append(l, s)
    OBVIOUS
  <2>b. PICK t : t = Append(f, m)
    OBVIOUS
  <2>3. /\ m = Append(l, s) /\ m \in Seq(V) /\ Len(m) = Len(l) + 1 /\ Len(l) \in Nat
        /\ m[Len(l) + 1] = s /\ \A k \in 1..Len(l) : m[k] = l[k]
    BY <2>1, <2>a, AppendFacts
  <2>4. /\ t = Append(f, m) /\ t \in Seq(Seq(V)) /\ Len(t) = Len(f) + 1
        /\ t[Len(f) + 1] = m /\ \A k \in 1..Len(f) : t[k] = f[k]
    <3>1. f \in Seq(Seq(V)) /\ m \in Seq(V)
      BY <2>1, <2>3
    <3> QED BY <3>1, <2>b, AppendFacts
  <2>5. FlattenSeq(t) = Append(FlattenSeq(ls), s)
    <3>1. FlattenSeq(t) = FlattenSeq(f) \o m /\ FlattenSeq(ls) = FlattenSeq(f) \o l
      BY <2>1, <2>3, <2>4, FlattenAppend
    <3>2. FlattenSeq(f) \in Seq(V)
      BY <2>1, FlattenType
    <3>3. \A x, y \in Seq(V) : x \o Append(y, s) = Append(x \o y, s)
      OBVIOUS
    <3> QED BY <2>1, <2>3, <3>1, <3>2, <3>3, Zenon
  <2>6. IsLine(V, l) /\ l[Len(l)] \notin LineEnds
    <3>1. l = ls[Len(ls)] /\ Len(ls) \in 1..Len(ls)
      BY <2>1 DEF Last
    <3> QED BY <1>3, <2>1, <3>1 DEF Split, Last
  <2>7. IsLine(V, m)
    <3>1. ASSUME NEW k \in 1..(Len(m) - 1) PROVE m[k] \notin LineEnds
      <4>1. k \in 1..Len(l) /\ m[k] = l[k]
        BY <2>3
      <4>2. k \in 1..(Len(l) - 1) \/ k = Len(l)
        BY <2>3, <4>1
      <4> QED BY <2>6, <4>1, <4>2 DEF IsLine
    <3> QED BY <2>3, <3>1 DEF IsLine
  <2>8. ASSUME NEW k \in 1..Len(t) PROVE IsLine(V, t[k]) /\ (k < Len(t) => Closed(t[k]))
    <3>1. CASE k \in 1..Len(f)
      <4>1. t[k] = ls[k] /\ k \in 1..Len(ls) /\ k < Len(ls)
        BY <2>1, <2>4, <3>1
      <4> QED BY <4>1 DEF Split
    <3>2. CASE k = Len(f) + 1
      BY <2>1, <2>4, <2>7, <3>2
    <3> QED BY <2>1, <2>4, <3>1, <3>2
  <2>9. Split(V, t)
    BY <2>4, <2>8 DEF Split
  <2> QED BY <2>2, <2>3, <2>4, <2>5, <2>9
<1> QED BY <1>2, <1>3

\* Splitting loses nothing, and its parts are lines.
LEMMA LinesSplit ==
  ASSUME NEW V, NEW text \in Seq(V)
  PROVE  Split(V, Lines(text)) /\ FlattenSeq(Lines(text)) = text
<1> DEFINE First(k) == SubSeq(text, 1, k)
           S == {k \in 0..Len(text) : Split(V, Lines(First(k))) /\ FlattenSeq(Lines(First(k))) = First(k)}
<1>1. Len(text) \in Nat /\ SubSeq(text, 1, Len(text)) = text
  BY LenProperties, SubSeqFull
<1>2. 0 \in S
  <2>1. First(0) = << >>
    OBVIOUS
  <2>2. << >> \in Seq(Seq(V)) /\ Len(<< >>) = 0
    OBVIOUS
  <2>3. Split(V, << >>)
    BY <2>2 DEF Split
  <2>4. Lines(First(0)) = << >> /\ FlattenSeq(Lines(First(0))) = << >>
    BY <2>1, LinesEmpty, FlattenEmpty
  <2> HIDE DEF First
  <2>5. Split(V, Lines(First(0))) /\ FlattenSeq(Lines(First(0))) = First(0)
    BY <2>1, <2>3, <2>4
  <2> QED BY <1>1, <2>5
<1>3. ASSUME NEW k \in 1..Len(text), k - 1 \in S PROVE k \in S
  <2>1. PICK p, x : p = First(k - 1) /\ x = text[k]
    OBVIOUS
  <2>2. p \in Seq(V) /\ x \in V /\ First(k) = Append(p, x)
    BY <1>1, <2>1
  <2> HIDE DEF First
  <2>3. Split(V, Lines(p)) /\ FlattenSeq(Lines(p)) = p
    BY <1>3, <2>1
  <2>4. Lines(First(k)) = AddSymbol(Lines(p), x)
    BY <2>2, LinesAppend
  <2>5. Split(V, Lines(First(k))) /\ FlattenSeq(Lines(First(k))) = First(k)
    BY <2>2, <2>3, <2>4, AddSymbolSplits
  <2> QED BY <1>1, <2>5
<1>4. Len(text) \in S
  <2> HIDE DEF S
  <2>1. 0..Len(text) \subseteq S
    BY <1>1, <1>2, <1>3, Induction
  <2> QED BY <1>1, <2>1
<1> QED BY <1>1, <1>4

\* One more line, when the text before it ends with a line end.
LEMMA LinesOfLine ==
  ASSUME NEW V, NEW text \in Seq(V), NEW l, IsLine(V, l),
         Lines(text) = << >> \/ Closed(Last(Lines(text)))
  PROVE  Lines(text \o l) = Append(Lines(text), l)
<1> DEFINE First(k) == SubSeq(l, 1, k)
           S == {k \in 0..Len(l) : k # 0 => Lines(text \o First(k)) = Append(Lines(text), First(k))}
<1>1. l \in Seq(V) /\ Len(l) \in Nat /\ Len(l) # 0 /\ SubSeq(l, 1, Len(l)) = l
        /\ Lines(text) \in Seq(Seq(V))
  BY LenProperties, SubSeqFull, EmptySeq, LinesType DEF IsLine
<1>2. 0 \in S
  BY <1>1
<1>3. ASSUME NEW k \in 1..Len(l), k - 1 \in S PROVE k \in S
  <2>1. PICK p, x, a, b : p = First(k - 1) /\ x = l[k] /\ a = text \o p /\ b = First(k)
    OBVIOUS
  <2>2. p \in Seq(V) /\ x \in V /\ b = Append(p, x) /\ b \in Seq(V) /\ Len(p) = k - 1
    BY <1>1, <2>1
  <2>3. a \in Seq(V) /\ text \o b = Append(a, x)
    BY <2>1, <2>2
  <2>4. Lines(text \o b) = AddSymbol(Lines(a), x)
    BY <2>2, <2>3, LinesAppend
  <2>5. Lines(text \o b) = Append(Lines(text), b)
    <3>1. CASE k = 1
      <4>1. p = << >> /\ b = <<x>>
        BY <2>2, <3>1
      <4>2. a = text
        BY <2>1, <4>1, ConcatEmptySeq
      <4>3. AddSymbol(Lines(text), x) = Append(Lines(text), <<x>>)
        <5>1. Lines(text) = << >> \/ Last(Last(Lines(text))) \in LineEnds
          BY DEF Closed, Last
        <5> QED BY <5>1 DEF AddSymbol
      <4> QED BY <2>4, <4>1, <4>2, <4>3
    <3>2. CASE k # 1
      <4>1. k - 1 \in 1..(Len(l) - 1) /\ k - 1 \in 0..Len(l)
        BY <1>1, <3>2
      <4>2. Lines(a) = Append(Lines(text), p)
        BY <1>3, <2>1, <4>1
      <4>3. Append(Lines(text), p) # << >> /\ Last(Append(Lines(text), p)) = p
              /\ Front(Append(Lines(text), p)) = Lines(text)
        BY <1>1, <2>2, LastOfAppend
      <4>4. Last(p) \notin LineEnds
        <5>1. Last(p) = l[k - 1]
          <6>1. p = SubSeq(l, 1, k - 1) /\ k - 1 \in 1..(k - 1) /\ k - 1 \in 0..Len(l)
            BY <2>1, <4>1
          <6>2. p[k - 1] = l[k - 1]
            BY <1>1, <6>1
          <6> QED BY <2>2, <6>2 DEF Last
        <5>2. l[k - 1] \notin LineEnds
          BY <4>1, Zenon DEF IsLine
        <5> QED BY <5>1, <5>2
      <4>5. AddSymbol(Lines(a), x) = Append(Lines(text), Append(p, x))
        BY <4>2, <4>3, <4>4 DEF AddSymbol
      <4> QED BY <2>2, <2>4, <4>5
    <3> QED BY <3>1, <3>2
  <2> HIDE DEF First
  <2> QED BY <1>1, <2>1, <2>5
<1>4. Len(l) \in S
  <2> HIDE DEF S
  <2>1. 0..Len(l) \subseteq S
    BY <1>1, <1>2, <1>3, Induction
  <2> QED BY <1>1, <2>1
<1> QED BY <1>1, <1>4

\* Lines that are joined are split where they were.
LEMMA LinesOfSplit ==
  ASSUME NEW V, NEW ls, Split(V, ls)
  PROVE  Lines(FlattenSeq(ls)) = ls
<1> DEFINE First(k) == SubSeq(ls, 1, k)
           S == {k \in 0..Len(ls) : Lines(FlattenSeq(First(k))) = First(k)}
<1>1. ls \in Seq(Seq(V)) /\ Len(ls) \in Nat /\ SubSeq(ls, 1, Len(ls)) = ls
  BY LenProperties, SubSeqFull DEF Split
<1>2. 0 \in S
  <2>1. First(0) = << >>
    OBVIOUS
  <2>2. Lines(FlattenSeq(First(0))) = First(0)
    BY <2>1, FlattenEmpty, LinesEmpty
  <2> QED BY <1>1, <2>2
<1>3. ASSUME NEW k \in 1..Len(ls), k - 1 \in S PROVE k \in S
  <2>1. PICK p, l, b : p = First(k - 1) /\ l = ls[k] /\ b = First(k)
    OBVIOUS
  <2>2. p \in Seq(Seq(V)) /\ l \in Seq(V) /\ b = Append(p, l) /\ Len(p) = k - 1
    BY <1>1, <2>1
  <2>3. p = << >> \/ Closed(Last(p))
    <3>1. CASE k = 1
      BY <2>2, <3>1, EmptySeq
    <3>2. CASE k # 1
      <4>1. k - 1 \in 1..Len(ls) /\ k - 1 < Len(ls)
        BY <1>1, <3>2
      <4>2. Last(p) = ls[k - 1]
        BY <1>1, <2>1, <2>2, <4>1 DEF Last
      <4> QED BY <4>1, <4>2 DEF Split
    <3> QED BY <3>1, <3>2
  <2> HIDE DEF First
  <2>4. Lines(FlattenSeq(p)) = p /\ FlattenSeq(p) \in Seq(V)
    BY <1>3, <2>1, <2>2, FlattenType
  <2>5. FlattenSeq(b) = FlattenSeq(p) \o l
    BY <2>2, FlattenAppend
  <2>6. IsLine(V, l)
    BY <2>1 DEF Split
  <2>7. Lines(FlattenSeq(b)) = b
    BY <2>2, <2>3, <2>4, <2>5, <2>6, LinesOfLine
  <2> QED BY <1>1, <2>1, <2>7
<1>4. Len(ls) \in S
  <2> HIDE DEF S
  <2>1. 0..Len(ls) \subseteq S
    BY <1>1, <1>2, <1>3, Induction
  <2> QED BY <1>1, <2>1
<1> QED BY <1>1, <1>4

----------------------------------------------------------------------------

\* Joining and cutting, element by element.
LEMMA ConcatFacts ==
  ASSUME NEW V, NEW s \in Seq(V), NEW t \in Seq(V)
  PROVE  /\ s \o t \in Seq(V) /\ Len(s \o t) = Len(s) + Len(t)
         /\ \A k \in 1..Len(s) : (s \o t)[k] = s[k]
         /\ \A k \in 1..Len(t) : (s \o t)[Len(s) + k] = t[k]
  OBVIOUS

LEMMA PrefixFacts ==
  ASSUME NEW V, NEW s \in Seq(V), NEW q \in 0..Len(s)
  PROVE  /\ SubSeq(s, 1, q) \in Seq(V) /\ Len(SubSeq(s, 1, q)) = q
         /\ \A k \in 1..q : SubSeq(s, 1, q)[k] = s[k]
  OBVIOUS

\* Joining sequences of one element, or of none.
LEMMA FlattenSingletons ==
  ASSUME NEW V, NEW s \in Seq(V)
  PROVE  FlattenSeq([k \in DOMAIN s |-> <<s[k]>>]) = s
<1>0. Len(s) \in Nat /\ DOMAIN s = 1..Len(s)
  BY LenProperties
<1>1. PICK n, parts : n \in Nat /\ n = Len(s) /\ DOMAIN s = 1..n /\ parts = [k \in DOMAIN s |-> <<s[k]>>]
  BY <1>0
<1>2. parts \in Seq(Seq(V)) /\ Len(parts) = n /\ SubSeq(parts, 1, n) = parts /\ SubSeq(s, 1, n) = s
        /\ \A k \in 1..n : parts[k] = <<s[k]>>
  <2>1. \A k \in 1..n : <<s[k]>> \in Seq(V)
    BY <1>1
  <2>2. parts \in Seq(Seq(V)) /\ Len(parts) = n
    BY <1>1, <2>1
  <2> QED BY <1>1, <2>2, SubSeqFull
<1> DEFINE S == {k \in 0..n : FlattenSeq(SubSeq(parts, 1, k)) = SubSeq(s, 1, k)}
<1>3. 0 \in S
  <2>1. SubSeq(parts, 1, 0) = << >> /\ SubSeq(s, 1, 0) = << >>
    BY SubSeqEmpty
  <2>2. FlattenSeq(SubSeq(parts, 1, 0)) = SubSeq(s, 1, 0)
    BY <2>1, FlattenEmpty, Zenon
  <2> QED BY <1>1, <2>2
<1>4. ASSUME NEW k \in 1..n, k - 1 \in S PROVE k \in S
  <2>1. FlattenSeq(SubSeq(parts, 1, k)) = FlattenSeq(SubSeq(parts, 1, k - 1)) \o parts[k]
    BY <1>2, FlattenPrefix
  <2>2. SubSeq(s, 1, k - 1) \o <<s[k]>> = SubSeq(s, 1, k)
    BY <1>1, SubSeqRecursiveSecond, LenProperties
  <2>3. FlattenSeq(SubSeq(parts, 1, k - 1)) = SubSeq(s, 1, k - 1) /\ parts[k] = <<s[k]>>
    BY <1>2, <1>4
  <2>4. FlattenSeq(SubSeq(parts, 1, k)) = SubSeq(s, 1, k)
    BY <2>1, <2>2, <2>3, Zenon
  <2> QED BY <2>4
<1> HIDE DEF S
<1>5. 0..n \subseteq S
  BY <1>1, <1>3, <1>4, Induction
<1>6. FlattenSeq(SubSeq(parts, 1, n)) = SubSeq(s, 1, n)
  BY <1>1, <1>5 DEF S
<1> QED BY <1>1, <1>2, <1>6

LEMMA FlattenEmpties ==
  ASSUME NEW n \in Nat, NEW parts, parts = [k \in 1..n |-> << >>]
  PROVE  FlattenSeq(parts) = << >> /\ Len(parts) = n
<1>2. parts \in Seq(Seq({})) /\ Len(parts) = n /\ SubSeq(parts, 1, n) = parts
        /\ \A k \in 1..n : parts[k] = << >>
  <2>1. << >> \in Seq({})
    OBVIOUS
  <2>2. parts \in Seq(Seq({})) /\ Len(parts) = n
    BY <2>1
  <2> QED BY <2>2, SubSeqFull
<1> DEFINE S == {k \in 0..n : FlattenSeq(SubSeq(parts, 1, k)) = << >>}
<1>3. 0 \in S
  <2>1. SubSeq(parts, 1, 0) = << >>
    BY SubSeqEmpty
  <2>2. FlattenSeq(SubSeq(parts, 1, 0)) = << >>
    BY <2>1, FlattenEmpty, Zenon
  <2> QED BY <2>2
<1>4. ASSUME NEW k \in 1..n, k - 1 \in S PROVE k \in S
  <2>1. FlattenSeq(SubSeq(parts, 1, k)) = FlattenSeq(SubSeq(parts, 1, k - 1)) \o parts[k]
    BY <1>2, FlattenPrefix
  <2>2. << >> \o << >> = << >>
    OBVIOUS
  <2> QED BY <1>2, <1>4, <2>1, <2>2
<1> HIDE DEF S
<1>5. 0..n \subseteq S
  BY <1>3, <1>4, Induction
<1>6. FlattenSeq(SubSeq(parts, 1, n)) = << >>
  BY <1>5 DEF S
<1> QED BY <1>2, <1>6

\* The lines of a hunk that all have the same tag.
Marked(tag, s) == [k \in DOMAIN s |-> [tag |-> tag, text |-> Bare(s[k])]]
Bares(s) == [k \in DOMAIN s |-> Bare(s[k])]
HunkLines(V) == Seq([tag : Tags, text : Seq(V)])

\* Lines without their line ends, as kept, deleted or added lines of a hunk.
LEMMA BareType ==
  ASSUME NEW V, NEW l \in Seq(V)
  PROVE  Bare(l) \in Seq(V)
<1>1. CASE l # << >>
  BY <1>1, FrontAndLast DEF Bare
<1>2. CASE l = << >>
  BY <1>2 DEF Bare
<1> QED BY <1>1, <1>2

LEMMA MarkedType ==
  ASSUME NEW V, NEW s \in Seq(Seq(V)), NEW tag \in Tags
  PROVE  /\ Bares(s) \in Seq(Seq(V)) /\ Len(Bares(s)) = Len(s)
         /\ \A k \in 1..Len(s) : Bares(s)[k] = Bare(s[k])
         /\ Marked(tag, s) \in HunkLines(V) /\ Len(Marked(tag, s)) = Len(s)
         /\ \A k \in 1..Len(s) : Marked(tag, s)[k] = [tag |-> tag, text |-> Bare(s[k])]
<1>1. PICK n \in Nat : n = Len(s) /\ DOMAIN s = 1..n
  BY LenProperties
<1>2. \A k \in 1..n : Bare(s[k]) \in Seq(V)
  BY <1>1, BareType
<1>3. /\ Bares(s) \in Seq(Seq(V)) /\ Len(Bares(s)) = n /\ \A k \in 1..n : Bares(s)[k] = Bare(s[k])
  BY <1>1, <1>2 DEF Bares
<1>4. \A k \in 1..n : [tag |-> tag, text |-> Bare(s[k])] \in [tag : Tags, text : Seq(V)]
  BY <1>2
<1>5. PICK R : R = [tag : Tags, text : Seq(V)]
  OBVIOUS
<1>6. Marked(tag, s) \in Seq(R) /\ Len(Marked(tag, s)) = n
        /\ \A k \in 1..n : Marked(tag, s)[k] = [tag |-> tag, text |-> Bare(s[k])]
  BY <1>1, <1>4, <1>5 DEF Marked
<1> QED BY <1>1, <1>3, <1>5, <1>6 DEF HunkLines

OldParts(lines) == [k \in DOMAIN lines |-> IF lines[k].tag = "+" THEN << >> ELSE <<lines[k].text>>]

\* The old lines of two groups of hunk lines are those of the first, then those
\* of the second.
LEMMA OldPartsType ==
  ASSUME NEW V, NEW a \in HunkLines(V)
  PROVE  /\ OldParts(a) \in Seq(Seq(Seq(V))) /\ Len(OldParts(a)) = Len(a)
         /\ \A k \in 1..Len(a) :
              OldParts(a)[k] = IF a[k].tag = "+" THEN << >> ELSE <<a[k].text>>
<1>1. PICK n \in Nat : n = Len(a) /\ DOMAIN a = 1..n /\ \A k \in 1..n : a[k].text \in Seq(V)
  <2>1. PICK R : R = [tag : Tags, text : Seq(V)] /\ a \in Seq(R)
    BY DEF HunkLines
  <2>2. Len(a) \in Nat /\ DOMAIN a = 1..Len(a) /\ \A k \in 1..Len(a) : a[k] \in R
    BY <2>1, LenProperties
  <2> QED BY <2>1, <2>2
<1>2. \A k \in 1..n : (IF a[k].tag = "+" THEN << >> ELSE <<a[k].text>>) \in Seq(Seq(V))
  <2>1. \A x \in Seq(V) : <<x>> \in Seq(Seq(V))
    OBVIOUS
  <2>2. << >> \in Seq(Seq(V))
    OBVIOUS
  <2> QED BY <1>1, <2>1, <2>2
<1> QED BY <1>1, <1>2 DEF OldParts

LEMMA OldConcat ==
  ASSUME NEW V, NEW a \in HunkLines(V), NEW b \in HunkLines(V)
  PROVE  /\ OldAmong(a \o b) = OldAmong(a) \o OldAmong(b)
         /\ OldAmong(a) \in Seq(Seq(V)) /\ OldAmong(b) \in Seq(Seq(V)) /\ a \o b \in HunkLines(V)
<1>1. PICK m \in Nat, n \in Nat : m = Len(a) /\ n = Len(b)
  BY LenProperties DEF HunkLines
<1>2. PICK ab : /\ ab = a \o b /\ ab \in HunkLines(V) /\ Len(ab) = m + n
                /\ \A k \in 1..m : ab[k] = a[k] 
                /\ \A k \in 1..n : ab[m + k] = b[k]
  <2>1. PICK R : R = [tag : Tags, text : Seq(V)] /\ a \in Seq(R) /\ b \in Seq(R)
    BY DEF HunkLines
  <2>2. PICK ab : ab = a \o b
    OBVIOUS
  <2>3. /\ ab \in Seq(R) /\ Len(ab) = m + n
        /\ \A k \in 1..m : ab[k] = a[k]
        /\ \A k \in 1..n : ab[m + k] = b[k]
    BY <1>1, <2>1, <2>2
  <2> QED BY <2>1, <2>2, <2>3 DEF HunkLines
<1>3. PICK pa, pb, pab : pa = OldParts(a) /\ pb = OldParts(b) /\ pab = OldParts(ab)
  OBVIOUS
<1>4. /\ pa \in Seq(Seq(Seq(V))) /\ Len(pa) = m /\ pb \in Seq(Seq(Seq(V))) /\ Len(pb) = n
      /\ pab \in Seq(Seq(Seq(V))) /\ Len(pab) = m + n
      /\ \A k \in 1..m : pab[k] = pa[k]
      /\ \A k \in 1..n : pab[m + k] = pb[k]
  <2>1. /\ pa \in Seq(Seq(Seq(V))) /\ Len(pa) = m /\ pb \in Seq(Seq(Seq(V))) /\ Len(pb) = n
        /\ pab \in Seq(Seq(Seq(V))) /\ Len(pab) = m + n
    BY <1>1, <1>2, <1>3, OldPartsType
  <2>2. ASSUME NEW k \in 1..m PROVE pab[k] = pa[k]
    <3>1. k \in 1..Len(ab) /\ k \in 1..Len(a) /\ ab[k] = a[k]
      BY <1>1, <1>2
    <3>2. pab[k] = IF ab[k].tag = "+" THEN << >> ELSE <<ab[k].text>>
      BY <1>2, <1>3, <3>1, OldPartsType, Zenon
    <3>3. pa[k] = IF a[k].tag = "+" THEN << >> ELSE <<a[k].text>>
      BY <1>3, <3>1, OldPartsType, Zenon
    <3> QED BY <3>1, <3>2, <3>3, Zenon
  <2>3. ASSUME NEW k \in 1..n PROVE pab[m + k] = pb[k]
    <3>1. m + k \in 1..Len(ab) /\ k \in 1..Len(b) /\ ab[m + k] = b[k]
      BY <1>1, <1>2
    <3>2. pab[m + k] = IF ab[m + k].tag = "+" THEN << >> ELSE <<ab[m + k].text>>
      BY <1>2, <1>3, <3>1, OldPartsType, Zenon
    <3>3. pb[k] = IF b[k].tag = "+" THEN << >> ELSE <<b[k].text>>
      BY <1>3, <3>1, OldPartsType, Zenon
    <3> QED BY <3>1, <3>2, <3>3, Zenon
  <2> QED BY <2>1, <2>2, <2>3
<1>5. pab = pa \o pb
  <2>1. PICK W : pa \in Seq(W) /\ pb \in Seq(W) /\ pab \in Seq(W)
    BY <1>4
  <2>2. PICK c : c = pa \o pb
    OBVIOUS
  <2>3. /\ c \in Seq(W) /\ Len(c) = m + n
        /\ \A k \in 1..m : c[k] = pa[k]
        /\ \A k \in 1..n : c[m + k] = pb[k]
    <3>1. pa \in Seq(W) /\ pb \in Seq(W) /\ Len(pa) = m /\ Len(pb) = n
      BY <1>4, <2>1
    <3>2. /\ pa \o pb \in Seq(W) /\ Len(pa \o pb) = Len(pa) + Len(pb)
          /\ \A k \in 1..Len(pa) : (pa \o pb)[k] = pa[k]
          /\ \A k \in 1..Len(pb) : (pa \o pb)[Len(pa) + k] = pb[k]
      BY <2>1, ConcatFacts
    <3> QED BY <2>2, <3>1, <3>2, Zenon
  <2>4. ASSUME NEW k \in 1..(m + n) PROVE c[k] = pab[k]
    <3>1. CASE k \in 1..m
      BY <1>4, <2>3, <3>1
    <3>2. CASE k \notin 1..m
      <4>1. k - m \in 1..n /\ m + (k - m) = k
        BY <3>2
      <4> QED BY <1>4, <2>3, <4>1, SMTT(30)
    <3> QED BY <3>1, <3>2
  <2> QED BY <1>4, <2>1, <2>2, <2>3, <2>4, SeqEqual
<1>6. FlattenSeq(pa \o pb) = FlattenSeq(pa) \o FlattenSeq(pb)
        /\ FlattenSeq(pa) \in Seq(Seq(V)) /\ FlattenSeq(pb) \in Seq(Seq(V))
  BY <1>4, FlattenConcat, FlattenType
<1> QED BY <1>2, <1>3, <1>5, <1>6 DEF OldAmong, OldParts

\* The tag and the text of a marked line.
LEMMA MarkedTags ==
  ASSUME NEW V, NEW s \in Seq(Seq(V)), NEW tag \in Tags
  PROVE  \A k \in 1..Len(s) : Marked(tag, s)[k].tag = tag /\ Marked(tag, s)[k].text = Bare(s[k])
<1>1. ASSUME NEW k \in 1..Len(s)
      PROVE  Marked(tag, s)[k].tag = tag /\ Marked(tag, s)[k].text = Bare(s[k])
  <2>1. Marked(tag, s)[k] = [tag |-> tag, text |-> Bare(s[k])]
    BY MarkedType
  <2> QED BY <2>1
<1> QED BY <1>1

\* Kept and deleted lines are old lines, added ones are not.
LEMMA OldOfMarked ==
  ASSUME NEW V, NEW s \in Seq(Seq(V)), NEW tag \in Tags
  PROVE  OldAmong(Marked(tag, s)) = IF tag = "+" THEN << >> ELSE Bares(s)
<1>0. Len(s) \in Nat
  BY LenProperties
<1>1. PICK n, m : n \in Nat /\ n = Len(s) /\ m = Marked(tag, s)
  BY <1>0
<1>2. /\ Bares(s) \in Seq(Seq(V)) /\ Len(Bares(s)) = n /\ \A k \in 1..n : Bares(s)[k] = Bare(s[k])
      /\ m \in HunkLines(V) /\ Len(m) = n
      /\ \A k \in 1..n : m[k] = [tag |-> tag, text |-> Bare(s[k])]
  BY <1>1, MarkedType
<1>3. DOMAIN m = 1..n /\ DOMAIN Bares(s) = 1..n
  BY <1>2, LenProperties DEF HunkLines
<1>4. CASE tag = "+"
  <2>1. \A k \in 1..n : m[k].tag = "+"
    BY <1>2, <1>4
  <2>2. OldParts(m) = [k \in 1..n |-> << >>]
    BY <1>3, <2>1 DEF OldParts
  <2>3. n \in Nat
    BY <1>1
  <2>4. FlattenSeq(OldParts(m)) = << >>
    <3>1. PICK q : q = OldParts(m)
      OBVIOUS
    <3>2. FlattenSeq(q) = << >>
      BY <2>2, <2>3, <3>1, FlattenEmpties, Zenon
    <3> QED BY <3>1, <3>2
  <2>5. OldAmong(m) = FlattenSeq(OldParts(m))
    BY DEF OldAmong, OldParts
  <2> QED BY <1>1, <1>4, <2>4, <2>5
<1>5. CASE tag # "+"
  <2>1. \A k \in 1..n : m[k].tag # "+" /\ m[k].text = Bares(s)[k]
    <3>1. \A k \in 1..n : m[k].tag = tag /\ m[k].text = Bare(s[k])
      BY <1>1, MarkedTags, Zenon
    <3>2. \A k \in 1..n : Bares(s)[k] = Bare(s[k])
      BY <1>2, Zenon
    <3>3. ASSUME NEW k \in 1..n PROVE m[k].tag # "+" /\ m[k].text = Bares(s)[k]
      <4>1. m[k].tag = tag /\ m[k].text = Bare(s[k]) /\ Bares(s)[k] = Bare(s[k])
        BY <3>1, <3>2, Zenon
      <4> QED BY <1>5, <4>1, Zenon
    <3> QED BY <3>3, Zenon
  <2>2. OldParts(m) = [k \in DOMAIN Bares(s) |-> <<Bares(s)[k]>>]
    BY <1>3, <2>1 DEF OldParts
  <2>3. FlattenSeq(OldParts(m)) = Bares(s)
    BY <1>2, <2>2, FlattenSingletons
  <2> QED BY <1>1, <1>5, <2>3 DEF OldAmong, OldParts
<1> QED BY <1>4, <1>5

Added(s) == [k \in DOMAIN s |-> Append(Bare(s[k]), NewlineOf(original))]

\* Added lines get the file's line end.
LEMMA AddedType ==
  ASSUME NEW V, NEW s \in Seq(Seq(V)), NewlineOf(original) \in V
  PROVE  Added(s) \in Seq(Seq(V)) /\ Len(Added(s)) = Len(s)
           /\ \A k \in 1..Len(s) : Added(s)[k] = Append(Bare(s[k]), NewlineOf(original))
<1>0. Len(s) \in Nat /\ DOMAIN s = 1..Len(s)
  BY LenProperties
<1>1. PICK n, nl : n \in Nat /\ n = Len(s) /\ DOMAIN s = 1..n /\ nl = NewlineOf(original)
  BY <1>0
<1>2. \A k \in 1..n : Append(Bare(s[k]), nl) \in Seq(V)
  <2>1. ASSUME NEW k \in 1..n PROVE Append(Bare(s[k]), nl) \in Seq(V)
    <3>1. Bare(s[k]) \in Seq(V)
      BY <1>1, BareType
    <3> QED BY <1>1, <3>1, AppendProperties
  <2> QED BY <2>1
<1> QED BY <1>1, <1>2 DEF Added

\* A hunk of one change: kept lines, deleted lines, added lines, kept lines.
OneChange(h, o1, o2, n3, o4) ==
  h.lines = ((Marked(" ", o1) \o Marked("-", o2)) \o Marked("+", n3)) \o Marked(" ", o4)

\* The old lines of such a hunk are its kept and its deleted ones.
LEMMA OldOfChange ==
  ASSUME NEW V, NEW o1 \in Seq(Seq(V)), NEW o2 \in Seq(Seq(V)), NEW n3 \in Seq(Seq(V)),
         NEW o4 \in Seq(Seq(V)), NEW h, OneChange(h, o1, o2, n3, o4)
  PROVE  /\ h.lines \in HunkLines(V)
         /\ Len(h.lines) = Len(o1) + Len(o2) + Len(n3) + Len(o4)
         /\ Old(h) = (Bares(o1) \o Bares(o2)) \o Bares(o4)
<1>1. PICK m1, m2, m3, m4 :
        m1 = Marked(" ", o1) /\ m2 = Marked("-", o2) /\ m3 = Marked("+", n3) /\ m4 = Marked(" ", o4)
  OBVIOUS
<1>2. /\ m1 \in HunkLines(V) /\ m2 \in HunkLines(V) /\ m3 \in HunkLines(V) /\ m4 \in HunkLines(V)
      /\ Len(m1) = Len(o1) /\ Len(m2) = Len(o2) /\ Len(m3) = Len(n3) /\ Len(m4) = Len(o4)
  BY <1>1, MarkedType DEF Tags
<1>3. /\ OldAmong(m1) = Bares(o1) /\ OldAmong(m2) = Bares(o2) /\ OldAmong(m3) = << >>
      /\ OldAmong(m4) = Bares(o4)
  BY <1>1, OldOfMarked DEF Tags
<1>4. /\ m1 \o m2 \in HunkLines(V) /\ OldAmong(m1 \o m2) = Bares(o1) \o Bares(o2)
      /\ OldAmong(m1 \o m2) \in Seq(Seq(V))
  <2>1. OldAmong(m1 \o m2) = OldAmong(m1) \o OldAmong(m2) /\ m1 \o m2 \in HunkLines(V)
          /\ OldAmong(m1) \in Seq(Seq(V)) /\ OldAmong(m2) \in Seq(Seq(V))
    BY <1>2, OldConcat
  <2>2. OldAmong(m1) \o OldAmong(m2) \in Seq(Seq(V))
    BY <2>1, ConcatFacts
  <2> QED BY <1>3, <2>1, <2>2, Zenon
<1>5. /\ (m1 \o m2) \o m3 \in HunkLines(V)
      /\ OldAmong((m1 \o m2) \o m3) = OldAmong(m1 \o m2) \o OldAmong(m3)
  BY <1>2, <1>4, OldConcat
<1>6. OldAmong((m1 \o m2) \o m3) = Bares(o1) \o Bares(o2)
  BY <1>3, <1>4, <1>5, ConcatEmptySeq
<1>7. /\ ((m1 \o m2) \o m3) \o m4 \in HunkLines(V)
      /\ OldAmong(((m1 \o m2) \o m3) \o m4) = (Bares(o1) \o Bares(o2)) \o Bares(o4)
  <2>1. /\ ((m1 \o m2) \o m3) \o m4 \in HunkLines(V)
        /\ OldAmong(((m1 \o m2) \o m3) \o m4) = OldAmong((m1 \o m2) \o m3) \o OldAmong(m4)
    BY <1>2, <1>5, OldConcat
  <2> QED BY <1>3, <1>6, <2>1, Zenon
<1>8. Len(((m1 \o m2) \o m3) \o m4) = Len(m1) + Len(m2) + Len(m3) + Len(m4)
  <2>1. PICK R : m1 \in Seq(R) /\ m2 \in Seq(R) /\ m3 \in Seq(R) /\ m4 \in Seq(R)
    BY <1>2 DEF HunkLines
  <2> QED BY <2>1
<1> QED BY <1>1, <1>2, <1>7, <1>8 DEF OneChange, Old

\* The lines that are put out for hunk lines whose old lines are p+1.. of the file.
Parts(ls, p) == [k \in DOMAIN ls |-> Becomes([lines |-> ls], p, k)]
Out(ls, p) == FlattenSeq(Parts(ls, p))

Joined(V, s, a, b) ==
  /\ s \in Seq(V) /\ a \in Seq(V) /\ b \in Seq(V) /\ Len(s) = Len(a) + Len(b)
  /\ \A k \in 1..Len(a) : s[k] = a[k]
  /\ \A k \in 1..Len(b) : s[Len(a) + k] = b[k]

\* A sequence that has the elements of two others, one after the other, joins them.
LEMMA JoinedIsConcat ==
  ASSUME NEW V, NEW s, NEW a, NEW b, Joined(V, s, a, b)
  PROVE  s = a \o b
<1>0. Len(a) \in Nat /\ Len(b) \in Nat
  BY LenProperties DEF Joined
<1>1. PICK m, n, c : m \in Nat /\ n \in Nat /\ m = Len(a) /\ n = Len(b) /\ c = a \o b
  BY <1>0
<1>2. /\ s \in Seq(V) /\ a \in Seq(V) /\ b \in Seq(V) /\ Len(s) = m + n
      /\ \A k \in 1..m : s[k] = a[k]
      /\ \A k \in 1..n : s[m + k] = b[k]
  BY <1>1 DEF Joined
<1>3. /\ c \in Seq(V) /\ Len(c) = m + n
      /\ \A k \in 1..m : c[k] = a[k]
      /\ \A k \in 1..n : c[m + k] = b[k]
  BY <1>1, <1>2
<1>4. ASSUME NEW k \in 1..(m + n) PROVE s[k] = c[k]
  <2>1. CASE k \in 1..m
    BY <1>2, <1>3, <2>1
  <2>2. CASE k \notin 1..m
    <3>1. k - m \in 1..n /\ m + (k - m) = k
      BY <1>1, <2>2
    <3> QED BY <1>2, <1>3, <3>1
  <2> QED BY <2>1, <2>2
<1> QED BY <1>1, <1>2, <1>3, <1>4, SeqEqual

\* One line of a hunk, n being the line of the file for a kept one.
Became(tag, text, n) ==
  CASE tag = " " -> <<Source[n]>>
    [] tag = "+" -> <<Append(text, NewlineOf(original))>>
    [] OTHER -> << >>

\* What a line becomes depends on its tag, its text and the old lines up to it.
LEMMA BecomesByTag ==
  ASSUME NEW ls, NEW p, NEW k
  PROVE  Becomes([lines |-> ls], p, k) =
           Became(ls[k].tag, ls[k].text, p + Len(OldAmong(SubSeq(ls, 1, k))))
  BY DEF Becomes, Became

Puts(V) == {Source[n] : n \in Int} \cup {Append(t, NewlineOf(original)) : t \in Seq(V)}

LEMMA BecameType ==
  ASSUME NEW V, NEW tag, NEW text \in Seq(V), NEW n \in Int
  PROVE  Became(tag, text, n) \in Seq(Puts(V))
<1>1. Source[n] \in Puts(V) /\ Append(text, NewlineOf(original)) \in Puts(V)
  BY DEF Puts
<1>2. << >> \in Seq(Puts(V)) /\ \A x \in Puts(V) : <<x>> \in Seq(Puts(V))
  OBVIOUS
<1> QED BY <1>1, <1>2 DEF Became

LEMMA FirstType ==
  ASSUME NEW V, NEW s \in Seq(V), NEW k \in 1..Len(s)
  PROVE  SubSeq(s, 1, k) \in Seq(V)
  OBVIOUS

LEMMA PartsType ==
  ASSUME NEW V, NEW ls \in HunkLines(V), NEW p \in Int
  PROVE  /\ Parts(ls, p) \in Seq(Seq(Puts(V))) /\ Len(Parts(ls, p)) = Len(ls)
         /\ \A k \in 1..Len(ls) :
              Parts(ls, p)[k] = Became(ls[k].tag, ls[k].text, p + Len(OldAmong(SubSeq(ls, 1, k))))
<1>1. PICK R : R = [tag : Tags, text : Seq(V)] /\ ls \in Seq(R)
  BY DEF HunkLines
<1>2. PICK n : n = Len(ls)
  OBVIOUS
<1>3. n \in Nat /\ DOMAIN ls = 1..n /\ \A k \in 1..n : ls[k] \in R
  BY <1>1, <1>2, LenProperties
<1>4. ASSUME NEW k \in 1..n
      PROVE  Became(ls[k].tag, ls[k].text, p + Len(OldAmong(SubSeq(ls, 1, k)))) \in Seq(Puts(V))
  <2>1. SubSeq(ls, 1, k) \in Seq(R)
    BY <1>1, <1>2, FirstType, Zenon
  <2>2. SubSeq(ls, 1, k) \in HunkLines(V)
    BY <1>1, <2>1 DEF HunkLines
  <2>3. OldAmong(SubSeq(ls, 1, k)) \in Seq(Seq(V))
    BY <2>2, OldConcat
  <2>4. Len(OldAmong(SubSeq(ls, 1, k))) \in Nat
    BY <2>3, LenProperties
  <2>5. p + Len(OldAmong(SubSeq(ls, 1, k))) \in Int
    BY <2>4
  <2>6. ls[k].text \in Seq(V)
    BY <1>1, <1>3
  <2> QED BY <2>5, <2>6, BecameType
<1>5. PICK f : f = [k \in 1..n |-> Became(ls[k].tag, ls[k].text, p + Len(OldAmong(SubSeq(ls, 1, k))))]
  OBVIOUS
<1>6. f \in Seq(Seq(Puts(V))) /\ Len(f) = n
  BY <1>3, <1>4, <1>5
<1>7. Parts(ls, p) = f
  BY <1>3, <1>5, BecomesByTag, Zenon DEF Parts
<1> QED BY <1>2, <1>5, <1>6, <1>7

\* The second of two groups of lines goes on where the old lines of the first end.
LEMMA OutOfConcat ==
  ASSUME NEW V, NEW a \in HunkLines(V), NEW b \in HunkLines(V), NEW p \in Int
  PROVE  Out(a \o b, p) = Out(a, p) \o Out(b, p + Len(OldAmong(a)))
<1>0. Len(a) \in Nat /\ Len(b) \in Nat
  BY LenProperties DEF HunkLines
<1>1. PICK m, n, R, ab :
        /\ m \in Nat /\ n \in Nat /\ m = Len(a) /\ n = Len(b) /\ ab = a \o b
        /\ R = [tag : Tags, text : Seq(V)] /\ a \in Seq(R) /\ b \in Seq(R)
  BY <1>0 DEF HunkLines
<1>2. /\ ab \in Seq(R) /\ Len(ab) = m + n
      /\ \A k \in 1..m : ab[k] = a[k]
      /\ \A k \in 1..n : ab[m + k] = b[k]
  BY <1>1
<1>3. ab \in HunkLines(V)
  BY <1>1, <1>2 DEF HunkLines
<1>4. PICK u \in Nat : u = Len(OldAmong(a))
  BY OldConcat, LenProperties
<1>5. PICK W : W = Seq(Puts(V))
  OBVIOUS
<1>7. PICK pa, pb, pab : pa = Parts(a, p) /\ pb = Parts(b, p + u) /\ pab = Parts(ab, p)
  OBVIOUS
<1> DEFINE OldNo(ls, k) == Len(OldAmong(SubSeq(ls, 1, k)))
<1>8. /\ pa \in Seq(W) /\ Len(pa) = m
      /\ \A k \in 1..m : pa[k] = Became(a[k].tag, a[k].text, p + OldNo(a, k))
  BY <1>1, <1>5, <1>7, PartsType
<1>9. /\ pb \in Seq(W) /\ Len(pb) = n
      /\ \A k \in 1..n : pb[k] = Became(b[k].tag, b[k].text, (p + u) + OldNo(b, k))
  <2>1. p + u \in Int
    OBVIOUS
  <2> QED BY <1>1, <1>5, <1>7, <2>1, PartsType
<1>10. /\ pab \in Seq(W) /\ Len(pab) = m + n
       /\ \A k \in 1..(m + n) : pab[k] = Became(ab[k].tag, ab[k].text, p + OldNo(ab, k))
  BY <1>2, <1>3, <1>5, <1>7, PartsType
<1>14. ASSUME NEW k \in 1..m PROVE pab[k] = pa[k]
  <2>1. k \in 0..m /\ k \in 1..(m + n)
    BY <1>1
  <2>2. SubSeq(ab, 1, k) = SubSeq(a, 1, k)
    BY <1>1, <2>1, PrefixOfConcat, Zenon
  <2>3. ab[k] = a[k] /\ OldNo(ab, k) = OldNo(a, k)
    BY <1>2, <2>2
  <2> HIDE DEF OldNo
  <2> QED BY <1>8, <1>10, <2>1, <2>3, Zenon
<1>15. ASSUME NEW k \in 1..n PROVE pab[m + k] = pb[k]
  <2>1. k \in 1..Len(b) /\ m + k \in 1..(m + n)
    BY <1>1
  <2>2. PICK bk : bk = SubSeq(b, 1, k)
    OBVIOUS
  <2>3. bk \in HunkLines(V)
    <3>1. bk \in Seq(R)
      BY <1>1, <2>1, <2>2, FirstType, Zenon
    <3> QED BY <1>1, <3>1 DEF HunkLines
  <2>9. SubSeq(ab, 1, m + k) = a \o bk
    <3>1. k \in 1..Len(b) /\ a \in Seq(R) /\ b \in Seq(R)
      BY <1>1, <2>1
    <3>2. SubSeq(a \o b, 1, Len(a) + k) = a \o SubSeq(b, 1, k)
      BY <3>1
    <3> QED BY <1>1, <2>2, <3>2, Zenon
  <2>4. OldAmong(a \o bk) = OldAmong(a) \o OldAmong(bk) /\ OldAmong(a) \in Seq(Seq(V))
          /\ OldAmong(bk) \in Seq(Seq(V))
    BY <2>3, OldConcat
  <2>5. PICK v \in Nat : v = Len(OldAmong(bk))
    BY <2>4, LenProperties
  <2>6. Len(OldAmong(a) \o OldAmong(bk)) = u + v
    BY <1>4, <2>4, <2>5, ConcatFacts
  <2>7. p + OldNo(ab, m + k) = (p + u) + OldNo(b, k)
    <3>1. p + (u + v) = (p + u) + v
      OBVIOUS
    <3>2. OldNo(ab, m + k) = u + v /\ OldNo(b, k) = v
      BY <2>2, <2>9, <2>4, <2>5, <2>6, Zenon
    <3> QED BY <3>1, <3>2
  <2>8. ab[m + k] = b[k]
    BY <1>2
  <2> HIDE DEF OldNo
  <2> QED BY <1>9, <1>10, <2>1, <2>7, <2>8, Zenon
<1>11. Joined(W, pab, pa, pb)
  BY <1>8, <1>9, <1>10, <1>14, <1>15 DEF Joined
<1>12. pab = pa \o pb
  BY <1>11, JoinedIsConcat
<1>13. FlattenSeq(pa \o pb) = FlattenSeq(pa) \o FlattenSeq(pb)
  <2>1. pa \in Seq(Seq(Puts(V))) /\ pb \in Seq(Seq(Puts(V)))
    BY <1>5, <1>8, <1>9
  <2> QED BY <2>1, FlattenConcat
<1> QED BY <1>1, <1>4, <1>7, <1>12, <1>13, Zenon DEF Out

\* The first q kept lines are q old lines.
LEMMA OldOfPrefix ==
  ASSUME NEW V, NEW s \in Seq(Seq(V)), NEW q \in 1..Len(s)
  PROVE  Len(OldAmong(SubSeq(Marked(" ", s), 1, q))) = q
<1>0. PICK m, f, n : m = Marked(" ", s) /\ f = SubSeq(s, 1, q) /\ n = Len(s)
  OBVIOUS
<1>1. m = Marked(" ", s) /\ f = SubSeq(s, 1, q) /\ n = Len(s) /\ n \in Nat /\ q \in 0..n /\ q \in Nat /\ q <= n
  <2>1. Len(s) \in Nat
    BY LenProperties
  <2>2. q \in 0..Len(s) /\ q \in Nat /\ q <= Len(s)
    BY <2>1
  <2> QED BY <1>0, <2>1, <2>2
<1>2. /\ m \in HunkLines(V) /\ Len(m) = n
      /\ \A k \in 1..n : m[k] = [tag |-> " ", text |-> Bare(s[k])]
  BY <1>1, MarkedType DEF Tags
<1>3. f \in Seq(Seq(V)) /\ Len(f) = q /\ \A k \in 1..q : f[k] = s[k]
  BY <1>1, PrefixFacts, Zenon
<1>4. /\ Marked(" ", f) \in HunkLines(V) /\ Len(Marked(" ", f)) = q
      /\ \A k \in 1..q : Marked(" ", f)[k] = [tag |-> " ", text |-> Bare(f[k])]
  BY <1>3, MarkedType DEF Tags
<1>5. SubSeq(m, 1, q) = Marked(" ", f)
  <2>1. PICK R : m \in Seq(R) /\ Marked(" ", f) \in Seq(R)
    BY <1>2, <1>4 DEF HunkLines
  <2>2. q \in 0..Len(m)
    BY <1>1, <1>2, Zenon
  <2>3. SubSeq(m, 1, q) \in Seq(R) /\ Len(SubSeq(m, 1, q)) = q /\ \A k \in 1..q : SubSeq(m, 1, q)[k] = m[k]
    BY <2>1, <2>2, PrefixFacts, Zenon
  <2>4. \A k \in 1..q : SubSeq(m, 1, q)[k] = Marked(" ", f)[k]
    <3>1. \A k \in 1..q : k \in 1..n
      <4>1. q \in Nat /\ q <= n /\ n \in Nat
        BY <1>1
      <4> QED BY <4>1
    <3> QED BY <1>2, <1>3, <1>4, <2>3, <3>1
  <2>5. q = Len(Marked(" ", f))
    BY <1>4
  <2> QED BY <2>1, <2>3, <2>4, <2>5, SeqEqual
<1>6. OldAmong(Marked(" ", f)) = Bares(f) /\ Len(Bares(f)) = q
  BY <1>3, OldOfMarked, MarkedType DEF Tags
<1> QED BY <1>1, <1>5, <1>6

InFile(s, p) == \A q \in 1..Len(s) : Source[p + q] = s[q]

\* Kept lines come from the file, deleted ones go, added ones get its line end.
LEMMA OutOfKept ==
  ASSUME NEW V, NEW s \in Seq(Seq(V)), NEW p \in Int, InFile(s, p)
  PROVE  Out(Marked(" ", s), p) = s
<1>0. PICK m, n : m = Marked(" ", s) /\ n = Len(s)
  OBVIOUS
<1>1. m = Marked(" ", s) /\ n = Len(s) /\ n \in Nat /\ DOMAIN s = 1..n
  BY <1>0, LenProperties
<1>2. m \in HunkLines(V) /\ Len(m) = n /\ \A k \in 1..n : m[k].tag = " "
  <2>1. " " \in Tags
    BY DEF Tags
  <2> QED BY <1>1, <2>1, MarkedType, MarkedTags, Zenon
<1>3. DOMAIN m = 1..n
  BY <1>2, LenProperties DEF HunkLines
<1>4. ASSUME NEW k \in 1..n PROVE Becomes([lines |-> m], p, k) = <<s[k]>>
  <2>1. Len(OldAmong(SubSeq(m, 1, k))) = k
    BY <1>1, OldOfPrefix
  <2>2. Becomes([lines |-> m], p, k) = Became(m[k].tag, m[k].text, p + k)
    BY <2>1, BecomesByTag, Zenon
  <2>3. Source[p + k] = s[k]
    BY <1>1 DEF InFile
  <2> QED BY <1>2, <2>2, <2>3 DEF Became
<1>5. Parts(m, p) = [k \in DOMAIN s |-> <<s[k]>>]
  BY <1>1, <1>3, <1>4 DEF Parts
<1> QED BY <1>1, <1>5, FlattenSingletons DEF Out

LEMMA OutOfDeleted ==
  ASSUME NEW V, NEW s \in Seq(Seq(V)), NEW p
  PROVE  Out(Marked("-", s), p) = << >>
<1>0. PICK m, n : m = Marked("-", s) /\ n = Len(s)
  OBVIOUS
<1>1. m = Marked("-", s) /\ n = Len(s) /\ n \in Nat
  BY <1>0, LenProperties
<1>2. m \in HunkLines(V) /\ Len(m) = n /\ \A k \in 1..n : m[k].tag = "-"
  <2>1. "-" \in Tags
    BY DEF Tags
  <2> QED BY <1>1, <2>1, MarkedType, MarkedTags, Zenon
<1>3. DOMAIN m = 1..n
  BY <1>2, LenProperties DEF HunkLines
<1>4. \A k \in 1..n : Becomes([lines |-> m], p, k) = << >>
  BY <1>2, BecomesByTag DEF Became
<1>5. Parts(m, p) = [k \in 1..n |-> << >>]
  BY <1>3, <1>4 DEF Parts
<1> QED BY <1>1, <1>5, FlattenEmpties DEF Out

LEMMA OutOfAdded ==
  ASSUME NEW V, NEW s \in Seq(Seq(V)), NEW p, NewlineOf(original) \in V
  PROVE  Out(Marked("+", s), p) = Added(s)
<1>0. PICK m, ad, n : m = Marked("+", s) /\ ad = Added(s) /\ n = Len(s)
  OBVIOUS
<1>1. m = Marked("+", s) /\ ad = Added(s) /\ n = Len(s) /\ n \in Nat
  BY <1>0, LenProperties
<1>2. m \in HunkLines(V) /\ Len(m) = n /\ \A k \in 1..n : m[k].tag = "+" /\ m[k].text = Bare(s[k])
  <2>1. "+" \in Tags
    BY DEF Tags
  <2> QED BY <1>1, <2>1, MarkedType, MarkedTags, Zenon
<1>3. ad \in Seq(Seq(V)) /\ Len(ad) = n
        /\ \A k \in 1..n : ad[k] = Append(Bare(s[k]), NewlineOf(original))
  BY <1>1, AddedType
<1>4. DOMAIN m = 1..n /\ DOMAIN ad = 1..n
  BY <1>2, <1>3, LenProperties DEF HunkLines
<1>5. \A k \in 1..n : Becomes([lines |-> m], p, k) = <<ad[k]>>
  <2>1. ASSUME NEW k \in 1..n PROVE Becomes([lines |-> m], p, k) = <<ad[k]>>
    <3>1. m[k].tag = "+" /\ ad[k] = Append(m[k].text, NewlineOf(original))
      BY <1>2, <1>3
    <3>2. Became(m[k].tag, m[k].text, p + Len(OldAmong(SubSeq(m, 1, k)))) = <<ad[k]>>
      BY <3>1 DEF Became
    <3> QED BY <3>2, BecomesByTag, Zenon
  <2> QED BY <2>1
<1>6. Parts(m, p) = [k \in DOMAIN ad |-> <<ad[k]>>]
  BY <1>4, <1>5 DEF Parts
<1> QED BY <1>1, <1>3, <1>6, FlattenSingletons DEF Out

\* What a hunk of one change emits where its old lines are those of the file.
LEMMA EmittedOfChange ==
  ASSUME NEW V, NEW o1 \in Seq(Seq(V)), NEW o2 \in Seq(Seq(V)), NEW n3 \in Seq(Seq(V)),
         NEW o4 \in Seq(Seq(V)), NEW h, OneChange(h, o1, o2, n3, o4),
         NewlineOf(original) \in V, NEW p \in Int,
         InFile(o1, p), InFile(o4, p + (Len(o1) + Len(o2)))
  PROVE  Emitted(h, p) = (o1 \o Added(n3)) \o o4
<1>1. PICK m1, m2, m3, m4, L :
        /\ m1 = Marked(" ", o1) /\ m2 = Marked("-", o2) /\ m3 = Marked("+", n3) /\ m4 = Marked(" ", o4)
        /\ L = ((m1 \o m2) \o m3) \o m4
  OBVIOUS
<1>2. m1 \in HunkLines(V) /\ m2 \in HunkLines(V) /\ m3 \in HunkLines(V) /\ m4 \in HunkLines(V)
  BY <1>1, MarkedType DEF Tags
<1>3. /\ m1 \o m2 \in HunkLines(V) /\ (m1 \o m2) \o m3 \in HunkLines(V)
      /\ OldAmong((m1 \o m2) \o m3) = (OldAmong(m1) \o OldAmong(m2)) \o OldAmong(m3)
  <2>1. m1 \o m2 \in HunkLines(V) /\ OldAmong(m1 \o m2) = OldAmong(m1) \o OldAmong(m2)
    BY <1>2, OldConcat
  <2>2. (m1 \o m2) \o m3 \in HunkLines(V) /\ OldAmong((m1 \o m2) \o m3) = OldAmong(m1 \o m2) \o OldAmong(m3)
    BY <1>2, <2>1, OldConcat
  <2> QED BY <2>1, <2>2, Zenon
<1>4. Len(OldAmong((m1 \o m2) \o m3)) = Len(o1) + Len(o2)
  <2>1. OldAmong(m1) = Bares(o1) /\ OldAmong(m2) = Bares(o2) /\ OldAmong(m3) = << >>
    BY <1>1, OldOfMarked DEF Tags
  <2>2. /\ Bares(o1) \in Seq(Seq(V)) /\ Len(Bares(o1)) = Len(o1)
        /\ Bares(o2) \in Seq(Seq(V)) /\ Len(Bares(o2)) = Len(o2)
    BY MarkedType DEF Tags
  <2>3. Len(Bares(o1) \o Bares(o2)) = Len(Bares(o1)) + Len(Bares(o2))
          /\ Bares(o1) \o Bares(o2) \in Seq(Seq(V))
    BY <2>2, ConcatFacts, Zenon
  <2>4. (Bares(o1) \o Bares(o2)) \o << >> = Bares(o1) \o Bares(o2)
    BY <2>3, ConcatEmptySeq, Zenon
  <2> QED BY <1>3, <2>1, <2>2, <2>3, <2>4, Zenon
<1>5. PICK x, y : x = p + Len(OldAmong(m1)) /\ y = p + Len(OldAmong(m1 \o m2))
  OBVIOUS
<1>6. /\ Out(m1 \o m2, p) = Out(m1, p) \o Out(m2, x)
      /\ Out((m1 \o m2) \o m3, p) = Out(m1 \o m2, p) \o Out(m3, y)
      /\ Out(L, p) = Out((m1 \o m2) \o m3, p) \o Out(m4, p + Len(OldAmong((m1 \o m2) \o m3)))
  <2>1. Out(m1 \o m2, p) = Out(m1, p) \o Out(m2, x)
    BY <1>2, <1>5, OutOfConcat, Zenon
  <2>2. Out((m1 \o m2) \o m3, p) = Out(m1 \o m2, p) \o Out(m3, y)
    BY <1>2, <1>3, <1>5, OutOfConcat, Zenon
  <2>3. Out(L, p) = Out((m1 \o m2) \o m3, p) \o Out(m4, p + Len(OldAmong((m1 \o m2) \o m3)))
    <3>1. PICK m : m = (m1 \o m2) \o m3
      OBVIOUS
    <3>2. m \in HunkLines(V) /\ L = m \o m4
      BY <1>1, <1>3, <3>1, Zenon
    <3>3. Out(m \o m4, p) = Out(m, p) \o Out(m4, p + Len(OldAmong(m)))
      BY <1>2, <3>2, OutOfConcat, Zenon
    <3> QED BY <3>1, <3>2, <3>3, Zenon
  <2> QED BY <2>1, <2>2, <2>3
<1>7. Out(m1, p) = o1 /\ Out(m2, x) = << >> /\ Out(m3, y) = Added(n3)
  BY <1>1, OutOfKept, OutOfDeleted, OutOfAdded
<1>8. Out(m4, p + (Len(o1) + Len(o2))) = o4
  <2>1. p + (Len(o1) + Len(o2)) \in Int
    OBVIOUS
  <2> QED BY <1>1, <2>1, OutOfKept, Zenon
<1>9. o1 \o << >> = o1
  BY ConcatEmptySeq
<1>10. Out(L, p) = (o1 \o Added(n3)) \o o4
  BY <1>4, <1>6, <1>7, <1>8, <1>9, Zenon
<1>11. Emitted(h, p) = Out(h.lines, p)
  <2>1. \A k : Becomes(h, p, k) = Becomes([lines |-> h.lines], p, k)
    BY DEF Becomes
  <2> QED BY <2>1 DEF Emitted, Out, Parts
<1>12. h.lines = L
  BY <1>1 DEF OneChange
<1> QED BY <1>10, <1>11, <1>12, Zenon

\* A number of lines, cut off at the last of l lines (Upto, for the source).
CutOff(l, m) == IF m < l THEN m ELSE l

LEMMA CutOffs ==
  ASSUME NEW l \in Nat, NEW p \in Nat, NEW c \in Nat, c # 0 => p + c <= l,
         NEW before \in 0..p
  PROVE  /\ CutOff(l, p) + c = CutOff(l, p + c)
         /\ CutOff(l, p + c) \in 0..l
         /\ CutOff(l, p) \in 0..CutOff(l, p + c)
         /\ CutOff(l, p) \in 0..l
         /\ CutOff(l, before) \in 0..CutOff(l, p)
         /\ before > l => CutOff(l, before) = l /\ CutOff(l, p) = l
         /\ before <= l => CutOff(l, before) = before
  BY DEF CutOff

\* Lines before+1..a of s, after its first lines (none if s ends before).
LEMMA PrefixGrows ==
  ASSUME NEW V, NEW s \in Seq(V), NEW a \in 0..Len(s), NEW b \in 0..a, NEW before \in Nat,
         before = b \/ (before > Len(s) /\ b = a)
  PROVE  /\ SubSeq(s, 1, a) = SubSeq(s, 1, b) \o SubSeq(s, before + 1, a)
         /\ SubSeq(s, before + 1, a) \in Seq(V)
<1>1. CASE before = b
  <2>1. SubSeq(s, b + 1, a) \in Seq(V)
    OBVIOUS
  <2> QED BY <1>1, <2>1, PrefixSplit
<1>2. CASE before > Len(s) /\ b = a
  <2>1. SubSeq(s, before + 1, a) = << >>
    BY <1>2
  <2>2. SubSeq(s, 1, a) \in Seq(V)
    OBVIOUS
  <2>3. SubSeq(s, 1, a) \o << >> = SubSeq(s, 1, a)
    BY <2>2, ConcatEmptySeq
  <2> QED BY <1>2, <2>1, <2>3
<1> QED BY <1>1, <1>2

\* Lines that begin like s, with r after the first u of them.
Continues(lines, s, u, r) == lines = SubSeq(s, 1, u) \o r
Fits(s, p, c) == c # 0 => p + c <= Len(s)
Between(s, before, p) == SubSeq(s, before + 1, CutOff(Len(s), p))
SpliceIn(lines, s, p, c, e) ==
  SubSeq(lines, 1, CutOff(Len(s), p)) \o e \o SubSeq(lines, CutOff(Len(s), p) + c + 1, Len(lines))

\* One block is replaced in such lines.
LEMMA OneSplice ==
  ASSUME NEW V, NEW s \in Seq(V), NEW e \in Seq(V), NEW r \in Seq(V),
         NEW p \in Nat, NEW c \in Nat, Fits(s, p, c), NEW before \in 0..p,
         NEW lines, Continues(lines, s, CutOff(Len(s), p + c), r)
  PROVE  Continues(SpliceIn(lines, s, p, c, e), s, CutOff(Len(s), before),
                   (Between(s, before, p) \o e) \o r)
<1>1. PICK a, b, u : a = CutOff(Len(s), p) /\ b = CutOff(Len(s), before) /\ u = CutOff(Len(s), p + c)
  OBVIOUS
<1>2. /\ a + c = u /\ u \in 0..Len(s) /\ a \in 0..u /\ a \in 0..Len(s) /\ b \in 0..a
      /\ before = b \/ (before > Len(s) /\ b = a)
  <2>1. Len(s) \in Nat
    OBVIOUS
  <2>2. /\ CutOff(Len(s), p) + c = CutOff(Len(s), p + c)
        /\ CutOff(Len(s), p + c) \in 0..Len(s)
        /\ CutOff(Len(s), p) \in 0..CutOff(Len(s), p + c)
        /\ CutOff(Len(s), p) \in 0..Len(s)
        /\ CutOff(Len(s), before) \in 0..CutOff(Len(s), p)
        /\ before > Len(s) => CutOff(Len(s), before) = Len(s) /\ CutOff(Len(s), p) = Len(s)
        /\ before <= Len(s) => CutOff(Len(s), before) = before
    BY <2>1, CutOffs, Zenon DEF Fits
  <2> QED BY <1>1, <2>1, <2>2
<1>3. PICK first : first = SubSeq(s, 1, u)
  OBVIOUS
<1>4. first \in Seq(V) /\ Len(first) = u
  BY <1>2, <1>3
<1>5. SubSeq(lines, u + 1, Len(lines)) = r
  <2>1. lines = first \o r
    BY <1>1, <1>3 DEF Continues
  <2> QED BY <1>4, <2>1, SuffixOfConcat
<1>6. SubSeq(lines, 1, a) = SubSeq(s, 1, a)
  <2>1. SubSeq(first \o r, 1, a) = SubSeq(first, 1, a)
    BY <1>2, <1>4, PrefixOfConcat
  <2>2. SubSeq(first, 1, a) = SubSeq(s, 1, a)
    BY <1>2, <1>3, PrefixOfPrefix
  <2> QED BY <1>1, <1>3, <2>1, <2>2 DEF Continues
<1>7. /\ SubSeq(s, 1, a) = SubSeq(s, 1, b) \o SubSeq(s, before + 1, a)
      /\ SubSeq(s, before + 1, a) \in Seq(V)
  BY <1>2, PrefixGrows, SMTT(30)
<1>8. PICK head \in Seq(V), between \in Seq(V) :
        head = SubSeq(s, 1, b) /\ between = SubSeq(s, before + 1, a)
  <2>1. SubSeq(s, 1, b) \in Seq(V)
    BY <1>2
  <2> QED BY <1>7, <2>1
<1>9. ((head \o between) \o e) \o r = head \o ((between \o e) \o r)
  <2>1. (head \o between) \o e = head \o (between \o e)
    BY ConcatAssociative, SMTT(30)
  <2>2. between \o e \in Seq(V)
    BY ConcatProperties
  <2>3. \A mid \in Seq(V) : (head \o mid) \o r = head \o (mid \o r)
    BY SMTT(30)
  <2>4. (head \o (between \o e)) \o r = head \o ((between \o e) \o r)
    BY <2>2, <2>3, Zenon
  <2> QED BY <2>1, <2>4, Zenon
<1>10. SubSeq(lines, 1, a) \o e \o SubSeq(lines, a + c + 1, Len(lines))
       = head \o ((between \o e) \o r)
  BY <1>2, <1>5, <1>6, <1>7, <1>8, <1>9
<1> QED BY <1>1, <1>8, <1>10 DEF Continues, SpliceIn, Between

\* n blocks of c[k] lines after the first p[k] lines of s, in order and apart;
\* used[k] lines of s are used up with the k-th.
Blocks(s, n, p, c, used) ==
  /\ p \in [1..n -> Nat] /\ c \in [1..n -> Nat] /\ used \in [0..n -> Nat] /\ used[0] = 0
  /\ \A k \in 1..n : /\ Fits(s, p[k], c[k])
                     /\ used[k - 1] <= p[k] /\ used[k] = p[k] + c[k]

\* The lines put out while the blocks are replaced by e[k] from the first on.
PutOut(s, n, p, e, used, out) ==
  /\ out[0] = << >>
  /\ \A k \in 1..n :
       out[k] = (out[k - 1] \o Between(s, used[k - 1], p[k])) \o e[k]

\* The lines of s while they are replaced from the last one back.
SplicedBack(s, n, p, c, e, new) ==
  /\ new[0] = s
  /\ \A j \in 1..n :
       LET k == n + 1 - j
       IN new[j] = SpliceIn(new[j - 1], s, p[k], c[k], e[k])

LEMMA PutOutType ==
  ASSUME NEW V, NEW s \in Seq(V), NEW n \in Nat, NEW p, NEW c, NEW used,
         Blocks(s, n, p, c, used),
         NEW e \in [1..n -> Seq(V)], NEW out, PutOut(s, n, p, e, used, out)
  PROVE  \A k \in 0..n : out[k] \in Seq(V)
<1> DEFINE S == {k \in 0..n : out[k] \in Seq(V)}
<1>1. 0 \in S
  <2>1. out[0] = << >> /\ << >> \in Seq(V) /\ 0 \in 0..n
    BY DEF PutOut
  <2> QED BY <2>1
<1>2. ASSUME NEW k \in 1..n, k - 1 \in S PROVE k \in S
  <2>1. out[k] = (out[k - 1] \o Between(s, used[k - 1], p[k])) \o e[k]
    BY DEF PutOut
  <2>2. used[k - 1] \in Nat /\ CutOff(Len(s), p[k]) \in 0..Len(s)
    <3>1. p[k] \in Nat /\ used[k - 1] \in Nat /\ Len(s) \in Nat
      BY DEF Blocks
    <3> QED BY <3>1 DEF CutOff
  <2>3. Between(s, used[k - 1], p[k]) \in Seq(V)
    <3>1. \A a \in Nat, b \in 0..Len(s) : SubSeq(s, a + 1, b) \in Seq(V)
      OBVIOUS
    <3> QED BY <2>2, <3>1 DEF Between
  <2>4. out[k - 1] \in Seq(V) /\ e[k] \in Seq(V)
    BY <1>2
  <2>5. \A x, y, z \in Seq(V) : (x \o y) \o z \in Seq(V)
    OBVIOUS
  <2>6. out[k] \in Seq(V)
    BY <2>1, <2>3, <2>4, <2>5, ZenonT(30)
  <2> QED BY <2>6
<1> HIDE DEF S
<1>3. 0..n \subseteq S
  BY <1>1, <1>2, Induction
<1> QED BY <1>3 DEF S

Replacement(V, s, n, p, c, e, used, out, new) ==
  /\ s \in Seq(V) /\ n \in Nat /\ e \in [1..n -> Seq(V)] /\ Blocks(s, n, p, c, used)
  /\ PutOut(s, n, p, e, used, out) /\ SplicedBack(s, n, p, c, e, new)

\* Everything put out: the rest of s follows what is put out with the last block.
Ended(s, lines, u) == lines \o SubSeq(s, u + 1, Len(s))

\* Both ways give the same lines.
LEMMA ForwardIsBackward ==
  ASSUME NEW V, NEW s, NEW n, NEW p, NEW c, NEW e, NEW used, NEW out, NEW new,
         Replacement(V, s, n, p, c, e, used, out, new)
  PROVE  new[n] = Ended(s, out[n], used[n])
<1> s \in Seq(V) /\ n \in Nat /\ e \in [1..n -> Seq(V)] /\ Blocks(s, n, p, c, used)
      /\ PutOut(s, n, p, e, used, out) /\ SplicedBack(s, n, p, c, e, new)
  BY DEF Replacement
<1> DEFINE Rest(j, r) ==
             /\ Continues(new[j], s, CutOff(Len(s), used[n - j]), r)
             /\ out[n - j] \o r = out[n] \o SubSeq(s, used[n] + 1, Len(s))
           S == {j \in 0..n : \E r \in Seq(V) : Rest(j, r)}
<1>0. /\ \A k \in 0..n : out[k] \in Seq(V) /\ used[k] \in Nat
      /\ Len(s) \in Nat /\ n \in 0..n /\ 0 \in 0..n /\ n - 0 = n /\ n - n = 0
  <2>1. \A k \in 0..n : out[k] \in Seq(V)
    BY PutOutType
  <2>2. \A k \in 0..n : used[k] \in Nat
    BY DEF Blocks
  <2>3. Len(s) \in Nat /\ n \in 0..n /\ 0 \in 0..n /\ n - 0 = n /\ n - n = 0
    OBVIOUS
  <2> QED BY <2>1, <2>2, <2>3
<1>1. 0 \in S
  <2>1. PICK u \in Nat : u = used[n]
    BY <1>0
  <2>2. PICK r : r = SubSeq(s, u + 1, Len(s))
    OBVIOUS
  <2>3. r \in Seq(V) /\ s = SubSeq(s, 1, CutOff(Len(s), u)) \o r
    <3>1. CASE u < Len(s)
      <4>1. CutOff(Len(s), u) = u /\ u \in 0..Len(s) /\ Len(s) \in 0..Len(s)
        BY <1>0, <3>1 DEF CutOff
      <4>2. SubSeq(s, 1, Len(s)) = SubSeq(s, 1, u) \o r /\ SubSeq(s, 1, Len(s)) = s
        BY <2>2, <4>1, PrefixSplit, SubSeqFull
      <4>3. r \in Seq(V)
        BY <2>2
      <4> QED BY <4>1, <4>2, <4>3
    <3>2. CASE ~(u < Len(s))
      <4>1. CutOff(Len(s), u) = Len(s)
        BY <3>2 DEF CutOff
      <4>2. r = << >>
        BY <1>0, <2>2, <3>2
      <4>3. SubSeq(s, 1, Len(s)) = s /\ s \o << >> = s /\ << >> \in Seq(V)
        BY SubSeqFull, ConcatEmptySeq
      <4> QED BY <4>1, <4>2, <4>3
    <3> QED BY <3>1, <3>2
  <2>4. Rest(0, r)
    BY <1>0, <2>1, <2>2, <2>3 DEF SplicedBack, Continues
  <2> HIDE DEF Rest
  <2> QED BY <1>0, <2>3, <2>4
<1>2. ASSUME NEW j \in 1..n, j - 1 \in S PROVE j \in S
  <2>1. PICK k \in 1..n : k = n + 1 - j /\ n - (j - 1) = k /\ n - j = k - 1
    <3>1. n + 1 - j \in 1..n /\ n - (j - 1) = n + 1 - j /\ n - j = (n + 1 - j) - 1
      OBVIOUS
    <3> QED BY <3>1
  <2>2. PICK r \in Seq(V) : Rest(j - 1, r)
    BY <1>2
  <2>3. PICK before \in Nat, q \in Nat, d \in Nat, f \in Seq(V), done \in Seq(V) :
          /\ before = used[k - 1] /\ q = p[k] /\ d = c[k] /\ f = e[k] /\ done = out[k - 1]
          /\ before \in 0..q /\ used[k] = q + d /\ Fits(s, q, d)
    <3>1. k - 1 \in 0..n
      OBVIOUS
    <3>2. used[k - 1] \in Nat /\ p[k] \in Nat /\ c[k] \in Nat /\ e[k] \in Seq(V) /\ out[k - 1] \in Seq(V)
      BY <1>0, <3>1 DEF Blocks
    <3>3. used[k - 1] <= p[k] /\ used[k] = p[k] + c[k] /\ Fits(s, p[k], c[k])
      BY DEF Blocks
    <3>4. used[k - 1] \in 0..p[k]
      BY <3>2, <3>3
    <3> QED BY <3>2, <3>3, <3>4, Zenon
  <2>4. PICK between : between = Between(s, before, q)
    OBVIOUS
  <2>5. between \in Seq(V)
    <3>1. CutOff(Len(s), q) \in 0..Len(s)
      BY <1>0 DEF CutOff
    <3> QED BY <2>4, <3>1 DEF Between
  <2>6. new[j] = SpliceIn(new[j - 1], s, q, d, f)
    BY <2>1, <2>3 DEF SplicedBack
  <2>7. Continues(new[j - 1], s, CutOff(Len(s), q + d), r)
    BY <2>1, <2>2, <2>3
  <2>8. Continues(SpliceIn(new[j - 1], s, q, d, f), s, CutOff(Len(s), before),
                  (Between(s, before, q) \o f) \o r)
    BY <2>3, <2>7, OneSplice
  <2>9. Continues(new[j], s, CutOff(Len(s), before), (between \o f) \o r)
    BY <2>4, <2>6, <2>8
  <2>10. out[k] = (done \o between) \o f
    BY <2>3, <2>4 DEF PutOut
  <2>11. (between \o f) \o r \in Seq(V)
    BY <2>5
  <2>12. done \o ((between \o f) \o r) = out[k] \o r
    <3>1. \A x, y \in Seq(V) : (done \o x) \o y = done \o (x \o y)
      BY SMTT(30)
    <3>2. between \o f \in Seq(V)
      BY <2>5
    <3>3. (done \o between) \o f = done \o (between \o f)
      BY <2>5, <3>1
    <3>4. (done \o (between \o f)) \o r = done \o ((between \o f) \o r)
      BY <3>1, <3>2, Zenon
    <3> QED BY <2>10, <3>3, <3>4
  <2>13. out[k] \o r = out[n] \o SubSeq(s, used[n] + 1, Len(s))
    BY <2>1, <2>2
  <2>14. Rest(j, (between \o f) \o r)
    BY <2>1, <2>3, <2>9, <2>12, <2>13
  <2> HIDE DEF Rest
  <2>15. \E r_ \in Seq(V) : Rest(j, r_)
    BY <2>11, <2>14, Zenon
  <2> QED BY <2>15
<1>3. n \in S
  <2> HIDE DEF S
  <2>1. 0..n \subseteq S
    BY <1>1, <1>2, Induction
  <2> QED BY <2>1
<1>4. PICK r \in Seq(V) : Rest(n, r)
  BY <1>3
<1>5. CutOff(Len(s), used[0]) = 0 /\ out[0] = << >>
  BY <1>0 DEF CutOff, Blocks, PutOut
<1>6. SubSeq(s, 1, 0) = << >> /\ << >> \o r = r
  OBVIOUS
<1>7. new[n] = r /\ r = out[n] \o SubSeq(s, used[n] + 1, Len(s))
  BY <1>0, <1>4, <1>5, <1>6 DEF Continues
<1> QED BY <1>7 DEF Ended

----------------------------------------------------------------------------

IsHunk(h) == h.start \in Int /\ IsSeq(h.lines)

Used(k) == IF k = 0 THEN 0 ELSE at[k] + Len(Old(hunks[k]))

Shape ==
  /\ IsSeq(original) /\ IsSeq(hunks) /\ IsSeq(at) /\ Len(at) <= Len(hunks)
  /\ \A k \in 1..Len(hunks) : IsHunk(hunks[k])
  /\ phase # "done" => outcome = "none"
  /\ phase # "done" \/ outcome = "applied" => Len(at) = Len(hunks)

InOrder ==
  /\ \A k \in 1..Len(at) : at[k] \in Nat /\ Used(k - 1) <= at[k] /\ Placed(k)
  /\ src_index = Used(Len(at))

\* The lines put out with the k-th hunk: what lies before it, then what it emits.
Grown(lines, k) ==
  (lines \o Between(Source, Used(k - 1), at[k])) \o Emitted(hunks[k], at[k])
Forward(out) ==
  /\ out[0] = << >> /\ \A k \in 1..Len(at) : out[k] = Grown(out[k - 1], k)
  /\ output = out[Len(at)]

Result ==
  outcome = "applied" =>
    patched = FlattenSeq(output \o SubSeq(Source, src_index + 1, Len(Source)))

\* A hunk that was refused has no place, or only one that is used up.
Refusal ==
  Len(hunks) > Len(at) =>
    /\ Len(hunks) = Len(at) + 1
    /\ \/ Places(hunks[Len(hunks)]) = {}
       \/ \E p \in Places(hunks[Len(hunks)]) : p < src_index

EngineInv == Shape /\ InOrder /\ (\E out : Forward(out)) /\ Result /\ Refusal

\* The lines of the file and the old lines of a hunk are sequences.
LEMMA SourceType ==
  ASSUME IsSeq(original)
  PROVE  IsSeq(Source) /\ Len(Source) \in Nat /\ \A m \in Nat : Upto(m) = CutOff(Len(Source), m)
<1>1. original \in Seq(Range(original))
  BY IsSeqRange
<1>2. Lines(original) \in Seq(Seq(Range(original)))
  BY <1>1, LinesType
<1> QED BY <1>2, IsSeqRange DEF Source, IsSeq, Upto, CutOff

LEMMA OldType ==
  ASSUME NEW h, IsHunk(h)
  PROVE  Len(Old(h)) \in Nat /\ IsSeq(Old(h)) /\ DOMAIN Old(h) = 1..Len(Old(h))
           /\ (Len(Old(h)) = 0 <=> Old(h) = << >>)
<1>1. IsSeq(Old(h)) /\ Len(Old(h)) \in Nat
  BY OldAmongType DEF Old, IsHunk
<1>2. PICK S : Old(h) \in Seq(S)
  BY <1>1 DEF IsSeq
<1> QED BY <1>1, <1>2, LenProperties, EmptySeq

\* Where a hunk may go is a line number, and its old lines are there.
LEMMA PlacesFound ==
  ASSUME IsSeq(original), NEW h, IsHunk(h), NEW p \in Places(h)
  PROVE  /\ p \in Int
         /\ Old(h) # << >> => p \in Candidates(Source, Old(h))
         /\ p = h.start - 1 \/ Candidates(Source, Old(h)) = {p}
<1>1. Len(Source) \in Nat /\ Len(Old(h)) \in Nat /\ h.start \in Int
  BY SourceType, OldType DEF IsHunk
<1>2. CASE Old(h) = << >> \/ (h.start >= 1 /\ MatchesAt(Source, h.start - 1, Old(h)))
  <2>1. p = h.start - 1
    BY <1>2 DEF Places
  <2>2. MatchesAt(Source, p, Old(h)) /\ h.start >= 1 => p \in Candidates(Source, Old(h))
    BY <1>1, <2>1 DEF Candidates, MatchesAt
  <2> QED BY <1>1, <1>2, <2>1, <2>2
<1>3. CASE ~(Old(h) = << >> \/ (h.start >= 1 /\ MatchesAt(Source, h.start - 1, Old(h))))
  <2>1. p \in Candidates(Source, Old(h)) /\ Candidates(Source, Old(h)) = {p}
    BY <1>3 DEF Places
  <2> QED BY <1>1, <2>1 DEF Candidates
<1> QED BY <1>2, <1>3

\* The matcher never has a choice.
LEMMA PlacesUnique ==
  ASSUME NEW h, NEW p \in Places(h), NEW q \in Places(h)
  PROVE  p = q
  BY DEF Places

LEMMA FileUnchanged ==
  ASSUME original' = original
  PROVE  /\ Source' = Source
         /\ \A h, p : Emitted(h, p)' = Emitted(h, p)
<1>1. Source' = Source
  BY DEF Source
<1>2. ASSUME NEW h, NEW p PROVE Emitted(h, p)' = Emitted(h, p)
  BY <1>1 DEF Emitted, Becomes
<1> QED BY <1>1, <1>2

----------------------------------------------------------------------------

\* The matcher starts with nothing placed.
LEMMA MatcherInitInv ==
  ASSUME MatcherInit, IsSeq(original)
  PROVE  EngineInv
<1>1. Len(hunks) = 0 /\ Len(at) = 0
  BY DEF MatcherInit
<1>2. Shape /\ InOrder /\ Result /\ Refusal
  BY <1>1, IsSeqEmpty DEF MatcherInit, Shape, InOrder, Used, Result, Refusal
<1>3. Forward([k \in 0..0 |-> << >>])
  BY <1>1 DEF Forward, MatcherInit
<1> QED BY <1>2, <1>3, Zenon DEF EngineInv

\* What is appended leaves the earlier hunks, their places and what they use up.
LEMMA AppendedHunk ==
  ASSUME Shape, NEW h, hunks' = Append(hunks, h)
  PROVE  /\ IsSeq(hunks') /\ Len(hunks') = Len(hunks) + 1 /\ Len(hunks) \in Nat /\ Len(at) \in Nat
         /\ hunks'[Len(hunks) + 1] = h
         /\ \A k \in 1..Len(hunks) : hunks'[k] = hunks[k]
<1>1. PICK S : hunks \in Seq(S)
  BY DEF Shape, IsSeq
<1>2. IsSeq(hunks') /\ Len(hunks') = Len(hunks) + 1
  BY IsSeqAppend DEF Shape
<1>3. hunks'[Len(hunks) + 1] = h /\ \A k \in 1..Len(hunks) : hunks'[k] = hunks[k]
  <2>1. hunks \in Seq(S \cup {h})
    BY <1>1, SeqMonotonic
  <2> QED BY <2>1, AppendProperties
<1> QED BY <1>2, <1>3, IsSeqRange DEF Shape

\* A hunk that is placed begins where the file is not used up yet, so the blocks
\* stay in order and apart, and the lines put out grow by what is before it and
\* what it emits.
LEMMA PlaceKeepsOrder ==
  ASSUME EngineInv, phase = "matching", NEW h, IsHunk(h), Place(h)
  PROVE  EngineInv'
<1>0. PICK n \in Nat : n = Len(at)
  BY IsSeqRange DEF EngineInv, Shape
<1>1. PICK p \in Places(h) :
        /\ p >= src_index
        /\ output' = output \o SubSeq(Source, src_index + 1, Upto(p)) \o Emitted(h, p)
        /\ src_index' = p + Len(Old(h))
        /\ hunks' = Append(hunks, h) /\ at' = Append(at, p)
        /\ UNCHANGED <<phase, original, patched, outcome>>
  BY DEF Place
<1>2. Shape /\ InOrder /\ Len(hunks) = n /\ Len(at) = n /\ IsSeq(at) /\ IsSeq(original)
        /\ outcome = "none"
  BY <1>0 DEF EngineInv, Shape
<1>3. /\ IsSeq(hunks') /\ Len(hunks') = n + 1 /\ hunks'[n + 1] = h
      /\ \A k \in 1..n : hunks'[k] = hunks[k]
  BY <1>1, <1>2, AppendedHunk
<1>4. /\ IsSeq(at') /\ Len(at') = n + 1 /\ at'[n + 1] = p
      /\ \A k \in 1..n : at'[k] = at[k]
  <2>1. PICK S : at \in Seq(S)
    BY <1>2 DEF IsSeq
  <2>2. at \in Seq(S \cup {p})
    BY <2>1, SeqMonotonic
  <2> QED BY <1>1, <1>2, <2>2, IsSeqAppend, AppendProperties
<1>5. Source' = Source /\ \A g, q : Emitted(g, q)' = Emitted(g, q)
  BY <1>1, FileUnchanged
<1>6. \A k \in 0..n : Used(k)' = Used(k)
  BY <1>2, <1>3, <1>4 DEF Used
<1>7. Used(n) \in Nat /\ Used(n) = src_index /\ p \in Nat
  <2>1. Used(n) \in Nat
    <3>1. CASE n = 0
      BY <3>1 DEF Used
    <3>2. CASE n # 0
      <4>1. n \in 1..n /\ IsHunk(hunks[n])
        BY <1>2, <3>2 DEF Shape
      <4> QED BY <1>2, <3>2, <4>1, OldType DEF Used, InOrder
    <3> QED BY <3>1, <3>2
  <2>2. p \in Int
    BY <1>1, <1>2, PlacesFound
  <2> QED BY <1>1, <1>2, <2>1, <2>2 DEF InOrder
<1>8. Shape'
  <2>1. \A k \in 1..Len(hunks') : IsHunk(hunks'[k])
    BY <1>2, <1>3 DEF Shape
  <2> QED BY <1>1, <1>2, <1>3, <1>4, <2>1 DEF Shape
<1>9. InOrder'
  <2>1. Used(n + 1)' = src_index'
    BY <1>1, <1>2, <1>3, <1>4 DEF Used
  <2>2. ASSUME NEW k \in 1..n PROVE at'[k] \in Nat /\ Used(k - 1)' <= at'[k] /\ Placed(k)'
    <3>1. at[k] \in Nat /\ Used(k - 1) <= at[k] /\ Placed(k)
      BY <1>2 DEF InOrder
    <3>2. Used(k - 1)' = Used(k - 1)
      BY <1>6
    <3>3. Placed(k)'
      BY <1>3, <1>4, <1>5, <3>1, SMTT(30) DEF Placed, MatchesAt, Candidates
    <3> QED BY <1>4, <3>1, <3>2, <3>3
  <2>3. Placed(n + 1)'
    <3>1. /\ Old(h) # << >> => p \in Candidates(Source, Old(h))
          /\ p = h.start - 1 \/ Candidates(Source, Old(h)) = {p}
      BY <1>1, <1>2, PlacesFound
    <3> QED BY <1>3, <1>4, <1>5, <3>1 DEF Placed, MatchesAt, Candidates
  <2>4. Used(n)' <= at'[n + 1] /\ at'[n + 1] \in Nat
    BY <1>1, <1>2, <1>4, <1>6, <1>7
  <2>5. ASSUME NEW k \in 1..(n + 1) PROVE at'[k] \in Nat /\ Used(k - 1)' <= at'[k] /\ Placed(k)'
    <3>1. CASE k \in 1..n
      BY <2>2, <3>1
    <3>2. CASE k = n + 1
      <4>1. k - 1 = n
        BY <1>2, <3>2
      <4> QED BY <2>3, <2>4, <3>2, <4>1
    <3> QED BY <1>2, <3>1, <3>2
  <2> QED BY <1>4, <2>1, <2>5 DEF InOrder
<1>10. (\E out : Forward(out))'
  <2>1. PICK out : Forward(out)
    BY DEF EngineInv
  <2>0. PICK new, o : new = [k \in 0..(n + 1) |-> IF k = n + 1 THEN output' ELSE out[k]] /\ o = output
    OBVIOUS
  <2>2. Grown(o, n + 1)' = output'
    <3>1. output' = (output \o Between(Source, Used(n), p)) \o Emitted(h, p)
      BY <1>1, <1>2, <1>7, SourceType DEF Between
    <3>2. /\ Used((n + 1) - 1)' = Used(n) /\ at'[n + 1] = p /\ hunks'[n + 1] = h
      <4>1. (n + 1) - 1 = n /\ n \in 0..n
        OBVIOUS
      <4> QED BY <1>3, <1>4, <1>6, <4>1
    <3>3. Emitted(h, p)' = Emitted(h, p) /\ Source' = Source
      BY <1>5
    <3> QED BY <2>0, <3>1, <3>2, <3>3 DEF Grown
  <2>3. new[0] = << >> /\ new[n + 1] = output' /\ \A k \in 0..n : new[k] = out[k]
    BY <1>2, <2>0, <2>1 DEF Forward
  <2>4. ASSUME NEW k \in 1..(n + 1) PROVE new[k] = Grown(new[k - 1], k)'
    <3>1. CASE k \in 1..n
      <4>1. out[k] = Grown(out[k - 1], k)
        BY <1>2, <2>1, <3>1 DEF Forward
      <4>2. k \in 0..n /\ k - 1 \in 0..n
        BY <3>1
      <4>3. new[k] = out[k] /\ new[k - 1] = out[k - 1]
        BY <2>3, <4>2
      <4>4. PICK g, q : g = hunks[k] /\ q = at[k]
        OBVIOUS
      <4>5. Emitted(g, q)' = Emitted(g, q)
        BY <1>5
      <4>6. Used(k - 1)' = Used(k - 1) /\ at'[k] = q /\ hunks'[k] = g
        BY <1>3, <1>4, <1>6, <3>1, <4>2, <4>4
      <4>7. Grown(new[k - 1], k)' = Grown(new[k - 1], k)
        BY <1>5, <4>4, <4>5, <4>6 DEF Grown
      <4> QED BY <4>1, <4>3, <4>7
    <3>2. CASE k = n + 1
      <4>1. k - 1 = n /\ n \in 0..n /\ new[n] = o
        BY <1>2, <2>0, <2>1, <2>3, <3>2 DEF Forward
      <4> QED BY <2>2, <2>3, <3>2, <4>1
    <3> QED BY <1>2, <3>1, <3>2
  <2>5. Forward(new)'
    BY <1>4, <2>3, <2>4 DEF Forward
  <2> QED BY <2>5
<1>11. Result' /\ Refusal'
  BY <1>1, <1>2, <1>3, <1>4 DEF Result, Refusal
<1> QED BY <1>8, <1>9, <1>10, <1>11 DEF EngineInv

\* A step that places no hunk leaves the lines put out as they are.
LEMMA KeepsOrder ==
  ASSUME EngineInv, UNCHANGED <<original, at, src_index, output>>,
         \A k \in 1..Len(at) : hunks'[k] = hunks[k]
  PROVE  InOrder' /\ (\E out : Forward(out))'
<1>0. PICK n \in Nat : n = Len(at) /\ n = Len(at')
  BY IsSeqRange DEF EngineInv, Shape
<1>1. Shape /\ InOrder /\ at' = at
  BY DEF EngineInv
<1>2. Source' = Source /\ \A g, q : Emitted(g, q)' = Emitted(g, q)
  BY FileUnchanged
<1>3. \A k \in 0..n : Used(k)' = Used(k)
  BY <1>0, <1>1 DEF Used
<1>4. InOrder'
  <2>1. Used(n)' = src_index'
    BY <1>0, <1>1, <1>3 DEF InOrder
  <2>2. ASSUME NEW k \in 1..n PROVE at'[k] \in Nat /\ Used(k - 1)' <= at'[k] /\ Placed(k)'
    <3>1. at[k] \in Nat /\ Used(k - 1) <= at[k] /\ Placed(k)
      BY <1>0, <1>1 DEF InOrder
    <3>2. Used(k - 1)' = Used(k - 1)
      BY <1>3
    <3>3. Placed(k)'
      BY <1>0, <1>1, <1>2, <3>1 DEF Placed, MatchesAt, Candidates
    <3> QED BY <1>1, <3>1, <3>2, <3>3
  <2> QED BY <1>0, <2>1, <2>2 DEF InOrder
<1>5. (\E out : Forward(out))'
  <2>1. PICK out : Forward(out)
    BY DEF EngineInv
  <2>2. ASSUME NEW k \in 1..n PROVE out[k] = Grown(out[k - 1], k)'
    <3>1. out[k] = Grown(out[k - 1], k)
      BY <1>0, <2>1 DEF Forward
    <3>2. PICK g, q : g = hunks[k] /\ q = at[k]
      OBVIOUS
    <3>3. Emitted(g, q)' = Emitted(g, q)
      BY <1>2
    <3>4. Used(k - 1)' = Used(k - 1) /\ at'[k] = q /\ hunks'[k] = g
      BY <1>0, <1>1, <1>3, <3>2
    <3>5. Grown(out[k - 1], k)' = Grown(out[k - 1], k)
      BY <1>2, <3>2, <3>3, <3>4 DEF Grown
    <3> QED BY <3>1, <3>5
  <2>3. Forward(out)'
    BY <1>0, <1>1, <2>1, <2>2 DEF Forward
  <2> QED BY <2>3
<1> QED BY <1>4, <1>5

LEMMA PlacesUnchanged ==
  ASSUME UNCHANGED <<original, src_index>>
  PROVE  \A h : Places(h)' = Places(h)
<1>1. Source' = Source
  BY FileUnchanged
<1>2. ASSUME NEW h PROVE Places(h)' = Places(h)
  BY <1>1 DEF Places, Candidates, MatchesAt
<1> QED BY <1>2

LEMMA SameHunks ==
  ASSUME EngineInv, UNCHANGED <<original, matching>>
  PROVE  InOrder' /\ (\E out : Forward(out))' /\ Refusal' /\ IsSeq(original')
<1>1. UNCHANGED <<original, at, src_index, output, hunks>>
  BY DEF matching
<1>2. PICK h : h = hunks[Len(hunks)]
  OBVIOUS
<1>3. Refusal'
  <2>1. Places(h)' = Places(h) /\ hunks'[Len(hunks')] = h
    BY <1>1, <1>2, PlacesUnchanged
  <2>2. (Places(hunks[Len(hunks)]))' = Places(h)
    BY <2>1
  <2>3. Refusal
    BY DEF EngineInv
  <2> QED BY <1>1, <1>2, <2>2, <2>3 DEF Refusal
<1> QED BY <1>1, <1>3, KeepsOrder DEF EngineInv, Shape

\* The four ways out of the matcher, and no step of it.
LEMMA StopKeepsOrder ==
  ASSUME EngineInv, phase = "matching", NEW h, IsHunk(h), Mismatch(h) \/ Overlap(h)
  PROVE  EngineInv'
<1>1. /\ hunks' = Append(hunks, h) /\ phase' = "done"
      /\ UNCHANGED <<original, at, src_index, output, patched>>
      /\ outcome' # "none" /\ outcome' # "applied"
  BY DEF Mismatch, Overlap, Refused, Kind
<1>2. Shape /\ IsSeq(at) /\ IsSeq(original) /\ at' = at /\ Len(hunks) = Len(at)
  BY <1>1 DEF EngineInv, Shape
<1>3. /\ IsSeq(hunks') /\ Len(hunks') = Len(hunks) + 1 /\ Len(hunks) \in Nat
      /\ hunks'[Len(hunks) + 1] = h
      /\ \A k \in 1..Len(hunks) : hunks'[k] = hunks[k]
  BY <1>1, <1>2, AppendedHunk
<1>4. Shape'
  <2>1. \A k \in 1..Len(hunks') : IsHunk(hunks'[k])
    BY <1>2, <1>3 DEF Shape
  <2> QED BY <1>1, <1>2, <1>3, <2>1 DEF Shape
<1>5. InOrder' /\ (\E out : Forward(out))'
  BY <1>1, <1>2, <1>3, KeepsOrder
<1>6. Result'
  BY <1>1 DEF Result
<1>7. Refusal'
  <2>1. Places(h) = {} \/ \E p \in Places(h) : p < src_index
    BY DEF Mismatch, Overlap
  <2>2. Places(h)' = Places(h)
    BY <1>1, PlacesUnchanged
  <2>4. hunks'[Len(hunks')] = h
    BY <1>3
  <2>5. (Places(hunks[Len(hunks)]))' = Places(h)
    BY <2>2, <2>4
  <2> QED BY <1>1, <1>2, <1>3, <2>1, <2>5 DEF Refusal
<1> QED BY <1>4, <1>5, <1>6, <1>7 DEF EngineInv

LEMMA NoHunksKeepsOrder ==
  ASSUME EngineInv, phase # "done", UNCHANGED hunks, NEW kind,
         kind # "none", kind # "applied", Refused(kind)
  PROVE  EngineInv'
<1>1. UNCHANGED <<original, matching>> /\ phase' = "done" /\ outcome' = kind
  BY DEF Refused, matching
<1>2. InOrder' /\ (\E out : Forward(out))' /\ Refusal' /\ Result'
  BY <1>1, SameHunks DEF Result
<1>3. Shape'
  BY <1>1 DEF Shape, EngineInv, matching
<1> QED BY <1>2, <1>3 DEF EngineInv

LEMMA FinishKeepsOrder ==
  ASSUME EngineInv, phase = "matching", Finish
  PROVE  EngineInv'
<1>1. UNCHANGED <<original, matching>> /\ phase' = "done"
  BY DEF Finish
<1>2. InOrder' /\ (\E out : Forward(out))' /\ Refusal'
  BY <1>1, SameHunks
<1>3. Result'
  <2>1. Source' = Source /\ UNCHANGED <<output, src_index>>
    BY <1>1, FileUnchanged DEF matching
  <2> QED BY <2>1 DEF Result, Finish
<1>4. Shape'
  BY <1>1 DEF Shape, EngineInv, matching
<1> QED BY <1>2, <1>3, <1>4 DEF EngineInv

LEMMA StartKeepsOrder ==
  ASSUME EngineInv, phase # "done", phase' = "matching", UNCHANGED <<original, matching, patched, outcome>>
  PROVE  EngineInv'
<1>1. InOrder' /\ (\E out : Forward(out))' /\ Refusal'
  BY SameHunks
<1>2. Result'
  <2>1. Source' = Source /\ UNCHANGED <<output, src_index>>
    BY FileUnchanged DEF matching
  <2> QED BY <2>1 DEF Result, EngineInv
<1>3. Shape'
  BY DEF Shape, EngineInv, matching
<1> QED BY <1>1, <1>2, <1>3 DEF EngineInv

LEMMA StutterKeepsOrder ==
  ASSUME EngineInv, UNCHANGED engine
  PROVE  EngineInv'
<1>0. UNCHANGED <<phase, original, matching, patched, outcome>>
  BY DEF engine
<1>1. InOrder' /\ (\E out : Forward(out))' /\ Refusal'
  BY <1>0, SameHunks
<1>2. Result'
  <2>1. Source' = Source /\ UNCHANGED <<output, src_index>>
    BY <1>0, FileUnchanged DEF matching
  <2> QED BY <1>0, <2>1 DEF Result, EngineInv
<1>3. Shape'
  BY <1>0 DEF Shape, EngineInv, matching
<1> QED BY <1>1, <1>2, <1>3 DEF EngineInv

----------------------------------------------------------------------------

\* What Finish joins is what splicing the blocks in from the last one back gives.
LEMMA OutputIsSpliced ==
  ASSUME EngineInv, Len(hunks) = Len(at)
  PROVE  Spliced = output \o SubSeq(Source, src_index + 1, Len(Source))
<1>0. PICK n \in Nat : n = Len(at) /\ n = Len(hunks)
  BY IsSeqRange DEF EngineInv, Shape
<1>1. Shape /\ InOrder /\ IsSeq(original) /\ \A k \in 1..n : IsHunk(hunks[k])
  BY <1>0 DEF EngineInv, Shape
<1>2. PICK out : Forward(out)
  BY DEF EngineInv
<1>3. PICK s, p, c, e, used, new :
        /\ s = Source /\ new = SplicedFrom
        /\ p = [k \in 1..n |-> at[k]] /\ c = [k \in 1..n |-> Len(Old(hunks[k]))]
        /\ e = [k \in 1..n |-> Emitted(hunks[k], at[k])] /\ used = [k \in 0..n |-> Used(k)]
  OBVIOUS
<1>4. PICK V : s \in Seq(V) /\ e \in [1..n -> Seq(V)]
  <2> DEFINE W == Range(s) \cup UNION {Range(e[k]) : k \in 1..n}
  <2>1. s \in Seq(W)
    <3>1. IsSeq(s) /\ Range(s) \subseteq W
      BY <1>1, <1>3, SourceType
    <3> HIDE DEF W
    <3> QED BY <3>1, IsSeqRange, SeqMonotonic
  <2>2. ASSUME NEW k \in 1..n PROVE e[k] \in Seq(W)
    <3>1. IsSeq(e[k])
      BY <1>1, <1>3, EmittedType DEF IsHunk
    <3>2. Range(e[k]) \subseteq W
      OBVIOUS
    <3> HIDE DEF W
    <3> QED BY <3>1, <3>2, IsSeqRange, SeqMonotonic
  <2> HIDE DEF W
  <2>3. e \in [1..n -> Seq(W)]
    BY <1>3, <2>2
  <2> QED BY <2>1, <2>3
<1>5. Blocks(s, n, p, c, used)
  <2>1. \A k \in 1..n : at[k] \in Nat /\ Used(k - 1) <= at[k] /\ Placed(k)
    BY <1>0, <1>1 DEF InOrder
  <2>2. \A k \in 1..n : Len(Old(hunks[k])) \in Nat /\ Used(k) = at[k] + Len(Old(hunks[k]))
                          /\ (Len(Old(hunks[k])) = 0 <=> Old(hunks[k]) = << >>)
    BY <1>1, OldType DEF Used
  <2>3. \A k \in 1..n : Fits(s, p[k], c[k])
    BY <1>3, <2>1, <2>2 DEF Fits, Placed, MatchesAt
  <2>4. p \in [1..n -> Nat] /\ c \in [1..n -> Nat]
    BY <1>3, <2>1, <2>2
  <2>5. used \in [0..n -> Nat] /\ used[0] = 0
    <3>1. Used(0) = 0 /\ 0 \in 0..n
      BY DEF Used
    <3>2. ASSUME NEW k \in 0..n PROVE Used(k) \in Nat
      <4>1. CASE k = 0
        BY <3>1, <4>1
      <4>2. CASE k # 0
        <5>1. k \in 1..n
          BY <4>2
        <5> QED BY <2>1, <2>2, <5>1
      <4> QED BY <4>1, <4>2
    <3> QED BY <1>3, <3>1, <3>2
  <2>6. \A k \in 1..n : used[k - 1] <= p[k] /\ used[k] = p[k] + c[k]
    <3>1. ASSUME NEW k \in 1..n PROVE used[k - 1] <= p[k] /\ used[k] = p[k] + c[k]
      <4>1. k \in 0..n /\ k - 1 \in 0..n
        OBVIOUS
      <4> QED BY <1>3, <2>1, <2>2, <4>1
    <3> QED BY <3>1
  <2> QED BY <2>3, <2>4, <2>5, <2>6 DEF Blocks
<1>6. PutOut(s, n, p, e, used, out)
  <2>1. ASSUME NEW k \in 1..n
        PROVE  out[k] = (out[k - 1] \o Between(s, used[k - 1], p[k])) \o e[k]
    <3>1. out[k] = Grown(out[k - 1], k) /\ k - 1 \in 0..n
      BY <1>0, <1>2 DEF Forward
    <3> QED BY <1>3, <3>1 DEF Grown
  <2> QED BY <1>2, <2>1 DEF PutOut, Forward
<1>7. SplicedBack(s, n, p, c, e, new)
  <2>1. new[0] = s
    BY <1>0, <1>3, SplicedFromRecursion
  <2>2. ASSUME NEW j \in 1..n, NEW k \in 1..n, k = n + 1 - j
        PROVE  new[j] = SpliceIn(new[j - 1], s, p[k], c[k], e[k])
    <3>1. new[j] = Splice(k, new[j - 1])
      BY <1>0, <1>3, <2>2, SplicedFromRecursion
    <3>2. at[k] \in Nat /\ Upto(at[k]) = CutOff(Len(s), p[k])
      BY <1>0, <1>1, <1>3, SourceType DEF InOrder
    <3> QED BY <1>3, <3>1, <3>2 DEF Splice, SpliceIn
  <2>3. \A j \in 1..n : n + 1 - j \in 1..n
    OBVIOUS
  <2> QED BY <2>1, <2>2, <2>3 DEF SplicedBack
<1>8. new[n] = Ended(s, out[n], used[n])
  <2>1. Replacement(V, s, n, p, c, e, used, out, new)
    BY <1>4, <1>5, <1>6, <1>7, Zenon DEF Replacement
  <2> QED BY <2>1, ForwardIsBackward
<1>9. out[n] = output /\ used[n] = src_index /\ new[n] = Spliced
  BY <1>0, <1>1, <1>2, <1>3 DEF Forward, InOrder, Spliced
<1> QED BY <1>3, <1>8, <1>9 DEF Ended

\* The two properties of the matcher follow from its invariant.
LEMMA AppliedExactlyFromInv ==
  ASSUME EngineInv
  PROVE  AppliedExactly
<1>1. SUFFICES ASSUME outcome = "applied" PROVE
        /\ patched = FlattenSeq(Spliced)
        /\ \A k \in DOMAIN hunks :
             Placed(k) /\ (k > 1 => at[k] >= at[k - 1] + Len(Old(hunks[k - 1])))
  BY DEF AppliedExactly
<1>2. Len(hunks) = Len(at) /\ Shape /\ InOrder
  BY <1>1 DEF EngineInv, Shape
<1>3. patched = FlattenSeq(Spliced)
  BY <1>1, <1>2, OutputIsSpliced DEF EngineInv, Result
<1>4. DOMAIN hunks = 1..Len(at) /\ Len(at) \in Nat
  BY <1>2, IsSeqRange, LenProperties DEF Shape
<1>5. ASSUME NEW k \in DOMAIN hunks
      PROVE Placed(k) /\ (k > 1 => at[k] >= at[k - 1] + Len(Old(hunks[k - 1])))
  <2>1. Placed(k) /\ Used(k - 1) <= at[k] /\ at[k] \in Nat /\ k \in 1..Len(at)
    BY <1>2, <1>4 DEF InOrder
  <2>2. ASSUME k > 1 PROVE at[k] >= at[k - 1] + Len(Old(hunks[k - 1]))
    <3>1. k - 1 \in 1..Len(at) /\ k - 1 # 0
      BY <1>4, <2>1, <2>2
    <3>2. at[k - 1] \in Nat /\ IsHunk(hunks[k - 1])
      BY <1>2, <3>1 DEF InOrder, Shape
    <3> QED BY <2>1, <3>1, <3>2, OldType DEF Used
  <2> QED BY <2>1, <2>2
<1> QED BY <1>3, <1>5

LEMMA UniqueBlocksFoundFromInv ==
  ASSUME EngineInv
  PROVE  UniqueBlocksFound
<1>0. PICK n \in Nat : n = Len(at)
  BY IsSeqRange DEF EngineInv, Shape
<1>1. SUFFICES ASSUME Len(hunks) > Len(at), NEW p \in [DOMAIN hunks -> 0..Len(Source)],
                      \A k \in DOMAIN hunks :
                        /\ Old(hunks[k]) # << >> /\ Candidates(Source, Old(hunks[k])) = {p[k]}
                        /\ k > 1 => p[k] >= p[k - 1] + Len(Old(hunks[k - 1]))
               PROVE  FALSE
  BY DEF UniqueBlocksFound
<1>2. /\ Shape /\ InOrder /\ Len(hunks) = n + 1 /\ DOMAIN hunks = 1..(n + 1)
      /\ \/ Places(hunks[n + 1]) = {}
         \/ \E q \in Places(hunks[n + 1]) : q < src_index
  <2>1. Shape /\ InOrder /\ Refusal
    BY DEF EngineInv
  <2>2. Len(hunks) = n + 1
    BY <1>0, <1>1, <2>1 DEF Refusal
  <2>3. DOMAIN hunks = 1..Len(hunks)
    BY <2>1, IsSeqRange, LenProperties DEF Shape
  <2> QED BY <1>0, <1>1, <2>1, <2>2, <2>3 DEF Refusal
<1>3. \A k \in 1..(n + 1) : IsHunk(hunks[k]) /\ p[k] \in 0..Len(Source)
  BY <1>2 DEF Shape
<1>4. Len(Source) \in Nat
  BY <1>2, SourceType DEF Shape
<1>5. ASSUME NEW k \in 1..n PROVE at[k] = p[k]
  <2>1. k \in DOMAIN hunks /\ Old(hunks[k]) # << >> /\ Candidates(Source, Old(hunks[k])) = {p[k]}
    BY <1>1, <1>2
  <2>2. at[k] \in Nat /\ MatchesAt(Source, at[k], Old(hunks[k]))
    BY <1>0, <1>2, <2>1 DEF InOrder, Placed
  <2>3. Len(Old(hunks[k])) \in Nat
    BY <1>3, OldType
  <2>4. at[k] \in Candidates(Source, Old(hunks[k]))
    BY <1>4, <2>2, <2>3 DEF Candidates, MatchesAt
  <2> QED BY <2>1, <2>4
<1>6. src_index <= p[n + 1]
  <2>1. src_index = Used(n)
    BY <1>0, <1>2 DEF InOrder
  <2>2. n + 1 \in 1..(n + 1) /\ p[n + 1] \in 0..Len(Source)
    BY <1>3
  <2>3. CASE n = 0
    BY <1>4, <2>1, <2>2, <2>3 DEF Used
  <2>4. CASE n # 0
    <3>1. n + 1 > 1 /\ (n + 1) - 1 = n /\ n \in 1..n
      BY <2>4
    <3>2. p[n + 1] >= p[n] + Len(Old(hunks[n]))
      BY <1>1, <1>2, <2>2, <3>1
    <3> QED BY <1>5, <2>1, <2>4, <3>1, <3>2 DEF Used
  <2> QED BY <2>3, <2>4
<1>7. PICK h, q : h = hunks[n + 1] /\ q = p[n + 1] /\ q \in 0..Len(Source)
  <2>1. n + 1 \in 1..(n + 1)
    OBVIOUS
  <2> QED BY <1>3, <2>1
<1>8. Old(h) # << >> /\ Candidates(Source, Old(h)) = {q} /\ IsHunk(h)
  <2>1. n + 1 \in 1..(n + 1)
    OBVIOUS
  <2> QED BY <1>1, <1>2, <1>3, <1>7, <2>1
<1>9. Places(h) = {q}
  <2>1. Len(Old(h)) \in Nat /\ h.start \in Int
    BY <1>8, OldType DEF IsHunk
  <2>2. CASE h.start >= 1 /\ MatchesAt(Source, h.start - 1, Old(h))
    <3>1. h.start - 1 \in Candidates(Source, Old(h))
      BY <1>4, <2>1, <2>2 DEF Candidates, MatchesAt
    <3>2. Places(h) = {h.start - 1}
      BY <2>2 DEF Places
    <3> QED BY <1>8, <3>1, <3>2
  <2>3. CASE ~(h.start >= 1 /\ MatchesAt(Source, h.start - 1, Old(h)))
    <3>1. Places(h) = {r \in {q} : {q} = {r} /\ r >= src_index}
      BY <1>8, <2>3 DEF Places
    <3> QED BY <1>6, <1>7, <3>1
  <2> QED BY <2>2, <2>3
<1>10. Places(h) = {} \/ \E r \in Places(h) : r < src_index
  BY <1>2, <1>7
<1>11. src_index \in Nat
  <2>1. CASE n = 0
    BY <1>0, <1>2, <2>1 DEF InOrder, Used
  <2>2. CASE n # 0
    <3>1. n \in 1..n /\ n \in 1..(n + 1)
      BY <2>2
    <3> QED BY <1>0, <1>2, <1>3, <2>2, <3>1, OldType DEF InOrder, Used
  <2> QED BY <2>1, <2>2
<1> QED BY <1>6, <1>7, <1>9, <1>10, <1>11, SMTT(30)

\* The old lines up to and with an old line: it is the last of them, and has
\* that place among all of them.
LEMMA OldPartsUpto ==
  ASSUME NEW lines, IsSeq(lines), NEW c \in 0..Len(lines)
  PROVE  OldAmong(SubSeq(lines, 1, c)) = FlattenSeq(SubSeq(OldParts(lines), 1, c))
<1>1. PICK n, W : n \in Nat /\ n = Len(lines) /\ lines \in Seq(W) /\ DOMAIN lines = 1..n
  BY LenProperties DEF IsSeq
<1>2. PICK u : u = SubSeq(lines, 1, c)
  OBVIOUS
<1>3. DOMAIN u = 1..c /\ \A k \in 1..c : u[k] = lines[k]
  BY <1>1, <1>2, PrefixFacts, LenProperties
<1>4. PICK parts : parts = OldParts(lines)
  OBVIOUS
<1>5. parts = [k \in 1..n |-> IF lines[k].tag = "+" THEN << >> ELSE <<lines[k].text>>]
  BY <1>1, <1>4 DEF OldParts
<1>6. SubSeq(parts, 1, c) = [k \in 1..c |-> parts[k]]
  BY <1>1
<1>7. ASSUME NEW k \in 1..c
      PROVE  parts[k] = IF u[k].tag = "+" THEN << >> ELSE <<u[k].text>>
  <2>1. k \in 1..n
    BY <1>1
  <2>2. parts[k] = IF lines[k].tag = "+" THEN << >> ELSE <<lines[k].text>>
    BY <1>5, <2>1, Zenon
  <2> QED BY <1>3, <2>2, Zenon
<1>8. OldParts(u) = [k \in 1..c |-> IF u[k].tag = "+" THEN << >> ELSE <<u[k].text>>]
  BY <1>3, Zenon DEF OldParts
<1>9. OldParts(u) = SubSeq(parts, 1, c)
  <2>1. PICK v : v = OldParts(u)
    OBVIOUS
  <2>2. v = [k \in 1..c |-> parts[k]]
    BY <1>7, <1>8, <2>1, Zenon
  <2> QED BY <1>6, <2>1, <2>2
<1> QED BY <1>2, <1>4, <1>9 DEF OldAmong, OldParts

LEMMA OldLinePlace ==
  ASSUME NEW lines, IsSeq(lines), NEW c \in 1..Len(lines), lines[c].tag # "+"
  PROVE  LET m == Len(OldAmong(SubSeq(lines, 1, c)))
         IN m \in 1..Len(OldAmong(lines)) /\ OldAmong(lines)[m] = lines[c].text
<1>1. PICK n, W : n \in Nat /\ n = Len(lines) /\ lines \in Seq(W) /\ DOMAIN lines = 1..n
  BY LenProperties DEF IsSeq
<1>2. PICK V : V = {lines[k].text : k \in 1..n}
  OBVIOUS
<1>3. PICK parts : parts = OldParts(lines)
  OBVIOUS
<1>4. /\ parts \in Seq(Seq(V)) /\ Len(parts) = n
      /\ parts[c] = <<lines[c].text>> /\ lines[c].text \in V
  <2>1. parts = [k \in 1..n |-> IF lines[k].tag = "+" THEN << >> ELSE <<lines[k].text>>]
    BY <1>1, <1>3 DEF OldParts
  <2>2. ASSUME NEW k \in 1..n PROVE parts[k] \in Seq(V)
    <3>1. parts[k] = << >> \/ parts[k] = <<lines[k].text>>
      BY <2>1
    <3>2. lines[k].text \in V
      BY <1>2
    <3>3. <<lines[k].text>> \in Seq(V) /\ << >> \in Seq(V)
      BY <3>2
    <3> QED BY <3>1, <3>3
  <2>3. parts[c] = <<lines[c].text>> /\ lines[c].text \in V
    BY <1>1, <1>2, <2>1
  <2>4. parts \in Seq(Seq(V)) /\ Len(parts) = n
    BY <1>1, <2>1, <2>2
  <2> QED BY <2>3, <2>4
<1>5. PICK a, b, o : /\ a = FlattenSeq(SubSeq(parts, 1, c - 1)) /\ b = FlattenSeq(SubSeq(parts, 1, c))
                     /\ o = FlattenSeq(parts)
  OBVIOUS
<1>6. a \in Seq(V) /\ b \in Seq(V) /\ b = a \o <<lines[c].text>>
  <2>1. SubSeq(parts, 1, c - 1) \in Seq(Seq(V)) /\ SubSeq(parts, 1, c) \in Seq(Seq(V))
    BY <1>1, <1>4, SubSeqProperties
  <2>2. FlattenSeq(SubSeq(parts, 1, c)) = FlattenSeq(SubSeq(parts, 1, c - 1)) \o parts[c]
    BY <1>1, <1>4, FlattenPrefix
  <2> QED BY <1>4, <1>5, <2>1, <2>2, FlattenType
<1>7. PICK z : z \in Seq(V) /\ o = b \o z
  <2>1. PICK s, t : s = SubSeq(parts, 1, c) /\ t = SubSeq(parts, c + 1, n)
    OBVIOUS
  <2>2. s \in Seq(Seq(V)) /\ t \in Seq(Seq(V)) /\ parts = s \o t
    <3>1. PICK X : X = Seq(V)
      OBVIOUS
    <3>2. parts \in Seq(X) /\ c \in 1..n /\ n = Len(parts)
      BY <1>1, <1>4, <3>1
    <3>3. SubSeq(parts, 1, c) \in Seq(X) /\ SubSeq(parts, c + 1, n) \in Seq(X)
      BY <1>1, <3>2
    <3>4. parts = SubSeq(parts, 1, c) \o SubSeq(parts, c + 1, n)
      BY <1>1, <3>2
    <3> QED BY <2>1, <3>1, <3>3, <3>4
  <2>3. FlattenSeq(s \o t) = FlattenSeq(s) \o FlattenSeq(t) /\ FlattenSeq(t) \in Seq(V)
    BY <2>2, FlattenConcat, FlattenType
  <2> QED BY <1>5, <2>1, <2>2, <2>3
<1>8. PICK m : m \in Nat /\ m = Len(b)
  BY <1>6, LenProperties
<1>9. m \in 1..Len(b) /\ b[m] = lines[c].text
  BY <1>4, <1>6, <1>8
<1>10. m \in 1..Len(o) /\ o[m] = lines[c].text
  <2>1. Len(o) = Len(b) + Len(z) /\ Len(z) \in Nat /\ \A k \in 1..Len(b) : o[k] = b[k]
    BY <1>6, <1>7, ConcatFacts, LenProperties
  <2> QED BY <1>8, <1>9, <2>1
<1>11. o = OldAmong(lines) /\ b = OldAmong(SubSeq(lines, 1, c))
  <2>1. OldAmong(SubSeq(lines, 1, c)) = FlattenSeq(SubSeq(OldParts(lines), 1, c))
    BY <1>1, OldPartsUpto
  <2>2. OldAmong(lines) = FlattenSeq(OldParts(lines))
    BY DEF OldAmong, OldParts
  <2> QED BY <1>3, <1>5, <2>1, <2>2
<1> QED BY <1>8, <1>10, <1>11

\* The block found is the block used: when the lines of a placed hunk are gone
\* through again, tag by tag (hunk_engine.py:283-337), each kept or deleted one
\* is at the line of the file where the count of old lines has come.
PlacedLinesFit ==
  \A k \in DOMAIN at : \A c \in DOMAIN hunks[k].lines :
    LET line == hunks[k].lines[c]
        n == at[k] + Len(OldAmong(SubSeq(hunks[k].lines, 1, c)))
    IN line.tag # "+" => n \in 1..Len(Source) /\ Bare(Source[n]) = line.text

\* A block that was found is found line by line.
LEMMA PlacedLinesFitFromInv ==
  ASSUME EngineInv
  PROVE  PlacedLinesFit
<1>1. Shape /\ InOrder /\ DOMAIN at = 1..Len(at) /\ Len(at) \in Nat
  BY IsSeqRange, LenProperties DEF EngineInv, Shape
<1>2. IsSeq(original) /\ IsSeq(Source) /\ Len(Source) \in Nat
  BY <1>1, SourceType DEF Shape
<1>3. ASSUME NEW k \in DOMAIN at, NEW h, h = hunks[k], NEW c \in DOMAIN h.lines, h.lines[c].tag # "+"
      PROVE  LET n == at[k] + Len(OldAmong(SubSeq(h.lines, 1, c)))
             IN n \in 1..Len(Source) /\ Bare(Source[n]) = h.lines[c].text
  <2>1. k \in 1..Len(hunks) /\ IsHunk(h)
    <3>1. Len(hunks) \in Nat /\ Len(at) <= Len(hunks)
      BY <1>1, IsSeqRange, LenProperties DEF Shape
    <3> QED BY <1>1, <1>3, <3>1 DEF Shape
  <2>2. at[k] \in Nat /\ (Old(h) # << >> => MatchesAt(Source, at[k], Old(h)))
    BY <1>1, <1>3 DEF InOrder, Placed
  <2>3. IsSeq(h.lines) /\ c \in 1..Len(h.lines)
    <3>1. IsSeq(h.lines)
      BY <2>1 DEF IsHunk
    <3> QED BY <1>3, <3>1, IsSeqRange, LenProperties
  <2>4. PICK m, o : /\ m = Len(OldAmong(SubSeq(h.lines, 1, c))) /\ o = OldAmong(h.lines)
                    /\ m \in 1..Len(o) /\ o[m] = h.lines[c].text
    BY <1>3, <2>3, OldLinePlace
  <2>5. o = Old(h) /\ Len(o) \in Nat /\ DOMAIN o = 1..Len(o) /\ o # << >>
    BY <2>1, <2>4, OldType DEF Old
  <2>6. at[k] + Len(o) <= Len(Source) /\ Bare(Source[at[k] + m]) = o[m]
    BY <2>2, <2>4, <2>5 DEF MatchesAt
  <2>7. at[k] + m \in 1..Len(Source)
    BY <1>2, <2>2, <2>4, <2>5, <2>6
  <2> QED BY <2>4, <2>6, <2>7
<1> QED BY <1>3 DEF PlacedLinesFit
=============================================================================
