-------------------------- MODULE ReadLedgerProofs --------------------------
(***************************************************************************)
(* Proofs about ReadLedger, for every value of its constants.              *)
(*                                                                         *)
(* Every step of the ledger is a step of Session, so Session's inductive   *)
(* invariant holds here too.  What a step does to the ledger falls into    *)
(* four forms (LedgerEffect); each invariant is shown for these forms.     *)
(***************************************************************************)
EXTENDS ReadLedger, SessionProofs

ledgerVars == <<vars, ledger>>

\* Every action of the ledger is one of Session.
LEMMA LedgerRefines == [LedgerNext]_ledgerVars => [Next]_vars
<1> SUFFICES ASSUME [LedgerNext]_ledgerVars PROVE [Next]_vars
  OBVIOUS
<1> DEFINE Step == Controller \/ ExternalEdit \/ Terminated
<1> USE DEF Controller, ModelReply
<1>1. ASSUME NEW f \in Files, NEW s \in Starts, NEW e \in Ends, ExploreFile(f, s, e)
      PROVE  Step
  <2>1. Readable(f, s, e) \in BOOLEAN
    BY DEF Readable
  <2> QED BY <1>1, <2>1 DEF ExploreFile
<1>2. ASSUME NEW f \in Files, NEW s \in Starts, NEW e \in Ends, MandatedRead(f, s, e)
      PROVE  Step
  <2>1. (Readable(f, s, e) /\ Covers(f, s, e)) \in BOOLEAN
    BY DEF Readable, Covers
  <2> QED BY <1>2, <2>1 DEF MandatedRead
<1>3. ASSUME NEW f \in Files, NEW s \in Starts, NEW e \in Ends,
             EvidenceGranted(f, s, e) \/ EvidenceCovered(f, s, e)
      PROVE  Step
  BY <1>3 DEF EvidenceGranted, EvidenceCovered
<1>4. ASSUME NEW ok \in BOOLEAN, ExploreOther(ok) PROVE Step
  BY <1>4 DEF ExploreOther
<1>5. ASSUME EvidenceMistaken PROVE Step
  BY <1>5 DEF EvidenceMistaken
<1>6. ASSUME NEW p \in Patches, PreflightFails(p) PROVE Step
  BY <1>6 DEF PreflightFails
<1>7. ASSUME ApplyFails PROVE Step
  BY <1>7 DEF ApplyFails
<1>8. ASSUME Elsewhere PROVE Step
  BY <1>8 DEF Elsewhere
<1>9. CASE UNCHANGED ledgerVars
  BY <1>9 DEF ledgerVars
<1>10. CASE LedgerNext
  <2>1. Step
    BY <1>1, <1>2, <1>3, <1>4, <1>5, <1>6, <1>7, <1>8, <1>10 DEF LedgerNext
  <2> QED BY <1>10, <2>1 DEF LedgerNext, Next
<1> QED BY <1>9, <1>10

LEMMA SessionInvAlways == LedgerSpec => []Inv
<1>1. LedgerInit => Inv
  BY InitInv DEF LedgerInit
<1>2. Inv /\ [LedgerNext]_ledgerVars => Inv'
  BY NextInv, LedgerRefines
<1> QED BY <1>1, <1>2, PTL DEF LedgerSpec, ledgerVars

\* A session with its ledger is a session: what is proved of Session's steps
\* and states (the stale-context gate, the bounds) holds of ReadLedger.
THEOREM LedgerIsSession == LedgerSpec => Init /\ [][Next]_vars
<1>1. LedgerInit => Init
  BY DEF LedgerInit
<1> QED BY <1>1, LedgerRefines, PTL DEF LedgerSpec, ledgerVars

----------------------------------------------------------------------------
(* The four forms.                                                         *)

Counted == exploration_reads + evidence_used + recovery_reads

NoCharge == UNCHANGED <<read_actions, recovery_reads, exploration_reads, evidence_used>>

QuietStep ==
  /\ NoCharge /\ UNCHANGED <<region, ranges, shown, required_reads>>
  /\ owed' = StillOwed

ChargedStep ==
  /\ read_actions' = read_actions + 1 /\ Counted' = Counted + 1
  /\ recovery_reads' \in Nat /\ tree' = tree

OtherStep ==
  ChargedStep /\ UNCHANGED <<region, ranges, shown, required_reads, owed>>

ReadStep(f, s, e) ==
  /\ ChargedStep /\ ReadFile(f, s, e)
  /\ \/ UNCHANGED <<region, required_reads>>
     \/ /\ f \in required_reads /\ Readable(f, s, e) /\ Covers(f, s, e)
        /\ region' = [region EXCEPT ![f] = NoRange]
        /\ required_reads' = required_reads \ {f}

Narrow(r) == r \in Ranges /\ r.hi - r.lo < Cap

MandateStep(f, r) ==
  /\ NoCharge /\ UNCHANGED <<ranges, shown>>
  /\ required_reads = {} /\ Mandate(f, r) /\ Narrow(r)

\* The ranges that a failure mandates are never wider than one read.
LEMMA HeadNarrow ==
  ASSUME NEW f \in Files, tree \in Trees
  PROVE  Narrow(HeadOfFile(f))
  BY LedgerAssumption DEF HeadOfFile, LineCount, Narrow, Ranges, Lines, Span, Least, Greatest

LEMMA RegionNarrow ==
  ASSUME NEW f \in Files, NEW n \in Mismatches, NEW t \in Trees, tree \in Trees
  PROVE  Narrow(Suggested(f, n)) /\ Narrow(Centered(f, t, n))
<1> USE LedgerAssumption DEF Narrow, Ranges, Lines, Span, Least, Greatest
<1>1. LineCount(f) \in Nat /\ Length[<<f, t>>] \in Nat /\ n \in Nat
  BY DEF LineCount
<1>2. Narrow(Suggested(f, n))
  BY <1>1 DEF Suggested
<1>3. Narrow(Centered(f, t, n))
  BY <1>1 DEF Centered
<1> QED BY <1>2, <1>3

\* Every step of the ledger has one of the four forms.
LEMMA LedgerEffect ==
  ASSUME Inv, LedgerTypeOK, [LedgerNext]_ledgerVars
  PROVE  \/ QuietStep \/ OtherStep
         \/ \E f \in Files, s \in Starts, e \in Ends : ReadStep(f, s, e)
         \/ \E f \in Files, r \in Ranges : MandateStep(f, r)
<1>0. /\ exploration_reads \in Nat /\ evidence_used \in Nat /\ recovery_reads \in Nat
      /\ tree \in Trees
  BY BudgetAssumption DEF Inv, TypeOK, LedgerTypeOK
<1> USE DEF NoCharge, ledger, StillOwed
<1>1. ASSUME NEW f \in Files, NEW s \in Starts, NEW e \in Ends, ExploreFile(f, s, e)
      PROVE  ReadStep(f, s, e)
  BY <1>0, <1>1 DEF ExploreFile, GeneralRead, ReadStep, ChargedStep, Counted
<1>2. ASSUME NEW f \in Files, NEW s \in Starts, NEW e \in Ends, MandatedRead(f, s, e)
      PROVE  ReadStep(f, s, e)
  BY <1>0, <1>2 DEF MandatedRead, RecoveryRead, ReadStep, ChargedStep, Counted
<1>3. ASSUME NEW f \in Files, NEW s \in Starts, NEW e \in Ends, EvidenceGranted(f, s, e)
      PROVE  ReadStep(f, s, e)
  BY <1>0, <1>3 DEF EvidenceGranted, EvidenceAccepted, ReadStep, ChargedStep, Counted
<1>4. ASSUME NEW f \in Files, NEW s \in Starts, NEW e \in Ends, EvidenceCovered(f, s, e)
      PROVE  QuietStep
  BY <1>4 DEF EvidenceCovered, EvidenceNoProgress, QuietStep
<1>5. ASSUME NEW ok \in BOOLEAN, ExploreOther(ok) PROVE OtherStep
  BY <1>0, <1>5 DEF ExploreOther, GeneralRead, OtherStep, ChargedStep, Counted
<1>6. CASE EvidenceMistaken
  BY <1>6 DEF EvidenceMistaken, EvidenceCorrected, EvidenceNoProgress, QuietStep
<1>7. ASSUME NEW p \in Patches, PreflightFails(p)
      PROVE  QuietStep \/ \E f \in Files, r \in Ranges : MandateStep(f, r)
  <2>1. required_reads = {} /\ UNCHANGED <<exploration_reads, evidence_used>>
    BY <1>7 DEF PreflightFails, PreflightRejects, GateClear
  <2>2. CASE NoMandate
    BY <1>7, <2>1, <2>2 DEF PreflightFails, NoMandate, QuietStep
  <2>3. ASSUME NEW f \in Files, Mandate(f, HeadOfFile(f))
        PROVE  \E r \in Ranges : MandateStep(f, r)
    <3>1. Narrow(HeadOfFile(f))
      BY <1>0, HeadNarrow
    <3> QED BY <1>7, <2>1, <2>3, <3>1 DEF PreflightFails, MandateStep, Narrow
  <2>4. ASSUME NEW f \in Files, NEW n \in Mismatches, Mandate(f, Suggested(f, n))
        PROVE  \E r \in Ranges : MandateStep(f, r)
    <3>1. Narrow(Suggested(f, n))
      BY <1>0, RegionNarrow
    <3> QED BY <1>7, <2>1, <2>4, <3>1 DEF PreflightFails, MandateStep, Narrow
  <2> QED BY <1>7, <2>2, <2>3, <2>4 DEF PreflightFails
<1>8. CASE ApplyFails
  <2>1. /\ required_reads = {} /\ UNCHANGED <<exploration_reads, evidence_used>>
        /\ tree' \in Trees
    BY <1>0, <1>8 DEF ApplyFails, ApplyMismatch, RolledBack, Inv, GateOK, Reviewing
  <2>2. CASE NoMandate
    BY <1>8, <2>1, <2>2 DEF ApplyFails, NoMandate, QuietStep
  <2>3. ASSUME NEW f \in Files, NEW n \in Mismatches, Mandate(f, Centered(f, tree', n))
        PROVE  \E r \in Ranges : MandateStep(f, r)
    <3>1. Narrow(Centered(f, tree', n))
      BY <1>0, <2>1, RegionNarrow
    <3> QED BY <1>8, <2>1, <2>3, <3>1 DEF ApplyFails, MandateStep, Narrow
  <2> QED BY <1>8, <2>2, <2>3 DEF ApplyFails
<1>9. CASE Elsewhere
  <2>1. UNCHANGED <<required_reads, exploration_reads, evidence_used>>
    BY <1>9 DEF Elsewhere, Terminated, vars, loop, reading,
       Import, BaselineFinished, MalformedReply, ProviderError, GeneralReadDenied,
       OtherTool, EvidenceHardViolation, Finish, ProposalBlocked, ProposalMalformed,
       ProposalRefused, PreflightAccepts, Approve, HandlerMissing, Reject,
       ApplySucceeds, ApplyFailsHard, TestFinished, Finalize, FinalizeRaises,
       Unexpected, ExternalEdit
  <2> QED BY <1>9, <2>1 DEF Elsewhere, QuietStep
<1>10. CASE UNCHANGED ledgerVars
  BY <1>10 DEF ledgerVars, vars, reading, QuietStep
<1> QED BY <1>1, <1>2, <1>3, <1>4, <1>5, <1>6, <1>7, <1>8, <1>9, <1>10 DEF LedgerNext

----------------------------------------------------------------------------
(* The invariants.                                                         *)

\* A successful read keeps the types of what it changes.
LEMMA ReadType ==
  ASSUME LedgerTypeOK, tree \in Trees,
         NEW f \in Files, NEW s \in Starts, NEW e \in Ends, ReadFile(f, s, e)
  PROVE  /\ ranges' \in [Files -> SUBSET Ranges]
         /\ shown' \in SUBSET (Files \X Trees \X Nat) /\ owed' \in SUBSET (Files \X Nat)
<1>1. CASE Readable(f, s, e)
  <2>1. s \in Lines /\ Returned(f, s, e) \subseteq Nat
    BY <1>1, LedgerAssumption DEF Readable, Lines, Returned
  <2>2. Span(s, IF e = Open THEN Unbounded ELSE e) \in Ranges
    BY <2>1, LedgerAssumption DEF Span, Ranges, Unbounded
  <2> QED BY <1>1, <2>1, <2>2 DEF ReadFile, LedgerTypeOK
<1>2. CASE ~Readable(f, s, e)
  BY <1>2 DEF ReadFile, LedgerTypeOK
<1> QED BY <1>1, <1>2

LEMMA TypeStep ==
  ASSUME Inv, LedgerTypeOK, [LedgerNext]_ledgerVars
  PROVE  LedgerTypeOK'
<1>0. tree \in Trees /\ tree' \in Trees
  BY NextInv, LedgerRefines DEF Inv, TypeOK
<1>1. CASE QuietStep
  BY <1>1 DEF QuietStep, NoCharge, StillOwed, LedgerTypeOK
<1>2. CASE OtherStep
  BY <1>2 DEF OtherStep, ChargedStep, LedgerTypeOK
<1>3. ASSUME NEW f \in Files, NEW s \in Starts, NEW e \in Ends, ReadStep(f, s, e)
      PROVE  LedgerTypeOK'
  <2>1. /\ ranges' \in [Files -> SUBSET Ranges]
        /\ shown' \in SUBSET (Files \X Trees \X Nat) /\ owed' \in SUBSET (Files \X Nat)
    BY <1>0, <1>3, ReadType DEF ReadStep
  <2>2. /\ region' \in [Files -> Ranges \cup {NoRange}]
        /\ required_reads' = {g \in Files : region'[g] # NoRange}
    BY <1>3 DEF ReadStep, LedgerTypeOK
  <2> QED BY <1>3, <2>1, <2>2 DEF ReadStep, ChargedStep, LedgerTypeOK
<1>4. ASSUME NEW f \in Files, NEW r \in Ranges, MandateStep(f, r) PROVE LedgerTypeOK'
  <2>1. /\ region' \in [Files -> Ranges \cup {NoRange}]
        /\ required_reads' = {g \in Files : region'[g] # NoRange}
    BY <1>4, LedgerAssumption DEF MandateStep, Mandate, LedgerTypeOK
  <2>2. owed' \in SUBSET (Files \X Nat)
    <3>1. r.lo .. Least(r.hi, Length[<<f, tree'>>]) \subseteq Nat
      BY LedgerAssumption DEF Ranges, Lines
    <3> QED BY <1>4, <3>1 DEF MandateStep, Mandate, StillOwed, LedgerTypeOK
  <2> QED BY <1>4, <2>1, <2>2 DEF MandateStep, NoCharge, LedgerTypeOK
<1> QED BY <1>1, <1>2, <1>3, <1>4, LedgerEffect

LEMMA LedgerTypeAlways == LedgerSpec => [](Inv /\ LedgerTypeOK)
<1>1. LedgerInit => LedgerTypeOK
  BY DEF LedgerInit, Init, LedgerTypeOK
<1>2. Inv /\ LedgerTypeOK /\ [LedgerNext]_ledgerVars => LedgerTypeOK'
  BY TypeStep
<1> QED BY <1>1, <1>2, SessionInvAlways, PTL DEF LedgerSpec, ledgerVars

\* The ledger keeps its type, and mandated ranges and required reads agree.
THEOREM LedgerTypeCorrect == LedgerSpec => []LedgerTypeOK
  BY LedgerTypeAlways, PTL

\* The total of the summary is the sum of its parts.
THEOREM BalanceTheorem == LedgerSpec => []AccountsBalance
<1>1. LedgerInit => AccountsBalance
  BY DEF LedgerInit, Init, AccountsBalance
<1>2. Inv /\ LedgerTypeOK /\ AccountsBalance /\ [LedgerNext]_ledgerVars => AccountsBalance'
  BY LedgerEffect DEF AccountsBalance, QuietStep, OtherStep, ReadStep, MandateStep,
                      ChargedStep, NoCharge, Counted
<1> QED BY <1>1, <1>2, LedgerTypeAlways, PTL DEF LedgerSpec, ledgerVars

\* Every mandated range fits into one read.
RegionsNarrow == \A f \in required_reads : Narrow(region[f])

LEMMA NarrowStep ==
  ASSUME Inv, LedgerTypeOK, RegionsNarrow, [LedgerNext]_ledgerVars
  PROVE  RegionsNarrow'
<1> USE DEF RegionsNarrow
<1>1. CASE QuietStep \/ OtherStep
  BY <1>1 DEF QuietStep, OtherStep, Narrow
<1>2. ASSUME NEW f \in Files, NEW s \in Starts, NEW e \in Ends, ReadStep(f, s, e)
      PROVE  RegionsNarrow'
  BY <1>2 DEF ReadStep, LedgerTypeOK, Narrow
<1>3. ASSUME NEW f \in Files, NEW r \in Ranges, MandateStep(f, r) PROVE RegionsNarrow'
  BY <1>3 DEF MandateStep, Mandate, LedgerTypeOK, Narrow
<1> QED BY <1>1, <1>2, <1>3, LedgerEffect

\* Some read always opens the gate: the range was narrow when it was mandated,
\* and read_file accepts it whatever the file has become.
THEOREM PossibleTheorem == LedgerSpec => []RefreshPossible
<1>1. LedgerInit => RegionsNarrow
  BY DEF LedgerInit, Init, RegionsNarrow
<1>2. Inv /\ LedgerTypeOK /\ RegionsNarrow /\ [LedgerNext]_ledgerVars => RegionsNarrow'
  BY NarrowStep
<1>3. LedgerTypeOK /\ RegionsNarrow => RefreshPossible
  <2> SUFFICES ASSUME LedgerTypeOK, RegionsNarrow, NEW f \in required_reads
               PROVE  LET e == Greatest(region[f].lo, region[f].hi)
                      IN Readable(f, region[f].lo, e) /\ Covers(f, region[f].lo, e)
    BY DEF RefreshPossible
  <2>1. /\ region[f].lo \in Nat /\ region[f].lo >= 1 /\ region[f].hi \in Nat
        /\ region[f].hi - region[f].lo < Cap
    BY DEF RegionsNarrow, Narrow, Ranges, Lines
  <2> QED BY <2>1, LedgerAssumption DEF Readable, Covers, LastLine, Greatest
<1> QED BY <1>1, <1>2, <1>3, LedgerTypeAlways, PTL DEF LedgerSpec, ledgerVars

\* What is owed lies in the mandated range and in the file.
OwedInRegion ==
  \A f \in Files, n \in Nat : <<f, n>> \in owed =>
    /\ f \in required_reads
    /\ region[f].lo <= n /\ n <= region[f].hi /\ n <= LineCount(f)

LEMMA OwedStep ==
  ASSUME Inv, LedgerTypeOK, OwedInRegion, [LedgerNext]_ledgerVars
  PROVE  OwedInRegion'
<1>0. tree \in Trees /\ tree' \in Trees
  BY NextInv, LedgerRefines DEF Inv, TypeOK
<1>1. CASE QuietStep
  BY <1>1 DEF QuietStep, StillOwed, OwedInRegion, LineCount
<1>2. CASE OtherStep
  BY <1>2 DEF OtherStep, ChargedStep, OwedInRegion, LineCount
<1>3. ASSUME NEW f \in Files, NEW s \in Starts, NEW e \in Ends, ReadStep(f, s, e)
      PROVE  OwedInRegion'
  <2> SUFFICES ASSUME NEW g \in Files, NEW n \in Nat, <<g, n>> \in owed'
               PROVE  /\ g \in required_reads'
                      /\ region'[g].lo <= n /\ n <= region'[g].hi /\ n <= LineCount(g)'
    BY DEF OwedInRegion
  <2>1. /\ <<g, n>> \in owed /\ g \in required_reads
        /\ region[g].lo <= n /\ n <= region[g].hi /\ n <= LineCount(g)
    BY <1>3 DEF ReadStep, ReadFile, OwedInRegion
  <2>2. LineCount(g)' = LineCount(g)
    BY <1>3 DEF ReadStep, ChargedStep, LineCount
  <2>3. CASE UNCHANGED <<region, required_reads>>
    BY <2>1, <2>2, <2>3
  <2>4. CASE /\ Readable(f, s, e) /\ Covers(f, s, e)
             /\ region' = [region EXCEPT ![f] = NoRange]
             /\ required_reads' = required_reads \ {f}
    <3>1. g # f
      <4> SUFFICES ASSUME g = f PROVE FALSE
        OBVIOUS
      <4>1. LineCount(f) \in Nat /\ s \in Nat /\ (e = Open \/ e \in Nat)
        BY <1>0, LedgerAssumption DEF LineCount
      <4>2. region[f].lo \in Nat /\ region[f].hi \in Nat
        BY <2>1, LedgerAssumption DEF LedgerTypeOK, Ranges, Lines
      <4>3. s <= n /\ n <= LastLine(f, s, e) /\ LastLine(f, s, e) \in Int
        BY <2>1, <2>4, <4>1, <4>2, LedgerAssumption DEF Covers, LastLine, Least
      <4>4. n \in Returned(f, s, e)
        BY <2>1, <4>1, <4>3 DEF Returned, Least
      <4> QED BY <1>3, <2>4, <4>4 DEF ReadStep, ReadFile
    <3> QED BY <2>1, <2>2, <2>4, <3>1 DEF LedgerTypeOK
  <2> QED BY <1>3, <2>3, <2>4 DEF ReadStep
<1>4. ASSUME NEW f \in Files, NEW r \in Ranges, MandateStep(f, r) PROVE OwedInRegion'
  <2>1. owed = {}
    BY <1>4 DEF MandateStep, OwedInRegion, LedgerTypeOK
  <2>2. /\ owed' = {<<f, n>> : n \in r.lo .. Least(r.hi, Length[<<f, tree'>>])}
        /\ required_reads' = {f} /\ region'[f] = r
    BY <1>4, <2>1 DEF MandateStep, Mandate, StillOwed, LedgerTypeOK
  <2>3. Length[<<f, tree'>>] \in Nat /\ r.lo \in Nat /\ r.hi \in Nat
    BY <1>0, LedgerAssumption DEF Ranges, Lines
  <2> QED BY <2>2, <2>3 DEF OwedInRegion, LineCount, Least
<1> QED BY <1>1, <1>2, <1>3, <1>4, LedgerEffect

\* The gate opens only when every line of the mandated range was returned.
THEOREM RefreshTheorem == LedgerSpec => []RefreshEarned
<1>1. LedgerInit => OwedInRegion
  BY DEF LedgerInit, OwedInRegion
<1>2. Inv /\ LedgerTypeOK /\ OwedInRegion /\ [LedgerNext]_ledgerVars => OwedInRegion'
  BY OwedStep
<1>3. LedgerTypeOK /\ OwedInRegion => RefreshEarned
  BY DEF LedgerTypeOK, OwedInRegion, RefreshEarned
<1> QED BY <1>1, <1>2, <1>3, LedgerTypeAlways, PTL DEF LedgerSpec, ledgerVars

\* A read that succeeds leaves all of its range shown in the present tree.
LEMMA CoverageRead ==
  ASSUME tree \in Trees, NEW f \in Files, NEW s \in Starts, NEW e \in Ends,
         Readable(f, s, e), e # Open, ReadFile(f, s, e)
  PROVE  \A n \in s .. Least(e, Length[<<f, tree>>]) : <<f, tree, n>> \in shown'
  BY DEF ReadFile, Returned, LastLine, LineCount

LEMMA CoverageStep ==
  ASSUME Inv, LedgerTypeOK, CoverageEarned, [LedgerNext]_ledgerVars
  PROVE  CoverageEarned'
<1>0. tree \in Trees
  BY DEF Inv, TypeOK
<1>1. CASE UNCHANGED <<ranges, shown>>
  BY <1>1 DEF CoverageEarned
<1>2. ASSUME NEW f \in Files, NEW s \in Starts, NEW e \in Ends, ReadFile(f, s, e)
      PROVE  CoverageEarned'
  <2> SUFFICES ASSUME Readable(f, s, e), NEW g \in Files, NEW r \in ranges'[g],
                      r.hi # Unbounded
               PROVE  \E t \in Trees : \A n \in r.lo .. Least(r.hi, Length[<<g, t>>]) :
                        <<g, t, n>> \in shown'
    BY <1>1, <1>2 DEF ReadFile, CoverageEarned
  <2>1. shown \subseteq shown'
    BY <1>2 DEF ReadFile
  <2>2. CASE r \in ranges[g]
    <3>1. PICK t \in Trees : \A n \in r.lo .. Least(r.hi, Length[<<g, t>>]) :
                               <<g, t, n>> \in shown
      BY <2>2 DEF CoverageEarned
    <3> QED BY <2>1, <3>1
  <2>3. CASE r \notin ranges[g]
    <3>1. g = f /\ r = Span(s, IF e = Open THEN Unbounded ELSE e)
      BY <1>2, <2>3 DEF ReadFile, LedgerTypeOK
    <3>2. e # Open /\ r.lo = s /\ r.hi = e
      BY <3>1 DEF Span
    <3>3. \A n \in s .. Least(e, Length[<<f, tree>>]) : <<f, tree, n>> \in shown'
      BY <1>0, <1>2, <3>2, CoverageRead
    <3> QED BY <1>0, <3>1, <3>2, <3>3
  <2> QED BY <2>2, <2>3
<1> QED BY <1>1, <1>2, LedgerEffect
        DEF QuietStep, OtherStep, ReadStep, MandateStep

\* What counts as already read, up to a named end, was returned.
THEOREM CoverageTheorem == LedgerSpec => []CoverageEarned
<1>1. LedgerInit => CoverageEarned
  BY DEF LedgerInit, CoverageEarned
<1>2. Inv /\ LedgerTypeOK /\ CoverageEarned /\ [LedgerNext]_ledgerVars => CoverageEarned'
  BY CoverageStep
<1> QED BY <1>1, <1>2, LedgerTypeAlways, PTL DEF LedgerSpec, ledgerVars
=============================================================================
