----------------------------- MODULE ReadLedger -----------------------------
(***************************************************************************)
(* Session with the line ranges of its reads: what read_file returns, what *)
(* is charged for it (tools/registry.py), which ranges count as already    *)
(* read when the model asks for evidence (tools/request_evidence.py), and  *)
(* which range a failed patch obliges it to read again (controller.py,     *)
(* required_reads).                                                        *)
(*                                                                         *)
(* Every action is an action of Session together with what it does to the  *)
(* ledger, so a behaviour of this module is one of Session.                *)
(***************************************************************************)
EXTENDS Session, Integers

CONSTANTS
  Length,           \* <<path, tree>> |-> the number of lines of that file
  Starts, Ends,     \* the start_line and end_line arguments the model gives
  Open,             \* end_line left out
  Mismatches,       \* the lines at which a hunk may fail to match
  NoRange,          \* a path without a mandated range
  Cap,              \* MAX_LINES_PER_READ
  Radius            \* EXCERPT_RADIUS

Unbounded == 2147483647
Lines  == Nat \ {0}
Ranges == [lo : Lines, hi : Nat]

ASSUME LedgerAssumption ==
  /\ Length \in [Files \X Trees -> Nat]
  /\ Starts \subseteq Nat /\ Ends \subseteq Nat \cup {Open} /\ Open \notin Nat
  /\ Mismatches \subseteq Nat /\ NoRange \notin Ranges
  /\ Radius \in Nat /\ Cap \in Nat /\ 2 * Radius + 1 <= Cap

VARIABLES
  region,           \* session.required_reads: the range mandated for a path
  ranges,           \* session.successful_read_ranges
  read_actions,     \* session.read_actions_used
  recovery_reads,   \* session.required_recovery_reads_used
  shown,            \* history: <<path, tree, line>> the model was shown
  owed              \* history: <<path, line>> mandated in the present tree and
                    \* not shown since

ledger == <<region, ranges, read_actions, recovery_reads, shown, owed>>

LedgerInit ==
  /\ Init
  /\ region = [f \in Files |-> NoRange] /\ ranges = [f \in Files |-> {}]
  /\ read_actions = 0 /\ recovery_reads = 0 /\ shown = {} /\ owed = {}

Least(m, n) == IF m <= n THEN m ELSE n
Greatest(m, n) == IF m <= n THEN n ELSE m
Span(lo, hi) == [lo |-> lo, hi |-> hi]

----------------------------------------------------------------------------
(* read_file.                                                              *)

LineCount(f) == Length[<<f, tree>>]

\* The end of the range that is checked against the limit.
LastLine(f, s, e) == IF e = Open THEN Least(LineCount(f), s + Cap - 1) ELSE e

Readable(f, s, e) ==
  LET last == LastLine(f, s, e) IN 1 <= s /\ s <= last /\ last - s < Cap

\* A range beyond the end of the file is cut there, an empty result included.
Returned(f, s, e) == s .. Least(LastLine(f, s, e), LineCount(f))

\* Fault: a range is recorded before the read is known to succeed.
ReadUnchecked(f, s, e) ==
  /\ ranges' = [ranges EXCEPT ![f] = @ \cup {Span(Greatest(s, 1), IF e = Open THEN Unbounded ELSE e)}]
  /\ \/ /\ Readable(f, s, e)
        /\ shown' = shown \cup {<<f, tree, n>> : n \in Returned(f, s, e)}
        /\ owed' = owed \ {<<f, n>> : n \in Returned(f, s, e)}
     \/ ~Readable(f, s, e) /\ UNCHANGED <<shown, owed>>

\* A successful read is recorded as it was asked for; without an end_line up
\* to the largest number.
ReadFile(f, s, e) ==
  \/ /\ Readable(f, s, e)
     /\ ranges' = [ranges EXCEPT ![f] = @ \cup {Span(s, IF e = Open THEN Unbounded ELSE e)}]
     /\ shown' = shown \cup {<<f, tree, n>> : n \in Returned(f, s, e)}
     /\ owed' = owed \ {<<f, n>> : n \in Returned(f, s, e)}
  \/ ~Readable(f, s, e) /\ UNCHANGED <<ranges, shown, owed>>

----------------------------------------------------------------------------
(* Reads by the model.  A read is charged before it runs.                  *)

ExploreFile(f, s, e) ==
  /\ f \notin required_reads /\ GeneralRead(Readable(f, s, e))
  /\ ReadFile(f, s, e) /\ read_actions' = read_actions + 1
  /\ UNCHANGED <<region, recovery_reads>>

\* The other inspection tools, and reads of paths or with arguments that fail.
ExploreOther(ok) ==
  /\ GeneralRead(ok) /\ read_actions' = read_actions + 1
  /\ UNCHANGED <<region, ranges, recovery_reads, shown, owed>>

\* Fault: a read to the end of the file covers every range after its start.
CoversToTheEnd(f, s, e) ==
  s <= region[f].lo /\ (e = Open \/ region[f].hi <= e)

\* The mandated range is covered by the arguments of the read.
Covers(f, s, e) ==
  /\ s <= region[f].lo
  /\ region[f].hi <= IF e = Open THEN s + Cap - 1 ELSE e

MandatedRead(f, s, e) ==
  LET opens == Readable(f, s, e) /\ Covers(f, s, e) IN
  /\ RecoveryRead(f, opens) /\ ReadFile(f, s, e)
  /\ region' = IF opens THEN [region EXCEPT ![f] = NoRange] ELSE region
  /\ read_actions' = read_actions + 1 /\ recovery_reads' = recovery_reads + 1

----------------------------------------------------------------------------
(* Evidence.                                                               *)

Malformed(s, e) == e = Open \/ s < 1 \/ e < s \/ e - s >= Cap

\* One earlier read covers the request.
Covered(f, s, e) == \E r \in ranges[f] : r.lo <= s /\ e <= r.hi

\* Fault: evidence is missing from the total.
EvidenceUncounted(f, s, e) ==
  /\ EvidenceAccepted /\ ~Malformed(s, e) /\ ~Covered(f, s, e)
  /\ ReadFile(f, s, e) /\ UNCHANGED <<read_actions, region, recovery_reads>>

EvidenceGranted(f, s, e) ==
  /\ EvidenceAccepted /\ ~Malformed(s, e) /\ ~Covered(f, s, e)
  /\ ReadFile(f, s, e) /\ read_actions' = read_actions + 1
  /\ UNCHANGED <<region, recovery_reads>>

EvidenceCovered(f, s, e) ==
  /\ EvidenceNoProgress /\ ~Malformed(s, e) /\ Covered(f, s, e)
  /\ UNCHANGED ledger

\* A missing text, an unknown path or a malformed range.
EvidenceMistaken ==
  /\ \/ EvidenceCorrected
     \/ corrections_used >= MaxCorrections /\ EvidenceNoProgress
  /\ UNCHANGED ledger

----------------------------------------------------------------------------
(* Mandated ranges.                                                        *)

\* Fault: the suggested range may begin before the first line.
SuggestedUnclamped(f, n) == Span(n - Radius, Least(LineCount(f), n + Radius))

\* Around the line where the hunk failed; the line may lie beyond the end.
Suggested(f, n) ==
  IF LineCount(f) = 0 THEN Span(1, 1)
  ELSE Span(Greatest(1, n - Radius), Least(LineCount(f), n + Radius))

\* Fault: a stale revision demands the whole file.
WholeFile(f) == Span(1, Greatest(LineCount(f), 1))

\* A stale base revision demands the head of the file.
HeadOfFile(f) == Span(1, Least(Greatest(LineCount(f), 1), Cap))

\* After a failed apply the line is moved into the file t has then.
Centered(f, t, n) ==
  LET count  == Greatest(Length[<<f, t>>], 1)
      center == Least(Greatest(n, 1), count)
  IN Span(Greatest(1, center - Radius), Least(count, center + Radius))

\* What was owed in a tree that is gone is no longer owed.
StillOwed == IF tree' = tree THEN owed ELSE {}

Mandate(f, r) ==
  /\ required_reads' = required_reads \cup {f} /\ region' = [region EXCEPT ![f] = r]
  /\ owed' = StillOwed \cup {<<f, n>> : n \in r.lo .. Least(r.hi, Length[<<f, tree'>>])}

NoMandate == UNCHANGED <<required_reads, region>> /\ owed' = StillOwed

PreflightFails(p) ==
  /\ PreflightRejects(p)
  /\ \/ NoMandate
     \/ \E f \in Files : \/ Mandate(f, HeadOfFile(f))
                         \/ \E n \in Mismatches : Mandate(f, Suggested(f, n))
  /\ UNCHANGED <<ranges, read_actions, recovery_reads, shown>>

ApplyFails ==
  /\ ApplyMismatch
  /\ \/ NoMandate
     \/ \E f \in Files, n \in Mismatches : Mandate(f, Centered(f, tree', n))
  /\ UNCHANGED <<ranges, read_actions, recovery_reads, shown>>

----------------------------------------------------------------------------
\* Handlers that neither read nor mandate.  The ranges outlive the texts they
\* were read from.
Elsewhere ==
  /\ \/ Import \/ \E result \in TestResults : BaselineFinished(result)
     \/ MalformedReply \/ ProviderError \/ GeneralReadDenied \/ OtherTool
     \/ EvidenceHardViolation \/ Finish
     \/ ProposalBlocked \/ ProposalMalformed \/ ProposalRefused
     \/ \E p \in Patches : PreflightAccepts(p) \/ Approve(p)
     \/ HandlerMissing \/ Reject
     \/ ApplySucceeds \/ ApplyFailsHard
     \/ \E result \in TestResults : TestFinished(result)
     \/ Finalize \/ FinalizeRaises \/ Unexpected
     \/ ExternalEdit \/ Terminated
  /\ UNCHANGED <<region, ranges, read_actions, recovery_reads, shown>>
  /\ owed' = StillOwed

LedgerNext ==
  /\ UNCHANGED handler
  /\ \/ \E f \in Files, s \in Starts, e \in Ends :
          \/ ExploreFile(f, s, e) \/ MandatedRead(f, s, e)
          \/ EvidenceGranted(f, s, e) \/ EvidenceCovered(f, s, e)
     \/ \E ok \in BOOLEAN : ExploreOther(ok)
     \/ EvidenceMistaken
     \/ \E p \in Patches : PreflightFails(p)
     \/ ApplyFails
     \/ Elsewhere

LedgerSpec == LedgerInit /\ [][LedgerNext]_<<vars, ledger>>

----------------------------------------------------------------------------
(* Properties.                                                             *)

\* The ledger has its type; a path has a mandated range exactly while it is a
\* required read.
LedgerTypeOK ==
  /\ region \in [Files -> Ranges \cup {NoRange}]
  /\ required_reads = {f \in Files : region[f] # NoRange}
  /\ ranges \in [Files -> SUBSET Ranges]
  /\ read_actions \in Nat /\ recovery_reads \in Nat
  /\ shown \in SUBSET (Files \X Trees \X Nat) /\ owed \in SUBSET (Files \X Nat)

\* The gate opens only on what was really returned: as long as working_copy
\* is not changed, no line of a mandated range is still unread once the path
\* has left required_reads, although the controller compares arguments and
\* read_file cuts its result (_record_required_read_if_satisfied).
RefreshEarned == \A d \in owed : d[1] \in required_reads

\* The gate can always be opened: whatever failed, and however the file has
\* changed since, one read of at most Cap lines that read_file accepts covers
\* the mandated range, so no session is blocked until its steps run out.
RefreshPossible ==
  \A f \in required_reads :
    LET e == Greatest(region[f].lo, region[f].hi)
    IN Readable(f, region[f].lo, e) /\ Covers(f, region[f].lo, e)

\* The three ways to be charged for a read add up to the reported total
\* (summary.json, total_read_actions), failed reads included.
AccountsBalance ==
  read_actions = exploration_reads + evidence_used + recovery_reads

\* A range with an end that counts as already read was returned, all of it
\* that exists, in one of the texts the file has had.
CoverageEarned ==
  \A f \in Files : \A r \in ranges[f] : r.hi # Unbounded =>
    \E t \in Trees : \A n \in r.lo .. Least(r.hi, Length[<<f, t>>]) : <<f, t, n>> \in shown

=============================================================================
