--------------------------- MODULE AblationProofs ---------------------------
(***************************************************************************)
(* Proofs about Ablation, for every number of tasks, every repository and  *)
(* all limits.                                                             *)
(*                                                                         *)
(* The properties speak of the index on disk.  It is written from what the *)
(* process has in memory, so the invariant (IInv) says the same of the     *)
(* campaign in memory, and how the two differ: in the status only.         *)
(***************************************************************************)
EXTENDS Ablation, TLAPS, SequenceTheorems

\* The schedule of two repeats compares like with like: the two slots of a task follow each
\* other in one repeat with opposite conditions, and the second repeat has the
\* same tasks in the same order with the conditions the other way round
\* (build_schedule).
THEOREM BalancedSchedule ==
  /\ \A s \in Slots : s % 2 = 1 =>
       /\ s + 1 \in Slots /\ Task(s + 1) = Task(s) /\ Repeat(s + 1) = Repeat(s)
       /\ PreflightEnabled(s + 1) # PreflightEnabled(s)
  /\ \A s \in 1..(2 * NumTasks) :
       /\ s + 2 * NumTasks \in Slots /\ Repeat(s) = 1 /\ Repeat(s + 2 * NumTasks) = 2
       /\ Task(s + 2 * NumTasks) = Task(s)
       /\ PreflightEnabled(s + 2 * NumTasks) # PreflightEnabled(s)
<1> USE AblationAssumption DEF Slots, Task, Repeat, PreflightEnabled, EnabledFirst
<1>1. ASSUME NEW s \in Slots, s % 2 = 1
      PROVE  /\ s + 1 \in Slots /\ Task(s + 1) = Task(s) /\ Repeat(s + 1) = Repeat(s)
             /\ PreflightEnabled(s + 1) # PreflightEnabled(s)
  BY <1>1
<1>2. ASSUME NEW s \in 1..(2 * NumTasks)
      PROVE  /\ s + 2 * NumTasks \in Slots /\ Repeat(s) = 1 /\ Repeat(s + 2 * NumTasks) = 2
             /\ Task(s + 2 * NumTasks) = Task(s)
             /\ PreflightEnabled(s + 2 * NumTasks) # PreflightEnabled(s)
  BY <1>2
<1> QED BY <1>1, <1>2

----------------------------------------------------------------------------
(* The invariant.                                                          *)

Working == {"check", "slot", "prepare", "session", "row", "finish"}
InSlot == {"prepare", "session", "row"}

UnderLimits(c) ==
  c.runs # << >> =>
    LET before == Total(Front(c.runs))
    IN ~(before.time >= c.limits.time) /\ ~(before.cost >= c.limits.cost)

\* What a campaign is, on disk or in memory.
Kept(c) ==
  /\ Len(c.runs) <= 4 * NumTasks
  /\ \A k \in DOMAIN c.runs : c.runs[k].slot = k
  /\ \A k \in DOMAIN c.failures :
       /\ c.failures[k].slot <= Len(c.runs) + 1
       /\ \A j \in 1..(k - 1) : c.failures[j].slot <= c.failures[k].slot
  /\ c.status = "complete" => Done(c) = Slots
  /\ UnderLimits(c)

CampaignInv ==
  /\ index # Absent => Kept(index)
  /\ pc # "down" => state # Absent /\ Kept(state)
  /\ pc = "create" => index = Absent
  /\ pc \in Working => /\ index # Absent /\ state.runs = index.runs
                       /\ state.failures = index.failures /\ state.frozen = index.frozen
  /\ pc \in InSlot => Done(state) # Slots /\ Spent(state) = "running"
  /\ pc = "row" => row \in Rows /\ row.slot = Len(state.runs) + 1

FreezeInv ==
  ~touched =>
    /\ index # Absent => \A k \in DOMAIN index.runs : index.runs[k].tree = index.frozen
    /\ pc = "create" => state.runs = << >>
    /\ pc \in Working \ {"check"} => state.frozen = tree
    /\ pc = "row" => row.tree = tree

\* What was published is still the campaign.
PublishedInv ==
  bundle # Absent =>
    /\ index # Absent /\ bundle.runs = index.runs
    /\ index.status = "complete" /\ Done(index) = Slots
    /\ pc = "finish" => state.status = "complete"

IInv == TypeOK /\ CampaignInv /\ FreezeInv /\ PublishedInv

----------------------------------------------------------------------------
(* Slots.                                                                  *)

\* Kept rows are numbered through, so what is done is a prefix of the schedule.
LEMMA DoneIs ==
  ASSUME NEW c, c.runs \in Seq(Rows), Kept(c)
  PROVE  Done(c) = 1..Len(c.runs) /\ Len(c.runs) \in Nat /\ Done(c) \subseteq Slots
<1>1. Len(c.runs) \in Nat /\ DOMAIN c.runs = 1..Len(c.runs)
  OBVIOUS
<1>2. /\ \A k \in 1..Len(c.runs) : c.runs[k].slot = k
      /\ Len(c.runs) <= 4 * NumTasks
  BY <1>1 DEF Kept
<1>3. Done(c) = 1..Len(c.runs)
  BY <1>1, <1>2 DEF Done
<1>4. 1..Len(c.runs) \subseteq Slots
  BY <1>1, <1>2, AblationAssumption DEF Slots
<1> QED BY <1>1, <1>3, <1>4

LEMMA NextSlotIs ==
  ASSUME NEW c, c.runs \in Seq(Rows), Kept(c), Done(c) # Slots
  PROVE  NextSlot(c) = Len(c.runs) + 1 /\ NextSlot(c) \in Slots
<1> DEFINE n == Len(c.runs) + 1
<1>1. Done(c) = 1..Len(c.runs) /\ Len(c.runs) \in Nat /\ Len(c.runs) <= 4 * NumTasks
  BY DoneIs DEF Kept
<1>2. n \in Slots \ Done(c) /\ \A r \in Slots \ Done(c) : n <= r
  BY <1>1, AblationAssumption DEF Slots
<1>3. \A s \in Slots \ Done(c) : (\A r \in Slots \ Done(c) : s <= r) => s = n
  BY <1>1, <1>2 DEF Slots
<1>4. NextSlot(c) \in Slots \ Done(c) /\ \A r \in Slots \ Done(c) : NextSlot(c) <= r
  BY <1>2 DEF NextSlot
<1> QED BY <1>2, <1>3, <1>4

\* Adding the row of the next slot keeps the campaign.
LEMMA KeptCounted ==
  ASSUME NEW c \in Campaigns, NEW r \in Rows, Kept(c), Done(c) # Slots, Spent(c) = "running",
         r.slot = Len(c.runs) + 1, NEW d \in Campaigns,
         d.runs = Append(c.runs, r), d.failures = c.failures, d.limits = c.limits,
         d.status # "complete"
  PROVE  Kept(d)
<1>1. c.runs \in Seq(Rows) /\ Len(c.runs) \in Nat /\ Len(c.runs) < 4 * NumTasks
  <2>1. c.runs \in Seq(Rows)
    BY DEF Campaigns
  <2>2. Done(c) = 1..Len(c.runs) /\ Len(c.runs) \in Nat
    BY <2>1, DoneIs
  <2> QED BY <2>1, <2>2, AblationAssumption DEF Kept, Slots
<1>2. Len(d.runs) = Len(c.runs) + 1 /\ \A k \in DOMAIN c.runs : d.runs[k] = c.runs[k]
  BY <1>1
<1>3. d.runs[Len(c.runs) + 1] = r /\ DOMAIN d.runs = 1..(Len(c.runs) + 1)
  BY <1>1
<1>4. Front(d.runs) = c.runs
  BY <1>1, <1>2 DEF Front
<1>5. UnderLimits(d)
  BY <1>4 DEF UnderLimits, Spent
<1>6. \A k \in DOMAIN d.runs : d.runs[k].slot = k
  BY <1>1, <1>2, <1>3, AblationAssumption DEF Kept
<1>7. \A k \in DOMAIN d.failures :
        /\ d.failures[k].slot <= Len(d.runs) + 1
        /\ \A j \in 1..(k - 1) : d.failures[j].slot <= d.failures[k].slot
  <2>1. c.failures \in Seq(Rows) /\ \A k \in DOMAIN c.failures : c.failures[k].slot \in Nat
    <3>1. c.failures \in Seq(Rows)
      BY DEF Campaigns
    <3>2. \A q \in Rows : q.slot \in Nat
      BY AblationAssumption DEF Rows, Slots
    <3> QED BY <3>1, <3>2
  <2> QED BY <1>1, <1>2, <2>1 DEF Kept
<1> QED BY <1>1, <1>2, <1>5, <1>6, <1>7, AblationAssumption DEF Kept

LEMMA KeptRetained ==
  ASSUME NEW c \in Campaigns, NEW r \in Rows, Kept(c),
         r.slot = Len(c.runs) + 1, NEW d \in Campaigns,
         d.runs = c.runs, d.failures = Append(c.failures, r), d.limits = c.limits,
         d.status # "complete"
  PROVE  Kept(d)
<1>1. c.failures \in Seq(Rows) /\ \A k \in DOMAIN c.failures : c.failures[k].slot \in Nat
  <2>1. c.failures \in Seq(Rows)
    BY DEF Campaigns
  <2>2. \A q \in Rows : q.slot \in Nat
    BY AblationAssumption DEF Rows, Slots
  <2> QED BY <2>1, <2>2
<1>2. /\ DOMAIN d.failures = 1..(Len(c.failures) + 1) /\ Len(c.failures) \in Nat
      /\ d.failures[Len(c.failures) + 1] = r
      /\ \A k \in DOMAIN c.failures : d.failures[k] = c.failures[k]
      /\ DOMAIN c.failures = 1..Len(c.failures)
  BY <1>1
<1>3. Len(c.runs) \in Nat
  BY DEF Campaigns
<1>4. \A k \in DOMAIN d.failures :
        /\ d.failures[k].slot <= Len(d.runs) + 1
        /\ \A j \in 1..(k - 1) : d.failures[j].slot <= d.failures[k].slot
  <2> SUFFICES ASSUME NEW k \in DOMAIN d.failures
               PROVE  /\ d.failures[k].slot <= Len(d.runs) + 1
                      /\ \A j \in 1..(k - 1) : d.failures[j].slot <= d.failures[k].slot
    OBVIOUS
  <2>1. CASE k = Len(c.failures) + 1
    BY <1>1, <1>2, <1>3, <2>1 DEF Kept
  <2>2. CASE k # Len(c.failures) + 1
    BY <1>1, <1>2, <1>3, <2>2 DEF Kept
  <2> QED BY <2>1, <2>2
<1> QED BY <1>4 DEF Kept, UnderLimits

\* Only the status changes.
LEMMA KeptStatus ==
  ASSUME NEW c, NEW d, Kept(c), d.runs = c.runs, d.failures = c.failures,
         d.limits = c.limits, d.status = "complete" => Done(c) = Slots
  PROVE  Kept(d) /\ Done(d) = Done(c) /\ Spent(d) = Spent(c)
BY DEF Kept, UnderLimits, Done, Spent

----------------------------------------------------------------------------
(* Types.                                                                  *)

LEMMA CampaignChange ==
  ASSUME NEW c \in Campaigns
  PROVE  /\ \A st \in Statuses : [c EXCEPT !.status = st] \in Campaigns
         /\ \A r \in Rows : /\ [c EXCEPT !.runs = Append(@, r)] \in Campaigns
                            /\ \A st \in Statuses : [c EXCEPT !.failures = Append(@, r), !.status = st] \in Campaigns
<1>1. /\ c.runs \in Seq(Rows) /\ c.failures \in Seq(Rows)
      /\ c = [frozen |-> c.frozen, limits |-> c.limits, status |-> c.status,
              runs |-> c.runs, failures |-> c.failures]
  BY DEF Campaigns
<1>2. ASSUME NEW r \in Rows
      PROVE  Append(c.runs, r) \in Seq(Rows) /\ Append(c.failures, r) \in Seq(Rows)
  BY <1>1
<1>3. ASSUME NEW st \in Statuses PROVE [c EXCEPT !.status = st] \in Campaigns
  BY DEF Campaigns
<1>4. ASSUME NEW r \in Rows PROVE [c EXCEPT !.runs = Append(@, r)] \in Campaigns
  BY <1>2 DEF Campaigns
<1>5. ASSUME NEW r \in Rows, NEW st \in Statuses
      PROVE  [c EXCEPT !.failures = Append(@, r), !.status = st] \in Campaigns
  BY <1>2 DEF Campaigns
<1> QED BY <1>3, <1>4, <1>5

LEMMA StatusIsKnown == \A c : Spent(c) \in Statuses
BY DEF Spent, Statuses


LEMMA TypeInit == Init => TypeOK
<1> SUFFICES ASSUME Init PROVE TypeOK
  OBVIOUS
<1>1. 0 \in 0..MaxStarts /\ Clean \subseteq Trees
  BY AblationAssumption
<1>2. tree \in Trees /\ starts \in 0..MaxStarts
  BY <1>1 DEF Init
<1> QED BY <1>2 DEF Init, TypeOK

LEMMA RowTyped ==
  ASSUME NEW o \in Outcomes, NEW sp \in Spendings(o), TypeOK, state \in Campaigns,
         Kept(state), Done(state) # Slots, Row(o, sp)
  PROVE  row' \in Rows /\ row'.slot = Len(state.runs) + 1 /\ row'.tree = tree
<1>1. state.runs \in Seq(Rows)
  BY DEF Campaigns
<1>2. NextSlot(state) = Len(state.runs) + 1 /\ NextSlot(state) \in Slots
  BY <1>1, NextSlotIs
<1>3. sp \in [time : Nat, cost : Nat] /\ tree \in Trees
  BY AblationAssumption DEF TypeOK
<1> QED BY <1>2, <1>3 DEF Row, Rows

\* No process, or one with a campaign that is typed and kept.
LEMMA InMemory ==
  ASSUME TypeOK, CampaignInv, pc # "down"
  PROVE  state \in Campaigns /\ Kept(state) /\ state.runs \in Seq(Rows)
         /\ (pc \in InSlot => Done(state) # Slots)
         /\ (pc = "row" => row \in Rows)
BY DEF TypeOK, CampaignInv, Campaigns

LEMMA TypeNext == TypeOK /\ CampaignInv /\ [Next]_vars => TypeOK'
<1> SUFFICES ASSUME TypeOK, CampaignInv, [Next]_vars PROVE TypeOK'
  OBVIOUS
<1> USE DEF TypeOK, Goto, Exit, files, repository
<1>1. ASSUME NEW l \in Limits, StartNew(l) PROVE TypeOK'
  <2>1. state' \in Campaigns
    BY <1>1 DEF StartNew, Campaigns, Statuses
  <2>2. starts' \in 0..MaxStarts
    BY <1>1, AblationAssumption DEF StartNew, Begin
  <2> QED BY <1>1, <2>1, <2>2 DEF StartNew, Begin
<1>2. ASSUME NEW l \in Limits, StartAgain(l) PROVE TypeOK'
  <2>1. state' \in Campaigns
    BY <1>2, CampaignChange DEF StartAgain, Statuses
  <2>2. starts' \in 0..MaxStarts
    BY <1>2, AblationAssumption DEF StartAgain, Begin
  <2> QED BY <1>2, <2>1, <2>2 DEF StartAgain, Begin
<1>3. CASE Create BY <1>3 DEF Create
<1>4. CASE Check BY <1>4 DEF Check
<1>5. CASE NextOrStop
  <2>1. state \in Campaigns
    BY <1>5, InMemory DEF NextOrStop
  <2>2. \A st \in Statuses : [state EXCEPT !.status = st] \in Campaigns
    BY <2>1, CampaignChange
  <2>3. "complete" \in Statuses /\ Spent(state) \in Statuses
    BY StatusIsKnown DEF Statuses
  <2> QED BY <1>5, <2>2, <2>3 DEF NextOrStop, StopWith
<1>6. CASE Baseline \/ RunSession
  <2>1. row' \in Rows \cup {Absent}
    BY <1>6, InMemory, RowTyped DEF Baseline, RunSession, Outcomes, Counted, InSlot
  <2> QED BY <1>6, <2>1 DEF Baseline, RunSession, RunStep
<1>7. CASE RunRaises
  <2>1. index' \in Campaigns
    BY <1>7, InMemory, CampaignChange DEF RunRaises, Statuses
  <2> QED BY <1>7, <2>1 DEF RunRaises
<1>8. CASE Retain
  <2>1. index' \in Campaigns
    BY <1>8, InMemory, CampaignChange DEF Retain, Statuses
  <2> QED BY <1>8, <2>1 DEF Retain
<1>9. CASE Count
  <2>1. [state EXCEPT !.runs = Append(@, row)] \in Campaigns
    BY <1>9, InMemory, CampaignChange DEF Count
  <2>2. index' \in Campaigns /\ state' \in Campaigns
    BY <1>9, <2>1, CampaignChange, StatusIsKnown DEF Count
  <2> QED BY <1>9, <2>2 DEF Count
<1>10. CASE Finish
  BY <1>10, InMemory DEF Finish
<1>11. CASE Crash BY <1>11 DEF Crash
<1>12. CASE Publish
  <2>1. index \in Campaigns /\ Kept(index)
    BY <1>12 DEF Publish, Publishable, CampaignInv
  <2>2. index.runs \in Seq(Rows) /\ DOMAIN index.runs \subseteq Slots
    <3>1. index.runs \in Seq(Rows)
      BY <2>1 DEF Campaigns
    <3>2. Done(index) = 1..Len(index.runs) /\ Done(index) \subseteq Slots
      BY <2>1, <3>1, DoneIs
    <3> QED BY <3>1, <3>2
  <2>3. bundle' \in Bundles
    BY <1>12, <2>2 DEF Publish, Bundles
  <2> QED BY <1>12, <2>3 DEF Publish
<1>13. CASE Edit BY <1>13 DEF Edit
<1>14. CASE UNCHANGED vars BY <1>14 DEF vars
<1> QED
  BY <1>1, <1>2, <1>3, <1>4, <1>5, <1>6, <1>7, <1>8, <1>9, <1>10, <1>11, <1>12, <1>13, <1>14
  DEF Next, Process

----------------------------------------------------------------------------
(* The campaign.                                                           *)

LEMMA CampaignNext == TypeOK /\ CampaignInv /\ [Next]_vars => CampaignInv'
<1> SUFFICES ASSUME TypeOK, CampaignInv, [Next]_vars PROVE CampaignInv'
  OBVIOUS
<1> USE DEF CampaignInv, Goto, Exit, files, repository, Working, InSlot
<1>1. ASSUME NEW l \in Limits, StartNew(l) PROVE CampaignInv'
  <2>1. state' \in Campaigns
    BY <1>1 DEF StartNew, Campaigns, Statuses, TypeOK
  <2>2. state' # Absent
    BY <2>1, AblationAssumption
  <2>3. Kept(state')
    BY <1>1, AblationAssumption DEF StartNew, Kept, UnderLimits
  <2> QED BY <1>1, <2>2, <2>3 DEF StartNew, Begin
<1>2. ASSUME NEW l \in Limits, StartAgain(l) PROVE CampaignInv'
  <2>1. index \in Campaigns /\ Kept(index)
    BY <1>2 DEF StartAgain, TypeOK
  <2>2. state' \in Campaigns /\ state' = [index EXCEPT !.status = "running"]
    BY <1>2, <2>1, CampaignChange DEF StartAgain, Statuses
  <2>3. /\ state'.runs = index.runs /\ state'.failures = index.failures /\ state'.limits = index.limits
        /\ state'.frozen = index.frozen /\ state'.status = "running"
    BY <2>1, <2>2 DEF Campaigns
  <2>4. Kept(state') /\ state' # Absent
    BY <2>1, <2>2, <2>3, KeptStatus, AblationAssumption
  <2> QED BY <1>2, <2>3, <2>4 DEF StartAgain, Begin
<1>3. CASE Create BY <1>3 DEF Create
<1>4. CASE Check BY <1>4 DEF Check
<1>5. CASE NextOrStop
  <2>1. state \in Campaigns /\ Kept(state)
    BY <1>5, InMemory DEF NextOrStop
  <2>2. ASSUME NEW st \in Statuses, StopWith(st), st = "complete" => Done(state) = Slots
        PROVE  /\ state' # Absent /\ Kept(state') /\ pc' = "finish"
               /\ state'.runs = state.runs /\ state'.failures = state.failures
               /\ state'.frozen = state.frozen
    <3>1. /\ state' \in Campaigns /\ state'.runs = state.runs /\ state'.failures = state.failures
          /\ state'.frozen = state.frozen /\ state'.limits = state.limits /\ state'.status = st
      BY <2>1, <2>2, CampaignChange DEF StopWith, Campaigns
    <3> QED BY <2>1, <2>2, <3>1, KeptStatus, AblationAssumption DEF StopWith
  <2>3. Spent(state) # "complete" /\ Spent(state) \in Statuses /\ "complete" \in Statuses
    BY DEF Spent, Statuses
  <2> QED BY <1>5, <2>2, <2>3 DEF NextOrStop
<1>6. CASE Baseline \/ RunSession
  <2>1. pc' = "row" => row' \in Rows /\ row'.slot = Len(state.runs) + 1
    BY <1>6, InMemory, RowTyped DEF Baseline, RunSession, Outcomes, Counted
  <2> QED BY <1>6, <2>1 DEF Baseline, RunSession, RunStep
<1>7. CASE RunRaises
  <2>1. state \in Campaigns /\ Kept(state)
    BY <1>7, InMemory DEF RunRaises
  <2>2. /\ index'.runs = state.runs /\ index'.failures = state.failures
        /\ index'.limits = state.limits /\ index'.status # "complete"
    BY <1>7, <2>1 DEF RunRaises, Campaigns
  <2>3. Kept(index')
    BY <2>1, <2>2, KeptStatus
  <2> QED BY <1>7, <2>3 DEF RunRaises
<1>8. CASE Retain
  <2>1. state \in Campaigns /\ Kept(state) /\ row \in Rows /\ row.slot = Len(state.runs) + 1
    BY <1>8, InMemory DEF Retain
  <2>2. /\ index' \in Campaigns /\ index'.runs = state.runs
        /\ index'.failures = Append(state.failures, row)
        /\ index'.limits = state.limits /\ index'.status # "complete"
    <3>1. index' = [state EXCEPT !.failures = Append(@, row), !.status = "stopped_environment_failure"]
      BY <1>8 DEF Retain
    <3>2. "stopped_environment_failure" \in Statuses
      BY DEF Statuses
    <3>3. index' \in Campaigns
      BY <2>1, <3>1, <3>2, CampaignChange
    <3> QED BY <2>1, <3>1, <3>3 DEF Campaigns
  <2>3. Kept(index')
    BY <2>1, <2>2, KeptRetained
  <2> QED BY <1>8, <2>3 DEF Retain
<1>9. CASE Count
  <2> DEFINE counted == [state EXCEPT !.runs = Append(@, row)]
  <2>1. /\ state \in Campaigns /\ Kept(state) /\ row \in Rows /\ row.slot = Len(state.runs) + 1
        /\ Done(state) # Slots /\ Spent(state) = "running" /\ state.runs \in Seq(Rows)
    BY <1>9, InMemory DEF Count
  <2>2. /\ counted \in Campaigns /\ counted.runs = Append(state.runs, row)
        /\ counted.failures = state.failures /\ counted.limits = state.limits
        /\ counted.status = state.status /\ counted.frozen = state.frozen
    BY <2>1, CampaignChange DEF Campaigns
  <2>3. state.status # "complete"
    BY <2>1 DEF Kept
  <2>4. Kept(counted)
    BY <2>1, <2>2, <2>3, KeptCounted
  <2>5. /\ index' = counted /\ state' = [counted EXCEPT !.status = Spent(counted)]
        /\ pc' \in {"slot", "finish"}
    BY <1>9 DEF Count
  <2> HIDE DEF counted
  <2>6. /\ state' \in Campaigns /\ state'.runs = counted.runs /\ state'.failures = counted.failures
        /\ state'.limits = counted.limits /\ state'.frozen = counted.frozen
        /\ state'.status = Spent(counted)
    BY <2>2, <2>5, CampaignChange, StatusIsKnown DEF Campaigns
  <2>7. Kept(state')
    BY <2>4, <2>6, KeptStatus DEF Spent
  <2>8. state' # Absent /\ index' # Absent
    BY <2>2, <2>5, <2>6, AblationAssumption
  <2> QED BY <2>4, <2>5, <2>6, <2>7, <2>8
<1>10. CASE Finish BY <1>10 DEF Finish
<1>11. CASE Crash BY <1>11 DEF Crash
<1>12. CASE Publish BY <1>12 DEF Publish
<1>13. CASE Edit BY <1>13 DEF Edit
<1>14. CASE UNCHANGED vars BY <1>14 DEF vars
<1> QED
  BY <1>1, <1>2, <1>3, <1>4, <1>5, <1>6, <1>7, <1>8, <1>9, <1>10, <1>11, <1>12, <1>13, <1>14
  DEF Next, Process

----------------------------------------------------------------------------
(* The frozen repository and the published bundle.                         *)

LEMMA FreezeNext == TypeOK /\ CampaignInv /\ FreezeInv /\ [Next]_vars => FreezeInv'
<1> SUFFICES ASSUME TypeOK, CampaignInv, FreezeInv, [Next]_vars, ~touched' PROVE FreezeInv'
  BY DEF FreezeInv
<1> USE DEF FreezeInv, Goto, Exit, files, repository, Working
<1>0. pc # "down" => state \in Campaigns /\ state.runs \in Seq(Rows)
  BY InMemory
<1>1. ASSUME NEW l \in Limits, StartNew(l) PROVE FreezeInv'
  BY <1>1 DEF StartNew, Begin
<1>2. ASSUME NEW l \in Limits, StartAgain(l) PROVE FreezeInv'
  BY <1>2 DEF StartAgain, Begin
<1>3. CASE Create BY <1>3 DEF Create
<1>4. CASE Check BY <1>4 DEF Check, InputsFrozen
<1>5. CASE NextOrStop
  <2>1. pc' \in {"finish", "prepare"} /\ state'.frozen = state.frozen
    BY <1>0, <1>5 DEF NextOrStop, StopWith, Campaigns
  <2> QED BY <1>5, <2>1 DEF NextOrStop
<1>6. CASE Baseline \/ RunSession
  BY <1>6, InMemory, RowTyped DEF Baseline, RunSession, RunStep, Outcomes, Counted, InSlot
<1>7. CASE RunRaises
  <2>1. index'.runs = state.runs /\ index'.frozen = state.frozen
    BY <1>0, <1>7 DEF RunRaises, Campaigns
  <2> QED BY <1>7, <2>1 DEF RunRaises, CampaignInv
<1>8. CASE Retain
  <2>1. index'.runs = state.runs /\ index'.frozen = state.frozen
    BY <1>0, <1>8 DEF Retain, Campaigns
  <2> QED BY <1>8, <2>1 DEF Retain, CampaignInv
<1>9. CASE Count
  <2>1. /\ state \in Campaigns /\ state.runs \in Seq(Rows) /\ row \in Rows
        /\ row.tree = tree /\ state.frozen = tree
    BY <1>0, <1>9 DEF Count, CampaignInv
  <2>2. /\ index'.runs = Append(state.runs, row) /\ index'.frozen = state.frozen
        /\ state'.frozen = state.frozen
    BY <1>9, <2>1 DEF Count, Campaigns
  <2>3. \A k \in DOMAIN state.runs : state.runs[k].tree = state.frozen
    BY <1>9 DEF Count, CampaignInv
  <2>4. \A k \in DOMAIN index'.runs : index'.runs[k].tree = index'.frozen
    BY <2>1, <2>2, <2>3
  <2> QED BY <1>9, <2>1, <2>2, <2>4 DEF Count
<1>10. CASE Finish BY <1>10 DEF Finish, CampaignInv
<1>11. CASE Crash BY <1>11 DEF Crash
<1>12. CASE Publish BY <1>12 DEF Publish
<1>13. CASE Edit BY <1>13 DEF Edit
<1>14. CASE UNCHANGED vars BY <1>14 DEF vars
<1> QED
  BY <1>1, <1>2, <1>3, <1>4, <1>5, <1>6, <1>7, <1>8, <1>9, <1>10, <1>11, <1>12, <1>13, <1>14
  DEF Next, Process

LEMMA PublishedNext == TypeOK /\ CampaignInv /\ PublishedInv /\ [Next]_vars => PublishedInv'
<1> SUFFICES ASSUME TypeOK, CampaignInv, PublishedInv, [Next]_vars PROVE PublishedInv'
  OBVIOUS
<1> USE DEF PublishedInv, Goto, Exit, files, repository
<1>1. ASSUME NEW l \in Limits, StartNew(l) PROVE PublishedInv'
  BY <1>1 DEF StartNew, Begin
<1>2. ASSUME NEW l \in Limits, StartAgain(l) PROVE PublishedInv'
  BY <1>2 DEF StartAgain, Begin
<1>3. CASE Create BY <1>3 DEF Create, CampaignInv
<1>4. CASE Check BY <1>4 DEF Check
<1>5. CASE NextOrStop
  <2>1. bundle # Absent => Done(state) = Slots
    BY <1>5 DEF NextOrStop, CampaignInv, Working, Done
  <2>2. bundle # Absent => state'.status = "complete"
    BY <1>5, <2>1, InMemory DEF NextOrStop, StopWith, Campaigns
  <2> QED BY <1>5, <2>2 DEF NextOrStop
<1>6. CASE Baseline \/ RunSession
  BY <1>6 DEF Baseline, RunSession, RunStep
<1>7. CASE pc \in InSlot /\ (RunRaises \/ Retain \/ Count)
  <2>1. bundle = Absent
    BY <1>7 DEF CampaignInv, Working, InSlot, Done
  <2> QED BY <1>7, <2>1 DEF RunRaises, Retain, Count
<1>8. CASE Finish
  BY <1>8 DEF Finish, CampaignInv, Working, Done
<1>9. CASE Crash BY <1>9 DEF Crash
<1>10. CASE Publish
  BY <1>10 DEF Publish, Publishable, CampaignInv, Kept
<1>11. CASE Edit BY <1>11 DEF Edit
<1>12. CASE UNCHANGED vars BY <1>12 DEF vars
<1>13. RunRaises \/ Retain \/ Count => pc \in InSlot
  BY DEF RunRaises, Retain, Count, InSlot
<1> QED
  BY <1>1, <1>2, <1>3, <1>4, <1>5, <1>6, <1>7, <1>8, <1>9, <1>10, <1>11, <1>12, <1>13
  DEF Next, Process

----------------------------------------------------------------------------
(* The theorems.                                                           *)

LEMMA InvAlways == Spec => []IInv
<1>1. Init => IInv
  <2> SUFFICES ASSUME Init PROVE IInv
    OBVIOUS
  <2>1. CampaignInv /\ FreezeInv /\ PublishedInv
    BY DEF Init, CampaignInv, FreezeInv, PublishedInv, Working, InSlot
  <2> QED BY <2>1, TypeInit DEF IInv
<1>2. IInv /\ [Next]_vars => IInv'
  BY TypeNext, CampaignNext, FreezeNext, PublishedNext DEF IInv
<1> QED BY <1>1, <1>2, PTL DEF Spec

\* Every variable of a campaign has its type.
THEOREM TypeCorrect == Spec => []TypeOK
<1>1. IInv => TypeOK
  BY DEF IInv
<1> QED BY <1>1, InvAlways, PTL

\* Through any number of processes, crashes and failures, slots are counted
\* once and in the order of the schedule, and "complete" means all of them.
THEOREM ScheduleIsKept == Spec => []ScheduleKept
<1>1. IInv => ScheduleKept
  BY DEF IInv, CampaignInv, Kept, ScheduleKept
<1> QED BY <1>1, InvAlways, PTL

\* No slot is begun after the counted ones have reached a limit.  Rows that are
\* not counted are in no total.
THEOREM BudgetIsKept == Spec => []BudgetKept
<1>1. IInv => BudgetKept
  BY DEF IInv, CampaignInv, Kept, UnderLimits, BudgetKept
<1> QED BY <1>1, InvAlways, PTL

\* Edits between two processes never get into a campaign.
THEOREM RowsAreFrozen == Spec => []FrozenRows
<1>1. IInv => FrozenRows
  BY DEF IInv, FreezeInv, FrozenRows
<1> QED BY <1>1, InvAlways, PTL

\* A verified bundle is the whole campaign, and stays so.
THEOREM VerifiedStaysWhole == Spec => []VerifiedIsWhole
<1>1. IInv => VerifiedIsWhole
  BY DEF IInv, PublishedInv, VerifiedIsWhole, Verified
<1> QED BY <1>1, InvAlways, PTL
=============================================================================
