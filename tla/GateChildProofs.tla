--------------------------- MODULE GateChildProofs ---------------------------
(***************************************************************************)
(* Proofs about GateChild, for every gate, reply, host and bound: what a    *)
(* parent reads of a child against what the child decided, through kills,   *)
(* failed writes and timeouts, and what a lawful report is; the verdict of a *)
(* plan; what the probe says of a disk; and, by way of the hash chain, what  *)
(* an audit confirms of a journal that may have been damaged.               *)
(***************************************************************************)
EXTENDS GateChild, SequenceTheorems, FiniteSetTheorems, WellFoundedInduction, TLAPS

Codes     == {USAGE, UNREADABLE_INPUT, INDETERMINATE}
StageNames ==
  { "gate-options", "task-and-policy", "profile-option",
    "profile-and-registry", "run-options", "endpoint", "state-root", "root-is-local",
    "model-server", "plan-and-workspace", "state-root-is-local", "workspace-facts",
    "run-directory", "run-is-local", "attempt-directory", "attempt-is-local",
    "header", "replay-options", "run-and-attempt", "resumable" }
StageSet  == [name : StageNames, code : Codes]
Undecided == {Indeterminate(why) : why \in Kinds}
Decided   == {Passed(0), Passed(1), Failed} \cup Undecided
Verbs     == {"run", "resume", "replay"}
Fields    == {"pc", "verb", "anchor", "host", "at", "measured", "misjudged", "contacted", "outcome",
              "head", "exit_override", "confirms", "line", "printed", "intact", "marker", "exit"}

-----------------------------------------------------------------------------
(* Every refusal has an exit code of its own, neither a pass nor a failure.  *)
LEMMA StagesRefuse ==
  ASSUME NEW verb \in Verbs
  PROVE  Stages(verb) \in Seq(StageSet) /\ Len(Stages(verb)) \in Nat \ {0}
<1> USE DEF StageSet, StageNames, Stage, Codes, USAGE, UNREADABLE_INPUT, INDETERMINATE
<1>0. InputStages \in Seq(StageSet)
  BY DEF InputStages
<1>1. ASSUME NEW rest \in Seq(StageSet)
      PROVE  InputStages \o rest \in Seq(StageSet) /\ Len(InputStages \o rest) \in Nat \ {0}
  <2>2. Len(InputStages) = 4
    BY DEF InputStages
  <2>3. Len(rest) \in Nat
    BY LenProperties
  <2> HIDE DEF StageSet
  <2>4. InputStages \o rest \in Seq(StageSet) /\ Len(InputStages \o rest) = Len(InputStages) + Len(rest)
    BY <1>0, ConcatProperties
  <2> QED BY <2>2, <2>3, <2>4
<1>2. ContactStages \in Seq(StageSet)
  BY DEF ContactStages
<1>3. PrepareStages \in Seq(StageSet)
  BY DEF PrepareStages
<1>4. RunDirStages \in Seq(StageSet)
  BY DEF RunDirStages
<1>5. AttemptStages \in Seq(StageSet)
  BY DEF AttemptStages
<1>6. ReplayStages \in Seq(StageSet)
  BY DEF ReplayStages
<1>7. <<Stage("resumable", INDETERMINATE)>> \in Seq(StageSet)
  OBVIOUS
<1>8. CASE verb = "run"
  <2>1. ContactStages \o PrepareStages \in Seq(StageSet)
    BY <1>2, <1>3, ConcatProperties
  <2>2. ContactStages \o PrepareStages \o RunDirStages \in Seq(StageSet)
    BY <2>1, <1>4, ConcatProperties
  <2>3. ContactStages \o PrepareStages \o RunDirStages \o AttemptStages \in Seq(StageSet)
    BY <2>2, <1>5, ConcatProperties
  <2>4. Stages(verb) = InputStages \o (ContactStages \o PrepareStages \o RunDirStages \o AttemptStages)
    BY ONLY <1>8 DEF Stages
  <2> QED BY <1>1, <2>3, <2>4
<1>9. CASE verb = "resume"
  <2>1. ContactStages \o PrepareStages \in Seq(StageSet)
    BY <1>2, <1>3, ConcatProperties
  <2>2. ContactStages \o PrepareStages \o <<Stage("resumable", INDETERMINATE)>> \in Seq(StageSet)
    BY <2>1, <1>7, ConcatProperties
  <2>3. ContactStages \o PrepareStages \o <<Stage("resumable", INDETERMINATE)>> \o AttemptStages
          \in Seq(StageSet)
    BY <2>2, <1>5, ConcatProperties
  <2>4. Stages(verb) = InputStages \o (ContactStages \o PrepareStages
                                        \o <<Stage("resumable", INDETERMINATE)>> \o AttemptStages)
    BY ONLY <1>9 DEF Stages
  <2> QED BY <1>1, <2>3, <2>4
<1>10. CASE verb = "replay"
  <2>1. Stages(verb) = InputStages \o ReplayStages
    BY ONLY <1>10 DEF Stages
  <2> QED BY <1>1, <1>6, <2>1
<1> QED BY <1>8, <1>9, <1>10 DEF Verbs

-----------------------------------------------------------------------------
(* The report a child without a verdict prints.                             *)
Says(outcome) == Report(Gate, outcome, {Finding("Info")}, Full)

ReportSet == [gate : {Gate, OtherGate}, outcome : Decided, findings : SUBSET Findings,
              coverage : Coverages]

ReportsOK ==
  /\ reports \in Seq(ReportSet)
  /\ \A i \in 1..Len(reports) : ~LawViolation(reports[i])

Starting(c) ==
  /\ c.pc \in {"stages", "work"} /\ c.intact /\ c.line = NoReport
  /\ c.pc = "stages" => c.verb \in Verbs /\ c.at \in 1..Len(Stages(c.verb))

(* What it has said so far is its report or nothing.                        *)
Speaking(c) ==
  /\ c.pc \in {"head", "line", "exit"}
  /\ c.outcome \in Undecided /\ c.exit_override \in Codes \cup {None}
  /\ c.line \in {NoReport, Says(c.outcome)}
  /\ c.pc = "exit" /\ c.intact => c.line = Says(c.outcome)

Gone(c) ==
  /\ c.pc = "exited" /\ c.exit \in Codes \cup {Signal}
  /\ c.exit # Signal => c.outcome \in Undecided
  /\ c.line # NoReport => c.outcome \in Undecided /\ c.line = Says(c.outcome)
  /\ c.exit # Signal /\ c.intact => c.line = Says(c.outcome)

ChildOK ==
  \/ child = Absent
  \/ /\ child = [field \in Fields |-> child[field]]
     /\ child.marker = NoMarker
     /\ Starting(child) \/ Speaking(child) \/ Gone(child)

IInv == ReportsOK /\ ChildOK /\ ReadsTheChild /\ PassIsEarned

-----------------------------------------------------------------------------
(* interpret and run_checked give reports of their kind, all of them lawful. *)
LEMMA RunCheckedIsLawful ==
  ASSUME NEW gate \in {Gate, OtherGate}, NEW examined \in 0..1, NEW findings \in SUBSET Findings,
         NEW coverage \in Coverages
  PROVE  /\ RunChecked(gate, examined, findings, coverage) \in ReportSet
         /\ ~LawViolation(RunChecked(gate, examined, findings, coverage))
         /\ IsPass(RunChecked(gate, examined, findings, coverage).outcome)
              <=> examined > 0 /\ coverage = Full /\ ~HasBlocking(findings)
<1> DEFINE outcome == DeriveOutcome(examined, findings, coverage)
<1>1. /\ outcome \in Decided
      /\ outcome = Failed => HasBlocking(findings)
      /\ IsPass(outcome) <=> examined > 0 /\ coverage = Full /\ ~HasBlocking(findings)
  BY DEF DeriveOutcome, CapKind, Decided, Undecided, Passed, Failed, Indeterminate, IsPass, Kinds, Coverages,
         Full, Reasons
<1> QED BY <1>1 DEF RunChecked, Report, ReportSet, LawViolation

(* A line the parent may read: no report, or one of a child.                *)
LEMMA InterpretIsLawful ==
  ASSUME NEW exit \in Int, NEW line \in ReportSet \cup {NoReport}, NEW marker, NEW timed_out \in BOOLEAN,
         NEW speaks \in BOOLEAN,
         NEW run, run = [gate |-> Gate, exit |-> exit, line |-> line, marker |-> marker,
                         timed_out |-> timed_out, speaks |-> speaks]
  PROVE  Interpret(run) \in ReportSet /\ ~LawViolation(Interpret(run))
<1> USE DEF ReportSet, Report
<1>1. CouldNotRun(run) \in ReportSet /\ ~LawViolation(CouldNotRun(run))
  BY DEF CouldNotRun, Indeterminate, Decided, Undecided, Kinds, Coverages, Reasons, LawViolation, IsPass, Failed
<1>2. Unreadable(run) \in ReportSet /\ ~LawViolation(Unreadable(run))
  BY DEF Unreadable, Indeterminate, Decided, Undecided, Kinds, Coverages, Reasons, LawViolation, IsPass, Failed
<1>3. InterpretProtocolReport(run) \in ReportSet /\ ~LawViolation(InterpretProtocolReport(run))
  <2>1. CASE InterpretProtocolReport(run) = Unreadable(run)
    BY <2>1, <1>2
  <2>2. CASE InterpretProtocolReport(run) # Unreadable(run)
    <3>1. /\ run.line = line /\ line \in ReportSet /\ ~LawViolation(line)
          /\ InterpretProtocolReport(run) = [line EXCEPT !.outcome = Honoured(@)]
      BY <2>2 DEF InterpretProtocolReport
    <3>2. Honoured(line.outcome) \in Decided
      BY <3>1 DEF Honoured, Decided, Undecided, Indeterminate, Kinds
    <3>3. \/ Honoured(line.outcome) = line.outcome
          \/ ~IsPass(Honoured(line.outcome)) /\ Honoured(line.outcome) # Failed
      BY DEF Honoured, Indeterminate, IsPass, Failed
    <3> QED BY <3>1, <3>2, <3>3 DEF LawViolation
  <2> QED BY <2>1, <2>2
<1>4. InterpretExitConvention(run) \in ReportSet /\ ~LawViolation(InterpretExitConvention(run))
  <2>1. CASE exit = 0 /\ marker = NoMarker
    BY <2>1 DEF InterpretExitConvention, Indeterminate, Decided, Undecided, Kinds, Coverages, Reasons, LawViolation,
                IsPass, Failed
  <2>2. CASE exit = 0 /\ marker # NoMarker
    <3>1. Passed(0) \in Decided /\ Passed(0) # Failed
      BY DEF Passed, Decided, Undecided, Failed
    <3>2. /\ Report(run.gate, Passed(0), {}, Full) \in ReportSet
          /\ ~LawViolation(Report(run.gate, Passed(0), {}, Full))
      BY <3>1 DEF Coverages, LawViolation, HasBlocking
    <3> QED BY <2>2, <1>2, <3>2 DEF InterpretExitConvention
  <2>3. CASE exit = 1
    <3>1. {Finding("Blocking")} \in SUBSET Findings /\ HasBlocking({Finding("Blocking")})
      BY DEF Finding, Findings, Severities, HasBlocking
    <3>2. Failed \in Decided /\ ~IsPass(Failed)
      BY DEF Failed, Decided, Undecided, IsPass
    <3>3. /\ Report(run.gate, Failed, {Finding("Blocking")}, Full) \in ReportSet
          /\ ~LawViolation(Report(run.gate, Failed, {Finding("Blocking")}, Full))
      BY <3>1, <3>2 DEF Coverages, LawViolation
    <3>4. InterpretExitConvention(run) = Report(run.gate, Failed, {Finding("Blocking")}, Full)
      BY <2>3 DEF InterpretExitConvention
    <3> QED BY <3>3, <3>4
  <2>4. CASE exit \notin {0, 1}
    BY <2>4, <1>1 DEF InterpretExitConvention
  <2> QED BY <2>1, <2>2, <2>3, <2>4
<1> QED BY <1>1, <1>3, <1>4 DEF Interpret

(* An undecided outcome is neither a pass nor a failure.                    *)
LEMMA UndecidedIs ==
  ASSUME NEW outcome \in Undecided
  PROVE  outcome.is = "Indeterminate" /\ ~IsPass(outcome) /\ outcome # Failed
BY DEF Undecided, Indeterminate, IsPass, Failed

-----------------------------------------------------------------------------
(* A step of the child, of the world or of the clock reports nothing.       *)
LEMMA Unreported ==
  ASSUME IInv, ChildOK', UNCHANGED reports, ending' \in {ending, NoEnding}
  PROVE  IInv'
<1>1. CASE ending' = ending
  BY <1>1 DEF IInv, ReportsOK, ReadsTheChild, PassIsEarned, OfProgram
<1>2. CASE ending' = NoEnding
  BY <1>2 DEF IInv, ReportsOK, ReadsTheChild, PassIsEarned, OfProgram, NoEnding
<1> QED BY <1>1, <1>2

(* A child that will write nothing more, undecided, has nothing said yet.    *)
LEMMA EndsOK ==
  ASSUME ChildOK, Starting(child), child # Absent, NEW outcome \in Undecided, NEW head,
         NEW override \in Codes \cup {None}, NEW ended, ended = Ends(outcome, head, override)
  PROVE  /\ ended = [field \in Fields |-> ended[field]]
         /\ ended.marker = NoMarker /\ Speaking(ended)
BY DEF ChildOK, Starting, Ends, Past, Speaking, Fields

(* A child starts at its first stage, with nothing printed.                 *)
LEMMA LaunchOK ==
  ASSUME IInv, Launch
  PROVE  IInv'
<1>1. PICK verb \in Verbs, anchor \in {None, kept}, host \in Hosts \cup {None} :
        child' = Launched(verb, anchor, host)
  BY DEF Launch, Verbs
<1>2. 1 \in 1..Len(Stages(verb))
  BY StagesRefuse
<1>3. ChildOK'
  BY <1>1, <1>2 DEF ChildOK, Launched, Fields, Starting
<1> QED BY <1>3, Unreported DEF Launch

(* A stage that refuses gives an outcome that is no pass, and one that      *)
(* lets the run through gives none.                                         *)
LEMMA StageSteps ==
  ASSUME IInv, Refuse \/ Pass \/ MoveRoot
  PROVE  IInv'
<1>a. child.pc = "stages"
  BY DEF Refuse, Pass, MoveRoot
<1>1. /\ child # Absent /\ child.pc = "stages" /\ Starting(child)
      /\ child = [field \in Fields |-> child[field]] /\ child.marker = NoMarker
  BY <1>a DEF IInv, ChildOK, Absent, Speaking, Gone
<1>2. Len(Stages(child.verb)) \in Nat /\ StageOf(child).code \in Codes
  <2>1. child.verb \in Verbs /\ child.at \in 1..Len(Stages(child.verb))
    BY <1>1 DEF Starting
  <2>2. Stages(child.verb) \in Seq(StageSet) /\ Len(Stages(child.verb)) \in Nat
    BY <2>1, StagesRefuse
  <2>3. Stages(child.verb)[child.at] \in StageSet
    BY <2>1, <2>2, ElementOfSeq
  <2> QED BY <2>2, <2>3 DEF StageOf, StageSet
<1>3. CASE Refuse
  <2>1. child' = Ends(Indeterminate("CouldNotRun"), None, StageOf(child).code)
    BY <1>3 DEF Refuse
  <2>2. Indeterminate("CouldNotRun") \in Undecided
    BY DEF Undecided, Kinds
  <2>3. ChildOK'
    BY <1>1, <1>2, <2>1, <2>2, EndsOK DEF IInv, ChildOK
  <2> QED BY <1>3, <2>3, Unreported DEF Refuse
<1>4. CASE Pass
  <2>1. PICK measured, misjudged, contacted :
          child' = [child EXCEPT !.at = @ + 1,
                     !.pc = IF child.at = Len(Stages(child.verb)) THEN "work" ELSE @,
                     !.measured = measured, !.misjudged = misjudged, !.contacted = contacted]
    BY <1>4 DEF Pass
  <2>2. /\ child' = [field \in Fields |-> child'[field]] /\ child'.marker = NoMarker
        /\ child'.intact /\ child'.line = NoReport /\ child'.verb = child.verb
        /\ child'.at = child.at + 1
        /\ child'.pc = IF child.at = Len(Stages(child.verb)) THEN "work" ELSE "stages"
    BY <1>1, <2>1 DEF Starting, Fields
  <2>3. ChildOK'
    BY <1>1, <1>2, <2>2 DEF ChildOK, Starting
  <2> QED BY <1>4, <2>3, Unreported DEF Pass
<1>5. CASE MoveRoot
  <2>1. ChildOK'
    BY <1>1, <1>5 DEF MoveRoot, ChildOK, Starting, Fields
  <2> QED BY <1>5, <2>1, Unreported DEF MoveRoot
<1> QED BY <1>3, <1>4, <1>5

(* The run and the audit never pass, and never fail.                        *)
LEMMA WorkSteps ==
  ASSUME IInv, RunStep \/ JournalFails \/ Audit
               \/ \E outcome \in {NothingChecked, UnreadableEvidence} : RunEnds(outcome)
  PROVE  IInv'
<1>a. child.pc = "work"
  BY DEF RunStep, JournalFails, Audit, RunEnds, Live
<1>1. /\ child # Absent /\ child.pc = "work" /\ Starting(child)
      /\ child = [field \in Fields |-> child[field]] /\ child.marker = NoMarker
  BY <1>a DEF IInv, ChildOK, Absent, Speaking, Gone
<1>2. {NothingChecked, UnreadableEvidence, Indeterminate("CouldNotRun")} \subseteq Undecided
  BY DEF NothingChecked, UnreadableEvidence, Undecided, Kinds
<1>3. CASE RunStep
  BY <1>3, Unreported DEF RunStep, IInv, ChildOK
<1>4. CASE JournalFails
  <2>1. ChildOK'
    BY <1>1, <1>2, <1>4, EndsOK DEF JournalFails, IInv, ChildOK
  <2> QED BY <1>4, <2>1, Unreported DEF JournalFails
<1>5. ASSUME NEW outcome \in {NothingChecked, UnreadableEvidence}, RunEnds(outcome)
      PROVE  IInv'
  <2>1. PICK head : child' = Ends(outcome, head, None)
    BY <1>5 DEF RunEnds
  <2>2. ChildOK'
    BY <1>1, <1>2, <2>1, EndsOK DEF IInv, ChildOK
  <2> QED BY <1>5, <2>2, Unreported DEF RunEnds
<1>6. CASE Audit
  <2>1. AuditOutcome(child.anchor) \in Undecided
    BY <1>2 DEF AuditOutcome, RecordedOutcome
  <2> DEFINE ended == Ends(AuditOutcome(child.anchor), None, None)
  <2>2. ended = [field \in Fields |-> ended[field]] /\ ended.marker = NoMarker /\ Speaking(ended)
    BY <1>1, <2>1, EndsOK DEF IInv
  <2>3. PICK confirms : child' = [ended EXCEPT !.anchor = None, !.confirms = confirms]
    BY <1>6 DEF Audit
  <2> HIDE DEF ended
  <2>4. ChildOK'
    BY <2>2, <2>3 DEF ChildOK, Speaking, Fields
  <2> QED BY <1>6, <2>4, Unreported DEF Audit
<1> QED BY <1>3, <1>4, <1>5, <1>6

(* emit, where any write may fail, and a kill.                              *)
LEMMA SpeakingSteps ==
  ASSUME IInv, SayHead \/ SayReport \/ Exit
  PROVE  IInv'
<1>1. /\ child # Absent /\ child.pc \in {"head", "line", "exit"} /\ Speaking(child)
      /\ child = [field \in Fields |-> child[field]] /\ child.marker = NoMarker
  BY DEF IInv, ChildOK, SayHead, SayReport, Exit, Absent, Starting, Speaking, Gone
<1>2. CASE SayHead
  <2>a. Speaking(child) /\ child.pc = "head"
    BY <1>1, <1>2 DEF SayHead
  <2>b. /\ child' = [field \in Fields |-> child'[field]] /\ child'.pc = "line"
        /\ child'.line \in {child.line, NoReport} /\ child'.outcome = child.outcome
        /\ child'.exit_override = child.exit_override /\ child'.marker = child.marker
    <3>1. CASE child' = [child EXCEPT !.pc = "line", !.printed = child.head]
      BY <1>1, <3>1 DEF Fields
    <3>2. CASE child' = Broken("line")
      BY <1>1, <3>2 DEF Broken, Fields
    <3> QED BY <1>2, <3>1, <3>2 DEF SayHead
  <2>c. Speaking(child')
    BY <2>a, <2>b DEF Speaking
  <2>1. ChildOK'
    BY <1>1, <2>b, <2>c DEF ChildOK
  <2> QED BY <1>2, <2>1, Unreported DEF SayHead
<1>3. CASE SayReport
  <2>1. ReportOf(child) = Says(child.outcome)
    <3>1. ~IsPass(child.outcome) /\ child.outcome # Failed
      BY <1>1, UndecidedIs DEF Speaking
    <3> QED BY <3>1 DEF ReportOf, Says, NewReportAllowed, LawViolation, Report
  <2>b. /\ child' = [field \in Fields |-> child'[field]] /\ child'.pc = "exit"
        /\ child'.outcome = child.outcome /\ child'.exit_override = child.exit_override
        /\ child'.marker = child.marker
        /\ \/ child'.line = Says(child.outcome)
           \/ child'.line = NoReport /\ child'.intact = FALSE
    <3>1. CASE child' = [child EXCEPT !.pc = "exit", !.line = ReportOf(child)]
      BY <1>1, <2>1, <3>1 DEF Fields
    <3>2. CASE child' = Broken("exit")
      BY <1>1, <3>2 DEF Broken, Fields
    <3> QED BY <1>3, <3>1, <3>2 DEF SayReport
  <2>c. Speaking(child')
    BY <1>1, <2>b DEF Speaking
  <2>2. ChildOK'
    BY <1>1, <2>b, <2>c DEF ChildOK
  <2> QED BY <1>3, <2>2, Unreported DEF SayReport
<1>4. CASE Exit
  <2>1. CodeOf(child) \in Codes /\ ~IsPass(child.outcome)
    <3>1. child.outcome.is = "Indeterminate" /\ ~IsPass(child.outcome)
      BY <1>1, UndecidedIs DEF Speaking
    <3>2. CASE child.exit_override = None
      BY <3>1, <3>2 DEF CodeOf, Codes
    <3>3. CASE child.exit_override # None
      BY <1>1, <3>1, <3>3 DEF CodeOf, Speaking
    <3> QED BY <3>2, <3>3
  <2>2. PICK code \in Codes : /\ child' = Exited(code)
    BY <1>4, <2>1 DEF Exit, Codes
  <2>3. ChildOK'
    BY <1>1, <1>4, <2>2 DEF Exit, Exited, Past, ChildOK, Speaking, Gone, Fields
  <2> QED BY <1>4, <2>3, Unreported DEF Exit
<1> QED BY <1>2, <1>3, <1>4

(* A kill leaves no line that was not printed, and no marker that was not   *)
(* written.                                                                 *)
LEMMA KillOK ==
  ASSUME IInv, Kill
  PROVE  IInv'
<1>a. /\ child # Absent /\ child = [field \in Fields |-> child[field]] /\ child.marker = NoMarker
      /\ Starting(child) \/ Speaking(child)
  BY DEF IInv, Kill, ChildOK, Absent, Gone
<1>b. child.line = NoReport \/ (child.outcome \in Undecided /\ child.line = Says(child.outcome))
  <2>1. CASE Starting(child)
    BY <2>1 DEF Starting
  <2>2. CASE Speaking(child)
    BY <2>2 DEF Speaking
  <2> QED BY <1>a, <2>1, <2>2
<1>c. /\ child' = [field \in Fields |-> child'[field]] /\ child'.marker = NoMarker
      /\ child'.pc = "exited" /\ child'.exit = Signal /\ child'.line = child.line
      /\ child'.outcome = child.outcome
  BY <1>a DEF Kill, Exited, Past, Fields
<1>1. ChildOK'
  BY <1>b, <1>c DEF ChildOK, Gone
<1> QED BY <1>1, Unreported DEF Kill

-----------------------------------------------------------------------------
(* What interpret makes of a child that is gone, by the protocol and by the  *)
(* exit convention.                                                          *)
LEMMA ReadOfGone ==
  ASSUME NEW c, Gone(c), c.marker = NoMarker, NEW speaks \in BOOLEAN, NEW timed_out \in BOOLEAN,
         timed_out => c.exit = Signal, NEW read, read = Interpret(Observed(c, speaks, timed_out))
  PROVE  /\ read.outcome.is = "Indeterminate"
         /\ c.exit # Signal /\ c.intact /\ speaks => read.outcome = c.outcome
         /\ ~speaks => read.outcome = Indeterminate("CouldNotRun")
<1> DEFINE run == Observed(c, speaks, timed_out)
<1>1. /\ run.gate = Gate /\ run.exit = c.exit /\ run.line = c.line /\ run.marker = NoMarker
      /\ run.timed_out = timed_out /\ run.speaks = speaks
  BY DEF Observed
<1> HIDE DEF run
<1>2. CASE c.exit = Signal
  <2>1. read = CouldNotRun(run)
    BY <1>1, <1>2 DEF Interpret, run
  <2> QED BY <1>2, <2>1 DEF CouldNotRun, Report, Indeterminate
<1>3. CASE c.exit # Signal /\ ~speaks
  <2>1. run.exit \in {2, 4, 5} /\ Signal \notin {2, 4, 5}
    BY <1>1, <1>3 DEF Gone, Codes, USAGE, UNREADABLE_INPUT, INDETERMINATE, Signal
  <2>2. read = InterpretExitConvention(run)
    BY <1>1, <1>3 DEF Interpret, run
  <2>3. read = CouldNotRun(run)
    BY <2>1, <2>2 DEF InterpretExitConvention
  <2> QED BY <1>3, <2>3 DEF CouldNotRun, Report, Indeterminate
<1>4. CASE c.exit # Signal /\ speaks
  <2>1. read = InterpretProtocolReport(run)
    BY <1>1, <1>3, <1>4 DEF Interpret, run
  <2>2. CASE c.line = NoReport
    <3>1. read = Unreadable(run)
      BY <1>1, <2>1, <2>2 DEF InterpretProtocolReport
    <3>2. Says(c.outcome).gate = Gate
      BY DEF Says, Report
    <3>3. ~c.intact
      BY <1>4, <2>2, <3>2, GateChildAssumption DEF Gone
    <3>4. read.outcome.is = "Indeterminate"
      BY <3>1 DEF Unreadable, Report, Indeterminate
    <3> QED BY <1>4, <3>3, <3>4
  <2>3. CASE c.line # NoReport
    <3>1. /\ c.outcome \in Undecided /\ run.line = Says(c.outcome)
          /\ run.exit \in {2, 4, 5}
      BY <1>1, <1>4, <2>3 DEF Gone, Codes, USAGE, UNREADABLE_INPUT, INDETERMINATE
    <3>2. c.outcome.is = "Indeterminate" /\ ~IsPass(c.outcome) /\ c.outcome # Failed
      BY <3>1, UndecidedIs
    <3>3. /\ run.line.gate = run.gate /\ run.line.outcome = c.outcome
          /\ run.line.findings = {Finding("Info")} /\ run.line # NoReport
      BY <1>1, <2>3, <3>1 DEF Says, Report
    <3>4. /\ \A f \in run.line.findings : f.observed
          /\ ~LawViolation(run.line)
      BY <3>2, <3>3 DEF Finding, LawViolation
    <3>a. ExitAgrees(run.line.outcome, run.exit)
      BY <3>1, <3>2, <3>3 DEF ExitAgrees
    <3>5. read = [run.line EXCEPT !.outcome = Honoured(@)]
      BY <2>1, <3>3, <3>4, <3>a DEF InterpretProtocolReport
    <3>6. read.outcome = c.outcome
      BY <3>1, <3>2, <3>3, <3>5 DEF Honoured, Says, Report
    <3> QED BY <1>4, <3>2, <3>6
  <2> QED BY <2>2, <2>3
<1> QED BY <1>2, <1>3, <1>4

(* A report appended is the last one.                                       *)
LEMMA Reported ==
  ASSUME IInv, NEW report \in ReportSet, ~LawViolation(report), reports' = Append(reports, report)
  PROVE  ReportsOK' /\ Last(reports') = report
<1>1. /\ reports' \in Seq(ReportSet) /\ Len(reports') = Len(reports) + 1 /\ Len(reports) \in Nat
      /\ \A i \in 1..Len(reports) : reports'[i] = reports[i]
      /\ reports'[Len(reports) + 1] = report
  BY AppendProperties, LenProperties DEF IInv, ReportsOK
<1> QED BY <1>1 DEF IInv, ReportsOK, Last

(* What the parent makes of a child that ended is a lawful report, and no   *)
(* pass unless it was earned.                                               *)
LEMMA CollectOK ==
  ASSUME IInv, NEW speaks \in BOOLEAN, NEW timed_out \in BOOLEAN, Collect(speaks, timed_out)
  PROVE  IInv'
<1> DEFINE read == Interpret(Observed(child, speaks, timed_out))
<1>1. /\ child.pc = "exited" /\ reports' = Append(reports, read) /\ child' = Absent
      /\ ending'.of = "program" /\ ending'.speaks = speaks /\ ending'.outcome = child.outcome
      /\ ending'.undisturbed = (child.exit # Signal /\ child.intact)
  BY DEF Collect
<1>2. Gone(child) /\ child.marker = NoMarker
  BY <1>1 DEF IInv, ChildOK, Absent, Starting, Speaking
<1>3. child.line \in ReportSet \cup {NoReport} /\ child.exit \in Int
  <2>1. child.exit \in Int
    BY <1>2 DEF Gone, Codes, Signal, USAGE, UNREADABLE_INPUT, INDETERMINATE
  <2>2. ASSUME NEW outcome \in Undecided
        PROVE  Says(outcome) \in ReportSet
    <3>1. outcome \in Decided
      BY <2>2 DEF Undecided, Decided
    <3>2. {Finding("Info")} \in SUBSET Findings
      BY DEF Finding, Findings, Severities
    <3> QED BY <3>1, <3>2 DEF Says, Report, ReportSet, Coverages
  <2> QED BY <1>2, <2>1, <2>2 DEF Gone
<1>4. read \in ReportSet /\ ~LawViolation(read)
  BY <1>3, InterpretIsLawful DEF Observed
<1>5. ReportsOK' /\ Last(reports') = read
  BY <1>1, <1>4, Reported
<1>6. ReadsTheChild'
  <2>1. (timed_out => child.exit = Signal)
    BY DEF Collect
  <2>2. /\ read.outcome.is = "Indeterminate"
        /\ child.exit # Signal /\ child.intact /\ speaks => read.outcome = child.outcome
        /\ ~speaks => read.outcome = Indeterminate("CouldNotRun")
    BY <1>2, <2>1, ReadOfGone
  <2> QED BY <1>1, <1>5, <2>2 DEF ReadsTheChild, OfProgram
<1>7. PassIsEarned' /\ ChildOK'
  BY <1>1 DEF PassIsEarned, ChildOK
<1> QED BY <1>5, <1>6, <1>7 DEF IInv

(* A check of the parent's own passes exactly when it was earned.           *)
LEMMA CheckOK ==
  ASSUME IInv, NEW examined \in 0..1, NEW findings \in SUBSET Findings, NEW coverage \in Coverages,
         RunCheck(examined, findings, coverage)
  PROVE  IInv'
<1> DEFINE report == RunChecked(OtherGate, examined, findings, coverage)
<1>1. /\ report \in ReportSet /\ ~LawViolation(report)
      /\ IsPass(report.outcome) <=> examined > 0 /\ coverage = Full /\ ~HasBlocking(findings)
  BY RunCheckedIsLawful
<1> HIDE DEF report
<1>2. /\ reports' = Append(reports, report) /\ child' = child
      /\ ending'.of = "check"
      /\ ending'.earned = (examined > 0 /\ coverage = Full
                            /\ {f \in findings : f.severity = "Blocking"} = {})
  BY DEF RunCheck, report
<1>3. ReportsOK' /\ Last(reports') = report
  BY <1>1, <1>2, Reported
<1>4. PassIsEarned'
  BY <1>1, <1>2, <1>3 DEF PassIsEarned, HasBlocking
<1> QED BY <1>2, <1>3, <1>4 DEF IInv, ReadsTheChild, OfProgram, ChildOK

-----------------------------------------------------------------------------
(* What another program may say, and where it may end.                      *)
Said  == {Report(gate, outcome, findings, coverage) :
            gate \in {Gate, OtherGate},
            outcome \in {Passed(0), Passed(1), Failed, Indeterminate("StaleBinary")},
            findings \in {{}, {Finding("Blocking")}, {EmptyFinding("Low")}},
            coverage \in {Full, "ParseFailure"}}
Untils == {"report", "panic", "marker", "signal", "done"}

(* What a foreign child can say.                                            *)
LEMMA SaidIs ==
  ASSUME NEW says \in Said
  PROVE  /\ says \in ReportSet
         /\ says.findings \in {{}, {Finding("Blocking")}, {EmptyFinding("Low")}}
         /\ says = [gate |-> says.gate, outcome |-> says.outcome, findings |-> says.findings,
                    coverage |-> says.coverage]
         /\ says.outcome.is \in {"Passed", "Failed", "Indeterminate"}
         /\ says.outcome.is = "Failed" <=> says.outcome = Failed
<1>1. PICK gate \in {Gate, OtherGate},
           outcome \in {Passed(0), Passed(1), Failed, Indeterminate("StaleBinary")},
           findings \in {{}, {Finding("Blocking")}, {EmptyFinding("Low")}},
           coverage \in {Full, "ParseFailure"} :
        says = Report(gate, outcome, findings, coverage)
  BY DEF Said
<1>2. findings \in SUBSET Findings
  <2>1. Finding("Blocking") \in Findings /\ EmptyFinding("Low") \in Findings
    BY DEF Finding, EmptyFinding, Findings, Severities
  <2> QED BY <2>1
<1>5. coverage \in Coverages
  BY DEF Coverages, Reasons
<1>3. outcome \in Decided
  BY DEF Decided, Undecided, Kinds
<1>4. /\ outcome.is \in {"Passed", "Failed", "Indeterminate"}
      /\ outcome.is = "Failed" <=> outcome = Failed
  BY DEF Passed, Failed, Indeterminate
<1> QED BY <1>1, <1>2, <1>3, <1>4, <1>5 DEF Report, ReportSet

(* How a foreign child's exit follows from what it says and where it        *)
(* stops.                                                                   *)
LEMMA ExitIs ==
  ASSUME NEW outcome, NEW until \in Untils
  PROVE  /\ ExitAfter(outcome, until) \in Int
         /\ until = "signal" => ExitAfter(outcome, until) = Signal
         /\ until = "panic" => ExitAfter(outcome, until) = 101
         /\ until \notin {"signal", "panic"} =>
              ExitAfter(outcome, until) = IF outcome.is = "Passed" THEN 0
                                          ELSE IF outcome.is = "Failed" THEN 1 ELSE 5
<1>1. ExitCode(outcome) = IF outcome.is = "Passed" THEN 0 ELSE IF outcome.is = "Failed" THEN 1 ELSE 5
  BY DEF ExitCode
<1>2. /\ until = "signal" => ExitAfter(outcome, until) = Signal
      /\ until = "panic" => ExitAfter(outcome, until) = 101
      /\ until \notin {"signal", "panic"} => ExitAfter(outcome, until) = ExitCode(outcome)
  BY DEF ExitAfter
<1> QED BY <1>1, <1>2 DEF Untils, Signal

(* A pass is read of another program exactly when it was earned.            *)
LEMMA ForeignIs ==
  ASSUME NEW says \in Said, NEW until \in Untils, NEW speaks \in BOOLEAN, NEW timed_out \in BOOLEAN,
         NEW run, run = Seen(says, until, speaks, timed_out)
  PROVE  IsPass(Interpret(run).outcome) <=>
           /\ IsPass(says.outcome) /\ says.gate = Gate /\ ~timed_out
           /\ until \in (IF speaks THEN {"done", "marker"} ELSE {"done"})
           /\ speaks => says.findings = {} /\ says.coverage = Full /\ says.outcome.checked > 0
<1> DEFINE exit == ExitAfter(says.outcome, until)
<1>1. /\ run.gate = Gate /\ run.exit = exit /\ run.timed_out = timed_out /\ run.speaks = speaks
      /\ run.line = IF until = "report" THEN NoReport ELSE says
      /\ run.marker = IF IsPass(says.outcome) /\ until \in {"done", "signal"}
                      THEN says.gate ELSE NoMarker
  BY DEF Seen
<1>2. /\ until = "signal" <=> exit = Signal
      /\ until = "panic" => exit = 101
      /\ until \notin {"signal", "panic"} =>
           exit = IF says.outcome.is = "Passed" THEN 0 ELSE IF says.outcome.is = "Failed" THEN 1 ELSE 5
  BY ExitIs DEF Signal
<1> HIDE DEF exit
<1>3. ~IsPass(CouldNotRun(run).outcome) /\ ~IsPass(Unreadable(run).outcome)
  BY DEF CouldNotRun, Unreadable, Report, Indeterminate, IsPass
<1>4. CASE timed_out \/ until = "signal"
  <2>1. Interpret(run) = CouldNotRun(run)
    BY <1>1, <1>2, <1>4 DEF Interpret
  <2> QED BY <1>3, <1>4, <2>1
<1>5. CASE ~timed_out /\ until # "signal" /\ speaks
  <2>1. Interpret(run) = InterpretProtocolReport(run)
    BY <1>1, <1>2, <1>5 DEF Interpret
  <2>2. CASE InterpretProtocolReport(run) = Unreadable(run)
    <3>1. ~ /\ until \in {"done", "marker"} /\ IsPass(says.outcome) /\ says.gate = Gate
            /\ says.findings = {} /\ says.coverage = Full
      <4> SUFFICES ASSUME until \in {"done", "marker"}, IsPass(says.outcome), says.gate = Gate,
                          says.findings = {}, says.coverage = Full
                   PROVE  FALSE
        OBVIOUS
      <4>1. run.line = says /\ run.exit = 0 /\ says.outcome.is = "Passed"
        BY <1>1, <1>2 DEF IsPass
      <4>a. says # NoReport
        BY GateChildAssumption
      <4>b. says.outcome # Failed
        BY <4>1 DEF Failed
      <4>2. ExitAgrees(says.outcome, run.exit) /\ ~LawViolation(says) /\ says # NoReport
        BY <4>1, <4>a, <4>b DEF ExitAgrees, LawViolation, HasBlocking
      <4>3. Unreadable(run) = [says EXCEPT !.outcome = Honoured(@)]
        BY <1>1, <2>2, <4>1, <4>2 DEF InterpretProtocolReport
      <4>4. says.coverage = "ParseFailure"
        BY <4>3, SaidIs DEF Unreadable, Report
      <4> QED BY <4>4 DEF Full
    <3> QED BY <1>3, <1>5, <2>1, <2>2, <3>1
  <2>3. CASE InterpretProtocolReport(run) # Unreadable(run)
    <3>1. /\ run.line # NoReport /\ run.line.gate = Gate /\ ExitAgrees(run.line.outcome, exit)
          /\ ~LawViolation(run.line) /\ \A f \in run.line.findings : f.observed
          /\ InterpretProtocolReport(run) = [run.line EXCEPT !.outcome = Honoured(@)]
      BY <1>1, <2>3 DEF InterpretProtocolReport
    <3>2. run.line = says /\ until # "report"
      BY <1>1, <3>1
    <3>3. InterpretProtocolReport(run).outcome = Honoured(says.outcome)
      BY <3>1, <3>2, SaidIs
    <3>4. IsPass(says.outcome) => until # "panic" /\ says.findings = {} /\ says.coverage = Full
      <4> SUFFICES ASSUME IsPass(says.outcome)
                   PROVE  until # "panic" /\ says.findings = {} /\ says.coverage = Full
        OBVIOUS
      <4>1. exit = 0
        BY <3>1, <3>2 DEF ExitAgrees, IsPass
      <4>2. says.coverage = Full /\ ~HasBlocking(says.findings)
        BY <3>1, <3>2 DEF LawViolation
      <4>3. says.findings # {Finding("Blocking")} /\ says.findings # {EmptyFinding("Low")}
        <5>1. Finding("Blocking").severity = "Blocking" /\ ~EmptyFinding("Low").observed
          BY DEF Finding, EmptyFinding
        <5> QED BY <3>1, <3>2, <4>2, <5>1 DEF HasBlocking
      <4> QED BY <1>2, <4>1, <4>2, <4>3, SaidIs
    <3>5. IsPass(Honoured(says.outcome)) <=> IsPass(says.outcome) /\ says.outcome.checked > 0
      <4>1. IsPass(says.outcome) => says.outcome.checked \in Nat
        <5>1. says.outcome \in Decided
          BY SaidIs DEF ReportSet
        <5> QED BY <5>1 DEF Decided, Undecided, IsPass, Passed, Failed, Indeterminate
      <4> QED BY <4>1 DEF Honoured, IsPass, Indeterminate
    <3> QED BY <1>5, <2>1, <3>1, <3>2, <3>3, <3>4, <3>5 DEF Untils
  <2> QED BY <2>2, <2>3
<1>6. CASE ~timed_out /\ until # "signal" /\ ~speaks
  <2>1. Interpret(run) = InterpretExitConvention(run)
    BY <1>1, <1>2, <1>6 DEF Interpret
  <2>2. CASE exit = 0 /\ run.marker = NoMarker
    <3>1. InterpretExitConvention(run).outcome = Indeterminate("NothingChecked")
      BY <1>1, <2>2 DEF InterpretExitConvention, Report
    <3>2. IsPass(says.outcome) /\ until = "done" => says.gate = NoMarker
      BY <1>1, <2>2
    <3>3. ~IsPass(Interpret(run).outcome)
      BY <2>1, <3>1 DEF IsPass, Indeterminate
    <3> QED BY <1>6, <3>2, <3>3, GateChildAssumption
  <2>3. CASE exit = 0 /\ run.marker # NoMarker
    <3>1. InterpretExitConvention(run) = IF run.marker = Gate THEN Report(run.gate, Passed(0), {}, Full)
                                         ELSE Unreadable(run)
      BY <1>1, <2>3 DEF InterpretExitConvention, MarkerNamesGate
    <3>2. IsPass(says.outcome) /\ until = "done" /\ run.marker = says.gate
      BY <1>1, <1>6, <2>3
    <3> QED BY <1>3, <1>6, <2>1, <3>1, <3>2 DEF IsPass, Report, Passed
  <2>4. CASE exit = 1
    <3>1. InterpretExitConvention(run).outcome = Failed
      BY <1>1, <2>4 DEF InterpretExitConvention, Report
    <3>2. ~(IsPass(says.outcome) /\ until = "done")
      BY <1>2, <2>4 DEF IsPass
    <3> QED BY <1>6, <2>1, <3>1, <3>2 DEF IsPass, Failed
  <2>5. CASE exit \notin {0, 1}
    <3>1. InterpretExitConvention(run) = CouldNotRun(run)
      BY <1>1, <2>5 DEF InterpretExitConvention
    <3>2. ~(IsPass(says.outcome) /\ until = "done")
      BY <1>2, <2>5 DEF IsPass
    <3> QED BY <1>3, <1>6, <2>1, <3>1, <3>2
  <2> QED BY <2>2, <2>3, <2>4, <2>5
<1> QED BY <1>4, <1>5, <1>6

(* A foreign child's report is taken for a pass under the conditions of     *)
(* ForeignIs only.                                                          *)
LEMMA ForeignOK ==
  ASSUME IInv, NEW says \in Said, NEW until \in Untils, NEW speaks \in BOOLEAN, NEW timed_out \in BOOLEAN,
         Foreign(says, until, speaks, timed_out)
  PROVE  IInv'
<1> DEFINE run  == Seen(says, until, speaks, timed_out)
           read == Interpret(run)
<1>1. read \in ReportSet /\ ~LawViolation(read)
  <2>1. ExitAfter(says.outcome, until) \in Int
    BY ExitIs
  <2>2. (IF until = "report" THEN NoReport ELSE says) \in ReportSet \cup {NoReport}
    BY SaidIs
  <2> QED BY <2>1, <2>2, InterpretIsLawful DEF Seen
<1>2. IsPass(read.outcome) <=>
        /\ IsPass(says.outcome) /\ says.gate = Gate /\ ~timed_out
        /\ until \in (IF speaks THEN {"done", "marker"} ELSE {"done"})
        /\ speaks => says.findings = {} /\ says.coverage = Full /\ says.outcome.checked > 0
  BY ForeignIs
<1> HIDE DEF run, read
<1>3. /\ reports' = Append(reports, read) /\ child' = child /\ ending'.of = "foreign"
      /\ ending'.earned <=>
           /\ IsPass(says.outcome) /\ says.gate = Gate /\ ~timed_out
           /\ until \in (IF speaks THEN {"done", "marker"} ELSE {"done"})
           /\ speaks => says.findings = {} /\ says.coverage = Full /\ says.outcome.checked > 0
  BY DEF Foreign, run, read
<1>4. ReportsOK' /\ Last(reports') = read
  BY <1>1, <1>3, Reported
<1>5. PassIsEarned'
  BY <1>2, <1>3, <1>4 DEF PassIsEarned
<1> QED BY <1>3, <1>4, <1>5 DEF IInv, ReadsTheChild, OfProgram, ChildOK

-----------------------------------------------------------------------------
(* Every step of the parent, its children and the host keeps the            *)
(* invariant.                                                               *)
LEMMA Invariant ==
  IInv /\ [Next]_vars => IInv'
<1> SUFFICES ASSUME IInv, [Next]_vars
             PROVE  IInv'
  OBVIOUS
<1>1. CASE Launch
  BY <1>1, LaunchOK
<1>2. CASE ChildStep
  BY <1>2, StageSteps, WorkSteps, SpeakingSteps DEF ChildStep
<1>3. CASE Kill
  BY <1>3, KillOK
<1>4. CASE CollectsIt
  BY <1>4, CollectOK DEF CollectsIt
<1>5. CASE RunsACheck
  <2>1. PICK examined \in 0..1, findings \in {{}, {Finding("High")}, {Finding("Blocking")}},
             coverage \in {Full, "ParseFailure", "ToolDefect"} : RunCheck(examined, findings, coverage)
    BY <1>5 DEF RunsACheck
  <2>2. Finding("High") \in Findings /\ Finding("Blocking") \in Findings
    BY DEF Finding, Findings, Severities
  <2>3. findings \in SUBSET Findings
    BY <2>2
  <2>4. coverage \in Coverages
    BY DEF Coverages, Reasons
  <2> QED BY <2>1, <2>3, <2>4, CheckOK
<1>6. CASE RunsAnother
  <2>1. PICK says \in Said, until \in Untils, speaks \in BOOLEAN, timed_out \in BOOLEAN :
          Foreign(says, until, speaks, timed_out)
    BY <1>6 DEF RunsAnother, Said, Untils
  <2> QED BY <2>1, ForeignOK
<1>7. CASE MoveRoot
  BY <1>7, StageSteps
<1>8. CASE Damage
  BY <1>8, Unreported DEF Damage, IInv, ChildOK
<1>9. CASE UNCHANGED vars
  BY <1>9, Unreported DEF vars, IInv, ChildOK
<1> QED BY <1>1, <1>2, <1>3, <1>4, <1>5, <1>6, <1>7, <1>8, <1>9 DEF Next

(* The invariant behind the three theorems: what a child may have said at   *)
(* each stage of its end, and the kinds of the reports its parent reads.     *)
THEOREM Inductive == Spec => []IInv
<1>1. Init => IInv
  BY DEF Init, IInv, ReportsOK, ChildOK, ReadsTheChild, PassIsEarned, OfProgram, NoEnding
<1> QED BY <1>1, Invariant, PTL DEF Spec

(* No kill, failed write or timeout, at any point of a child's end, turns a  *)
(* run without a verdict into a pass or a failure, and what the parent reads *)
(* of an undisturbed child is what it decided (emit against interpret).      *)
THEOREM ReadsTheChildHolds == Spec => []ReadsTheChild
<1>1. IInv => ReadsTheChild
  BY DEF IInv
<1> QED BY <1>1, Inductive, PTL

(* A pass is read of another program, or derived of a check, exactly when it *)
(* was earned (interpret, run_checked).                                      *)
THEOREM PassIsEarnedHolds == Spec => []PassIsEarned
<1>1. IInv => PassIsEarned
  BY DEF IInv
<1> QED BY <1>1, Inductive, PTL

(* Every report of a plan obeys the laws of a report: the verdict never has  *)
(* to overrule one that interpret or run_checked gave it (lawful_outcome).   *)
THEOREM ReportsAreLawful ==
  Spec => [](\A i \in DOMAIN reports : LawfulOutcome(reports[i]) = reports[i].outcome)
<1>1. IInv => \A i \in DOMAIN reports : LawfulOutcome(reports[i]) = reports[i].outcome
  BY LenProperties DEF IInv, ReportsOK, LawfulOutcome
<1> QED BY <1>1, Inductive, PTL

-----------------------------------------------------------------------------
\* The order of the naturals.
LessThan == {pair \in Nat \X Nat : pair[1] < pair[2]}

(* A set of naturals that is not empty has a least element.                 *)
LEMMA LeastIs ==
  ASSUME NEW S, S \subseteq Nat, S # {}
  PROVE  \E n \in S : \A m \in S : n <= m
<1>1. IsWellFoundedOn(LessThan, Nat)
  <2>1. LessThan = OpToRel(<, Nat)
    BY DEF OpToRel, LessThan
  <2> QED BY <2>1, NatLessThanWellFounded
<1>2. \E n \in S : \A m \in S : ~ (<<m, n>> \in LessThan)
  BY <1>1, WFMin
<1>3. \A n, m \in Nat : ~ (<<m, n>> \in LessThan) => n <= m
  BY DEF LessThan
<1> QED BY <1>2, <1>3

(* A set with zero and every successor has all numbers.                     *)
LEMMA FromZero ==
  ASSUME NEW S, S \subseteq Nat, 0 \in S, \A n \in S : n + 1 \in S
  PROVE  S = Nat
<1> SUFFICES ASSUME Nat \ S # {} PROVE FALSE
  OBVIOUS
<1>1. PICK n \in Nat \ S : \A m \in Nat \ S : n <= m
  BY LeastIs
<1>2. n - 1 \in Nat /\ n - 1 \notin Nat \ S
  BY <1>1
<1>3. (n - 1) + 1 \in S
  BY <1>2
<1> QED BY <1>1, <1>3

-----------------------------------------------------------------------------
\* The best of the first i reports, as verdict keeps it in its loop.
Judging(best, plan, n) ==
  best = [i \in 0..n |-> IF i = 0 THEN NoOutcome ELSE Worse(best[i - 1], plan[i])]

(* There is such a function for every number of reports.                    *)
LEMMA JudgingExists ==
  ASSUME NEW plan, NEW length \in Nat
  PROVE  \E best : Judging(best, plan, length)
<1> DEFINE S == {n \in Nat : \E best : Judging(best, plan, n)}
<1>1. 0 \in S
  <2> DEFINE best == [i \in 0..0 |-> NoOutcome]
  <2>1. Judging(best, plan, 0)
    BY DEF Judging
  <2> QED BY <2>1
<1>2. ASSUME NEW n \in S PROVE n + 1 \in S
  <2>1. PICK best : Judging(best, plan, n)
    OBVIOUS
  <2> DEFINE more == [i \in 0..n + 1 |-> IF i = n + 1 THEN Worse(best[n], plan[n + 1]) ELSE best[i]]
  <2>2. ASSUME NEW i \in 0..n + 1
        PROVE  more[i] = IF i = 0 THEN NoOutcome ELSE Worse(more[i - 1], plan[i])
    <3>1. CASE i = n + 1
      BY <3>1
    <3>2. CASE i # n + 1
      <4>1. i \in 0..n /\ more[i] = best[i] /\ (i # 0 => more[i - 1] = best[i - 1])
        BY <3>2
      <4> HIDE DEF more
      <4>2. best[i] = IF i = 0 THEN NoOutcome ELSE Worse(best[i - 1], plan[i])
        BY <2>1, <4>1 DEF Judging
      <4> QED BY <4>1, <4>2
    <3> QED BY <3>1, <3>2
  <2>3. more = [i \in 0..n + 1 |-> more[i]]
    OBVIOUS
  <2> HIDE DEF more
  <2>4. Judging(more, plan, n + 1)
    BY <2>2, <2>3 DEF Judging
  <2> QED BY <2>4
<1>3. S = Nat
  <2>1. S \subseteq Nat
    OBVIOUS
  <2> HIDE DEF S
  <2> QED BY <1>1, <1>2, <2>1, FromZero
<1> QED BY <1>3

(* The verdict is what such a function ends with.                           *)
LEMMA VerdictIs ==
  ASSUME NEW plan, Len(plan) \in Nat
  PROVE  \E best : /\ Judging(best, plan, Len(plan))
                   /\ Verdict(plan) = IF best[Len(plan)] = NoOutcome THEN Indeterminate("NothingChecked")
                                      ELSE best[Len(plan)]
<1> DEFINE best == CHOOSE best : Judging(best, plan, Len(plan))
<1>1. Judging(best, plan, Len(plan))
  BY JudgingExists
<1>2. Verdict(plan) = IF best[Len(plan)] = NoOutcome THEN Indeterminate("NothingChecked")
                      ELSE best[Len(plan)]
  BY DEF Verdict, Judging
<1> QED BY <1>1, <1>2

\* The lawful outcome of the i-th report.
Lawful(plan, i) == LawfulOutcome(plan[i])
Rank(plan, i)   == OutcomeRank(Lawful(plan, i))

(* Whatever has a rank has an outcome, and only a failure has the highest.   *)
LEMMA RankIs ==
  ASSUME NEW plan \in Seq(ReportSet), NEW i \in 1..Len(plan)
  PROVE  /\ Rank(plan, i) \in {0, 1, 2} /\ Lawful(plan, i) # NoOutcome
         /\ Rank(plan, i) = 2 => Lawful(plan, i) = Failed
<1>1. plan[i] \in ReportSet
  BY ElementOfSeq
<1>2. Lawful(plan, i) \in Decided
  BY <1>1 DEF Lawful, LawfulOutcome, ReportSet, Decided, Undecided, Kinds
<1> QED BY <1>2 DEF Rank, Decided, Undecided, OutcomeRank, NoOutcome, Passed, Failed, Indeterminate

(* After n reports the best is the outcome of the first of the worst.       *)
LEMMA BestIsFirst ==
  ASSUME NEW plan \in Seq(ReportSet), NEW best, Judging(best, plan, Len(plan)), Len(plan) # 0
  PROVE  \E k \in 1..Len(plan) :
           /\ best[Len(plan)] = Lawful(plan, k)
           /\ \A j \in 1..Len(plan) : Rank(plan, j) <= Rank(plan, k)
           /\ \A j \in 1..k - 1 : Rank(plan, j) < Rank(plan, k)
<1>0. Len(plan) \in Nat
  BY LenProperties
<1> DEFINE First(n) == n # 0 =>
             \E k \in 1..n : /\ best[n] = Lawful(plan, k)
                             /\ \A j \in 1..n : Rank(plan, j) <= Rank(plan, k)
                             /\ \A j \in 1..k - 1 : Rank(plan, j) < Rank(plan, k)
           S == {n \in Nat : n <= Len(plan) => First(n)}
<1>1. 0 \in S
  OBVIOUS
<1>2. ASSUME NEW n \in S PROVE n + 1 \in S
  <2> SUFFICES ASSUME n + 1 <= Len(plan) PROVE First(n + 1)
    OBVIOUS
  <2>1. First(n) /\ n \in Nat /\ n + 1 \in 1..Len(plan)
    BY <1>0
  <2>2. best[n + 1] = Worse(best[n], plan[n + 1]) /\ best[0] = NoOutcome
    BY <1>0, <2>1 DEF Judging
  <2>3. \A i \in 1..Len(plan) : Rank(plan, i) \in {0, 1, 2} /\ Lawful(plan, i) # NoOutcome
    BY RankIs
  <2>4. CASE n = 0
    <3>1. best[1] = Lawful(plan, 1)
      BY <2>2, <2>4 DEF Worse, Lawful
    <3> QED BY <2>1, <2>3, <2>4, <3>1
  <2>5. CASE n # 0
    <3>1. PICK k \in 1..n : /\ best[n] = Lawful(plan, k)
                            /\ \A j \in 1..n : Rank(plan, j) <= Rank(plan, k)
                            /\ \A j \in 1..k - 1 : Rank(plan, j) < Rank(plan, k)
      BY <2>1, <2>5
    <3>2. k \in 1..Len(plan) /\ best[n] # NoOutcome /\ \A j \in 1..n : j \in 1..Len(plan)
      BY <1>0, <2>1, <2>3, <3>1
    <3>3. best[n + 1] = IF Rank(plan, n + 1) > Rank(plan, k) THEN Lawful(plan, n + 1) ELSE Lawful(plan, k)
      BY <2>2, <3>1, <3>2 DEF Worse, Lawful, Rank
    <3>4. CASE Rank(plan, n + 1) > Rank(plan, k)
      <4>1. \A j \in 1..n : Rank(plan, j) < Rank(plan, n + 1)
        BY <2>1, <2>3, <3>1, <3>2, <3>4
      <4>2. \A j \in 1..n + 1 : Rank(plan, j) <= Rank(plan, n + 1)
        BY <2>1, <2>3, <3>2, <4>1
      <4>3. n + 1 \in 1..n + 1 /\ (n + 1) - 1 = n
        BY <2>1
      <4> QED BY <3>3, <3>4, <4>1, <4>2, <4>3
    <3>5. CASE ~(Rank(plan, n + 1) > Rank(plan, k))
      <4>1. \A j \in 1..n + 1 : Rank(plan, j) <= Rank(plan, k)
        BY <2>1, <2>3, <3>1, <3>2, <3>5
      <4>2. k \in 1..n + 1
        BY <2>1, <3>1
      <4> QED BY <3>1, <3>3, <3>5, <4>1, <4>2
    <3> QED BY <3>4, <3>5
  <2> QED BY <2>4, <2>5
<1>3. S = Nat
  <2>1. S \subseteq Nat
    OBVIOUS
  <2> HIDE DEF S
  <2> QED BY <1>1, <1>2, <2>1, FromZero
<1> QED BY <1>0, <1>3

(* verdict over the reports of a parent is the worst, and the first of those. *)
LEMMA VerdictIsFirstWorst ==
  ASSUME ReportsOK
  PROVE  VerdictIsTheWorst
<1>0. reports \in Seq(ReportSet) /\ Len(reports) \in Nat /\ DOMAIN reports = 1..Len(reports)
  BY LenProperties DEF ReportsOK
<1>1. PICK best : /\ Judging(best, reports, Len(reports))
                  /\ Verdict(reports) = IF best[Len(reports)] = NoOutcome
                                        THEN Indeterminate("NothingChecked") ELSE best[Len(reports)]
  BY <1>0, VerdictIs
<1>2. CASE reports = <<>>
  <2>1. Len(reports) = 0 /\ DOMAIN reports = {}
    BY <1>0, <1>2
  <2>2. best[0] = NoOutcome
    BY <1>1, <2>1 DEF Judging
  <2> QED BY <1>1, <2>1, <2>2 DEF VerdictIsTheWorst, NothingChecked
<1>3. CASE reports # <<>>
  <2>1. Len(reports) # 0
    BY <1>0, <1>3, EmptySeq
  <2>2. PICK k \in 1..Len(reports) :
          /\ best[Len(reports)] = Lawful(reports, k)
          /\ \A j \in 1..Len(reports) : Rank(reports, j) <= Rank(reports, k)
          /\ \A j \in 1..k - 1 : Rank(reports, j) < Rank(reports, k)
    BY <1>0, <1>1, <2>1, BestIsFirst
  <2>3. \A i \in DOMAIN reports :
          /\ Rank(reports, i) \in {0, 1, 2} /\ Lawful(reports, i) # NoOutcome
          /\ Rank(reports, i) = 2 => Lawful(reports, i) = Failed
    BY <1>0, RankIs
  <2>4. Verdict(reports) = Lawful(reports, k)
    BY <1>0, <1>1, <2>2, <2>3
  <2>5. \A i \in DOMAIN reports : Lawfully(i) = Lawful(reports, i)
    BY DEF Lawfully, Lawful
  <2>6. ASSUME NEW i \in DOMAIN reports, NEW rank, IsFirst(i, rank), rank = Rank(reports, k)
        PROVE  i = k
    <3>1. Rank(reports, i) = rank /\ \A j \in DOMAIN reports : j < i => Rank(reports, j) # rank
      BY <2>5, <2>6 DEF IsFirst, Rank
    <3> QED BY <1>0, <2>2, <2>3, <2>6, <3>1
  <2>7. \A i \in DOMAIN reports : \A rank : IsFirst(i, rank) => Rank(reports, i) = rank
    BY <2>5 DEF IsFirst, Rank
  <2>8. ASSUME NEW i \in DOMAIN reports, IsFirst(i, 2)
        PROVE  Verdict(reports) = Failed
    <3>1. Rank(reports, k) = 2
      BY <1>0, <2>2, <2>3, <2>7, <2>8
    <3> QED BY <1>0, <2>3, <2>4, <3>1
  <2>9. ASSUME NEW i \in DOMAIN reports, IsFirst(i, 1),
               \A j \in DOMAIN reports : OutcomeRank(Lawfully(j)) # 2
        PROVE  Verdict(reports) = Lawfully(i)
    <3>1. Rank(reports, k) = 1
      <4>1. Rank(reports, k) # 2
        BY <1>0, <2>5, <2>9 DEF Rank
      <4> QED BY <1>0, <2>2, <2>3, <2>7, <2>9, <4>1
    <3> QED BY <2>4, <2>5, <2>6, <2>9, <3>1
  <2>10. ASSUME NEW i \in DOMAIN reports, IsFirst(i, 0),
                \A j \in DOMAIN reports : OutcomeRank(Lawfully(j)) # 2,
                \A j \in DOMAIN reports : OutcomeRank(Lawfully(j)) # 1
         PROVE  Verdict(reports) = Lawfully(i)
    <3>1. Rank(reports, k) = 0
      <4>1. Rank(reports, k) # 2 /\ Rank(reports, k) # 1
        BY <1>0, <2>5, <2>10 DEF Rank
      <4> QED BY <1>0, <2>3, <4>1
    <3> QED BY <2>4, <2>5, <2>6, <2>10, <3>1
  <2> QED BY <1>3, <2>8, <2>9, <2>10 DEF VerdictIsTheWorst
<1> QED BY <1>2, <1>3

-----------------------------------------------------------------------------
(* A device that agrees on its type has it on every mount.                  *)
LEMMA AgreedIs ==
  ASSUME NEW table, IsFiniteSet(table), NEW dev, AgreedType(table, dev)
  PROVE  /\ \E mount \in table : mount.dev = dev
         /\ \A mount \in table : mount.dev = dev => mount.fs = TypeOfDevice(table, dev)
<1> DEFINE S == {mount \in table : mount.dev = dev}
           T == TypesOf(table, dev)
           f == [m \in S |-> m.fs]
<1>1. IsFiniteSet(S)
  BY FS_Subset
<1>2. f \in Surjection(S, T)
  BY DEF Surjection, TypesOf
<1>3. IsFiniteSet(T)
  BY <1>1, <1>2, FS_Surjection
<1>4. \E fs : T = {fs}
  BY <1>3, FS_Singleton DEF AgreedType
<1>5. PICK fs : T = {fs}
  BY <1>4
<1>6. TypeOfDevice(table, dev) = fs
  BY <1>5 DEF TypeOfDevice
<1>7. fs \in T
  BY <1>5
<1>8. \E mount \in table : mount.dev = dev
  BY <1>7 DEF TypesOf
<1>9. ASSUME NEW mount \in table, mount.dev = dev PROVE mount.fs = fs
  <2>1. mount.fs \in T
    BY <1>9 DEF TypesOf
  <2> QED BY <1>5, <2>1
<1> QED BY <1>6, <1>8, <1>9

(* What the probe and the allowlist admit is no remote disk: not behind an   *)
(* overlay, not behind another mount of the device, and no share.            *)
LEMMA ProbeIsSound ==
  ASSUME NEW host, HostIs(host), NEW path, IsLocal(host, path)
  PROVE  ~IsRemote(host, path)
<1> DEFINE dev == host.dev[path]
<1>0. ~Admitted(QueryFailed) /\ ~Admitted(Unmeasured)
  BY DEF Admitted, QueryFailed, Unmeasured
<1>1. CASE host.os = "linux"
  <2>1. Probe(host, path) = IF dev = NoDevice THEN QueryFailed ELSE LinuxMeasure(host.table, dev)
    BY <1>1 DEF Probe
  <2>2. Admitted(LinuxMeasure(host.table, dev))
    BY <1>0, <2>1 DEF IsLocal
  <2>3. AgreedType(host.table, dev)
    BY <1>0, <2>2 DEF LinuxMeasure
  <2> DEFINE fs == TypeOfDevice(host.table, dev)
             layer == IF fs = Overlay THEN UpperOf(host.table, dev) ELSE NoUpper
  <2>4. LinuxMeasure(host.table, dev) = OnLinux(fs, layer)
    BY <2>3 DEF LinuxMeasure
  <2>5. \A mount \in host.table : mount.dev = dev => mount.fs = fs
    BY <2>3, AgreedIs DEF HostIs
  <2>a. \E mount \in host.table : mount.dev = dev
    BY <2>3, AgreedIs DEF HostIs
  <2>b. fs = Overlay => layer = UpperOf(host.table, dev)
    OBVIOUS
  <2> HIDE DEF fs, layer
  <2>6. fs \in LinuxLocal \/ (fs = Overlay /\ UpperOf(host.table, dev) \in LinuxLocal)
    <3>a. PICK query : query = OnLinux(fs, layer)
      OBVIOUS
    <3>1. query.of = "linux" /\ query.fs = fs /\ query.upper = layer
      BY <3>a DEF OnLinux
    <3>b. Admitted(query)
      BY <2>2, <2>4, <3>a
    <3>c. query.of # "macos" /\ query.of # "windows"
      BY <3>1
    <3>2. fs \in LinuxLocal \/ (fs = Overlay /\ layer \in LinuxLocal)
      BY ONLY <3>1, <3>b, <3>c DEF Admitted
    <3> QED BY <2>b, <3>2
  <2>7. Overlay \notin LinuxLocal /\ NoUpper \notin LinuxLocal
    BY DEF Overlay, LinuxLocal, NoUpper
  <2>8. ~RemoteDevice(host.table, dev)
    BY <2>5, <2>6 DEF RemoteDevice
  <2>9. ASSUME NEW mount \in host.table, mount.dev = dev, mount.fs = Overlay
        PROVE  ~RemoteDevice(host.table, mount.upper)
    <3>1. UpperOf(host.table, dev) \in LinuxLocal
      BY <2>5, <2>6, <2>7, <2>9
    <3> DEFINE first == CHOOSE m \in host.table : m.dev = dev
    <3>2. first \in host.table /\ first.dev = dev
      BY <2>a
    <3>3. UpperOf(host.table, dev) = IF AgreedType(host.table, first.upper)
                                     THEN TypeOfDevice(host.table, first.upper) ELSE NoUpper
      BY DEF UpperOf
    <3> HIDE DEF first
    <3>4. first.upper = mount.upper
      BY <2>5, <2>9, <3>2 DEF HostIs
    <3>5. AgreedType(host.table, mount.upper) /\ TypeOfDevice(host.table, mount.upper) \in LinuxLocal
      BY <2>7, <3>1, <3>3, <3>4
    <3> QED BY <3>5, AgreedIs DEF RemoteDevice, HostIs
  <2> QED BY <1>1, <2>8, <2>9 DEF IsRemote
<1>2. CASE host.os = "macos"
  <2>1. Probe(host, path) = IF dev = NoDevice THEN QueryFailed ELSE MacMeasure(host.table, dev)
    BY <1>2 DEF Probe
  <2>2. MacMeasure(host.table, dev) # QueryFailed
    BY <1>0, <2>1 DEF IsLocal
  <2>3. \E m \in host.table : m.local /\ m.dev = dev
    BY <2>2 DEF MacMeasure
  <2> QED BY <1>2, <2>3 DEF IsRemote
<1>3. CASE host.os = "windows"
  <2>1. Probe(host, path) = IF host.unc THEN OnWindows("", "unknown", TRUE) ELSE Unmeasured
    BY <1>3 DEF Probe
  <2>2. ~Admitted(OnWindows("", "unknown", TRUE))
    BY DEF Admitted, OnWindows
  <2> QED BY <1>0, <2>1, <2>2 DEF IsLocal
<1>4. CASE host.os \notin {"linux", "macos", "windows"}
  BY <1>4 DEF IsRemote
<1> QED BY <1>1, <1>2, <1>3, <1>4

-----------------------------------------------------------------------------
Special == {"model-server", "attempt-directory", "attempt-is-local", "header"}

(* Where the stages are that the disk and the journal depend on: the root is *)
(* measured just before the server is asked, and an attempt's directory     *)
(* between its creation and its header, the last stages of all.             *)
LEMMA LayoutIs ==
  ASSUME NEW verb \in {"run", "resume"}, NEW last, last = Len(Stages(verb))
  PROVE  /\ last \in Nat /\ last > 12
         /\ Stages(verb)[8].name = "root-is-local"
         /\ Stages(verb)[last - 1].name = "attempt-is-local"
         /\ \A i \in 1..last :
              /\ Stages(verb)[i].name = "model-server" => i = 9
              /\ Stages(verb)[i].name = "attempt-directory" => i = last - 2
              /\ Stages(verb)[i].name = "header" => i = last
              /\ i = last - 2 => Stages(verb)[i].name = "attempt-directory"
              /\ i = last => Stages(verb)[i].name = "header"
<1> DEFINE rest == IF verb = "run" THEN RunDirStages ELSE <<Stage("resumable", INDETERMINATE)>>
           first == ContactStages \o PrepareStages
           middle == first \o rest
           tail == middle \o AttemptStages
<1>1. Stages(verb) = InputStages \o tail
  <2>1. CASE verb = "run"
    BY ONLY <2>1 DEF Stages
  <2>2. CASE verb = "resume"
    BY ONLY <2>2 DEF Stages
  <2> QED BY <2>1, <2>2
<1>2. /\ InputStages \in Seq(StageSet) /\ ContactStages \in Seq(StageSet)
      /\ PrepareStages \in Seq(StageSet) /\ rest \in Seq(StageSet) /\ AttemptStages \in Seq(StageSet)
  <2> USE DEF StageSet, StageNames, Stage, Codes, USAGE, UNREADABLE_INPUT, INDETERMINATE
  <2>1. InputStages \in Seq(StageSet)
    BY DEF InputStages
  <2>2. ContactStages \in Seq(StageSet)
    BY DEF ContactStages
  <2>3. PrepareStages \in Seq(StageSet)
    BY DEF PrepareStages
  <2>4. rest \in Seq(StageSet)
    <3>1. RunDirStages \in Seq(StageSet)
      BY DEF RunDirStages
    <3>2. <<Stage("resumable", INDETERMINATE)>> \in Seq(StageSet)
      OBVIOUS
    <3> QED BY ONLY <3>1, <3>2
  <2>5. AttemptStages \in Seq(StageSet)
    BY DEF AttemptStages
  <2> QED BY <2>1, <2>2, <2>3, <2>4, <2>5
<1>3. /\ Len(InputStages) = 4 /\ Len(ContactStages) = 5 /\ Len(PrepareStages) = 3
      /\ Len(rest) \in 1..2 /\ Len(AttemptStages) = 3
  BY DEF InputStages, ContactStages, PrepareStages, RunDirStages, AttemptStages
<1>4. /\ \A i \in 1..4 : InputStages[i].name \notin Special
      /\ \A i \in 1..4 : ContactStages[i].name \notin Special
      /\ ContactStages[4].name = "root-is-local" /\ ContactStages[5].name = "model-server"
      /\ \A i \in 1..3 : PrepareStages[i].name \notin Special
  <2> USE DEF Stage, Special
  <2>1. \A i \in 1..4 : InputStages[i].name \notin Special
    <3>1. /\ InputStages[1].name \notin Special /\ InputStages[2].name \notin Special
          /\ InputStages[3].name \notin Special /\ InputStages[4].name \notin Special
      BY DEF InputStages
    <3> HIDE DEF Special
    <3>2. \A i \in 1..4 : i \in {1, 2, 3, 4}
      OBVIOUS
    <3> QED BY <3>1, <3>2
  <2>2. \A i \in 1..4 : ContactStages[i].name \notin Special
    <3>1. /\ ContactStages[1].name \notin Special /\ ContactStages[2].name \notin Special
          /\ ContactStages[3].name \notin Special /\ ContactStages[4].name \notin Special
      BY DEF ContactStages
    <3> HIDE DEF Special
    <3>2. \A i \in 1..4 : i \in {1, 2, 3, 4}
      OBVIOUS
    <3> QED BY <3>1, <3>2
  <2>3. ContactStages[4].name = "root-is-local" /\ ContactStages[5].name = "model-server"
    BY DEF ContactStages
  <2>4. \A i \in 1..3 : PrepareStages[i].name \notin Special
    <3>1. /\ PrepareStages[1].name \notin Special /\ PrepareStages[2].name \notin Special
          /\ PrepareStages[3].name \notin Special
      BY DEF PrepareStages
    <3> HIDE DEF Special
    <3>2. \A i \in 1..3 : i \in {1, 2, 3}
      OBVIOUS
    <3> QED BY <3>1, <3>2
  <2> HIDE DEF Stage, Special
  <2> QED BY <2>1, <2>2, <2>3, <2>4
<1>5. \A i \in 1..Len(rest) : rest[i].name \notin Special
  <2>1. CASE verb = "run"
    <3>1. rest = RunDirStages /\ Len(rest) = 2
      BY <2>1 DEF RunDirStages
    <3>2. RunDirStages[1].name \notin Special /\ RunDirStages[2].name \notin Special
      BY DEF RunDirStages, Special, Stage
    <3>3. \A i \in 1..2 : i \in {1, 2}
      OBVIOUS
    <3> QED BY <3>1, <3>2, <3>3
  <2>2. CASE verb = "resume"
    <3>1. rest = <<Stage("resumable", INDETERMINATE)>>
      BY <2>2
    <3>2. Len(rest) = 1 /\ rest[1].name = "resumable"
      BY <3>1 DEF Stage
    <3>3. "resumable" \notin Special /\ \A i \in 1..1 : i = 1
      BY DEF Special
    <3> QED BY <3>2, <3>3
  <2> QED BY <2>1, <2>2
<1>6. /\ AttemptStages[1].name = "attempt-directory"
      /\ AttemptStages[2].name = "attempt-is-local"
      /\ AttemptStages[3].name = "header"
  BY DEF AttemptStages, Stage
<1> HIDE DEF rest
<1>7. /\ first \in Seq(StageSet) /\ Len(first) = 8
      /\ \A i \in 1..8 : first[i] = IF i <= 5 THEN ContactStages[i] ELSE PrepareStages[i - 5]
  <2>1. /\ first \in Seq(StageSet) /\ Len(first) = Len(ContactStages) + Len(PrepareStages)
        /\ \A i \in 1..Len(ContactStages) + Len(PrepareStages) :
             first[i] = IF i <= Len(ContactStages) THEN ContactStages[i]
                        ELSE PrepareStages[i - Len(ContactStages)]
    BY <1>2, ConcatProperties
  <2> HIDE DEF first
  <2> QED BY <1>3, <2>1
<1> HIDE DEF first
<1>8. /\ middle \in Seq(StageSet) /\ Len(middle) = 8 + Len(rest)
      /\ \A i \in 1..8 + Len(rest) : middle[i] = IF i <= 8 THEN first[i] ELSE rest[i - 8]
  <2>1. /\ middle \in Seq(StageSet) /\ Len(middle) = Len(first) + Len(rest)
        /\ \A i \in 1..Len(first) + Len(rest) :
             middle[i] = IF i <= Len(first) THEN first[i] ELSE rest[i - Len(first)]
    BY <1>2, <1>7, ConcatProperties
  <2> HIDE DEF middle
  <2> QED BY <1>7, <2>1
<1> HIDE DEF middle
<1>9. /\ tail \in Seq(StageSet) /\ Len(tail) = 11 + Len(rest)
      /\ \A i \in 1..11 + Len(rest) :
           tail[i] = IF i <= 8 + Len(rest) THEN middle[i] ELSE AttemptStages[i - (8 + Len(rest))]
  <2>1. /\ tail \in Seq(StageSet) /\ Len(tail) = Len(middle) + Len(AttemptStages)
        /\ \A i \in 1..Len(middle) + Len(AttemptStages) :
             tail[i] = IF i <= Len(middle) THEN middle[i] ELSE AttemptStages[i - Len(middle)]
    BY <1>2, <1>8, ConcatProperties
  <2> HIDE DEF tail
  <2> QED BY <1>3, <1>8, <2>1
<1> HIDE DEF tail
<1>10. /\ last = 15 + Len(rest)
       /\ \A i \in 1..15 + Len(rest) : Stages(verb)[i] = IF i <= 4 THEN InputStages[i] ELSE tail[i - 4]
  <2>a. /\ Len(InputStages \o tail) = Len(InputStages) + Len(tail)
        /\ \A i \in 1..Len(InputStages) + Len(tail) :
             (InputStages \o tail)[i] = IF i <= Len(InputStages) THEN InputStages[i]
                                        ELSE tail[i - Len(InputStages)]
    <3>1. InputStages \in Seq(StageSet) /\ tail \in Seq(StageSet)
      BY <1>2, <1>9
    <3> QED BY ONLY <3>1, ConcatProperties
  <2>1. /\ Len(Stages(verb)) = Len(InputStages) + Len(tail)
        /\ \A i \in 1..Len(InputStages) + Len(tail) :
             Stages(verb)[i] = IF i <= Len(InputStages) THEN InputStages[i] ELSE tail[i - Len(InputStages)]
    BY <1>1, <2>a
  <2> QED BY <1>3, <1>9, <2>1
<1>11. ASSUME NEW i \in 1..last
       PROVE  \/ i <= 4 /\ Stages(verb)[i] = InputStages[i]
              \/ i \in 5..9 /\ Stages(verb)[i] = ContactStages[i - 4]
              \/ i \in 10..12 /\ Stages(verb)[i] = PrepareStages[i - 9]
              \/ i \in 13..12 + Len(rest) /\ Stages(verb)[i] = rest[i - 12]
              \/ i \in last - 2..last /\ Stages(verb)[i] = AttemptStages[i - (last - 3)]
  <2>1. CASE i <= 4
    BY <1>3, <1>10, <2>1
  <2>2. CASE i \in 5..9
    <3>a. Stages(verb)[i] = tail[i - 4] /\ i - 4 \in 1..8
      BY <1>3, <1>10, <2>2
    <3>b. tail[i - 4] = middle[i - 4] /\ middle[i - 4] = first[i - 4]
      BY <1>3, <1>8, <1>9, <3>a
    <3>1. Stages(verb)[i] = tail[i - 4] /\ tail[i - 4] = middle[i - 4] /\ middle[i - 4] = first[i - 4]
      BY <3>a, <3>b
    <3>2. first[i - 4] = ContactStages[i - 4]
      BY <1>7, <2>2
    <3> QED BY <2>2, <3>1, <3>2
  <2>3. CASE i \in 10..12
    <3>1. Stages(verb)[i] = tail[i - 4] /\ tail[i - 4] = middle[i - 4] /\ middle[i - 4] = first[i - 4]
      BY <1>3, <1>8, <1>9, <1>10, <2>3
    <3>2. first[i - 4] = PrepareStages[(i - 4) - 5] /\ (i - 4) - 5 = i - 9
      BY <1>7, <2>3
    <3> QED BY <2>3, <3>1, <3>2
  <2>4. CASE i \in 13..12 + Len(rest)
    <3>1. Stages(verb)[i] = tail[i - 4] /\ tail[i - 4] = middle[i - 4]
      BY <1>3, <1>9, <1>10, <2>4
    <3>2. middle[i - 4] = rest[(i - 4) - 8] /\ (i - 4) - 8 = i - 12
      BY <1>3, <1>8, <2>4
    <3> QED BY <2>4, <3>1, <3>2
  <2>5. CASE i > 12 + Len(rest)
    <3>1. Stages(verb)[i] = tail[i - 4]
      BY <1>3, <1>10, <2>5
    <3>2. tail[i - 4] = AttemptStages[(i - 4) - (8 + Len(rest))]
      BY <1>3, <1>9, <1>10, <2>5
    <3>3. (i - 4) - (8 + Len(rest)) = i - (last - 3) /\ i \in last - 2..last
      BY <1>3, <1>10, <2>5
    <3> QED BY <3>1, <3>2, <3>3
  <2> QED BY <1>3, <1>10, <2>1, <2>2, <2>3, <2>4, <2>5
<1>12. last \in Nat /\ last = 15 + Len(rest) /\ last > 12
  BY <1>3, <1>10
<1>13. Stages(verb)[8] = ContactStages[4]
  <2>1. 8 \in 1..last
    BY <1>12
  <2> QED BY <1>3, <1>11, <1>12, <2>1
<1>14. ASSUME NEW i \in 1..last
       PROVE  /\ i = 9 => Stages(verb)[i].name = "model-server"
              /\ i = last - 2 => Stages(verb)[i].name = "attempt-directory"
              /\ i = last - 1 => Stages(verb)[i].name = "attempt-is-local"
              /\ i = last => Stages(verb)[i].name = "header"
              /\ i \notin {9, last - 2, last - 1, last} => Stages(verb)[i].name \notin Special
  <2>0. last - 2 > 13
    BY <1>3, <1>12
  <2>1. CASE i <= 4 /\ Stages(verb)[i] = InputStages[i]
    <3>1. i \in 1..4 /\ i \notin {9, last - 2, last - 1, last}
      BY <1>12, <2>0, <2>1
    <3> QED BY <1>4, <2>1, <3>1
  <2>2. CASE i \in 5..9 /\ Stages(verb)[i] = ContactStages[i - 4]
    <3>1. i \notin {last - 2, last - 1, last} /\ (i # 9 => i - 4 \in 1..4) /\ (i = 9 => i - 4 = 5)
      BY <1>12, <2>0, <2>2
    <3> QED BY <1>4, <2>2, <3>1
  <2>3. CASE i \in 10..12 /\ Stages(verb)[i] = PrepareStages[i - 9]
    <3>1. i \notin {9, last - 2, last - 1, last} /\ i - 9 \in 1..3
      BY <1>12, <2>0, <2>3
    <3> QED BY <1>4, <2>3, <3>1
  <2>4. CASE i \in 13..12 + Len(rest) /\ Stages(verb)[i] = rest[i - 12]
    <3>1. i \notin {9, last - 2, last - 1, last} /\ i - 12 \in 1..Len(rest)
      BY <1>3, <1>12, <2>4
    <3> QED BY <1>5, <2>4, <3>1
  <2>5. CASE i \in last - 2..last /\ Stages(verb)[i] = AttemptStages[i - (last - 3)]
    <3>1. /\ i # 9 /\ i \in {last - 2, last - 1, last}
          /\ i = last - 2 => i - (last - 3) = 1
          /\ i = last - 1 => i - (last - 3) = 2
          /\ i = last => i - (last - 3) = 3
      BY <1>12, <2>0, <2>5
    <3>2. ~(i = last - 2 /\ i = last - 1) /\ ~(i = last - 2 /\ i = last) /\ ~(i = last - 1 /\ i = last)
      BY <1>12
    <3> QED BY <1>6, <2>5, <3>1, <3>2
  <2> QED BY <1>11, <2>1, <2>2, <2>3, <2>4, <2>5
<1>15. last - 1 \in 1..last
  BY <1>12
<1> QED BY <1>4, <1>12, <1>13, <1>14, <1>15 DEF Special

(* A replay asks no server and makes no attempt.                            *)
LEMMA ReplayLayoutIs ==
  ASSUME NEW i \in 1..Len(Stages("replay"))
  PROVE  Stages("replay")[i].name \notin Special \cup LocalStages
<1> DEFINE whole == InputStages \o ReplayStages
<1>1. Stages("replay") = whole
  BY ONLY DEF Stages
<1>2. /\ InputStages \in Seq(StageSet) /\ ReplayStages \in Seq(StageSet)
      /\ Len(InputStages) = 4 /\ Len(ReplayStages) = 2
  BY DEF StageSet, StageNames, Stage, Codes, USAGE, UNREADABLE_INPUT, INDETERMINATE, InputStages,
         ReplayStages
<1>3. /\ Len(Stages("replay")) = 6
      /\ \A j \in 1..6 : Stages("replay")[j] = IF j <= 4 THEN InputStages[j] ELSE ReplayStages[j - 4]
  <2>1. /\ Len(whole) = Len(InputStages) + Len(ReplayStages)
        /\ \A j \in 1..Len(InputStages) + Len(ReplayStages) :
             whole[j] = IF j <= Len(InputStages) THEN InputStages[j]
                                                ELSE ReplayStages[j - Len(InputStages)]
    <3>1. InputStages \in Seq(StageSet) /\ ReplayStages \in Seq(StageSet)
      BY <1>2
    <3> QED BY ONLY <3>1, ConcatProperties
  <2>2. Len(InputStages) + Len(ReplayStages) = 6
    BY <1>2
  <2> HIDE DEF whole
  <2>3. Len(whole) = 6
    BY <2>1, <2>2
  <2>4. ASSUME NEW j \in 1..6
        PROVE  whole[j] = IF j <= 4 THEN InputStages[j] ELSE ReplayStages[j - 4]
    BY <1>2, <2>1, <2>2
  <2> QED BY ONLY <1>1, <2>3, <2>4
<1>4. i \in {1, 2, 3, 4, 5, 6}
  <2>1. i \in 1..6
    BY <1>3
  <2> QED BY <2>1
<1>5. Stages("replay")[i].name \in
        {"gate-options", "task-and-policy", "profile-option",
         "profile-and-registry", "replay-options", "run-and-attempt"}
  <2>1. CASE i \in {1, 2, 3, 4}
    <3>1. Stages("replay")[i] = InputStages[i]
      BY <1>3, <2>1
    <3>2. /\ InputStages[1].name = "gate-options"
          /\ InputStages[2].name = "task-and-policy"
          /\ InputStages[3].name = "profile-option"
          /\ InputStages[4].name = "profile-and-registry"
      BY DEF InputStages, Stage
    <3> QED BY <2>1, <3>1, <3>2
  <2>2. CASE i \in {5, 6}
    <3>1. Stages("replay")[i] = ReplayStages[i - 4] /\ i - 4 \in {1, 2}
      BY <1>3, <2>2
    <3>2. ReplayStages[1].name = "replay-options" /\ ReplayStages[2].name = "run-and-attempt"
      BY DEF ReplayStages, Stage
    <3> QED BY <3>1, <3>2
  <2> QED BY <1>4, <2>1, <2>2
<1> QED BY <1>5 DEF Special, LocalStages

-----------------------------------------------------------------------------
LineFields == {"form", "seq", "prev", "hash", "kind", "run", "attempt", "mono", "body", "payload"}

\* Lines as they are in a file, whole or garbled.
IsLine(line) ==
  /\ line = [field \in LineFields |-> line[field]]
  /\ line.form \in {Canonical, "NotARecord"}
AreLines(lines) == (\E S : lines \in Seq(S)) /\ \A i \in 1..Len(lines) : IsLine(lines[i])

Prev(lines, i) == IF i = 1 THEN Genesis ELSE lines[i - 1].hash

\* Each line stands for its content and every line before it.
Linked(lines) ==
  \A i \in 1..Len(lines) : lines[i] = Encode(Prev(lines, i), Content(lines[i]))

\* Lines as the program writes them.
Genuine(lines) ==
  /\ AreLines(lines) /\ Linked(lines)
  /\ \A i \in 1..Len(lines) : lines[i].seq = i - 1
  /\ \A i \in 1..Len(lines) : lines[i].kind = "RunStopped" => i = Len(lines)

(* A sequence of lines has its length and its elements.                     *)
LEMMA LinesAre ==
  ASSUME NEW lines, AreLines(lines)
  PROVE  /\ Len(lines) \in Nat /\ DOMAIN lines = 1..Len(lines)
         /\ lines = [i \in 1..Len(lines) |-> lines[i]]
         /\ lines = <<>> <=> Len(lines) = 0
<1>1. PICK S : lines \in Seq(S)
  BY DEF AreLines
<1> QED BY <1>1, LenProperties, EmptySeq

(* Append to a prefix of a function's values gives the next prefix.          *)
LEMMA PrefixGrows ==
  ASSUME NEW f, NEW n \in Nat
  PROVE  Append([k \in 1..n |-> f[k]], f[n + 1]) = [k \in 1..n + 1 |-> f[k]]
<1> DEFINE S == {f[k] : k \in 1..n + 1}
           s == [k \in 1..n |-> f[k]]
           t == [k \in 1..n + 1 |-> f[k]]
<1>1. s \in Seq(S) /\ Len(s) = n /\ f[n + 1] \in S
  OBVIOUS
<1>2. t \in Seq(S) /\ Len(t) = n + 1
  OBVIOUS
<1>a. /\ \A k \in 1..n : s[k] = f[k]
      /\ \A k \in 1..n + 1 : t[k] = f[k]
  OBVIOUS
<1> HIDE DEF s, t, S
<1>3. /\ Append(s, f[n + 1]) \in Seq(S) /\ Len(Append(s, f[n + 1])) = n + 1
      /\ \A k \in 1..n : Append(s, f[n + 1])[k] = s[k]
      /\ Append(s, f[n + 1])[n + 1] = f[n + 1]
  BY <1>1, AppendProperties
<1> DEFINE u == Append(s, f[n + 1])
<1> HIDE DEF u
<1>4. u \in Seq(S) /\ Len(u) = Len(t) /\ \A k \in 1..n + 1 : u[k] = t[k]
  BY <1>2, <1>3, <1>a DEF u
<1>5. u = t
  BY <1>2, <1>4, SeqEqual
<1> QED BY <1>5 DEF u, s, t

(* The hash of a line is the chain of the contents up to it.                 *)
LEMMA ChainIs ==
  ASSUME NEW lines, AreLines(lines), Linked(lines)
  PROVE  \A i \in 1..Len(lines) : lines[i].hash = [k \in 1..i |-> Content(lines[k])]
<1>0. Len(lines) \in Nat
  BY LinesAre
<1> DEFINE f == [k \in 1..Len(lines) |-> Content(lines[k])]
           Is(n) == n \in 1..Len(lines) => lines[n].hash = [k \in 1..n |-> f[k]]
           S == {n \in Nat : Is(n)}
<1>1. ASSUME NEW i \in 1..Len(lines) PROVE lines[i].hash = Append(Prev(lines, i), f[i])
  <2>1. lines[i] = Encode(Prev(lines, i), Content(lines[i])) /\ f[i] = Content(lines[i])
    BY DEF Linked
  <2> HIDE DEF f
  <2> QED BY <2>1 DEF Encode, Hash
<1>2. 0 \in S
  OBVIOUS
<1>3. ASSUME NEW n \in S PROVE n + 1 \in S
  <2> SUFFICES ASSUME n + 1 \in 1..Len(lines) PROVE lines[n + 1].hash = [k \in 1..n + 1 |-> f[k]]
    OBVIOUS
  <2>1. n \in Nat /\ Is(n)
    OBVIOUS
  <2>2. Prev(lines, n + 1) = [k \in 1..n |-> f[k]]
    <3> HIDE DEF f
    <3>1. CASE n = 0
      <4>1. [k \in 1..0 |-> f[k]] = <<>>
        OBVIOUS
      <4> QED BY <3>1, <4>1 DEF Prev, Genesis
    <3>2. CASE n # 0
      <4>1. n \in 1..Len(lines) /\ (n + 1) - 1 = n /\ n + 1 # 1
        BY <1>0, <2>1, <3>2
      <4> QED BY <2>1, <4>1 DEF Prev
    <3> QED BY <3>1, <3>2
  <2>3. lines[n + 1].hash = Append(Prev(lines, n + 1), f[n + 1])
    BY <1>1
  <2> HIDE DEF f
  <2> QED BY <2>1, <2>2, <2>3, PrefixGrows
<1>4. S = Nat
  <2>1. S \subseteq Nat
    OBVIOUS
  <2> HIDE DEF S
  <2> QED BY <1>2, <1>3, <2>1, FromZero
<1>5. ASSUME NEW i \in 1..Len(lines)
      PROVE  lines[i].hash = [k \in 1..i |-> Content(lines[k])]
  <2>1. lines[i].hash = [k \in 1..i |-> f[k]]
    <3>1. i \in Nat
      BY <1>0
    <3> QED BY <1>4, <3>1
  <2>2. \A k \in 1..i : f[k] = Content(lines[k])
    BY <1>0
  <2> HIDE DEF f
  <2> QED BY <2>1, <2>2
<1> QED BY <1>5

(* A chain's head stands for its lines: no two chains have the same one.     *)
LEMMA SameHead ==
  ASSUME NEW lines, NEW others, AreLines(lines), AreLines(others), Linked(lines), Linked(others),
         lines # <<>>, others # <<>>, HeadOf(lines) = HeadOf(others)
  PROVE  lines = others
<1> DEFINE n == Len(lines)
           m == Len(others)
<1>1. n \in Nat /\ m \in Nat /\ n # 0 /\ m # 0
  BY LinesAre
<1>2. [k \in 1..n |-> Content(lines[k])] = [k \in 1..m |-> Content(others[k])]
  <2>1. n \in 1..n /\ m \in 1..m
    BY <1>1
  <2>2. lines[n].hash = [k \in 1..n |-> Content(lines[k])]
    BY <2>1, ChainIs
  <2>3. others[m].hash = [k \in 1..m |-> Content(others[k])]
    BY <2>1, ChainIs
  <2>4. lines[n].hash = others[m].hash
    BY DEF HeadOf
  <2> QED BY <2>2, <2>3, <2>4
<1> HIDE DEF n, m
<1> DEFINE F == [k \in 1..n |-> Content(lines[k])]
           G == [k \in 1..m |-> Content(others[k])]
<1>3. n = m
  <2>1. DOMAIN F = 1..n /\ DOMAIN G = 1..m /\ F = G
    BY <1>2
  <2>2. 1..n = 1..m
    BY <2>1
  <2>3. n \in 1..n /\ m \in 1..m
    BY <1>1
  <2> QED BY <1>1, <2>2, <2>3
<1>4. \A k \in 1..n : Content(lines[k]) = Content(others[k])
  <2>1. ASSUME NEW k \in 1..n PROVE Content(lines[k]) = Content(others[k])
    <3>1. F[k] = Content(lines[k]) /\ G[k] = Content(others[k]) /\ F = G
      BY <1>2, <1>3
    <3> QED BY <3>1
  <2> QED BY <2>1
<1> HIDE DEF F, G
<1>5. \A k \in 1..n : Prev(lines, k) = Prev(others, k)
  <2>1. ASSUME NEW k \in 1..n, k # 1 PROVE lines[k - 1].hash = others[k - 1].hash
    <3>1. k - 1 \in 1..n /\ k - 1 \in 1..m
      BY <1>1, <1>3, <2>1
    <3>2. lines[k - 1].hash = [j \in 1..k - 1 |-> Content(lines[j])]
      BY <3>1, ChainIs DEF n
    <3>3. others[k - 1].hash = [j \in 1..k - 1 |-> Content(others[j])]
      BY <3>1, ChainIs DEF m
    <3>4. \A j \in 1..k - 1 : Content(lines[j]) = Content(others[j])
      BY <1>1, <1>4, <2>1
    <3> QED BY <3>2, <3>3, <3>4
  <2> QED BY <2>1 DEF Prev
<1>6. \A k \in 1..n : lines[k] = others[k]
  <2>1. ASSUME NEW k \in 1..n PROVE lines[k] = others[k]
    <3>1. lines[k] = Encode(Prev(lines, k), Content(lines[k]))
      BY DEF Linked, n
    <3>2. others[k] = Encode(Prev(others, k), Content(others[k]))
      BY <1>3 DEF Linked, m
    <3> QED BY <1>4, <1>5, <3>1, <3>2
  <2> QED BY <2>1
<1>7. lines = [k \in 1..n |-> lines[k]] /\ others = [k \in 1..m |-> others[k]]
  BY LinesAre DEF n, m
<1> QED BY <1>3, <1>6, <1>7

-----------------------------------------------------------------------------
(* A line with nothing wrong has passed every check.                        *)
LEMMA WholeLine ==
  ASSUME NEW lines, AreLines(lines), NEW i \in 1..Len(lines), NEW blobs,
         LineBreak(lines, i, blobs) = Whole
  PROVE  /\ lines[i].form = Canonical /\ lines[i].seq = i - 1 /\ lines[i].prev = Prev(lines, i)
         /\ lines[i].hash = Hash(Prev(lines, i), Content(lines[i]))
         /\ PayloadBreak(lines[i].payload, blobs) = Whole
<1> DEFINE checks == LineChecks(lines, i, blobs)
           failed == {k \in DOMAIN checks : checks[k][1]}
<1>1. /\ DOMAIN checks = 1..10
      /\ checks[1] = <<lines[i].form # Canonical, lines[i].form>>
      /\ checks[2] = <<lines[i].seq # i - 1, "BadSeq">>
      /\ checks[3] = <<lines[i].prev # Prev(lines, i), "BadPrev">>
      /\ checks[4] = <<lines[i].hash # Hash(Prev(lines, i), Content(lines[i])), "BadHash">>
      /\ checks[9] = <<PayloadBreak(lines[i].payload, blobs) # Whole,
                       PayloadBreak(lines[i].payload, blobs)>>
  BY DEF LineChecks, Prev
<1>2. /\ checks[5][2] = "UnknownKind" /\ checks[6][2] = "HeaderMisplaced" /\ checks[7][2] = "WrongRun"
      /\ checks[8][2] = "TimeBackwards" /\ checks[10][2] = "AfterRunStopped"
  BY DEF LineChecks
<1>a. /\ checks[1][1] = (lines[i].form # Canonical)
      /\ checks[2][1] = (lines[i].seq # i - 1)
      /\ checks[3][1] = (lines[i].prev # Prev(lines, i))
      /\ checks[4][1] = (lines[i].hash # Hash(Prev(lines, i), Content(lines[i])))
      /\ checks[9][1] = (PayloadBreak(lines[i].payload, blobs) # Whole)
      /\ checks[9][2] = PayloadBreak(lines[i].payload, blobs)
  <2> HIDE DEF checks
  <2> QED BY <1>1
<1> HIDE DEF checks
<1>3. ASSUME NEW k \in failed PROVE checks[k][2] # Whole
  <2>1. k \in 1..10 /\ checks[k][1]
    BY <1>1
  <2>2. lines[i].form \in {Canonical, "NotARecord"}
    BY DEF AreLines, IsLine
  <2>3. CASE k = 1
    BY <1>1, <2>1, <2>2, <2>3 DEF Canonical, Whole
  <2>4. CASE k = 9
    BY <1>a, <2>1, <2>4
  <2>5. CASE k \in {2, 3, 4}
    BY <1>1, <2>5 DEF Whole
  <2>6. CASE k \in {5, 6, 7, 8, 10}
    BY <1>2, <2>6 DEF Whole
  <2> QED BY <2>1, <2>3, <2>4, <2>5, <2>6
<1>4. failed = {}
  <2> SUFFICES ASSUME failed # {} PROVE FALSE
    OBVIOUS
  <2>1. failed \subseteq Nat
    BY <1>1
  <2>2. LineBreak(lines, i, blobs) = checks[Min(failed)][2]
    BY DEF LineBreak, checks
  <2> HIDE DEF failed
  <2>3. \E x \in failed : \A y \in failed : x <= y
    BY <2>1, LeastIs
  <2>4. Min(failed) \in failed
    BY <2>3 DEF Min
  <2> QED BY <1>3, <2>2, <2>4
<1>5. ~checks[1][1] /\ ~checks[2][1] /\ ~checks[3][1] /\ ~checks[4][1] /\ ~checks[9][1]
  BY <1>1, <1>4
<1> QED BY <1>a, <1>5

(* What a journal that verifies is.                                         *)
LEMMA VerifiedIs ==
  ASSUME NEW j, AreLines(j.lines), Verifies(j)
  PROVE  /\ j.lines # <<>> /\ Linked(j.lines)
         /\ \A i \in 1..Len(j.lines) :
              /\ j.lines[i].form = Canonical /\ j.lines[i].seq = i - 1
              /\ j.lines[i].hash = Hash(Prev(j.lines, i), Content(j.lines[i]))
              /\ PayloadBreak(j.lines[i].payload, j.blobs) = Whole
<1>1. j.lines # <<>> /\ \A i \in 1..Len(j.lines) : LineBreak(j.lines, i, j.blobs) = Whole
  BY LinesAre DEF Verifies, BrokenLines
<1>2. ASSUME NEW i \in 1..Len(j.lines)
      PROVE  /\ j.lines[i].form = Canonical /\ j.lines[i].seq = i - 1
             /\ j.lines[i].prev = Prev(j.lines, i)
             /\ j.lines[i].hash = Hash(Prev(j.lines, i), Content(j.lines[i]))
             /\ PayloadBreak(j.lines[i].payload, j.blobs) = Whole
  BY <1>1, WholeLine
<1>3. ASSUME NEW i \in 1..Len(j.lines)
      PROVE  j.lines[i] = Encode(Prev(j.lines, i), Content(j.lines[i]))
  <2>1. PICK line : line = j.lines[i]
    OBVIOUS
  <2>2. line = [field \in LineFields |-> line[field]]
    BY <2>1 DEF AreLines, IsLine
  <2>3. /\ line.form = Canonical /\ line.prev = Prev(j.lines, i)
        /\ line.hash = Hash(Prev(j.lines, i), Content(line))
    BY <1>2, <2>1
  <2>4. line = Encode(Prev(j.lines, i), Content(line))
    BY <2>2, <2>3 DEF Encode, Content, LineFields
  <2> QED BY <2>1, <2>4
<1> QED BY <1>1, <1>2, <1>3 DEF Linked

-----------------------------------------------------------------------------
\* The journal is as it was written, or has a damage that no audit misses.
Undamaged == journal.damage \in {None, "before"}
Noticed   == {"cut", "torn", "lost", "altered", "garbled", "blob", "moved"}
JournalFields == {"attempt", "lines", "torn", "blobs", "real", "damage"}

\* Each payload in the store is one some line names.
Stored(lines, blobs) ==
  \A name \in DOMAIN blobs : \E i \in 1..Len(lines) : lines[i].payload = InBlob(name)

JournalOK ==
  /\ journal = [field \in JournalFields |-> journal[field]]
  /\ journal.attempt \in Nat
  /\ AreLines(journal.lines)
  /\ journal.damage \in {None} \cup DamageKinds
  /\ Undamaged => Genuine(journal.lines) /\ Stored(journal.lines, journal.blobs)
  /\ journal.damage \in Noticed => ~(Opens(journal, journal.attempt, Run) /\ Committed(journal.lines))

Finished == Undamaged /\ journal.lines # <<>> /\ Last(journal.lines).kind = "RunStopped"
Open     == Undamaged /\ journal.lines # <<>> /\ Last(journal.lines).kind # "RunStopped"
Fresh    == Undamaged /\ journal.lines = <<>> /\ journal.blobs = <<>>

KeptOK ==
  kept # None => /\ kept = HeadOf(written) /\ written # <<>>
                 /\ AreLines(written) /\ Linked(written)
                 /\ Last(written).kind = "RunStopped"

ConfirmsOK(confirms) ==
  confirms # None => /\ confirms.damage \in {None, "before", "replaced"}
                     /\ confirms.anchored => confirms.same

InStages(c) ==
  LET last == Len(Stages(c.verb))
  IN  /\ c.host \in Hosts
      /\ c.at > 8 => "root" \in c.measured
      /\ c.contacted => c.at > 9
      /\ c.at > last - 2 => Fresh
      /\ c.at > last - 1 => "attempt" \in c.measured

Stands(c) ==
  /\ c.pc \in {"stages", "work", "head", "line", "exit", "exited"}
  /\ c.misjudged = {} /\ (c.contacted => "root" \in c.measured)
  /\ ConfirmsOK(c.confirms)
  /\ c.head # None => c.head = HeadOf(journal.lines) /\ Finished
  /\ c.printed # None => c.printed = HeadOf(journal.lines) /\ Finished
  /\ c.pc \in {"stages", "work"} =>
       c.head = None /\ c.printed = None /\ c.confirms = None /\ c.anchor \in {None, kept}
  /\ c.pc = "stages" /\ c.verb \in {"run", "resume"} => InStages(c)
  /\ c.pc = "work" /\ c.verb \in {"run", "resume"} => {"root", "attempt"} \subseteq c.measured /\ Open

Evidence ==
  /\ JournalOK /\ KeptOK
  /\ child # Absent => Room /\ Stands(child)
  /\ Len(reports) <= MaxReports
  /\ ending.of = "program" => ConfirmsOK(ending.confirms)

(* A line written extends the chain.                                        *)
LEMMA WriteIs ==
  ASSUME NEW lines, Genuine(lines), \A i \in 1..Len(lines) : lines[i].kind # "RunStopped",
         NEW attempt, NEW kind, NEW body, NEW payload,
         NEW more, more = Write(lines, attempt, kind, body, payload)
  PROVE  /\ Genuine(more) /\ Len(more) = Len(lines) + 1 /\ more # <<>>
         /\ \A i \in 1..Len(lines) : more[i] = lines[i]
         /\ Last(more) = more[Len(more)]
         /\ Last(more).kind = kind /\ Last(more).payload = payload
         /\ Last(more).attempt = attempt /\ Last(more).body = body
<1> DEFINE n == Len(lines)
           content == [seq |-> n, kind |-> kind, run |-> Run, attempt |-> attempt, mono |-> n,
                       body |-> body, payload |-> payload]
           line == Encode(HeadOf(lines), content)
<1>1. n \in Nat /\ (lines = <<>> <=> n = 0)
  BY LinesAre DEF Genuine
<1>2. /\ line = [field \in LineFields |-> line[field]] /\ line.form = Canonical
      /\ line.seq = n /\ line.kind = kind /\ line.payload = payload /\ line.attempt = attempt
      /\ line.body = body /\ Content(line) = content
  BY DEF Encode, LineFields, Content
<1>3. line = Encode(HeadOf(lines), Content(line))
  BY <1>2
<1>4. PICK S : lines \in Seq(S)
  BY DEF Genuine, AreLines
<1>5. more = Append(lines, line)
  BY DEF Write
<1> HIDE DEF line
<1>6. /\ more \in Seq(S \cup {line}) /\ Len(more) = n + 1 /\ more # <<>>
      /\ \A i \in 1..n : more[i] = lines[i]
      /\ more[n + 1] = line
  <2>1. lines \in Seq(S \cup {line}) /\ line \in S \cup {line}
    BY <1>4, SeqMonotonic
  <2> QED BY <1>5, <2>1, AppendProperties
<1> HIDE DEF content
<1>7. HeadOf(lines) = Prev(more, n + 1)
  <2>1. CASE n = 0
    BY <1>1, <2>1 DEF HeadOf, Prev
  <2>2. CASE n # 0
    <3>1. n \in 1..n /\ (n + 1) - 1 = n /\ n + 1 # 1
      BY <1>1, <2>2
    <3> QED BY <1>1, <1>6, <2>2, <3>1 DEF HeadOf, Prev
  <2> QED BY <2>1, <2>2
<1> HIDE DEF n
<1>8. \A i \in 1..n : Prev(more, i) = Prev(lines, i)
  BY <1>1, <1>6 DEF Prev
<1>9. \A i \in 1..n + 1 : i \in 1..n \/ i = n + 1
  BY <1>1
<1>10. AreLines(more)
  <2>1. \A i \in 1..n : IsLine(lines[i])
    BY DEF Genuine, AreLines, n
  <2>2. IsLine(line)
    BY <1>2 DEF IsLine
  <2>3. \A i \in 1..n + 1 : IsLine(more[i])
    BY <1>6, <1>9, <2>1, <2>2
  <2> QED BY <1>6, <2>3 DEF AreLines
<1>11. Linked(more)
  <2>1. \A i \in 1..n : lines[i] = Encode(Prev(lines, i), Content(lines[i]))
    BY DEF Genuine, Linked, n
  <2>2. ASSUME NEW i \in 1..n + 1 PROVE more[i] = Encode(Prev(more, i), Content(more[i]))
    <3>1. CASE i \in 1..n
      BY <1>6, <1>8, <2>1, <3>1
    <3>2. CASE i = n + 1
      BY <1>3, <1>6, <1>7, <3>2
    <3> QED BY <1>9, <3>1, <3>2
  <2> QED BY <1>6, <2>2 DEF Linked
<1>12. \A i \in 1..n : lines[i].seq = i - 1 /\ lines[i].kind # "RunStopped"
  BY DEF Genuine, n
<1>13. Genuine(more)
  <2>1. ASSUME NEW i \in 1..n + 1 PROVE more[i].seq = i - 1 /\ (more[i].kind = "RunStopped" => i = n + 1)
    <3>1. CASE i \in 1..n
      BY <1>6, <1>12, <3>1
    <3>2. CASE i = n + 1
      BY <1>1, <1>2, <1>6, <3>2
    <3> QED BY <1>9, <3>1, <3>2
  <2> QED BY <1>6, <1>10, <1>11, <2>1 DEF Genuine
<1> QED BY <1>2, <1>6, <1>13 DEF Last, n

(* An attempt starts with a chain of its header.                            *)
LEMMA StartedIs ==
  ASSUME NEW attempt, NEW lines, lines = Started(attempt)
  PROVE  /\ Genuine(<<>>) /\ Genuine(lines) /\ Len(lines) = 1 /\ lines # <<>>
         /\ \A i \in 1..Len(lines) : lines[i].kind # "RunStopped"
         /\ Last(lines).kind = "RunStarted" /\ lines[1].attempt = attempt
<1>1. <<>> \in Seq({}) /\ Len(<<>>) = 0
  OBVIOUS
<1>2. Genuine(<<>>)
  <2>1. AreLines(<<>>)
    BY <1>1 DEF AreLines
  <2>2. Linked(<<>>)
    BY <1>1 DEF Linked
  <2> QED BY <1>1, <2>1, <2>2 DEF Genuine
<1> DEFINE none == <<>>
<1>3. lines = Write(none, attempt, "RunStarted", Inputs, NoPayload) /\ Genuine(none) /\ Len(none) = 0
  BY <1>1, <1>2 DEF Started
<1> HIDE DEF none
<1>4. \A i \in 1..Len(none) : none[i].kind # "RunStopped"
  BY <1>3
<1>5. /\ Genuine(lines) /\ Len(lines) = Len(none) + 1 /\ lines # <<>>
      /\ Last(lines) = lines[Len(lines)] /\ Last(lines).kind = "RunStarted"
      /\ Last(lines).attempt = attempt
  <2> DEFINE payload == NoPayload
             body == Inputs
  <2>1. lines = Write(none, attempt, "RunStarted", body, payload)
    BY <1>3
  <2> HIDE DEF payload, body
  <2>2. Genuine(lines)
    BY ONLY <1>3, <1>4, <2>1, WriteIs
  <2>4. Len(lines) = Len(none) + 1
    <3>1. PICK line : line = Encode(HeadOf(none), [seq |-> Len(none), kind |-> "RunStarted", run |-> Run,
                               attempt |-> attempt, mono |-> Len(none), body |-> body, payload |-> payload])
      OBVIOUS
    <3>2. lines = Append(<<>>, line)
      BY <2>1, <3>1 DEF Write, none
    <3> QED BY <1>3, <3>2
  <2>5. lines # <<>> /\ Last(lines) = lines[Len(lines)]
    BY ONLY <1>3, <2>4 DEF Last
  <2>3. Last(lines).kind = "RunStarted" /\ Last(lines).attempt = attempt
    BY ONLY <1>3, <1>4, <2>1, WriteIs
  <2> QED BY <2>2, <2>3, <2>4, <2>5
<1>6. Len(lines) = 1
  BY <1>3, <1>5
<1>7. "RunStarted" # "RunStopped" /\ \A i \in 1..1 : i = 1
  OBVIOUS
<1>8. lines[1].kind = "RunStarted" /\ lines[1].attempt = attempt /\ Last(lines) = lines[1]
  BY <1>5, <1>6
<1> QED BY <1>2, <1>5, <1>6, <1>7, <1>8

(* A step of a run extends it with the reply and what was parsed of it.      *)
LEMMA SteppedIs ==
  ASSUME NEW lines, Genuine(lines), \A i \in 1..Len(lines) : lines[i].kind # "RunStopped",
         NEW attempt, NEW reply, NEW more, more = Stepped(lines, attempt, reply)
  PROVE  /\ Genuine(more) /\ Len(more) = Len(lines) + 2 /\ more # <<>>
         /\ \A i \in 1..Len(more) : more[i].kind # "RunStopped"
         /\ \A i \in 1..Len(lines) : more[i] = lines[i]
         /\ reply # Submit => more[Len(lines) + 1].payload = InBlob(reply)
<1> DEFINE payload == IF reply = Submit THEN Inline(reply) ELSE InBlob(reply)
           replied == Write(lines, attempt, "ModelReplied", reply, payload)
<1>0. Len(lines) \in Nat
  BY LinesAre DEF Genuine
<1>1. more = Write(replied, attempt, "ActionParsed", reply, NoPayload)
  BY DEF Stepped
<1> HIDE DEF payload
<1>2. /\ Genuine(replied) /\ Len(replied) = Len(lines) + 1
      /\ \A i \in 1..Len(lines) : replied[i] = lines[i]
      /\ Last(replied) = replied[Len(replied)]
      /\ Last(replied).kind = "ModelReplied" /\ Last(replied).payload = payload
  BY WriteIs
<1> HIDE DEF replied
<1>3. \A i \in 1..Len(replied) : replied[i].kind # "RunStopped"
  <2>1. \A i \in 1..Len(lines) + 1 : i \in 1..Len(lines) \/ i = Len(lines) + 1
    BY <1>0
  <2> QED BY <1>2, <2>1
<1>4. /\ Genuine(more) /\ Len(more) = Len(replied) + 1 /\ more # <<>>
      /\ \A i \in 1..Len(replied) : more[i] = replied[i]
      /\ Last(more) = more[Len(more)] /\ Last(more).kind = "ActionParsed"
  BY <1>1, <1>2, <1>3, WriteIs
<1>5. \A i \in 1..Len(more) : more[i].kind # "RunStopped"
  <2>1. \A i \in 1..Len(more) : i \in 1..Len(replied) \/ i = Len(more)
    BY <1>0, <1>2, <1>4
  <2> QED BY <1>3, <1>4, <2>1
<1>6. /\ Len(more) = Len(lines) + 2
      /\ \A i \in 1..Len(lines) : i \in 1..Len(replied)
      /\ Len(replied) \in 1..Len(replied) /\ Len(replied) = Len(lines) + 1
  BY <1>0, <1>2, <1>4
<1>7. \A i \in 1..Len(lines) : more[i] = lines[i]
  BY <1>2, <1>4, <1>6
<1>8. more[Len(lines) + 1].payload = payload
  BY <1>2, <1>4, <1>6
<1> QED BY <1>4, <1>5, <1>6, <1>7, <1>8 DEF payload

(* A child that is there has the fields of one.                             *)
LEMMA ChildIs ==
  ASSUME IInv, child # Absent
  PROVE  /\ child = [field \in Fields |-> child[field]]
         /\ child.pc = "stages" => child.verb \in Verbs /\ child.at \in 1..Len(Stages(child.verb))
BY DEF IInv, ChildOK, Starting, Speaking, Gone

(* A child that only ends, or says what it has to, disturbs no evidence.     *)
LEMMA LaterOK ==
  ASSUME Evidence, child # Absent, UNCHANGED <<journal, reports, kept, written, ending>>,
         child'.pc \in {"head", "line", "exit", "exited"},
         child'.misjudged = {}, child'.contacted => "root" \in child'.measured,
         child'.head \in {None, child.head}, child'.printed \in {child.printed, child.head},
         child'.confirms = child.confirms
  PROVE  Evidence'
<1>1. /\ JournalOK' = JournalOK /\ KeptOK' = KeptOK /\ Finished' = Finished
      /\ HeadOf(journal.lines)' = HeadOf(journal.lines) /\ Room' = Room
  BY DEF JournalOK, KeptOK, Finished, Undamaged, Room
<1>2. Stands(child) /\ Room
  BY DEF Evidence
<1>3. /\ ConfirmsOK(child.confirms)
      /\ child.head # None => child.head = HeadOf(journal.lines) /\ Finished
      /\ child.printed # None => child.printed = HeadOf(journal.lines) /\ Finished
  BY <1>2 DEF Stands
<1>4. /\ child'.head # None => child'.head = HeadOf(journal.lines) /\ Finished
      /\ child'.printed # None => child'.printed = HeadOf(journal.lines) /\ Finished
  BY <1>3
<1>5. ConfirmsOK(child'.confirms)
  BY <1>3
<1>6. Stands(child)'
  BY <1>1, <1>4, <1>5 DEF Stands, ConfirmsOK
<1> QED BY <1>1, <1>2, <1>6 DEF Evidence, ConfirmsOK

(* A refusal, a journal that fails, emit and a kill.                        *)
LEMMA LaterSteps ==
  ASSUME IInv, Evidence, Refuse \/ JournalFails \/ SayHead \/ SayReport \/ Exit \/ Kill
  PROVE  Evidence'
<1>1. child # Absent /\ UNCHANGED <<journal, reports, kept, written, ending>>
  BY DEF Refuse, JournalFails, SayHead, SayReport, Exit, Kill, Live, Absent
<1>2. child = [field \in Fields |-> child[field]]
  BY <1>1, ChildIs
<1>3. child.misjudged = {} /\ (child.contacted => "root" \in child.measured)
  BY <1>1 DEF Evidence, Stands
<1>4. CASE Refuse \/ JournalFails
  <2>1. PICK outcome, override : child' = Ends(outcome, None, override)
    BY <1>4 DEF Refuse, JournalFails
  <2>2. /\ child'.pc = "head" /\ child'.misjudged = {} /\ child'.contacted = FALSE
        /\ child'.head = None /\ child'.printed = child.printed /\ child'.confirms = child.confirms
    BY <1>2, <2>1 DEF Ends, Past, Fields
  <2> QED BY <1>1, <2>2, LaterOK
<1>6. CASE SayHead
  <2>1. /\ child'.pc = "line" /\ child'.misjudged = {}
        /\ child'.contacted = child.contacted /\ child'.measured = child.measured
        /\ child'.head = child.head /\ child'.printed \in {child.printed, child.head}
        /\ child'.confirms = child.confirms
    <3>1. CASE child' = [child EXCEPT !.pc = "line", !.printed = child.head]
      BY <1>2, <1>3, <3>1 DEF Fields
    <3>2. CASE child' = Broken("line")
      BY <1>2, <1>3, <3>2 DEF Broken, Fields
    <3> QED BY <1>6, <3>1, <3>2 DEF SayHead
  <2> QED BY <1>1, <1>3, <2>1, LaterOK
<1>7. CASE SayReport
  <2>1. /\ child'.pc = "exit" /\ child'.misjudged = {}
        /\ child'.contacted = child.contacted /\ child'.measured = child.measured
        /\ child'.head = child.head /\ child'.printed = child.printed
        /\ child'.confirms = child.confirms
    <3>1. CASE child' = [child EXCEPT !.pc = "exit", !.line = ReportOf(child)]
      BY <1>2, <1>3, <3>1 DEF Fields
    <3>2. CASE child' = Broken("exit")
      BY <1>2, <1>3, <3>2 DEF Broken, Fields
    <3> QED BY <1>7, <3>1, <3>2 DEF SayReport
  <2> QED BY <1>1, <1>3, <2>1, LaterOK
<1>8. ASSUME NEW ended, NEW code, ended = Exited(code),
             child' = ended \/ child' = [ended EXCEPT !.marker = Gate]
      PROVE  Evidence'
  <2>1. /\ ended = [field \in Fields |-> ended[field]]
        /\ ended.pc = "exited" /\ ended.misjudged = {} /\ ended.contacted = FALSE
        /\ ended.head = child.head /\ ended.printed = child.printed /\ ended.confirms = child.confirms
    BY <1>2, <1>8 DEF Exited, Past, Fields
  <2>2. /\ child'.pc = "exited" /\ child'.misjudged = {} /\ child'.contacted = FALSE
        /\ child'.head = child.head /\ child'.printed = child.printed
        /\ child'.confirms = child.confirms
    BY <1>8, <2>1 DEF Fields
  <2> QED BY <1>1, <2>2, LaterOK
<1>9. CASE Exit
  <2>1. \E code : child' = Exited(code) \/ child' = [Exited(code) EXCEPT !.marker = Gate]
    BY <1>9 DEF Exit
  <2> QED BY <1>8, <2>1
<1>10. CASE Kill
  BY <1>8, <1>10 DEF Kill
<1> QED BY <1>4, <1>6, <1>7, <1>9, <1>10

(* A child that starts has measured and printed nothing.                    *)
LEMMA LaunchStands ==
  ASSUME IInv, Evidence, Launch
  PROVE  Evidence'
<1>1. PICK verb \in Verbs, anchor \in {None, kept}, host \in Hosts \cup {None} :
        /\ child' = Launched(verb, anchor, host) /\ Room
        /\ host = None <=> verb = "replay"
  BY DEF Launch, Verbs
<1>2. ending' = NoEnding /\ UNCHANGED <<journal, reports, kept, written>>
  BY DEF Launch
<1>3. /\ child'.pc = "stages" /\ child'.misjudged = {} /\ child'.contacted = FALSE
      /\ child'.head = None /\ child'.printed = None /\ child'.confirms = None
      /\ child'.anchor = anchor /\ child'.verb = verb /\ child'.host = host /\ child'.at = 1
  BY <1>1 DEF Launched
<1>4. verb \in {"run", "resume"} => InStages(child')
  <2> SUFFICES ASSUME verb \in {"run", "resume"} PROVE InStages(child')
    OBVIOUS
  <2>1. Len(Stages(verb)) \in Nat /\ Len(Stages(verb)) > 12
    BY LayoutIs
  <2> QED BY <1>1, <1>3, <2>1 DEF InStages
<1>5. JournalOK' = JournalOK /\ KeptOK' = KeptOK /\ Room' = Room /\ Fresh' = Fresh
  BY <1>2 DEF JournalOK, KeptOK, Room, Fresh, Undamaged
<1>6. InStages(child)' = InStages(child')
  BY <1>5 DEF InStages
<1>7. Stands(child)'
  BY <1>1, <1>2, <1>3, <1>4, <1>6 DEF Stands, ConfirmsOK
<1> QED BY <1>1, <1>2, <1>5, <1>7 DEF Evidence, NoEnding

(* A move of the root takes back nothing that was measured.                 *)
LEMMA MoveStands ==
  ASSUME IInv, Evidence, MoveRoot
  PROVE  Evidence'
<1>1. PICK host \in Hosts : child' = [child EXCEPT !.host = host]
  BY DEF MoveRoot
<1>2. child.pc = "stages" /\ child # Absent /\ UNCHANGED <<journal, reports, kept, written, ending>>
  BY DEF MoveRoot, Absent
<1>3. child = [field \in Fields |-> child[field]]
  BY <1>2, ChildIs
<1>4. child'.host = host /\ \A field \in Fields \ {"host"} : child'[field] = child[field]
  BY <1>1, <1>3 DEF Fields
<1>5. /\ JournalOK' = JournalOK /\ KeptOK' = KeptOK /\ Room' = Room /\ Fresh' = Fresh
      /\ Finished' = Finished
  BY <1>2 DEF JournalOK, KeptOK, Room, Fresh, Undamaged, Finished
<1>6. Stands(child) /\ Room
  BY <1>2 DEF Evidence
<1>7. /\ child'.pc = child.pc /\ child'.misjudged = child.misjudged /\ child'.contacted = child.contacted
      /\ child'.measured = child.measured /\ child'.confirms = child.confirms /\ child'.head = child.head
      /\ child'.printed = child.printed /\ child'.anchor = child.anchor /\ child'.verb = child.verb
      /\ child'.at = child.at
  BY <1>4 DEF Fields
<1>8. child.verb \in {"run", "resume"} => InStages(child)'
  BY <1>2, <1>4, <1>5, <1>6, <1>7 DEF Stands, InStages
<1>9. Stands(child)'
  BY <1>2, <1>5, <1>6, <1>7, <1>8 DEF Stands, ConfirmsOK
<1> QED BY <1>2, <1>5, <1>6, <1>9 DEF Evidence, ConfirmsOK

(* The parent keeps the head of a run that ended, and the lines it is of.    *)
LEMMA CollectStands ==
  ASSUME IInv, Evidence, NEW speaks, NEW timed_out, Collect(speaks, timed_out)
  PROVE  Evidence'
<1>1. /\ child.pc = "exited" /\ child' = Absent /\ journal' = journal
      /\ ending'.confirms = child.confirms
      /\ IF child.printed = None THEN UNCHANGED <<kept, written>>
         ELSE kept' = child.printed /\ written' = journal.lines
  BY DEF Collect
<1>2. PICK report : reports' = Append(reports, report)
  BY DEF Collect
<1>3. child # Absent
  BY <1>1 DEF Absent
<1>4. Stands(child) /\ Room
  BY <1>3 DEF Evidence
<1>5. KeptOK'
  <2>1. CASE child.printed = None
    BY <1>1, <2>1 DEF Evidence, KeptOK
  <2>2. CASE child.printed # None
    <3>1. child.printed = HeadOf(journal.lines) /\ Finished
      BY <1>4, <2>2 DEF Stands
    <3>2. Genuine(journal.lines)
      BY <3>1 DEF Evidence, JournalOK, Finished
    <3> QED BY <1>1, <2>2, <3>1, <3>2 DEF KeptOK, Finished, Genuine
  <2> QED BY <2>1, <2>2
<1>6. Len(reports') <= MaxReports
  <2>1. Len(reports) \in Nat /\ Len(reports') = Len(reports) + 1
    BY <1>2, LenProperties DEF IInv, ReportsOK
  <2> QED BY <1>4, <2>1, GateChildAssumption DEF Room
<1>7. JournalOK' /\ ConfirmsOK(ending.confirms)'
  BY <1>1, <1>4 DEF Evidence, JournalOK, Undamaged, Stands, ConfirmsOK
<1> QED BY <1>1, <1>5, <1>6, <1>7 DEF Evidence

(* Other members of the plan leave what is known of the journal alone.       *)
LEMMA OthersStand ==
  ASSUME IInv, Evidence, OthersTurn, NEW report, reports' = Append(reports, report),
         ending'.of # "program", UNCHANGED <<journal, child, kept, written>>
  PROVE  Evidence'
<1>1. child' = Absent /\ Room
  BY DEF OthersTurn
<1>2. Len(reports') <= MaxReports
  <2>1. Len(reports) \in Nat /\ Len(reports') = Len(reports) + 1
    BY LenProperties DEF IInv, ReportsOK
  <2> QED BY <1>1, <2>1, GateChildAssumption DEF Room
<1>3. JournalOK' /\ KeptOK'
  BY DEF Evidence, JournalOK, Undamaged, KeptOK
<1> QED BY <1>1, <1>2, <1>3 DEF Evidence

(* A stage that lets the run through.                                        *)
LEMMA PassStands ==
  ASSUME IInv, Evidence, Pass
  PROVE  Evidence'
<1> DEFINE stage == StageOf(child)
           last  == Len(Stages(child.verb))
<1>1. /\ child.pc = "stages" /\ child # Absent /\ MayPass(stage)
      /\ UNCHANGED <<reports, kept, written, ending>>
  <2>1. child.pc = "stages" /\ UNCHANGED <<reports, kept, written, ending>>
    BY DEF Pass
  <2>2. MayPass(stage)
    BY DEF Pass
  <2>3. child # Absent
    BY <2>1 DEF Absent
  <2> QED BY <2>1, <2>2, <2>3
<1>2. child = [field \in Fields |-> child[field]]
  BY <1>1, ChildIs
<1>a. child.verb \in Verbs /\ child.at \in 1..last
  BY <1>1, ChildIs
<1>3. last \in Nat /\ last # 0 /\ stage = Stages(child.verb)[child.at]
  BY <1>a, StagesRefuse DEF StageOf
<1>4. PICK pc, measured, misjudged, contacted :
        /\ contacted \in BOOLEAN
        /\ child' = [child EXCEPT !.at = @ + 1, !.pc = pc, !.measured = measured,
                                  !.misjudged = misjudged, !.contacted = contacted]
        /\ pc = IF child.at = last THEN "work" ELSE "stages"
        /\ measured = IF stage.name \in LocalStages THEN child.measured \cup {PathOf(stage)}
                      ELSE child.measured
        /\ misjudged = IF stage.name \in LocalStages /\ IsRemote(child.host, PathOf(stage))
                       THEN child.misjudged \cup {PathOf(stage)} ELSE child.misjudged
        /\ contacted <=> child.contacted \/ stage.name = "model-server"
  BY <1>1 DEF Pass
<1>5. /\ child'.at = child.at + 1 /\ child'.pc = pc /\ child'.measured = measured
      /\ child'.misjudged = misjudged /\ child'.contacted = contacted
      /\ child'.verb = child.verb /\ child'.host = child.host /\ child'.anchor = child.anchor
      /\ child'.head = child.head /\ child'.printed = child.printed /\ child'.confirms = child.confirms
  BY <1>2, <1>4 DEF Fields
<1>6. journal' = CASE stage.name = "attempt-directory" -> NewAttempt
                   [] stage.name = "header" -> [journal EXCEPT !.lines = Started(journal.attempt)]
                   [] OTHER -> journal
  BY DEF Pass
<1> HIDE DEF stage, last
<1>7. Stands(child) /\ Room
  BY <1>1 DEF Evidence
<1>8. /\ child.misjudged = {} /\ (child.contacted => "root" \in child.measured)
      /\ child.head = None /\ child.printed = None /\ child.confirms = None
      /\ child.anchor \in {None, kept}
      /\ child.verb \in {"run", "resume"} => InStages(child)
  BY <1>1, <1>7 DEF Stands
<1>9. CASE child.verb = "replay"
  <2>1. stage.name \notin Special \cup LocalStages
    BY <1>a, <1>3, <1>9, ReplayLayoutIs DEF last
  <2>2. journal' = journal /\ misjudged = {} /\ measured = child.measured
        /\ (contacted => child.contacted)
    <3>1. stage.name \notin LocalStages /\ stage.name # "attempt-directory" /\ stage.name # "header"
          /\ stage.name # "model-server"
      BY <2>1 DEF Special
    <3>2. journal' = journal
      BY <1>6, <3>1
    <3>3. misjudged = {} /\ measured = child.measured
      BY <1>4, <1>8, <3>1
    <3>4. contacted => child.contacted
      BY <1>4, <3>1
    <3> QED BY <3>2, <3>3, <3>4
  <2>3. JournalOK' /\ KeptOK' /\ Room'
    <3>1. JournalOK' = JournalOK /\ KeptOK' = KeptOK /\ Room' = Room
      BY <1>1, <2>2 DEF JournalOK, Undamaged, KeptOK, Room
    <3> QED BY <1>7, <3>1 DEF Evidence
  <2>4. Stands(child)'
    <3>1. child'.pc \in {"stages", "work"} /\ child'.verb \notin {"run", "resume"}
      BY <1>4, <1>5, <1>9
    <3>2. child'.contacted => "root" \in child'.measured
      BY <1>5, <1>8, <2>2
    <3> QED BY <1>1, <1>5, <1>8, <2>2, <3>1, <3>2 DEF Stands, ConfirmsOK
  <2> QED BY <1>1, <2>3, <2>4 DEF Evidence, ConfirmsOK
<1>10. CASE child.verb \in {"run", "resume"}
  <2>1. /\ last > 12
        /\ child.at = 8 => stage.name = "root-is-local"
        /\ child.at = last - 1 => stage.name = "attempt-is-local"
        /\ stage.name = "model-server" => child.at = 9
        /\ stage.name = "attempt-directory" <=> child.at = last - 2
        /\ stage.name = "header" <=> child.at = last
    <3>1. PICK verb \in {"run", "resume"} : verb = child.verb
      BY <1>10
    <3>2. last = Len(Stages(verb)) /\ child.at \in 1..last /\ stage = Stages(verb)[child.at]
      BY <1>a, <1>3, <3>1 DEF last
    <3>3. /\ last \in Nat /\ last > 12
          /\ Stages(verb)[8].name = "root-is-local"
          /\ Stages(verb)[last - 1].name = "attempt-is-local"
          /\ \A i \in 1..last :
               /\ Stages(verb)[i].name = "model-server" => i = 9
               /\ Stages(verb)[i].name = "attempt-directory" => i = last - 2
               /\ Stages(verb)[i].name = "header" => i = last
               /\ i = last - 2 => Stages(verb)[i].name = "attempt-directory"
               /\ i = last => Stages(verb)[i].name = "header"
      BY ONLY <3>1, <3>2, LayoutIs
    <3> QED BY <3>2, <3>3
  <2>2. /\ child.host \in Hosts /\ (child.at > 8 => "root" \in child.measured)
        /\ child.contacted => child.at > 9
        /\ child.at > last - 2 => Fresh
        /\ child.at > last - 1 => "attempt" \in child.measured
    BY <1>8, <1>10 DEF InStages, last
  <2>3. misjudged = {} /\ child.measured \subseteq measured
    <3>1. stage.name \in LocalStages => ~IsRemote(child.host, PathOf(stage))
      BY <1>1, <2>2, ProbeIsSound, GateChildAssumption DEF MayPass
    <3> QED BY <1>4, <1>8, <3>1
  <2>4. child.at = 8 => "root" \in measured
    BY <1>4, <2>1 DEF LocalStages, PathOf
  <2>5. child.at = last - 1 => "attempt" \in measured
    BY <1>4, <2>1 DEF LocalStages, PathOf
  <2>6. JournalOK' /\ (child.at >= last - 2 /\ child.at # last => Fresh') /\ (child.at = last => Open')
    <3>1. CASE child.at = last - 2
      <4>1. journal' = NewAttempt /\ child.at # last
        BY <1>3, <1>6, <2>1, <3>1
      <4>2. /\ journal'.attempt = journal.attempt + 1 /\ journal'.lines = <<>> /\ journal'.blobs = <<>>
            /\ journal'.damage \in {None, "before"}
            /\ journal' = [field \in JournalFields |-> journal'[field]]
        BY <4>1 DEF NewAttempt, NoJournal, JournalFields
      <4>3. Genuine(<<>>)
        BY StartedIs
      <4>4. journal'.attempt \in Nat /\ journal'.damage \notin Noticed
        BY <4>2, GateChildAssumption DEF Evidence, JournalOK, Noticed, DamageKinds
      <4>5. Stored(<<>>, <<>>)
        BY DEF Stored
      <4>6. JournalOK'
        BY <4>2, <4>3, <4>4, <4>5 DEF JournalOK, Genuine, Undamaged, DamageKinds
      <4> QED BY <4>1, <4>2, <4>6 DEF Fresh, Undamaged
    <3>2. CASE child.at = last
      <4>1. journal' = [journal EXCEPT !.lines = Started(journal.attempt)] /\ Fresh
        <5>1. stage.name = "header"
          BY <2>1, <3>2
        <5>2. last > last - 2
          BY <1>3
        <5> QED BY <1>6, <2>2, <3>2, <5>1, <5>2
      <4>2. /\ journal'.attempt = journal.attempt /\ journal'.lines = Started(journal.attempt)
            /\ journal'.blobs = <<>> /\ journal'.damage = journal.damage
            /\ journal' = [field \in JournalFields |-> journal'[field]]
        BY <4>1 DEF Evidence, JournalOK, JournalFields, Fresh
      <4>3. PICK lines : lines = Started(journal.attempt)
        OBVIOUS
      <4>4. Genuine(lines) /\ lines # <<>> /\ Last(lines).kind = "RunStarted"
        BY <4>3, StartedIs
      <4>5. journal.damage \notin Noticed /\ journal.damage \in {None, "before"}
        BY <4>1, GateChildAssumption DEF Fresh, Undamaged, Noticed, DamageKinds
      <4>6. Stored(lines, <<>>)
        BY DEF Stored
      <4>7. JournalOK'
        BY <4>2, <4>3, <4>4, <4>5, <4>6 DEF Evidence, JournalOK, Genuine, Undamaged
      <4>8. Open'
        BY <4>2, <4>3, <4>4, <4>5 DEF Open, Undamaged
      <4> QED BY <3>2, <4>7, <4>8
    <3>3. CASE child.at # last - 2 /\ child.at # last
      <4>1. journal' = journal
        BY <1>6, <2>1, <3>3
      <4>2. child.at >= last - 2 => Fresh
        BY <1>a, <1>3, <2>2, <3>3
      <4> QED BY <3>3, <4>1, <4>2 DEF Evidence, JournalOK, Undamaged, Fresh
    <3> QED BY <3>1, <3>2, <3>3
  <2>7. KeptOK' /\ Room'
    BY <1>1, <1>7 DEF Evidence, KeptOK, Room
  <2>8. child.at > 8 => "root" \in measured
    BY <2>2, <2>3
  <2>9. child.at > last - 1 => "attempt" \in measured
    BY <2>2, <2>3
  <2>10. contacted => child.at + 1 > 9
    <3>1. contacted => child.contacted \/ stage.name = "model-server"
      BY <1>4
    <3>2. child.contacted => child.at > 9
      BY <2>2
    <3>3. child.at \in Nat /\ (stage.name = "model-server" => child.at = 9)
      BY <1>a, <1>3, <2>1
    <3> QED BY <3>1, <3>2, <3>3
  <2>11. contacted => "root" \in measured
    <3>1. child.at \in Nat
      BY <1>a, <1>3
    <3> QED BY <2>8, <2>10, <3>1
  <2>12. CASE child.at = last
    <3>1. pc = "work" /\ {"root", "attempt"} \subseteq measured /\ Open'
      <4>1. pc = "work" /\ Open'
        BY <1>4, <2>6, <2>12
      <4>2. child.at > 8 /\ child.at > last - 1
        BY <1>a, <1>3, <2>1, <2>12
      <4> QED BY <2>8, <2>9, <4>1, <4>2
    <3>2. Stands(child)'
      BY <1>1, <1>5, <1>8, <2>3, <2>11, <3>1 DEF Stands, ConfirmsOK
    <3> QED BY <1>1, <2>6, <2>7, <3>2 DEF Evidence, ConfirmsOK
  <2>13. CASE child.at # last
    <3>1. pc = "stages"
      BY <1>4, <2>13
    <3>2. child.at + 1 > 8 => "root" \in measured
      BY <1>a, <2>4, <2>8
    <3>3. child.at + 1 > last - 1 => "attempt" \in measured
      BY <1>a, <1>3, <2>5, <2>9
    <3>4. child.at + 1 > last - 2 => Fresh'
      BY <1>a, <1>3, <2>6, <2>13
    <3>5. contacted => child.at + 1 > 9
      BY <2>10
    <3>6. InStages(child)'
      BY <1>5, <2>2, <3>2, <3>3, <3>4, <3>5 DEF InStages, last
    <3>7. Stands(child)'
      BY <1>1, <1>5, <1>8, <2>3, <2>11, <3>1, <3>6 DEF Stands, ConfirmsOK
    <3> QED BY <1>1, <2>6, <2>7, <3>7 DEF Evidence, ConfirmsOK
  <2> QED BY <2>12, <2>13
<1> QED BY <1>a, <1>9, <1>10 DEF Verbs

(* A run writes on, one step at a time.                                      *)
LEMMA RunStepStands ==
  ASSUME IInv, Evidence, RunStep
  PROVE  Evidence'
<1>1. PICK reply \in Replies \cup {Submit} :
        journal' = [journal EXCEPT
           !.lines = Stepped(@, journal.attempt, reply),
           !.blobs = IF reply = Submit THEN @ ELSE PutBlob(@, reply)]
  BY DEF RunStep
<1>2. Live /\ UNCHANGED <<child, reports, kept, written, ending>>
  BY DEF RunStep
<1>3. child # Absent /\ Stands(child) /\ Room
  BY <1>2 DEF Live, Absent, Evidence
<1>4. Open /\ child.head = None /\ child.printed = None
  BY <1>2, <1>3 DEF Stands, Live
<1> DEFINE lines == journal.lines
           more  == Stepped(lines, journal.attempt, reply)
<1>5. /\ journal'.lines = more /\ journal'.attempt = journal.attempt
      /\ journal'.damage = journal.damage
      /\ journal'.blobs = IF reply = Submit THEN journal.blobs ELSE PutBlob(journal.blobs, reply)
      /\ journal' = [field \in JournalFields |-> journal'[field]]
  BY <1>1 DEF Evidence, JournalOK, JournalFields
<1>6. Genuine(lines) /\ Stored(lines, journal.blobs) /\ Len(lines) \in Nat /\ lines # <<>>
  BY <1>4, LinesAre DEF Evidence, JournalOK, Open, Genuine
<1>7. \A i \in 1..Len(lines) : lines[i].kind # "RunStopped"
  BY <1>4, <1>6 DEF Genuine, Open, Last
<1> HIDE DEF lines
<1>8. /\ Genuine(more) /\ Len(more) = Len(lines) + 2 /\ more # <<>>
      /\ \A i \in 1..Len(more) : more[i].kind # "RunStopped"
      /\ \A i \in 1..Len(lines) : more[i] = lines[i]
      /\ reply # Submit => more[Len(lines) + 1].payload = InBlob(reply)
  BY <1>6, <1>7, SteppedIs
<1> HIDE DEF more
<1>9. Stored(more, journal'.blobs)
  <2>1. ASSUME NEW name \in DOMAIN journal'.blobs
        PROVE  \E i \in 1..Len(more) : more[i].payload = InBlob(name)
    <3>1. CASE name \in DOMAIN journal.blobs
      <4>1. PICK i \in 1..Len(lines) : lines[i].payload = InBlob(name)
        BY <1>6, <3>1 DEF Stored
      <4>2. i \in 1..Len(more)
        BY <1>6, <1>8
      <4> QED BY <1>8, <4>1, <4>2
    <3>2. CASE name \notin DOMAIN journal.blobs
      <4>1. reply # Submit /\ name \in DOMAIN PutBlob(journal.blobs, reply)
        BY <1>5, <3>2
      <4>0. DOMAIN PutBlob(journal.blobs, reply) = {reply} \cup DOMAIN journal.blobs
        BY DEF PutBlob
      <4>3. name = reply
        BY <3>2, <4>0, <4>1
      <4>2. Len(lines) + 1 \in 1..Len(more)
        BY <1>6, <1>8
      <4> QED BY <1>8, <4>1, <4>2, <4>3
    <3> QED BY <3>1, <3>2
  <2> QED BY <2>1 DEF Stored
<1>10. Undamaged /\ Undamaged' /\ journal.damage \notin Noticed
  BY <1>4, <1>5, GateChildAssumption DEF Open, Undamaged, Noticed, DamageKinds
<1>11. JournalOK'
  <2>1. journal'.attempt \in Nat /\ journal'.damage \in {None} \cup DamageKinds
    BY <1>5 DEF Evidence, JournalOK
  <2> QED BY <1>5, <1>8, <1>9, <1>10, <2>1 DEF JournalOK, Genuine
<1>12. Len(more) \in 1..Len(more)
  BY <1>6, <1>8
<1>13. Open'
  BY <1>5, <1>8, <1>10, <1>12 DEF Open, Last
<1>14. KeptOK' /\ Room'
  BY <1>2, <1>3 DEF Evidence, KeptOK, Room
<1>15. Stands(child)'
  BY <1>2, <1>3, <1>4, <1>13 DEF Stands, Live, ConfirmsOK
<1> QED BY <1>2, <1>11, <1>14, <1>15 DEF Evidence, ConfirmsOK

(* A run that ends leaves a chain that ends with its RunStopped, and the     *)
(* head of that chain.                                                      *)
LEMMA RunEndsStands ==
  ASSUME IInv, Evidence, NEW outcome, RunEnds(outcome)
  PROVE  Evidence'
<1>1. PICK lines, cause :
        /\ lines = Stopped(journal.lines, journal.attempt, cause, outcome)
        /\ journal' = [journal EXCEPT !.lines = lines]
        /\ child' = Ends(outcome, HeadOf(lines), None)
  BY DEF RunEnds
<1>2. Live /\ UNCHANGED <<reports, kept, written, ending>>
  BY DEF RunEnds
<1>3. child # Absent /\ Stands(child) /\ Room
  BY <1>2 DEF Live, Absent, Evidence
<1>4. Open /\ child.head = None /\ child.printed = None /\ child.confirms = None
  BY <1>2, <1>3 DEF Stands, Live
<1>5. /\ journal'.lines = lines /\ journal'.attempt = journal.attempt
      /\ journal'.damage = journal.damage /\ journal'.blobs = journal.blobs
      /\ journal' = [field \in JournalFields |-> journal'[field]]
  BY <1>1 DEF Evidence, JournalOK, JournalFields
<1>6. Genuine(journal.lines) /\ Stored(journal.lines, journal.blobs) /\ Len(journal.lines) \in Nat
  BY <1>4, LinesAre DEF Evidence, JournalOK, Open, Genuine
<1>7. \A i \in 1..Len(journal.lines) : journal.lines[i].kind # "RunStopped"
  BY <1>4, <1>6 DEF Genuine, Open, Last
<1>8. /\ Genuine(lines) /\ Len(lines) = Len(journal.lines) + 1 /\ lines # <<>>
      /\ \A i \in 1..Len(journal.lines) : lines[i] = journal.lines[i]
      /\ Last(lines).kind = "RunStopped"
  <2>1. PICK body, payload :
          lines = Write(journal.lines, journal.attempt, "RunStopped", body, payload)
    BY <1>1 DEF Stopped
  <2>2. PICK before : before = journal.lines
    OBVIOUS
  <2>3. /\ Genuine(before) /\ \A i \in 1..Len(before) : before[i].kind # "RunStopped"
        /\ lines = Write(before, journal.attempt, "RunStopped", body, payload)
    BY <1>6, <1>7, <2>1, <2>2
  <2>4. /\ Genuine(lines) /\ Len(lines) = Len(before) + 1 /\ lines # <<>>
        /\ \A i \in 1..Len(before) : lines[i] = before[i]
        /\ Last(lines).kind = "RunStopped"
    BY ONLY <2>3, WriteIs
  <2> QED BY <2>2, <2>4
<1>9. Stored(lines, journal.blobs)
  <2>1. ASSUME NEW name \in DOMAIN journal.blobs
        PROVE  \E i \in 1..Len(lines) : lines[i].payload = InBlob(name)
    <3>1. PICK i \in 1..Len(journal.lines) : journal.lines[i].payload = InBlob(name)
      BY <1>6 DEF Stored
    <3>2. i \in 1..Len(lines)
      BY <1>6, <1>8
    <3> QED BY <1>8, <3>1, <3>2
  <2> QED BY <2>1 DEF Stored
<1>10. Undamaged /\ Undamaged' /\ journal.damage \notin Noticed
  BY <1>4, <1>5, GateChildAssumption DEF Open, Undamaged, Noticed, DamageKinds
<1>11. JournalOK'
  <2>1. journal'.attempt \in Nat /\ journal'.damage \in {None} \cup DamageKinds
    BY <1>5 DEF Evidence, JournalOK
  <2> QED BY <1>5, <1>8, <1>9, <1>10, <2>1 DEF JournalOK, Genuine
<1>12. Finished'
  BY <1>5, <1>8, <1>10 DEF Finished
<1>13. /\ child'.pc = "head" /\ child'.misjudged = {} /\ child'.contacted = FALSE
       /\ child'.head = HeadOf(lines) /\ child'.printed = child.printed
       /\ child'.confirms = child.confirms
  <2>1. child = [field \in Fields |-> child[field]]
    BY <1>3, ChildIs
  <2> QED BY <1>1, <2>1 DEF Ends, Past, Fields
<1>14. KeptOK' /\ Room'
  BY <1>2, <1>3 DEF Evidence, KeptOK, Room
<1>15. Stands(child)'
  BY <1>4, <1>5, <1>12, <1>13 DEF Stands, ConfirmsOK
<1> QED BY <1>2, <1>11, <1>14, <1>15 DEF Evidence, ConfirmsOK

(* An audit confirms no journal with a damage that is seen, and, with an     *)
(* anchor, only the lines the anchor was taken of.                          *)
LEMMA AuditStands ==
  ASSUME IInv, Evidence, Audit
  PROVE  Evidence'
<1> DEFINE outcome == AuditOutcome(child.anchor)
           confirms == IF outcome # NothingChecked THEN None
                       ELSE [damage |-> journal.damage, anchored |-> child.anchor # None,
                             same |-> journal.lines = written]
<1>1. child.pc = "work" /\ UNCHANGED <<journal, reports, kept, written, ending>>
  BY DEF Audit
<1>2. child # Absent /\ Stands(child) /\ Room
  BY <1>1 DEF Absent, Evidence
<1>3. child.anchor \in {None, kept} /\ child.head = None /\ child.printed = None
  BY <1>1, <1>2 DEF Stands
<1>4. child' = [Ends(outcome, None, None) EXCEPT !.anchor = None, !.confirms = confirms]
  BY DEF Audit
<1>5. ConfirmsOK(confirms)
  <2> SUFFICES ASSUME outcome = NothingChecked
               PROVE  /\ journal.damage \in {None, "before", "replaced"}
                      /\ child.anchor # None => journal.lines = written
    BY DEF ConfirmsOK
  <2>1. UnreadableEvidence # NothingChecked /\ Indeterminate("CouldNotRun") # NothingChecked
    BY DEF UnreadableEvidence, NothingChecked, Indeterminate
  <2>2. /\ Opens(journal, journal.attempt, Run)
        /\ child.anchor # None => CheckAnchor(journal, child.anchor)
        /\ RecordedOutcome(journal.lines) = NothingChecked
    BY <2>1 DEF AuditOutcome
  <2>3. Committed(journal.lines)
    BY <2>1, <2>2 DEF RecordedOutcome
  <2>4. journal.damage \in {None} \cup DamageKinds /\ journal.damage \notin Noticed
    BY <2>2, <2>3 DEF Evidence, JournalOK
  <2>5. journal.damage \in {None, "before", "replaced"}
    BY <2>4 DEF DamageKinds, Noticed
  <2>6. child.anchor # None => journal.lines = written
    <3> SUFFICES ASSUME child.anchor # None PROVE journal.lines = written
      OBVIOUS
    <3>1. kept # None /\ HeadOf(journal.lines) = kept
      BY <1>3, <2>2 DEF CheckAnchor
    <3>2. kept = HeadOf(written) /\ written # <<>> /\ AreLines(written) /\ Linked(written)
      BY <3>1 DEF Evidence, KeptOK
    <3>3. AreLines(journal.lines)
      BY DEF Evidence, JournalOK
    <3>4. journal.lines # <<>> /\ Linked(journal.lines)
      BY <2>2, <3>3, VerifiedIs DEF Opens
    <3> QED BY <3>1, <3>2, <3>3, <3>4, SameHead
  <2> QED BY <2>5, <2>6
<1> HIDE DEF outcome, confirms
<1>6. /\ child'.pc = "head" /\ child'.misjudged = {} /\ child'.contacted = FALSE
      /\ child'.head = None /\ child'.printed = child.printed /\ child'.confirms = confirms
  <2>1. child = [field \in Fields |-> child[field]]
    BY <1>2, ChildIs
  <2> QED BY <1>4, <2>1 DEF Ends, Past, Fields
<1>7. JournalOK' = JournalOK /\ KeptOK' = KeptOK /\ Room' = Room
  BY <1>1 DEF JournalOK, Undamaged, KeptOK, Room
<1>8. ConfirmsOK(child.confirms)'
  BY <1>5, <1>6 DEF ConfirmsOK
<1>9. Stands(child)'
  BY <1>3, <1>6, <1>8 DEF Stands
<1> QED BY <1>1, <1>2, <1>7, <1>9 DEF Evidence, ConfirmsOK

(* Records missing at its end leave a journal without its RunStopped.        *)
LEMMA CutIsSeen ==
  ASSUME NEW lines, Genuine(lines), NEW k \in 0..Len(lines) - 1,
         NEW some, some = SubSeq(lines, 1, k)
  PROVE  AreLines(some) /\ (some # <<>> => Last(some).kind # "RunStopped")
<1>1. Len(lines) \in Nat /\ AreLines(lines)
  BY LinesAre DEF Genuine
<1>2. PICK S : lines \in Seq(S)
  BY <1>1 DEF AreLines
<1>3. /\ some \in Seq(S) /\ Len(some) = k
      /\ \A i \in 1..k : some[i] = lines[i]
  BY <1>1, <1>2, SubSeqProperties
<1>4. AreLines(some)
  <2>1. \A i \in 1..k : i \in 1..Len(lines)
    BY <1>1
  <2> QED BY <1>1, <1>3, <2>1 DEF AreLines
<1>5. ASSUME some # <<>> PROVE Last(some).kind # "RunStopped"
  <2>1. k # 0
    BY <1>3, <1>5, EmptySeq
  <2>2. k \in 1..k /\ k \in 1..Len(lines) /\ k # Len(lines)
    BY <1>1, <2>1
  <2>3. Last(some) = lines[k]
    BY <1>3, <2>2 DEF Last
  <2> QED BY <2>2, <2>3 DEF Genuine
<1> QED BY <1>4, <1>5

(* A record that is gone is missed by the number of the next.                *)
LEMMA LostIsSeen ==
  ASSUME NEW lines, Genuine(lines), NEW k \in 1..Len(lines) - 1,
         NEW some, some = RemoveAt(lines, k)
  PROVE  AreLines(some) /\ k \in 1..Len(some) /\ some[k].seq = k
<1>1. Len(lines) \in Nat /\ AreLines(lines)
  BY LinesAre DEF Genuine
<1>2. PICK S : lines \in Seq(S)
  BY <1>1 DEF AreLines
<1> DEFINE n == Len(lines)
           front == SubSeq(lines, 1, k - 1)
           rest == SubSeq(lines, k + 1, n)
<1>3. /\ front \in Seq(S) /\ Len(front) = k - 1
      /\ \A i \in 1..k - 1 : front[i] = lines[i]
  BY <1>1, <1>2, SubSeqProperties
<1>4. /\ rest \in Seq(S) /\ Len(rest) = n - k
      /\ \A i \in 1..n - k : rest[i] = lines[k + i]
  <2>1. k + 1 \in 1..n + 1 /\ n \in k..n
    BY <1>1
  <2>2. /\ rest \in Seq(S) /\ Len(rest) = n - k
        /\ \A i \in 1..n - (k + 1) + 1 : rest[i] = lines[(k + 1) + i - 1]
    BY <1>1, <1>2, <2>1, SubSeqProperties
  <2>3. ASSUME NEW i \in 1..n - k PROVE i \in 1..n - (k + 1) + 1 /\ (k + 1) + i - 1 = k + i
    BY <1>1
  <2> QED BY <2>2, <2>3
<1>5. some = front \o rest
  BY DEF RemoveAt
<1> HIDE DEF front, rest
<1>6. /\ some \in Seq(S) /\ Len(some) = Len(front) + Len(rest)
      /\ \A i \in 1..Len(front) + Len(rest) :
           some[i] = IF i <= Len(front) THEN front[i] ELSE rest[i - Len(front)]
  <2>1. PICK a, b : a = front /\ b = rest /\ a \in Seq(S) /\ b \in Seq(S) /\ some = a \o b
    BY <1>3, <1>4, <1>5
  <2>2. /\ a \o b \in Seq(S) /\ Len(a \o b) = Len(a) + Len(b)
        /\ \A i \in 1..Len(a) + Len(b) :
             (a \o b)[i] = IF i <= Len(a) THEN a[i] ELSE b[i - Len(a)]
    BY ONLY <2>1, ConcatProperties
  <2> QED BY <2>1, <2>2
<1>7. Len(some) = n - 1 /\ n \in Nat
  BY <1>1, <1>3, <1>4, <1>6
<1> HIDE DEF n
<1>8. \A i \in 1..n - 1 : some[i] = IF i < k THEN lines[i] ELSE lines[i + 1]
  <2>1. ASSUME NEW i \in 1..n - 1, i < k PROVE some[i] = lines[i]
    <3>1. i \in 1..k - 1 /\ i \in 1..Len(front) + Len(rest) /\ i <= Len(front)
      BY <1>3, <1>4, <1>7, <2>1 DEF n
    <3> QED BY <1>3, <1>6, <3>1
  <2>2. ASSUME NEW i \in 1..n - 1, ~(i < k) PROVE some[i] = lines[i + 1]
    <3>1. /\ i - (k - 1) \in 1..n - k /\ i \in 1..Len(front) + Len(rest) /\ ~(i <= Len(front))
          /\ k + (i - (k - 1)) = i + 1
      BY <1>3, <1>4, <1>7, <2>2 DEF n
    <3>2. some[i] = rest[i - (k - 1)]
      BY <1>3, <1>6, <3>1
    <3> QED BY <1>4, <3>1, <3>2
  <2> QED BY <2>1, <2>2
<1>9. AreLines(some)
  <2>1. \A i \in 1..n - 1 : i \in 1..n /\ i + 1 \in 1..n
    BY <1>7
  <2>2. \A i \in 1..n : IsLine(lines[i])
    BY <1>1 DEF AreLines, n
  <2> QED BY <1>6, <1>7, <1>8, <2>1, <2>2 DEF AreLines
<1>10. k \in 1..n - 1 /\ k + 1 \in 1..n /\ ~(k < k)
  BY <1>7 DEF n
<1>11. some[k] = lines[k + 1] /\ lines[k + 1].seq = (k + 1) - 1
  BY <1>8, <1>10 DEF Genuine, n
<1> QED BY <1>7, <1>9, <1>10, <1>11

(* A field of one record replaced leaves lines, the others as they were.     *)
LEMMA BodyIsReplaced ==
  ASSUME NEW lines, AreLines(lines), NEW k \in 1..Len(lines), NEW body,
         NEW some, some = [lines EXCEPT ![k].body = body]
  PROVE  /\ AreLines(some) /\ Len(some) = Len(lines) /\ some[k].body = body
         /\ some[k].hash = lines[k].hash
         /\ body = lines[k].body => some = lines
<1>1. Len(lines) \in Nat /\ lines = [i \in 1..Len(lines) |-> lines[i]]
  BY LinesAre
<1>2. PICK line : line = [lines[k] EXCEPT !.body = body]
  OBVIOUS
<1>3. some = [i \in 1..Len(lines) |-> IF i = k THEN line ELSE lines[i]]
  BY <1>1, <1>2
<1>4. \A i \in 1..Len(lines) : IsLine(lines[i])
  BY DEF AreLines
<1>5. PICK old : old = lines[k]
  OBVIOUS
<1>6. old = [field \in LineFields |-> old[field]] /\ old.form \in {Canonical, "NotARecord"}
  BY <1>4, <1>5 DEF IsLine
<1>7. line = [old EXCEPT !.body = body]
  BY <1>2, <1>5
<1>8. /\ line = [field \in LineFields |-> line[field]] /\ line.form = old.form
      /\ line.body = body /\ line.hash = old.hash
  BY <1>6, <1>7 DEF LineFields
<1>9. body = old.body => line = old
  BY <1>6, <1>7 DEF LineFields
<1>10. IsLine(line)
  BY <1>6, <1>8 DEF IsLine
<1>11. /\ some \in Seq({line} \cup {lines[i] : i \in 1..Len(lines)}) /\ Len(some) = Len(lines)
       /\ some[k] = line /\ \A i \in 1..Len(lines) : some[i] = IF i = k THEN line ELSE lines[i]
  BY <1>1, <1>3
<1>12. AreLines(some)
  BY <1>4, <1>10, <1>11 DEF AreLines
<1>13. line = old => some = lines
  BY <1>1, <1>3, <1>5
<1> QED BY <1>5, <1>8, <1>9, <1>11, <1>12, <1>13

(* A record garbled leaves lines too, and is one that is no record.          *)
LEMMA FormIsReplaced ==
  ASSUME NEW lines, AreLines(lines), NEW k \in 1..Len(lines),
         NEW some, some = [lines EXCEPT ![k].form = "NotARecord"]
  PROVE  AreLines(some) /\ Len(some) = Len(lines) /\ some[k].form = "NotARecord"
<1>1. Len(lines) \in Nat /\ lines = [i \in 1..Len(lines) |-> lines[i]]
  BY LinesAre
<1>2. PICK line : line = [lines[k] EXCEPT !.form = "NotARecord"]
  OBVIOUS
<1>3. some = [i \in 1..Len(lines) |-> IF i = k THEN line ELSE lines[i]]
  BY <1>1, <1>2
<1>4. \A i \in 1..Len(lines) : IsLine(lines[i])
  BY DEF AreLines
<1>5. PICK old : old = lines[k]
  OBVIOUS
<1>6. old = [field \in LineFields |-> old[field]]
  BY <1>4, <1>5 DEF IsLine
<1>7. line = [old EXCEPT !.form = "NotARecord"]
  BY <1>2, <1>5
<1>8. line = [field \in LineFields |-> line[field]] /\ line.form = "NotARecord"
  BY <1>6, <1>7 DEF LineFields
<1>9. IsLine(line)
  BY <1>8 DEF IsLine
<1>10. /\ some \in Seq({line} \cup {lines[i] : i \in 1..Len(lines)}) /\ Len(some) = Len(lines)
       /\ some[k] = line /\ \A i \in 1..Len(lines) : some[i] = IF i = k THEN line ELSE lines[i]
  BY <1>1, <1>3
<1>11. AreLines(some)
  BY <1>4, <1>9, <1>10 DEF AreLines
<1> QED BY <1>8, <1>10, <1>11

-----------------------------------------------------------------------------
(* What may become of a journal leaves lines; every damage but a whole       *)
(* journal in its place leaves one that does not open, or is not complete.   *)
LEMMA DamagesAre ==
  ASSUME JournalOK, Undamaged, journal.lines # <<>>,
         NEW j \in Damages, j.lines # journal.lines \/ j.blobs # journal.blobs
  PROVE  /\ j = [field \in JournalFields |-> j[field]]
         /\ j.attempt = journal.attempt /\ AreLines(j.lines)
         /\ j.damage \in Noticed \cup {"replaced"}
         /\ j.damage \in Noticed => ~(Opens(j, j.attempt, Run) /\ Committed(j.lines))
<1> DEFINE lines == journal.lines
           Shape == j = [field \in JournalFields |-> j[field]]
           Goal == /\ Shape /\ j.attempt = journal.attempt /\ AreLines(j.lines)
                   /\ j.damage \in Noticed \cup {"replaced"}
                   /\ j.damage \in Noticed => ~(Opens(j, j.attempt, Run) /\ Committed(j.lines))
<1>1. /\ Genuine(lines) /\ Stored(lines, journal.blobs) /\ AreLines(lines)
      /\ Len(lines) \in Nat /\ Len(lines) # 0
  BY LinesAre DEF JournalOK, Genuine
<1>2. PICK old : old = journal /\ old = [field \in JournalFields |-> old[field]]
  BY DEF JournalOK
<1>3. ASSUME NEW k \in 1..Len(lines) - 1,
             j = [journal EXCEPT !.damage = "cut", !.lines = SubSeq(lines, 1, k)]
      PROVE  Goal
  <2>1. PICK some : some = SubSeq(lines, 1, k)
    OBVIOUS
  <2>2. j = [old EXCEPT !.damage = "cut", !.lines = some]
    BY <1>2, <1>3, <2>1
  <2>3. Shape /\ j.attempt = journal.attempt /\ j.lines = some /\ j.damage = "cut"
    BY <1>2, <2>2 DEF JournalFields
  <2>4. k \in 0..Len(lines) - 1
    BY <1>1
  <2>5. AreLines(some) /\ (some # <<>> => Last(some).kind # "RunStopped")
    BY <1>1, <2>1, <2>4, CutIsSeen
  <2>6. Opens(j, j.attempt, Run) => j.lines # <<>>
    BY DEF Opens, Verifies
  <2> QED BY <2>3, <2>5, <2>6 DEF Noticed, Committed
<1>4. ASSUME j = [journal EXCEPT !.damage = "torn", !.torn = TRUE, !.lines = Front(lines)]
      PROVE  Goal
  <2>1. PICK some : some = SubSeq(lines, 1, Len(lines) - 1)
    OBVIOUS
  <2>2. j = [old EXCEPT !.damage = "torn", !.torn = TRUE, !.lines = some]
    BY <1>2, <1>4, <2>1 DEF Front
  <2>3. Shape /\ j.attempt = journal.attempt /\ j.lines = some /\ j.damage = "torn"
    BY <1>2, <2>2 DEF JournalFields
  <2>4. Len(lines) - 1 \in 0..Len(lines) - 1
    BY <1>1
  <2>5. AreLines(some) /\ (some # <<>> => Last(some).kind # "RunStopped")
    BY <1>1, <2>1, <2>4, CutIsSeen
  <2>6. Opens(j, j.attempt, Run) => j.lines # <<>>
    BY DEF Opens, Verifies
  <2> QED BY <2>3, <2>5, <2>6 DEF Noticed, Committed
<1>5. ASSUME NEW k \in 1..Len(lines) - 1,
             j = [journal EXCEPT !.damage = "lost", !.lines = RemoveAt(lines, k)]
      PROVE  Goal
  <2>1. PICK some : some = RemoveAt(lines, k)
    OBVIOUS
  <2>2. j = [old EXCEPT !.damage = "lost", !.lines = some]
    BY <1>2, <1>5, <2>1
  <2>3. Shape /\ j.attempt = journal.attempt /\ j.lines = some /\ j.damage = "lost"
    BY <1>2, <2>2 DEF JournalFields
  <2>4. AreLines(some) /\ k \in 1..Len(some) /\ some[k].seq = k
    BY <1>1, <2>1, LostIsSeen
  <2>5. ~Opens(j, j.attempt, Run)
    <3> SUFFICES ASSUME Verifies(j) PROVE FALSE
      BY DEF Opens
    <3>1. j.lines[k].seq = k - 1
      BY <2>3, <2>4, VerifiedIs
    <3> QED BY <1>1, <2>3, <2>4, <3>1
  <2> QED BY <2>3, <2>4, <2>5 DEF Noticed
<1>6. ASSUME NEW k \in DOMAIN lines,
             j = [journal EXCEPT !.damage = "altered", !.lines[k].body = Altered(lines[k])]
      PROVE  Goal
  <2>1. PICK body, some : body = Altered(lines[k]) /\ some = [lines EXCEPT ![k].body = body]
    OBVIOUS
  <2>2. j = [old EXCEPT !.damage = "altered", !.lines = some]
    BY <1>2, <1>6, <2>1 DEF JournalFields
  <2>3. /\ Shape /\ j.attempt = journal.attempt /\ j.lines = some /\ j.damage = "altered"
        /\ j.blobs = journal.blobs
    BY <1>2, <2>2 DEF JournalFields
  <2>4. k \in 1..Len(lines)
    BY <1>1, LinesAre
  <2>5. /\ AreLines(some) /\ Len(some) = Len(lines) /\ some[k].body = body
        /\ some[k].hash = lines[k].hash
        /\ body = lines[k].body => some = lines
    <3>1. PICK rows : rows = lines
      OBVIOUS
    <3>a. some = [rows EXCEPT ![k].body = body]
      BY <2>1, <3>1
    <3>2. AreLines(rows) /\ k \in 1..Len(rows)
      BY <1>1, <2>4, <3>1
    <3>3. AreLines(some)
      BY ONLY <3>a, <3>2, BodyIsReplaced
    <3>6. Len(some) = Len(rows)
      BY ONLY <3>a, <3>2, BodyIsReplaced
    <3>4. some[k].body = body /\ some[k].hash = rows[k].hash
      BY ONLY <3>a, <3>2, BodyIsReplaced
    <3>5. body = rows[k].body => some = rows
      BY ONLY <3>a, <3>2, BodyIsReplaced
    <3> QED BY <3>1, <3>3, <3>4, <3>5, <3>6
  <2>6. ~Opens(j, j.attempt, Run)
    <3> SUFFICES ASSUME Verifies(j) PROVE FALSE
      BY DEF Opens
    <3>1. Linked(some)
      BY <2>3, <2>5, VerifiedIs
    <3>2. Linked(lines)
      BY <1>1 DEF Genuine
    <3> HIDE DEF lines
    <3>3. lines[k].hash = [i \in 1..k |-> Content(lines[i])]
      BY <1>1, <2>4, <3>2, ChainIs
    <3>4. some[k].hash = [i \in 1..k |-> Content(some[i])]
      BY <2>4, <2>5, <3>1, ChainIs
    <3>5. k \in 1..k
      BY <1>1, <2>4
    <3>6. Content(lines[k]) = Content(some[k])
      <4>1. PICK a, b : /\ a = [i \in 1..k |-> Content(lines[i])]
                        /\ b = [i \in 1..k |-> Content(some[i])] /\ a = b
        BY <2>5, <3>3, <3>4
      <4>2. a[k] = Content(lines[k]) /\ b[k] = Content(some[k])
        BY <3>5, <4>1
      <4> QED BY <4>1, <4>2
    <3>7. lines[k].body = some[k].body
      BY <3>6 DEF Content
    <3> QED BY <2>3, <2>5, <3>7 DEF lines
  <2> QED BY <2>3, <2>5, <2>6 DEF Noticed
<1>7. ASSUME NEW k \in DOMAIN lines,
             j = [journal EXCEPT !.damage = "garbled", !.lines[k].form = "NotARecord"]
      PROVE  Goal
  <2>1. PICK some : some = [lines EXCEPT ![k].form = "NotARecord"]
    OBVIOUS
  <2>2. j = [old EXCEPT !.damage = "garbled", !.lines = some]
    BY <1>2, <1>7, <2>1 DEF JournalFields
  <2>3. Shape /\ j.attempt = journal.attempt /\ j.lines = some /\ j.damage = "garbled"
    BY <1>2, <2>2 DEF JournalFields
  <2>4. k \in 1..Len(lines)
    BY <1>1, LinesAre
  <2>5. AreLines(some) /\ Len(some) = Len(lines) /\ some[k].form = "NotARecord"
    BY <1>1, <2>1, <2>4, FormIsReplaced
  <2>6. ~Opens(j, j.attempt, Run)
    <3> SUFFICES ASSUME Verifies(j) PROVE FALSE
      BY DEF Opens
    <3>1. some[k].form = Canonical
      BY <2>3, <2>4, <2>5, VerifiedIs
    <3> QED BY <2>5, <3>1 DEF Canonical
  <2> QED BY <2>3, <2>5, <2>6 DEF Noticed
<1>8. ASSUME NEW names \in (SUBSET DOMAIN journal.blobs) \ {DOMAIN journal.blobs},
             j = [journal EXCEPT !.damage = "blob", !.blobs = Restrict(journal.blobs, names)]
      PROVE  Goal
  <2>1. PICK some : some = Restrict(journal.blobs, names)
    OBVIOUS
  <2>2. j = [old EXCEPT !.damage = "blob", !.blobs = some]
    BY <1>2, <1>8, <2>1
  <2>3. /\ Shape /\ j.attempt = journal.attempt /\ j.lines = lines /\ j.damage = "blob"
        /\ j.blobs = some
    BY <1>2, <2>2 DEF JournalFields
  <2>4. PICK name \in DOMAIN journal.blobs : name \notin names
    BY <1>8
  <2>5. PICK i \in 1..Len(lines) : lines[i].payload = InBlob(name)
    BY <1>1, <2>4 DEF Stored
  <2>6. DOMAIN some = names
    BY <2>1 DEF Restrict
  <2>7. PayloadBreak(InBlob(name), some) = "MissingBlob"
    <3>1. PICK payload : payload = InBlob(name)
      OBVIOUS
    <3>2. payload.home = "blob" /\ payload.name = name /\ payload.sha = name
      BY <3>1 DEF InBlob
    <3>3. PayloadBreak(payload, some) = "MissingBlob"
      BY <2>4, <2>6, <3>2 DEF PayloadBreak
    <3> QED BY <3>1, <3>3
  <2>8. ~Opens(j, j.attempt, Run)
    <3> SUFFICES ASSUME Verifies(j) PROVE FALSE
      BY DEF Opens
    <3>1. AreLines(j.lines) /\ i \in 1..Len(j.lines)
      BY <1>1, <2>3, <2>5
    <3>2. PayloadBreak(j.lines[i].payload, j.blobs) = Whole
      BY <3>1, VerifiedIs
    <3> QED BY <2>3, <2>5, <2>7, <3>2 DEF Whole
  <2> QED BY <1>1, <2>3, <2>8 DEF Noticed
<1>9. ASSUME j = [journal EXCEPT !.damage = "moved", !.lines = Started(journal.attempt + 1)]
      PROVE  Goal
  <2>1. PICK some : some = Started(journal.attempt + 1)
    OBVIOUS
  <2>2. j = [old EXCEPT !.damage = "moved", !.lines = some]
    BY <1>2, <1>9, <2>1
  <2>3. Shape /\ j.attempt = journal.attempt /\ j.lines = some /\ j.damage = "moved"
    BY <1>2, <2>2 DEF JournalFields
  <2>4. Genuine(some) /\ some[1].attempt = journal.attempt + 1
    BY <2>1, StartedIs
  <2>5. journal.attempt \in Nat
    BY DEF JournalOK
  <2>6. ~Opens(j, j.attempt, Run)
    BY <2>3, <2>4, <2>5 DEF Opens
  <2> QED BY <2>3, <2>4, <2>6 DEF Noticed, Genuine
<1>10. ASSUME j = [journal EXCEPT !.damage = "replaced", !.lines =
               Stopped(Stepped(Started(journal.attempt), journal.attempt, Submit),
                       journal.attempt, "submitted", NothingChecked)]
       PROVE  Goal
  <2>1. PICK header, replied, some :
          /\ header = Started(journal.attempt)
          /\ replied = Stepped(header, journal.attempt, Submit)
          /\ some = Stopped(replied, journal.attempt, "submitted", NothingChecked)
    OBVIOUS
  <2>2. j = [old EXCEPT !.damage = "replaced", !.lines = some]
    BY <1>2, <1>10, <2>1
  <2>3. Shape /\ j.attempt = journal.attempt /\ j.lines = some /\ j.damage = "replaced"
    BY <1>2, <2>2 DEF JournalFields
  <2>4. Genuine(header) /\ \A i \in 1..Len(header) : header[i].kind # "RunStopped"
    BY <2>1, StartedIs
  <2>5. Genuine(replied) /\ \A i \in 1..Len(replied) : replied[i].kind # "RunStopped"
    BY <2>1, <2>4, SteppedIs
  <2>6. PICK body, payload : some = Write(replied, journal.attempt, "RunStopped", body, payload)
    BY <2>1 DEF Stopped
  <2>7. Genuine(some)
    BY ONLY <2>5, <2>6, WriteIs
  <2> QED BY <2>3, <2>7 DEF Noticed, Genuine
<1> HIDE DEF Goal
<1> QED BY <1>3, <1>4, <1>5, <1>6, <1>7, <1>8, <1>9, <1>10 DEF Damages, Goal

(* What becomes of a journal is evidence still, or is seen not to be.        *)
LEMMA DamageStands ==
  ASSUME IInv, Evidence, Damage
  PROVE  Evidence'
<1>1. /\ child = Absent /\ journal.lines # <<>> /\ journal.damage = None
      /\ UNCHANGED <<child, reports, kept, written, ending>>
  BY DEF Damage
<1>2. PICK j \in Damages : journal' = j /\ (j.lines # journal.lines \/ j.blobs # journal.blobs)
  BY DEF Damage
<1>3. /\ j = [field \in JournalFields |-> j[field]]
      /\ j.attempt = journal.attempt /\ AreLines(j.lines)
      /\ j.damage \in Noticed \cup {"replaced"}
      /\ j.damage \in Noticed => ~(Opens(j, j.attempt, Run) /\ Committed(j.lines))
  BY <1>1, <1>2, DamagesAre DEF Evidence, Undamaged
<1>4. j.damage \in DamageKinds /\ j.damage \notin {None, "before"}
  BY <1>3, GateChildAssumption DEF Noticed, DamageKinds
<1>5. journal.attempt \in Nat
  BY DEF Evidence, JournalOK
<1>6. JournalOK'
  BY <1>2, <1>3, <1>4, <1>5 DEF JournalOK, Undamaged
<1>7. KeptOK' /\ child' = Absent
  BY <1>1 DEF Evidence, KeptOK
<1> QED BY <1>1, <1>6, <1>7 DEF Evidence, ConfirmsOK

(* Every step keeps the second invariant.                                   *)
LEMMA EvidenceStands ==
  IInv /\ Evidence /\ [Next]_vars => Evidence'
<1> SUFFICES ASSUME IInv, Evidence, [Next]_vars
             PROVE  Evidence'
  OBVIOUS
<1>1. CASE Launch
  BY <1>1, LaunchStands
<1>2. CASE ChildStep
  BY <1>2, LaterSteps, PassStands, RunStepStands, AuditStands, RunEndsStands DEF ChildStep
<1>3. CASE Kill
  BY <1>3, LaterSteps
<1>4. CASE CollectsIt
  BY <1>4, CollectStands DEF CollectsIt
<1>5. CASE RunsACheck
  <2>1. PICK examined \in 0..1, findings \in {{}, {Finding("High")}, {Finding("Blocking")}},
             coverage \in {Full, "ParseFailure", "ToolDefect"} : RunCheck(examined, findings, coverage)
    BY <1>5 DEF RunsACheck
  <2>2. /\ OthersTurn /\ ending'.of # "program" /\ UNCHANGED <<journal, child, kept, written>>
        /\ reports' = Append(reports, RunChecked(OtherGate, examined, findings, coverage))
    BY <2>1 DEF RunCheck
  <2> QED BY <2>2, OthersStand
<1>6. CASE RunsAnother
  <2>1. PICK says \in Said, until \in Untils, speaks \in BOOLEAN, timed_out \in BOOLEAN :
          Foreign(says, until, speaks, timed_out)
    BY <1>6 DEF RunsAnother, Said, Untils
  <2>2. /\ OthersTurn /\ ending'.of # "program" /\ UNCHANGED <<journal, child, kept, written>>
        /\ reports' = Append(reports, Interpret(Seen(says, until, speaks, timed_out)))
    BY <2>1 DEF Foreign
  <2> QED BY <2>2, OthersStand
<1>7. CASE MoveRoot
  BY <1>7, MoveStands
<1>8. CASE Damage
  BY <1>8, DamageStands
<1>9. CASE UNCHANGED vars
  <2>1. UNCHANGED <<journal, child, reports, kept, written, ending>>
    BY <1>9 DEF vars
  <2>2. /\ JournalOK' = JournalOK /\ KeptOK' = KeptOK /\ Room' = Room /\ Fresh' = Fresh
        /\ Finished' = Finished /\ Open' = Open
    BY <2>1 DEF JournalOK, KeptOK, Room, Fresh, Undamaged, Finished, Open
  <2>3. Stands(child)' = Stands(child)
    BY <2>1, <2>2 DEF Stands, InStages
  <2> QED BY <2>1, <2>2, <2>3 DEF Evidence, ConfirmsOK
<1> QED BY <1>1, <1>2, <1>3, <1>4, <1>5, <1>6, <1>7, <1>8, <1>9 DEF Next

(* The second invariant: what the journal and the head the parent kept stand *)
(* for, and what a child has measured and printed by the stage it is at.    *)
THEOREM EvidenceHolds == Spec => []Evidence
<1>1. Init => Evidence
  <2> SUFFICES ASSUME Init PROVE Evidence
    OBVIOUS
  <2>1. /\ journal.attempt = 0 /\ journal.lines = <<>> /\ journal.blobs = <<>> /\ journal.damage = None
        /\ journal = [field \in JournalFields |-> journal[field]]
    BY DEF Init, NoJournal, JournalFields
  <2>2. Genuine(<<>>) /\ Len(<<>>) = 0
    BY StartedIs
  <2>3. None \notin Noticed
    BY GateChildAssumption DEF Noticed, DamageKinds
  <2>4. JournalOK
    BY <2>1, <2>2, <2>3 DEF JournalOK, Genuine, Stored
  <2>5. Len(reports) <= MaxReports
    BY <2>2, GateChildAssumption DEF Init
  <2> QED BY <2>4, <2>5 DEF Init, Evidence, KeptOK, NoEnding
<1>2. IInv /\ Evidence /\ [Next]_vars => Evidence'
  BY EvidenceStands
<1> QED BY <1>1, <1>2, Inductive, PTL DEF Spec

(* What is reported, kept and running is of its kind.                       *)
THEOREM TypeCorrect == Spec => []TypeOK
<1>1. IInv /\ Evidence => TypeOK
  <2> SUFFICES ASSUME IInv, Evidence PROVE TypeOK
    OBVIOUS
  <2>1. \A i \in DOMAIN reports : reports[i].outcome \in {Passed(0), Passed(1), Failed}
                                   \cup {Indeterminate(why) : why \in Kinds}
    <3>1. ASSUME NEW i \in DOMAIN reports PROVE reports[i].outcome \in Decided
      <4>1. reports[i] \in ReportSet
        BY <3>1, LenProperties DEF IInv, ReportsOK
      <4> QED BY <4>1 DEF ReportSet
    <3> QED BY <3>1 DEF Decided, Undecided
  <2> QED BY <2>1 DEF Evidence, Stands, KeptOK, TypeOK
<1> QED BY <1>1, Inductive, EvidenceHolds, PTL

(* The model server is asked, and a journal is written, only once the disk   *)
(* of the root, and of the attempt, was measured and is a local one; no      *)
(* remote disk was taken for one (try_run, create_next_attempt, check).     *)
THEOREM StartsOnALocalDiskHolds == Spec => []StartsOnALocalDisk
<1>1. IInv /\ Evidence => StartsOnALocalDisk
  BY DEF Evidence, Stands, StartsOnALocalDisk, Live
<1> QED BY <1>1, Inductive, EvidenceHolds, PTL

(* No audit confirms a run whose journal lost, changed or was cut of a       *)
(* record, lost a payload or is another attempt's (audit, verify).           *)
THEOREM DamageIsSeenHolds == Spec => []DamageIsSeen
<1>1. Evidence => DamageIsSeen
  BY DEF Evidence, ConfirmsOK, DamageIsSeen, OfProgram
<1> QED BY <1>1, EvidenceHolds, PTL

(* With the chain head a run printed, an audit confirms that run's own       *)
(* records or nothing (check_anchor).                                        *)
THEOREM AnchorPinsTheRunHolds == Spec => []AnchorPinsTheRun
<1>1. Evidence => AnchorPinsTheRun
  BY DEF Evidence, ConfirmsOK, AnchorPinsTheRun, OfProgram
<1> QED BY <1>1, EvidenceHolds, PTL

(* The verdict on a plan is a failure if any report is lawfully one, else    *)
(* the reason of the first undecided one, else a pass (verdict).            *)
THEOREM VerdictIsTheWorstHolds == Spec => []VerdictIsTheWorst
<1>1. IInv => VerdictIsTheWorst
  BY VerdictIsFirstWorst DEF IInv
<1> QED BY <1>1, Inductive, PTL
=============================================================================
