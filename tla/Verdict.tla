------------------------------- MODULE Verdict -------------------------------
(***************************************************************************)
(* Gate reports, the verdict over a plan of them, and what a parent reads   *)
(* out of a finished child (gate-outcome/src/lib.rs).                       *)
(*                                                                          *)
(* Texts are left out: a finding is its severity and whether it observed    *)
(* anything, a digest is not kept, and a scope carries no rule.             *)
(***************************************************************************)
EXTENDS Integers, SequencesExt

Severities == {"Info", "Low", "Medium", "High", "Blocking"}
Reasons    == {"ParseFailure", "UnreachableInput", "DeclaredExclusion", "ToolDefect"}
Kinds      == {"NothingChecked", "UnreadableEvidence", "CouldNotRun", "UnsupportedOs", "StaleBinary"}

Finding(severity)  == [severity |-> severity, observed |-> TRUE]
EmptyFinding(severity) == [severity |-> severity, observed |-> FALSE]
Findings           == [severity : Severities, observed : BOOLEAN]

Full         == "Full"
Coverages    == {Full} \cup Reasons      \* Partial is its reason

\* A witness vouches for a number of items, 0 only under the exit convention.
Passed(checked)    == [is |-> "Passed", checked |-> checked]
Failed             == [is |-> "Failed"]
Indeterminate(why) == [is |-> "Indeterminate", why |-> why]
Outcomes == {Passed(n) : n \in Nat} \cup {Failed} \cup {Indeterminate(why) : why \in Kinds}

IsPass(outcome) == outcome.is = "Passed"

Report(gate, outcome, findings, coverage) ==
  [gate |-> gate, outcome |-> outcome, findings |-> findings, coverage |-> coverage]

HasBlocking(findings) == \E f \in findings : f.severity = "Blocking"

LawViolation(report) ==
  \/ report.outcome = Failed /\ ~HasBlocking(report.findings)
  \/ IsPass(report.outcome) /\ HasBlocking(report.findings)
  \/ IsPass(report.outcome) /\ report.coverage # Full

\* GateReport::new: whether code outside the crate may build this report.
NewReportAllowed(report) == ~IsPass(report.outcome) /\ ~LawViolation(report)

-----------------------------------------------------------------------------
(***************************************************************************)
(* run_checked: a report derived from what a check examined.                *)
(***************************************************************************)
CapKind(why) ==
  IF why \in {"ParseFailure", "DeclaredExclusion"} THEN "UnreadableEvidence" ELSE "CouldNotRun"

DeriveOutcome(examined, findings, coverage) ==
  CASE HasBlocking(findings) -> Failed
    [] ~HasBlocking(findings) /\ examined = 0 -> Indeterminate("NothingChecked")
    [] ~HasBlocking(findings) /\ examined # 0 /\ coverage # Full -> Indeterminate(CapKind(coverage))
    [] OTHER -> Passed(examined)

RunChecked(gate, examined, findings, coverage) ==
  Report(gate, DeriveOutcome(examined, findings, coverage), findings, coverage)

-----------------------------------------------------------------------------
(***************************************************************************)
(* verdict: the first of the worst, over lawful outcomes only.              *)
(***************************************************************************)
LawfulOutcome(report) ==
  IF LawViolation(report) THEN Indeterminate("UnreadableEvidence") ELSE report.outcome

OutcomeRank(outcome) ==
  CASE outcome.is = "Passed" -> 0 [] outcome.is = "Indeterminate" -> 1 [] outcome.is = "Failed" -> 2

NoOutcome == [is |-> "none"]

\* mutants: a later tie replaces the first; the last report wins
WorseLastWins(best, report) ==
  IF best = NoOutcome \/ OutcomeRank(LawfulOutcome(report)) >= OutcomeRank(best)
  THEN LawfulOutcome(report) ELSE best
WorseLatest(best, report) == LawfulOutcome(report)

\* The body of the loop of `verdict`.
Worse(best, report) ==
  IF best = NoOutcome \/ OutcomeRank(LawfulOutcome(report)) > OutcomeRank(best)
  THEN LawfulOutcome(report) ELSE best

Verdict(reports) ==
  LET best[i \in 0..Len(reports)] == IF i = 0 THEN NoOutcome ELSE Worse(best[i - 1], reports[i])
      last == best[Len(reports)]
  IN  IF last = NoOutcome THEN Indeterminate("NothingChecked") ELSE last

-----------------------------------------------------------------------------
(***************************************************************************)
(* interpret: the report of a child that ended, from what its parent saw.   *)
(* A run is [gate, exit, line, marker, timed_out, speaks]; its last line is *)
(* a report as the child serialized it or NoReport, and its marker is the   *)
(* gate the marker file names or NoMarker.                                  *)
(***************************************************************************)
Signal   == -1                      \* an exit by a signal, whichever
NoReport == [gate |-> "none"]       \* a last line that is no report
NoMarker == "no-marker"

CouldNotRun(run) == Report(run.gate, Indeterminate("CouldNotRun"), {}, "UnreachableInput")
Unreadable(run)  == Report(run.gate, Indeterminate("UnreadableEvidence"), {}, "ParseFailure")

ExitAgrees(outcome, exit) ==
  \/ outcome.is = "Passed" /\ exit = 0
  \/ outcome.is = "Failed" /\ exit = 1
  \/ outcome.is = "Indeterminate" /\ exit \notin {0, 1}

\* mutant: a pass over nothing is honoured
HonouredAsIs(outcome) == outcome
\* The wire outcome, passes over nothing apart.
Honoured(outcome) ==
  IF IsPass(outcome) /\ outcome.checked = 0 THEN Indeterminate("NothingChecked") ELSE outcome

InterpretProtocolReport(run) ==
  IF \/ run.line = NoReport
     \/ run.line.gate # run.gate
     \/ \E f \in run.line.findings : ~f.observed
     \/ ~ExitAgrees(run.line.outcome, run.exit)
     \/ LawViolation(run.line)
  THEN Unreadable(run)
  ELSE [run.line EXCEPT !.outcome = Honoured(@)]

\* mutant: any marker will do
AnyMarker(marker, gate) == marker # NoMarker
MarkerNamesGate(marker, gate) == marker = gate

InterpretExitConvention(run) ==
  CASE run.exit = 0 /\ run.marker = NoMarker ->
         Report(run.gate, Indeterminate("NothingChecked"), {}, "UnreachableInput")
    [] run.exit = 0 /\ run.marker # NoMarker ->
         IF MarkerNamesGate(run.marker, run.gate)
         THEN Report(run.gate, Passed(0), {}, Full)
         ELSE Unreadable(run)
    [] run.exit = 1 -> Report(run.gate, Failed, {Finding("Blocking")}, Full)
    [] OTHER -> CouldNotRun(run)

Interpret(run) ==
  CASE run.timed_out \/ run.exit = Signal -> CouldNotRun(run)
    [] ~(run.timed_out \/ run.exit = Signal) /\ run.speaks -> InterpretProtocolReport(run)
    [] OTHER -> InterpretExitConvention(run)
=============================================================================
