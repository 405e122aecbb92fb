------------------------------ MODULE GateChild ------------------------------
(***************************************************************************)
(* The program as a gate child (harness-cli/src/lib.rs) and the parent that *)
(* launches it, reads what it left and judges a plan of reports.  A child   *)
(* is killed, or times out, anywhere; its output may fail; the state root   *)
(* moves to another disk under it; and the journal is damaged between a run *)
(* and the replay that audits it.                                           *)
(*                                                                          *)
(* The parent is external: src/ has what it interprets, not its loop.  The  *)
(* run loop itself is RunLoop, and its attempts over crashes Lifecycle:     *)
(* here a run records, for each step, the reply and what was parsed of it.  *)
(***************************************************************************)
EXTENDS Verdict, Reader, Locality

CONSTANTS
  Gate,         \* what the parent launches this program as
  OtherGate,
  Replies,      \* what the model may reply, besides submitting
  Hosts,        \* the hosts the program may find
  MaxReports,   \* bound: reports of the plan
  MaxSteps,     \* bound: steps of a run
  None

Submit == "submit"

\* history: what became of a journal, of the newest attempt or of one before
DamageKinds == {"before", "cut", "torn", "lost", "altered", "garbled", "blob", "moved", "replaced"}

ASSUME GateChildAssumption ==
  /\ Gate # OtherGate /\ {NoReport.gate, NoMarker} \cap {Gate, OtherGate} = {}
  /\ Submit \notin Replies /\ None \notin DamageKinds
  /\ MaxReports \in Nat /\ MaxSteps \in Nat
  /\ \A host \in Hosts : HostIs(host)

VARIABLES
  journal,   \* the journal of the newest attempt, on disk
  child,     \* the program, while one runs
  reports,   \* what the parent read, in order
  kept,      \* the chain head the parent kept of the last run it saw end
  written,   \* history: the records that head stands for
  ending     \* history: how the child of the last report ended

vars == <<journal, child, reports, kept, written, ending>>

-----------------------------------------------------------------------------
(***************************************************************************)
(* What may refuse an invocation, in order, with the exit code it gives.    *)
(***************************************************************************)
PASSED           == 0
FAILED           == 1
USAGE            == 2
UNREADABLE_INPUT == 4
INDETERMINATE    == 5

Stage(name, code) == [name |-> name, code |-> code]

\* options, --gate, and inputs: the files, then the built-in registry
InputStages ==
  << Stage("gate-options", USAGE),
     Stage("task-and-policy", UNREADABLE_INPUT), Stage("profile-option", USAGE),
     Stage("profile-and-registry", UNREADABLE_INPUT) >>

\* mutant: the model server is asked before the disk
ServerFirst ==
  << Stage("run-options", USAGE), Stage("endpoint", UNREADABLE_INPUT),
     Stage("state-root", INDETERMINATE), Stage("model-server", INDETERMINATE),
     Stage("root-is-local", INDETERMINATE) >>
ContactStages ==
  << Stage("run-options", USAGE), Stage("endpoint", UNREADABLE_INPUT),
     Stage("state-root", INDETERMINATE), Stage("root-is-local", INDETERMINATE),
     Stage("model-server", INDETERMINATE) >>

\* prepare: everything before the run writes
PrepareStages ==
  << Stage("plan-and-workspace", INDETERMINATE), Stage("state-root-is-local", INDETERMINATE),
     Stage("workspace-facts", INDETERMINATE) >>

RunDirStages ==
  << Stage("run-directory", INDETERMINATE), Stage("run-is-local", INDETERMINATE) >>

\* mutant: only the root is measured before an attempt is written
AttemptUnmeasured ==
  << Stage("attempt-directory", INDETERMINATE), Stage("header", INDETERMINATE) >>
\* create_next_attempt_with
AttemptStages ==
  << Stage("attempt-directory", INDETERMINATE), Stage("attempt-is-local", INDETERMINATE),
     Stage("header", INDETERMINATE) >>

ReplayStages == << Stage("replay-options", USAGE), Stage("run-and-attempt", INDETERMINATE) >>

Stages(verb) ==
  InputStages \o
  [run    |-> ContactStages \o PrepareStages \o RunDirStages \o AttemptStages,
   resume |-> ContactStages \o PrepareStages \o <<Stage("resumable", INDETERMINATE)>> \o AttemptStages,
   replay |-> ReplayStages][verb]

\* Each measures the directory it is about: of the root, or of the attempt.
LocalStages == {"root-is-local", "state-root-is-local", "run-is-local",
                "attempt-is-local"}
PathOf(stage) == IF stage.name = "attempt-is-local" THEN "attempt" ELSE "root"

-----------------------------------------------------------------------------
(***************************************************************************)
(* The journal a run leaves, and what an audit makes of one.                *)
(***************************************************************************)
Run    == "run-1"
Inputs == "inputs"

NoJournal == [attempt |-> 0, lines |-> <<>>, torn |-> FALSE, blobs |-> <<>>, real |-> TRUE,
              damage |-> None]

Write(lines, attempt, kind, body, payload) ==
  Append(lines, Encode(HeadOf(lines),
    [seq |-> Len(lines), kind |-> kind, run |-> Run, attempt |-> attempt, mono |-> Len(lines),
     body |-> body, payload |-> payload]))

Started(attempt) == Write(<<>>, attempt, "RunStarted", Inputs, NoPayload)

\* Replies but the submission are too large for a record.
Stepped(lines, attempt, reply) ==
  Write(Write(lines, attempt, "ModelReplied", reply,
              IF reply = Submit THEN Inline(reply) ELSE InBlob(reply)),
        attempt, "ActionParsed", reply, NoPayload)

Stopped(lines, attempt, cause, outcome) ==
  Write(lines, attempt, "RunStopped", [cause |-> cause, outcome |-> outcome], NoPayload)

\* A blob's name is the digest of its bytes.
PutBlob(blobs, bytes) == [name \in DOMAIN blobs \cup {bytes} |-> name]

NothingChecked     == Indeterminate("NothingChecked")
UnreadableEvidence == Indeterminate("UnreadableEvidence")

Record(kind, body) == [kind |-> kind, body |-> body]
Recorded(lines)    == [i \in 1..Len(lines) - 1 |-> Record(lines[i + 1].kind, lines[i + 1].body)]
RepliesIn(lines)   == SelectSeq(Recorded(lines), LAMBDA r : r.kind = "ModelReplied")
Submitted(lines)   == RepliesIn(lines) # <<>> /\ Last(RepliesIn(lines)).body = Submit

\* The loop over the recorded replies; when they run out, it has no model.
Replayed(lines) ==
  LET replies == RepliesIn(lines)
      steps   == [i \in 1..2 * Len(replies) |->
                    IF i % 2 = 1 THEN replies[(i + 1) \div 2]
                    ELSE Record("ActionParsed", replies[i \div 2].body)]
      cause   == IF Submitted(lines) THEN "submitted" ELSE "unavailable"
  IN  Append(steps, Record("RunStopped", [cause |-> cause, outcome |-> NothingChecked]))

Committed(lines)      == Last(lines).kind = "RunStopped"
StopRecomputed(lines) == Committed(lines) /\ Last(lines).body.cause # "wall"
Before(lines)         == IF Committed(lines) THEN Front(Recorded(lines)) ELSE Recorded(lines)

\* compare: the recorded records are the first the replay writes, and a
\* stop other than the wall's is its last.
Matches(lines) ==
  /\ IsPrefix(Before(lines), Replayed(lines))
  /\ StopRecomputed(lines) => Recorded(lines) = Replayed(lines)

RecordedOutcome(lines) ==
  IF ~Committed(lines) THEN Indeterminate("CouldNotRun")
  ELSE IF Last(lines).body.outcome = NothingChecked THEN NothingChecked ELSE UnreadableEvidence

\* mutant: the anchor is not compared
AuditUnpinned(anchor) ==
  IF \/ ~Opens(journal, journal.attempt, Run)
     \/ journal.lines[1].body # Inputs
     \/ ~Matches(journal.lines)
     \/ Committed(journal.lines) /\ ~StopRecomputed(journal.lines) /\ anchor = None
  THEN UnreadableEvidence
  ELSE RecordedOutcome(journal.lines)
AuditOutcome(anchor) ==
  IF \/ ~Opens(journal, journal.attempt, Run)
     \/ anchor # None /\ ~CheckAnchor(journal, anchor)
     \/ journal.lines[1].body # Inputs
     \/ ~Matches(journal.lines)
     \/ Committed(journal.lines) /\ ~StopRecomputed(journal.lines) /\ anchor = None
  THEN UnreadableEvidence
  ELSE RecordedOutcome(journal.lines)

-----------------------------------------------------------------------------
Absent == [pc |-> "absent"]

Launched(verb, anchor, host) ==
  [pc |-> "stages", verb |-> verb, anchor |-> anchor,
   host |-> host,                  \* the mounts and devices the probe measures
   at |-> 1,                       \* the stage it is at
   measured |-> {},                \* history: the paths it found local
   misjudged |-> {},               \* history: those of them that were not
   contacted |-> FALSE,            \* history: whether it asked the model server
   outcome |-> None, head |-> None, exit_override |-> None,
   confirms |-> None,              \* history: what its audit confirmed
   line |-> NoReport, printed |-> None, intact |-> TRUE, marker |-> NoMarker, exit |-> None]

NoEnding == [of |-> "none"]

Init ==
  /\ journal = NoJournal
  /\ child = Absent
  /\ reports = <<>> /\ ending = NoEnding
  /\ kept = None /\ written = <<>>

Room == Len(reports) < MaxReports

Launch ==
  \E verb \in {"run", "resume", "replay"}, anchor \in {None, kept}, host \in Hosts \cup {None} :
    /\ child = Absent /\ Room
    /\ verb = "run" <=> journal = NoJournal          \* bound: one run
    /\ ending.of \in {"none", "program"}              \* bound: the others are last
    /\ Len(reports) = MaxReports - 1 => verb = "replay"       \* bound: only an audit is last
    /\ host = None <=> verb = "replay"                         \* it measures nothing
    /\ anchor # None => verb = "replay"
    /\ child' = Launched(verb, anchor, host)
    /\ ending' = NoEnding
    /\ UNCHANGED <<journal, reports, kept, written>>

\* A child that will write nothing more: its stages are behind it.
Past(c) == [c EXCEPT !.host = None, !.at = 0, !.measured = {}, !.misjudged = {}, !.contacted = FALSE]

\* mutant: the chain head is taken before RunStopped is appended
EndsEarly(outcome, head, override) ==
  [Past(child) EXCEPT !.pc = "head", !.outcome = outcome, !.exit_override = override,
                      !.head = IF head = None THEN None ELSE HeadOf(journal.lines)]
Ends(outcome, head, override) ==
  [Past(child) EXCEPT !.pc = "head", !.outcome = outcome, !.head = head, !.exit_override = override]

StageOf(c) == Stages(c.verb)[c.at]

Resumable == Opens(journal, journal.attempt, Run) /\ ~Committed(journal.lines)

\* The disk decides on what it is asked; anything else may refuse or not.
MayPass(stage) ==
  /\ stage.name \in LocalStages => IsLocal(child.host, PathOf(stage))
  /\ stage.name = "resumable" => Resumable
MayRefuse(stage) == stage.name \in LocalStages \cup {"resumable"} => ~MayPass(stage)

Refuse ==
  /\ child.pc = "stages"
  /\ MayRefuse(StageOf(child))
  /\ child' = Ends(Indeterminate("CouldNotRun"), None, StageOf(child).code)
  /\ UNCHANGED <<journal, reports, kept, written, ending>>

NewAttempt ==
  [NoJournal EXCEPT !.attempt = journal.attempt + 1,
                    !.damage = IF journal.damage = None THEN None ELSE "before"]

Pass ==
  /\ child.pc = "stages"
  /\ LET stage == StageOf(child)
     IN  /\ MayPass(stage)
         /\ child' = [child EXCEPT
              !.at = @ + 1,
              !.pc = IF child.at = Len(Stages(child.verb)) THEN "work" ELSE @,
              !.measured = IF stage.name \in LocalStages THEN @ \cup {PathOf(stage)} ELSE @,
              !.misjudged = IF stage.name \in LocalStages /\ IsRemote(child.host, PathOf(stage))
                            THEN @ \cup {PathOf(stage)} ELSE @,
              !.contacted = @ \/ stage.name = "model-server"]
         /\ journal' = CASE stage.name = "attempt-directory" -> NewAttempt
                         [] stage.name = "header" ->
                              [journal EXCEPT !.lines = Started(journal.attempt)]
                         [] OTHER -> journal
  /\ UNCHANGED <<reports, kept, written, ending>>

Live == child.pc = "work" /\ child.verb \in {"run", "resume"}

RunStep ==
  \E reply \in Replies \cup {Submit} :
    /\ Live
    /\ Len(RepliesIn(journal.lines)) < MaxSteps
    /\ ~Submitted(journal.lines)
    /\ journal' = [journal EXCEPT
         !.lines = Stepped(@, journal.attempt, reply),
         !.blobs = IF reply = Submit THEN @ ELSE PutBlob(@, reply)]
    /\ UNCHANGED <<child, reports, kept, written, ending>>

\* commit: the outcome is released with the chain head once RunStopped is durable.
RunEnds(outcome) ==
  /\ Live
  /\ outcome = UnreadableEvidence => child.verb = "resume"
  /\ LET lines == Stopped(journal.lines, journal.attempt,
                          IF Submitted(journal.lines) THEN "submitted" ELSE "wall", outcome)
     IN  /\ journal' = [journal EXCEPT !.lines = lines]
         /\ child' = Ends(outcome, HeadOf(lines), None)
  /\ UNCHANGED <<reports, kept, written, ending>>

\* The journal failed: there is no RunStopped and no chain head.
JournalFails ==
  /\ Live
  /\ child' = Ends(UnreadableEvidence, None, None)
  /\ UNCHANGED <<journal, reports, kept, written, ending>>

Audit ==
  /\ child.pc = "work" /\ child.verb = "replay"
  /\ LET outcome == AuditOutcome(child.anchor)
     IN  child' = [Ends(outcome, None, None) EXCEPT
           !.anchor = None,
           !.confirms = IF outcome # NothingChecked THEN None
                        ELSE [damage |-> journal.damage, anchored |-> child.anchor # None,
                              same |-> journal.lines = written]]
  /\ UNCHANGED <<journal, reports, kept, written, ending>>

-----------------------------------------------------------------------------
(***************************************************************************)
(* emit: the chain head, the report line, the marker of a pass, the exit.   *)
(***************************************************************************)
\* mutants: a run without checks exits as a pass, as a failure
CodeZero(c) == IF c.exit_override # None THEN c.exit_override ELSE PASSED
CodeOne(c)  == IF c.exit_override # None THEN c.exit_override ELSE FAILED
CodeOf(c) ==
  IF c.exit_override # None THEN c.exit_override
  ELSE CASE c.outcome.is = "Passed" -> PASSED
         [] c.outcome.is = "Failed" -> FAILED
         [] c.outcome.is = "Indeterminate" -> INDETERMINATE

ReportOf(c) ==
  LET report == Report(Gate, c.outcome, {Finding("Info")}, Full)
  IN  IF NewReportAllowed(report) THEN report
      ELSE Report(Gate, Indeterminate("CouldNotRun"), {}, Full)

\* A write that fails leaves at most a part of the line.
Broken(pc) == [child EXCEPT !.intact = FALSE, !.line = NoReport, !.pc = pc]

SayHead ==
  /\ child.pc = "head"
  /\ \/ child' = [child EXCEPT !.pc = "line", !.printed = child.head]
     \/ child.head # None /\ child' = Broken("line")
  /\ UNCHANGED <<journal, reports, kept, written, ending>>

SayReport ==
  /\ child.pc = "line"
  /\ \/ child' = [child EXCEPT !.pc = "exit", !.line = ReportOf(child)]
     \/ child' = Broken("exit")
  /\ UNCHANGED <<journal, reports, kept, written, ending>>

Exited(code) == [Past(child) EXCEPT !.pc = "exited", !.exit = code]

Exit ==
  /\ child.pc = "exit"
  /\ IF ~child.intact THEN child' = Exited(INDETERMINATE)
     ELSE IF IsPass(child.outcome) /\ CodeOf(child) = PASSED
     THEN \/ child' = [Exited(PASSED) EXCEPT !.marker = Gate]
          \/ child' = Exited(INDETERMINATE)
     ELSE child' = Exited(CodeOf(child))
  /\ UNCHANGED <<journal, reports, kept, written, ending>>

Kill ==
  /\ child.pc \notin {"absent", "exited"}
  /\ child' = Exited(Signal)
  /\ UNCHANGED <<journal, reports, kept, written, ending>>

-----------------------------------------------------------------------------
(***************************************************************************)
(* The parent, the other members of its plan, and the world.                *)
(***************************************************************************)
Observed(c, speaks, timed_out) ==
  [gate |-> Gate, exit |-> c.exit, line |-> c.line, marker |-> c.marker,
   timed_out |-> timed_out, speaks |-> speaks]

\* The parent keeps the chain head of a run.  It kills a child that is late.
Collect(speaks, timed_out) ==
  /\ child.pc = "exited"
  /\ timed_out => child.exit = Signal
  /\ reports' = Append(reports, Interpret(Observed(child, speaks, timed_out)))
  /\ ending' = [of |-> "program", speaks |-> speaks, outcome |-> child.outcome,
        undisturbed |-> child.exit # Signal /\ child.intact,
        confirms |-> child.confirms]
  /\ IF child.printed = None THEN UNCHANGED <<kept, written>>
     ELSE kept' = child.printed /\ written' = journal.lines
  /\ child' = Absent
  /\ UNCHANGED journal

\* bound: the others follow a refusal of this program, or nothing.
OthersTurn == child = Absent /\ Room /\ journal = NoJournal

\* A check of the parent's own, over anything it may have examined.
RunCheck(examined, findings, coverage) ==
  /\ OthersTurn
  /\ reports' = Append(reports, RunChecked(OtherGate, examined, findings, coverage))
  /\ ending' = [of |-> "check",
       earned |-> examined > 0 /\ coverage = Full /\ {f \in findings : f.severity = "Blocking"} = {}]
  /\ UNCHANGED <<journal, child, kept, written>>

\* Another program, which decides on `says` and is done, or ends before its
\* marker, before its report or by a signal.
ExitCode(outcome) == CASE outcome.is = "Passed" -> 0 [] outcome.is = "Failed" -> 1 [] OTHER -> 5
ExitAfter(outcome, until) ==
  CASE until = "signal" -> Signal [] until = "panic" -> 101 [] OTHER -> ExitCode(outcome)
Seen(says, until, speaks, timed_out) ==
  [gate |-> Gate, speaks |-> speaks, timed_out |-> timed_out,
   exit |-> ExitAfter(says.outcome, until),
   line |-> IF until = "report" THEN NoReport ELSE says,
   marker |-> IF IsPass(says.outcome) /\ until \in {"done", "signal"} THEN says.gate ELSE NoMarker]

Foreign(says, until, speaks, timed_out) ==
  /\ OthersTurn
  /\ reports' = Append(reports, Interpret(Seen(says, until, speaks, timed_out)))
  /\ ending' = [of |-> "foreign",
       earned |-> /\ IsPass(says.outcome) /\ says.gate = Gate /\ ~timed_out
                  /\ until \in (IF speaks THEN {"done", "marker"} ELSE {"done"})
                  /\ speaks => says.findings = {} /\ says.coverage = Full /\ says.outcome.checked > 0]
  /\ UNCHANGED <<journal, child, kept, written>>

\* Only where it is measured next: elsewhere a move is seen no sooner.
MoveRoot ==
  /\ child.pc = "stages" /\ StageOf(child).name \in LocalStages
  /\ \E host \in Hosts : host.os = child.host.os /\ child' = [child EXCEPT !.host = host]
  /\ UNCHANGED <<journal, reports, kept, written, ending>>

Altered(line) ==
  IF line.kind = "RunStopped" THEN [cause |-> "wall", outcome |-> UnreadableEvidence] ELSE "other"

\* What may become of a journal between two invocations, once.
Damages ==
  LET lines == journal.lines
  IN  {[journal EXCEPT !.damage = "cut", !.lines = SubSeq(lines, 1, k)] : k \in 1..Len(lines) - 1}
      \cup {[journal EXCEPT !.damage = "torn", !.torn = TRUE, !.lines = Front(lines)]}
      \cup {[journal EXCEPT !.damage = "lost", !.lines = RemoveAt(lines, k)] : k \in 1..Len(lines) - 1}
      \cup {[journal EXCEPT !.damage = "altered", !.lines[k].body = Altered(lines[k])] : k \in DOMAIN lines}
      \cup {[journal EXCEPT !.damage = "garbled", !.lines[k].form = "NotARecord"] : k \in DOMAIN lines}
      \cup {[journal EXCEPT !.damage = "blob", !.blobs = Restrict(journal.blobs, names)] :
              names \in (SUBSET DOMAIN journal.blobs) \ {DOMAIN journal.blobs}}
      \cup {[journal EXCEPT !.damage = "moved", !.lines = Started(journal.attempt + 1)]}
      \cup {[journal EXCEPT !.damage = "replaced", !.lines =
               Stopped(Stepped(Started(journal.attempt), journal.attempt, Submit),
                       journal.attempt, "submitted", NothingChecked)]}

Damage ==
  /\ child = Absent /\ journal.lines # <<>> /\ journal.damage = None
  /\ journal' \in {d \in Damages : d.lines # journal.lines \/ d.blobs # journal.blobs}
  /\ UNCHANGED <<child, reports, kept, written, ending>>

ChildStep ==
  \/ Refuse \/ Pass \/ RunStep \/ JournalFails \/ Audit
  \/ \E outcome \in {NothingChecked, UnreadableEvidence} : RunEnds(outcome)
  \/ SayHead \/ SayReport \/ Exit

CollectsIt == \E speaks \in BOOLEAN, timed_out \in BOOLEAN : Collect(speaks, timed_out)

RunsACheck ==
  \E examined \in 0..1, findings \in {{}, {Finding("High")}, {Finding("Blocking")}},
     coverage \in {Full, "ParseFailure", "ToolDefect"} : RunCheck(examined, findings, coverage)

RunsAnother ==
  \E outcome \in {Passed(0), Passed(1), Failed, Indeterminate("StaleBinary")}, gate \in {Gate, OtherGate},
     findings \in {{}, {Finding("Blocking")}, {EmptyFinding("Low")}}, coverage \in {Full, "ParseFailure"},
     until \in {"report", "panic", "marker", "signal", "done"}, speaks \in BOOLEAN, timed_out \in BOOLEAN :
       Foreign(Report(gate, outcome, findings, coverage), until, speaks, timed_out)

Next ==
  \/ Launch \/ ChildStep \/ Kill \/ CollectsIt \/ RunsACheck \/ RunsAnother \/ MoveRoot \/ Damage

Spec == Init /\ [][Next]_vars

-----------------------------------------------------------------------------
TypeOK ==
  /\ child = Absent \/ child.pc \in {"stages", "work", "head", "line", "exit", "exited"}
  /\ Len(reports) <= MaxReports
  /\ kept # None => kept = HeadOf(written) /\ Last(written).kind = "RunStopped"
  /\ \A i \in DOMAIN reports : reports[i].outcome \in {Passed(0), Passed(1), Failed}
                                \cup {Indeterminate(why) : why \in Kinds}

OfProgram == ending.of = "program"

\* What the parent reads of this program is what the program decided, over the
\* protocol: no exit code, no lost line and no kill turns a run without a
\* verdict into a pass or a failure (emit against interpret).
ReadsTheChild ==
  OfProgram =>
    /\ Last(reports).outcome.is = "Indeterminate"
    /\ ending.undisturbed /\ ending.speaks => Last(reports).outcome = ending.outcome
    /\ ~ending.speaks => Last(reports).outcome = Indeterminate("CouldNotRun")

\* A pass is read of a child, or derived of a check, exactly when it was
\* earned: the child decided to pass, for the gate it was asked about, with
\* nothing unexamined, and was not killed, late or in error before it had said
\* so with its report, its exit code and, by convention, its marker.
PassIsEarned ==
  ending.of \in {"check", "foreign"} => (IsPass(Last(reports).outcome) <=> ending.earned)

\* The model server is asked, and a journal is written, only after the disk the
\* root, and the attempt, are on was measured and is a local one: no network
\* mount is taken for one, behind an overlay, a bind mount or a link.
StartsOnALocalDisk ==
  child # Absent =>
    /\ child.misjudged = {}
    /\ child.contacted => "root" \in child.measured
    /\ Live => {"root", "attempt"} \subseteq child.measured

\* An audit confirms a run only from the records as they were written: a lost,
\* changed or cut record, a lost payload and a journal of another attempt are
\* all noticed.  A journal replaced whole is not, without an anchor.
DamageIsSeen ==
  OfProgram /\ ending.confirms # None => ending.confirms.damage \in {None, "before", "replaced"}

\* With the chain head the run printed, nothing but the run's own records is
\* confirmed, not even a whole well-formed journal in its place.
AnchorPinsTheRun ==
  OfProgram /\ ending.confirms # None /\ ending.confirms.anchored => ending.confirms.same

\* A plan passes if it has reports and each is a lawful pass, fails if any is a
\* lawful failure, and is otherwise undecided, for the reason that came first.
Lawfully(i) == LawfulOutcome(reports[i])

IsFirst(i, rank) ==
  /\ OutcomeRank(Lawfully(i)) = rank
  /\ \A j \in DOMAIN reports : j < i => OutcomeRank(Lawfully(j)) # rank

VerdictIsTheWorst ==
  LET verdict     == Verdict(reports)
      Lacks(rank) == \A i \in DOMAIN reports : OutcomeRank(Lawfully(i)) # rank
  IN  /\ reports = <<>> => verdict = NothingChecked
      /\ \A i \in DOMAIN reports :
           /\ IsFirst(i, 2) => verdict = Failed
           /\ Lacks(2) /\ IsFirst(i, 1) => verdict = Lawfully(i)
           /\ Lacks(2) /\ Lacks(1) /\ IsFirst(i, 0) => verdict = Lawfully(i)
=============================================================================
