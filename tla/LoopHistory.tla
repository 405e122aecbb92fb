----------------------------- MODULE LoopHistory -----------------------------
(***************************************************************************)
(* The detector beside the history of what it was fed.  Its caller feeds    *)
(* any event in any order until a Stop it acts on, as the run loop does     *)
(* (driver.rs); the signal of an observation is the one it discards.        *)
(* Ruling restates design 2.6 over the whole history, with no counters.     *)
(***************************************************************************)
EXTENDS LoopDetector

CONSTANT MaxEvents \* bound: events in a run

ASSUME HistoryAssumption == MaxEvents \in Nat

VARIABLES log,  \* the events fed so far, as [kind, of]
          ended \* the run loop acted on a Stop

Events ==      [kind : {"step"}, of : {"none"}]
          \cup [kind : {"action"}, of : Keys]
          \cup [kind : {"edit"}, of : Files]
          \cup [kind : {"observation"}, of : Digests]
          \cup [kind : {"tree"}, of : Trees]
          \cup [kind : {"denial"}, of : Capabilities]

TypeOK ==
  /\ DetectorTypeOK
  /\ log \in Seq(Events) /\ Len(log) <= MaxEvents
  /\ ended \in BOOLEAN

Init == DetectorInit /\ log = <<>> /\ ended = FALSE

Feed(kind, of) ==
  /\ ~ended /\ Len(log) < MaxEvents
  /\ log' = Append(log, [kind |-> kind, of |-> of])
  /\ ended' = (signal' \in Stops /\ kind # "observation")

Next ==
  \/ ObserveStep /\ Feed("step", "none")
  \/ \E key \in Keys : ObserveAction(key) /\ Feed("action", key)
  \/ \E file \in Files : ObserveEdit(file) /\ Feed("edit", file)
  \/ \E digest \in Digests : ObserveObservation(digest) /\ Feed("observation", digest)
  \/ \E tree \in Trees : ObserveTree(tree) /\ Feed("tree", tree)
  \/ \E cap \in Capabilities : ObserveDenial(cap) /\ Feed("denial", cap)

Spec == Init /\ [][Next]_<<detector, log, ended>>

-----------------------------------------------------------------------------
(* Design 2.6, over the history.                                            *)
OfKind(kinds, i) == {j \in 1..i : log[j].kind \in kinds}

\* The latest n positions of these kinds, up to position i.
Latest(kinds, n, i) ==
  {j \in OfKind(kinds, i) : Cardinality(OfKind(kinds, i)) - Cardinality(OfKind(kinds, j)) < n}

Same(i) == {j \in 1..i : log[j] = log[i]}

\* The action at i is the third of its key among the last six actions.
IsHit(i) ==
  /\ log[i].kind = "action"
  /\ Cardinality(Same(i) \cap Latest({"action"}, IDENTICAL_WINDOW, i)) >= IDENTICAL_LIMIT

\* The event at i is an observation or a tree digest never seen before.
IsNews(i) == log[i].kind \in {"observation", "tree"} /\ Same(i) = {i}

Stall == Cardinality({i \in OfKind({"step", "action"}, Len(log)) : \A j \in i..Len(log) : ~IsNews(j)})

Ruling ==
  LET n == Len(log)
      earlierHit == \E i \in Same(n) \ {n} : IsHit(i)
  IN  IF n = 0 THEN Quiet
      ELSE IF IsHit(n) /\ earlierHit THEN Repeat
      ELSE IF log[n].kind = "edit" /\ Cardinality(Same(n)) > EDIT_CHURN_LIMIT THEN EditChurn
      ELSE IF Stall >= NO_PROGRESS_LIMIT THEN NoProgress
      ELSE IF log[n].kind = "denial" /\ Cardinality(Same(n)) >= DENIAL_LIMIT THEN Denied
      ELSE IF IsHit(n) THEN Notice
      ELSE Quiet

(* observe: the counters, the window and the seen sets never disagree with  *)
(* the rules over the whole history (the burst rule of one notice per key   *)
(* and run, digests new to the run and not to the last event, the priority  *)
(* of the detectors), whatever was interleaved.                             *)
FollowsTheRules == signal = Ruling

(* driver.rs drops the signal of an observation; it may, because a stall    *)
(* that reached its limit was already signalled by the step or the action   *)
(* that made it.                                                            *)
DroppedSignalIsNoStop ==
  log # <<>> /\ log[Len(log)].kind = "observation" => signal \notin Stops

(* Design 2.6 and the notice shown to the model say "three times in the     *)
(* last six steps".  A step is an action or a step without one.             *)
RepeatIsWithinSixSteps ==
  signal \in {Notice, Repeat} =>
    LET n == Len(log)
    IN  Cardinality(Same(n) \cap Latest({"step", "action"}, IDENTICAL_WINDOW, n)) >= IDENTICAL_LIMIT
=============================================================================
