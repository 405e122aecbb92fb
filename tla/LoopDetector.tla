----------------------------- MODULE LoopDetector -----------------------------
(***************************************************************************)
(* LoopDetector (harness-core/src/lib.rs): the four detectors of design 2.6 *)
(* as the incremental machine the run loop feeds.  observe is one action    *)
(* per LoopEvent; `signal` is what its last call returned.                  *)
(***************************************************************************)
EXTENDS Naturals, Sequences, FiniteSets

CONSTANTS
  Keys,         \* (tool, args digest) pairs of proposed actions
  Files,        \* files that may be edited
  Digests,      \* observation digests
  Trees,        \* workspace tree digests
  Capabilities, \* capabilities that may be denied
  IDENTICAL_WINDOW, IDENTICAL_LIMIT, EDIT_CHURN_LIMIT, NO_PROGRESS_LIMIT, DENIAL_LIMIT

ASSUME DetectorAssumption ==
  /\ IDENTICAL_WINDOW \in Nat \ {0} /\ IDENTICAL_LIMIT \in Nat \ {0}
  /\ EDIT_CHURN_LIMIT \in Nat /\ NO_PROGRESS_LIMIT \in Nat \ {0} /\ DENIAL_LIMIT \in Nat \ {0}

VARIABLES
  window,           \* the latest actions, oldest first
  repeat_noticed,   \* keys that had their one notice
  edits_per_file,
  steps_without_progress,
  seen_observations,
  seen_trees,
  denial_counts,
  removed,          \* capabilities that must leave the active set
  signal

repeats  == <<window, repeat_noticed>>
progress == <<steps_without_progress, seen_observations, seen_trees>>
denials  == <<denial_counts, removed>>
detector == <<repeats, edits_per_file, progress, denials, signal>>

Quiet      == "quiet"
Notice     == "notice"
Repeat     == "stop:repeat"
EditChurn  == "stop:edit_churn"
NoProgress == "stop:no_progress"
Denied     == "stop:denied"
Stops      == {Repeat, EditChurn, NoProgress, Denied}

DetectorTypeOK ==
  /\ window \in Seq(Keys) /\ Len(window) <= IDENTICAL_WINDOW
  /\ repeat_noticed \subseteq Keys
  /\ edits_per_file \in [Files -> Nat]
  /\ steps_without_progress \in Nat
  /\ seen_observations \subseteq Digests /\ seen_trees \subseteq Trees
  /\ denial_counts \in [Capabilities -> Nat]
  /\ removed \subseteq Capabilities
  /\ signal \in {Quiet, Notice} \cup Stops

DetectorInit ==
  /\ window = <<>> /\ repeat_noticed = {}
  /\ edits_per_file = [f \in Files |-> 0]
  /\ steps_without_progress = 0 /\ seen_observations = {} /\ seen_trees = {}
  /\ denial_counts = [c \in Capabilities |-> 0] /\ removed = {}
  /\ signal = Quiet

\* The tail of observe: a Stop of its own stands, anything else gives way to
\* a stall that reached its limit.
Signal(own) ==
  signal' = IF own \notin Stops /\ steps_without_progress' >= NO_PROGRESS_LIMIT
            THEN NoProgress ELSE own

BumpStall == steps_without_progress' = steps_without_progress + 1

\* Mutant: a step without an action returns early, past the stall check.
ObserveStepUnchecked ==
  /\ BumpStall
  /\ signal' = Quiet
  /\ UNCHANGED <<repeats, edits_per_file, seen_observations, seen_trees, denials>>

ObserveStep ==
  /\ BumpStall
  /\ Signal(Quiet)
  /\ UNCHANGED <<repeats, edits_per_file, seen_observations, seen_trees, denials>>

\* Mutant: the window drops its oldest entry one action too late.
PushedLate(key) ==
  LET longer == Append(window, key)
  IN  IF Len(longer) > IDENTICAL_WINDOW + 1 THEN Tail(longer) ELSE longer

\* push_back, then pop_front down to the window's length.
Pushed(key) ==
  LET longer == Append(window, key)
  IN  IF Len(longer) > IDENTICAL_WINDOW THEN Tail(longer) ELSE longer

ObserveAction(key) ==
  /\ BumpStall
  /\ window' = Pushed(key)
  /\ IF Cardinality({i \in 1..Len(window') : window'[i] = key}) < IDENTICAL_LIMIT
     THEN Signal(Quiet) /\ UNCHANGED repeat_noticed
     ELSE /\ Signal(IF key \in repeat_noticed THEN Repeat ELSE Notice)
          /\ repeat_noticed' = repeat_noticed \cup {key}
  /\ UNCHANGED <<edits_per_file, seen_observations, seen_trees, denials>>

ObserveEdit(file) ==
  /\ edits_per_file' = [edits_per_file EXCEPT ![file] = @ + 1]
  /\ UNCHANGED <<repeats, progress, denials>>
  /\ Signal(IF edits_per_file'[file] > EDIT_CHURN_LIMIT THEN EditChurn ELSE Quiet)

\* Mutant: any observation that is not the very last one seen is progress.
ObserveObservationAlternating(digest) ==
  /\ seen_observations' = {digest}
  /\ steps_without_progress' = IF digest \in seen_observations THEN steps_without_progress ELSE 0
  /\ Signal(Quiet)
  /\ UNCHANGED <<repeats, edits_per_file, seen_trees, denials>>

\* A never-seen observation is progress.
ObserveObservation(digest) ==
  /\ seen_observations' = seen_observations \cup {digest}
  /\ steps_without_progress' = IF digest \in seen_observations THEN steps_without_progress ELSE 0
  /\ Signal(Quiet)
  /\ UNCHANGED <<repeats, edits_per_file, seen_trees, denials>>

ObserveTree(digest) ==
  /\ seen_trees' = seen_trees \cup {digest}
  /\ steps_without_progress' = IF digest \in seen_trees THEN steps_without_progress ELSE 0
  /\ Signal(Quiet)
  /\ UNCHANGED <<repeats, edits_per_file, seen_observations, denials>>

ObserveDenial(cap) ==
  /\ denial_counts' = [denial_counts EXCEPT ![cap] = @ + 1]
  /\ UNCHANGED <<repeats, edits_per_file, progress>>
  /\ IF denial_counts'[cap] >= DENIAL_LIMIT
     THEN removed' = removed \cup {cap} /\ Signal(Denied)
     ELSE UNCHANGED removed /\ Signal(Quiet)
=============================================================================
