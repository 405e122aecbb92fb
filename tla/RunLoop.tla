------------------------------- MODULE RunLoop -------------------------------
(***************************************************************************)
(* The run loop (harness-run/src/driver.rs, Loop::drive and Loop::step) of  *)
(* one attempt: the model is asked, its reply parsed, the action decided,   *)
(* announced and executed, over the meter and the loop detector it owns.    *)
(*                                                                          *)
(* Loop::step is one thread; `pc` stands before each of its journal         *)
(* appends, so that a failed append and a kill fall between any two of      *)
(* them.  What is in the journal is kept as `reader`, the state of a scan   *)
(* of it by the audit (harness-run/src/replay.rs, harness-model replay.rs). *)
(***************************************************************************)
EXTENDS LoopDetector, Meter

CONSTANTS
  Submit,   \* the key of the submit sentinel's action
  ToolOf,   \* the capability of each key
  Prompts,  \* sizes of a rendered request, in bytes
  Usages,   \* <<input, output>> tokens of a completion
  Delays    \* how long a model or a tool call may take

ASSUME RunLoopAssumption ==
  /\ Submit \in Keys /\ None \notin Keys
  /\ ToolOf \in [Keys -> Capabilities]
  /\ Prompts \subseteq Nat /\ Delays \subseteq Nat
  /\ Usages \subseteq Nat \X Nat

VARIABLES
  pc, step, cause,
  granted,   \* the keys Session::decide allows: pure, fixed when it is planned
  poison,    \* the journal writer's
  active,    \* the writer's standing conditions: dimensions journaled as above 80%
  observing, \* how many dimensions observe_budgets is through
  prompt,    \* bytes of the rendered request
  reply,     \* what the model answered, then the action parsed from it
  result,    \* the digest of the tool's output
  notice,    \* key of the notice this step's turn will carry
  turns,     \* turns of the conversation
  announced, \* keys whose notice is in one of them
  executed,  \* steps whose call a provider ran
  reader,    \* a scan of the journal so far
  released   \* what commit released

context == <<prompt, reply, result, notice>>
told    == <<turns, announced>>
writer  == <<poison, active, observing, reader>>
vars    == <<pc, step, cause, granted, writer, context, told, executed, released, meter, detector>>

Malformed        == "malformed"
Unusable         == "unusable"    \* ModelError::Empty, Truncated and Unusable
Unavailable      == "unavailable" \* ModelError::Unavailable, RateLimited and ReplayDiverged
Replies          == Keys \cup {Malformed, Unusable, Unavailable}
ProviderError    == "provider_error"
ContextExhausted == "context_exhausted"
PolicyAbort      == "policy_abort"
ModelUnavailable == "model_unavailable"
Submitted        == "submitted"
JournalUnavailable == "journal_unavailable"
NothingChecked   == "indeterminate:nothing_checked"
Unreadable       == "indeterminate:unreadable_evidence"

BUDGET_DIMS == <<"steps", "tokens", "wall", "cost", "format_errors">>

Causes == Stops \cup Dimensions \cup
  {None, ContextExhausted, PolicyAbort, ModelUnavailable, Submitted, JournalUnavailable}

PCs == {"begin", "charge", "budgets_1", "context", "request", "model", "replied", "tokens",
        "budgets_2", "parse", "format_error", "stall", "detect", "notice", "decide", "denied",
        "intent", "submit", "submitted", "execute", "finish", "observe", "tick", "budgets_3",
        "loop_stop", "stopping", "done"}

(***************************************************************************)
(* The reader's scan: recorded (replay.rs) with ReplayBackend::from_journal *)
(* pairs requests with replies and results with intents, and `once` says    *)
(* that a condition began and ended in turn (2.6).                          *)
(***************************************************************************)
EmptyScan == [last |-> "RunStarted", request |-> FALSE, intents |-> {}, results |-> {},
              standing |-> {}, fits |-> TRUE, once |-> TRUE]

Scan(kind, of) ==
  LET r == [reader EXCEPT !.last = kind]
  IN  CASE kind = "ModelRequested" -> [r EXCEPT !.request = TRUE,  !.fits = @ /\ ~r.request]
        [] kind = "ModelReplied"   -> [r EXCEPT !.request = FALSE, !.fits = @ /\ r.request]
        [] kind = "ToolStarted"    -> [r EXCEPT !.intents = @ \cup {of}]
        [] kind = "ToolFinished"   -> [r EXCEPT !.results = @ \cup {of}, !.fits = @ /\ of \in r.intents]
        [] kind = "enter"          -> [r EXCEPT !.standing = @ \cup {of}, !.once = @ /\ of \notin r.standing]
        [] kind = "exit"           -> [r EXCEPT !.standing = @ \ {of}, !.once = @ /\ of \in r.standing]
        [] OTHER                   -> r

TypeOK ==
  /\ DetectorTypeOK /\ MeterTypeOK
  /\ pc \in PCs /\ cause \in Causes
  /\ step \in Nat /\ granted \subseteq Keys
  /\ poison \in BOOLEAN /\ active \subseteq Dimensions /\ observing \in 0..Len(BUDGET_DIMS)
  /\ prompt \in {0} \cup Prompts
  /\ reply \in {None} \cup Replies
  /\ result \in {None, ProviderError} \cup Digests
  /\ notice \in {None} \cup Keys
  /\ turns \in Nat /\ announced \subseteq Keys /\ executed \subseteq 1..step
  /\ reader.intents \cup reader.results \subseteq 1..step /\ reader.standing \subseteq Dimensions
  /\ released \in {None, NothingChecked, Unreadable}

Init ==
  /\ DetectorInit
  /\ MeterInit(0, 0)
  /\ pc = "begin" /\ step = 0 /\ cause = None
  /\ granted \in SUBSET Keys
  /\ poison = FALSE /\ active = {} /\ observing = 0 /\ reader = EmptyScan
  /\ prompt = 0 /\ reply = None /\ result = None /\ notice = None
  /\ turns = 0 /\ announced = {} /\ executed = {}
  /\ released = None

-----------------------------------------------------------------------------
Goto(next)  == pc' = next /\ UNCHANGED cause
Stop(why)   == pc' = "stopping" /\ cause' = why

\* `?` on a call of the meter: go on, or stop with the cause it latched.
Checked(next) == IF exhaustion' = None THEN Goto(next) ELSE Stop(exhaustion'.dimension)

\* `?` on an append: go on, or stop.  A failed append may have left its record.
Record(kind, of, next) ==
  \/ /\ reader' = Scan(kind, of)
     /\ next
     /\ UNCHANGED poison
  \/ /\ reader' \in {reader, Scan(kind, of)}
     /\ poison' = TRUE
     /\ Stop(JournalUnavailable)

\* The next step's locals are fresh.
PushTurn ==
  /\ turns' = turns + 1
  /\ announced' = announced \cup ({notice} \ {None})
  /\ prompt' = 0 /\ reply' = None /\ result' = None /\ notice' = None

still == <<step, granted, released>>

(***************************************************************************)
(* 1. Charge the meter.  Working time passes between any two readings.      *)
(***************************************************************************)
Tick == \E delay \in Delays : TickWall(last_tick + delay)

Begin ==
  /\ pc = "begin"
  /\ step' = step + 1
  /\ Tick /\ Checked("charge")
  /\ UNCHANGED <<granted, released, writer, context, told, executed, detector>>

Charge ==
  /\ pc = "charge"
  /\ ChargeStep /\ Checked("budgets_1")
  /\ UNCHANGED <<still, writer, context, told, executed, detector>>

(***************************************************************************)
(* observe_budgets with StandingConditions::observe: each dimension in      *)
(* turn, a record only when its state changed.                              *)
(***************************************************************************)
AfterBudgets(at) ==
  CASE at = "budgets_1" -> "context" [] at = "budgets_2" -> "parse" [] at = "budgets_3" -> "begin"

\* Mutant: the end of a condition is journaled and not forgotten.
ActivatedForever(dim) == active \cup {dim}

Activated(dim) == IF Above80(dim) THEN active \cup {dim} ELSE active \ {dim}

ObserveBudget ==
  /\ pc \in {"budgets_1", "budgets_2", "budgets_3"}
  /\ LET dim == BUDGET_DIMS[observing + 1]
         last == observing + 1 = Len(BUDGET_DIMS)
         next == Goto(IF last THEN AfterBudgets(pc) ELSE pc)
     IN  /\ observing' = IF last THEN 0 ELSE observing + 1
         /\ active' = Activated(dim)
         /\ IF Above80(dim) = (dim \in active)
            THEN next /\ UNCHANGED <<poison, reader>>
            ELSE Record(IF Above80(dim) THEN "enter" ELSE "exit", dim, next)
  /\ UNCHANGED <<still, context, told, executed, meter, detector>>

(***************************************************************************)
(* 2. and 3. Build the context, call the model.  The reply is journaled     *)
(* before anything is charged for it.                                       *)
(***************************************************************************)
BuildContext ==
  /\ pc = "context"
  /\ Record("ContextBuilt", None, Goto("request"))
  /\ UNCHANGED <<still, active, observing, context, told, executed, meter, detector>>

\* The mandatory content exceeds the window; too many tools.
BuildContextFails ==
  /\ pc = "context"
  /\ \E why \in {ContextExhausted, PolicyAbort} : Stop(why)
  /\ UNCHANGED <<still, writer, context, told, executed, meter, detector>>

Request ==
  /\ pc = "request"
  /\ prompt' \in Prompts
  /\ Record("ModelRequested", None, Goto("model"))
  /\ UNCHANGED <<still, active, observing, reply, result, notice, told, executed, meter, detector>>

\* No nonce, three collisions in a row, or a request that does not render.
RequestFails ==
  /\ pc = "request"
  /\ Stop(PolicyAbort)
  /\ UNCHANGED <<still, writer, context, told, executed, meter, detector>>

\* Mutant: the time the call took is charged before its reply is journaled.
ModelRepliesCharged ==
  /\ pc = "model"
  /\ reply' \in Replies
  /\ Tick
  /\ IF exhaustion' = None
     THEN Record("ModelReplied", None, Goto("tokens"))
     ELSE Stop(exhaustion'.dimension) /\ UNCHANGED <<poison, reader>>
  /\ UNCHANGED <<still, active, observing, prompt, result, notice, told, executed, detector>>

ModelReplies ==
  /\ pc = "model"
  /\ reply' \in Replies
  /\ Record("ModelReplied", None, Goto("replied"))
  /\ UNCHANGED <<still, active, observing, prompt, result, notice, told, executed, meter, detector>>

ChargeReplyTime ==
  /\ pc = "replied"
  /\ Tick /\ Checked("tokens")
  /\ UNCHANGED <<still, writer, context, told, executed, detector>>

ChargeCompletion ==
  /\ pc = "tokens" /\ reply \notin {Unusable, Unavailable}
  /\ \E usage \in Usages : RecordTokens(usage[1], usage[2], FALSE)
  /\ Checked("budgets_2")
  /\ UNCHANGED <<still, writer, context, told, executed, detector>>

\* model_error: the prompt was sent, and is charged as an estimate.
ChargeModelError ==
  /\ pc = "tokens" /\ reply \in {Unusable, Unavailable}
  /\ RecordTokens(DivCeil3(prompt), 0, TRUE)
  /\ IF exhaustion' = None /\ reply = Unavailable
     THEN Stop(ModelUnavailable)
     ELSE Checked("format_error")
  /\ UNCHANGED <<still, writer, context, told, executed, detector>>

(***************************************************************************)
(* 4. Parse exactly one action; protocol::account.                          *)
(***************************************************************************)
ParseFails ==
  /\ pc = "parse" /\ reply = Malformed
  /\ Record("FormatError", None, Goto("format_error"))
  /\ UNCHANGED <<still, active, observing, context, told, executed, meter, detector>>

FormatError ==
  /\ pc = "format_error"
  /\ RecordFormatError /\ Checked("stall")
  /\ UNCHANGED <<still, writer, context, told, executed, detector>>

\* Mutant: the turn that carries the repair message is forgotten.
FeedStallUntold ==
  /\ pc = "stall"
  /\ ObserveStep
  /\ IF signal' \in Stops THEN Stop(signal') ELSE Goto("begin")
  /\ UNCHANGED <<still, writer, context, told, executed, meter>>

\* feed_stall: a step without an action; its stop is not journaled.
FeedStall ==
  /\ pc = "stall"
  /\ ObserveStep
  /\ IF signal' \in Stops THEN Stop(signal') /\ UNCHANGED <<context, told>>
     ELSE Goto("begin") /\ PushTurn
  /\ UNCHANGED <<still, writer, executed, meter>>

Parse ==
  /\ pc = "parse" /\ reply \in Keys
  /\ RecordFormatOk
  /\ Record("ActionParsed", None, Goto("detect"))
  /\ UNCHANGED <<still, active, observing, context, told, executed, detector>>

(***************************************************************************)
(* Loop detection on the proposed action.                                   *)
(***************************************************************************)
Detect ==
  /\ pc = "detect"
  /\ ObserveAction(reply)
  /\ Goto(IF signal' \in Stops THEN "loop_stop" ELSE IF signal' = Notice THEN "notice" ELSE "decide")
  /\ UNCHANGED <<still, writer, context, told, executed, meter>>

GiveNotice ==
  /\ pc = "notice"
  /\ Record("LoopDetected", None, Goto("decide"))
  /\ notice' = reply
  /\ UNCHANGED <<still, active, observing, prompt, reply, result, told, executed, meter, detector>>

LoopStop ==
  /\ pc = "loop_stop"
  /\ Record("LoopDetected", None, Stop(signal))
  /\ UNCHANGED <<still, active, observing, context, told, executed, meter, detector>>

(***************************************************************************)
(* 5. and 6. Decide.  A denial is told to the model, and counted.           *)
(***************************************************************************)
\* Mutant: whatever was decided, the intent follows.
DecideEither ==
  /\ pc = "decide"
  /\ Record("PolicyDecided", None, Goto("intent"))
  /\ UNCHANGED <<still, active, observing, context, told, executed, meter, detector>>

Decide ==
  /\ pc = "decide"
  /\ Record("PolicyDecided", None, Goto(IF reply \in granted THEN "intent" ELSE "denied"))
  /\ UNCHANGED <<still, active, observing, context, told, executed, meter, detector>>

Deny ==
  /\ pc = "denied"
  /\ PushTurn
  /\ ObserveDenial(ToolOf[reply])
  /\ Goto(IF signal' \in Stops THEN "loop_stop" ELSE "begin")
  /\ UNCHANGED <<still, writer, executed, meter>>

(***************************************************************************)
(* 7. to 9. The write-ahead intent; the submit sentinel, or a provider and  *)
(* its result, journaled before the time it took is charged.                *)
(***************************************************************************)
Intend ==
  /\ pc = "intent"
  /\ Record("ToolStarted", step, Goto(IF reply = Submit THEN "submit" ELSE "execute"))
  /\ UNCHANGED <<still, active, observing, context, told, executed, meter, detector>>

SubmitRequested ==
  /\ pc = "submit"
  /\ Record("SubmitRequested", None, Goto("submitted"))
  /\ UNCHANGED <<still, active, observing, context, told, executed, meter, detector>>

SubmitFinished ==
  /\ pc = "submitted"
  /\ Record("ToolFinished", step, Stop(Submitted))
  /\ UNCHANGED <<still, active, observing, context, told, executed, meter, detector>>

\* A provider failure is a result too.
Execute ==
  /\ pc = "execute"
  /\ result' \in {ProviderError} \cup Digests
  /\ executed' = executed \cup {step}
  /\ Goto("finish")
  /\ UNCHANGED <<still, writer, prompt, reply, notice, told, meter, detector>>

Finish ==
  /\ pc = "finish"
  /\ Record("ToolFinished", step, Goto("observe"))
  /\ UNCHANGED <<still, active, observing, context, told, executed, meter, detector>>

\* The signal of an observation is discarded.
Observe ==
  /\ pc = "observe"
  /\ IF result \in Digests THEN ObserveObservation(result) ELSE UNCHANGED detector
  /\ PushTurn
  /\ Goto("tick")
  /\ UNCHANGED <<still, writer, executed, meter>>

\* Mutant: the cause the meter latched is left for the next step to find.
ChargeCallTimeLater ==
  /\ pc = "tick"
  /\ Tick /\ Goto("budgets_3")
  /\ UNCHANGED <<still, writer, context, told, executed, detector>>

\* 10. Stop checks.
ChargeCallTime ==
  /\ pc = "tick"
  /\ Tick /\ Checked("budgets_3")
  /\ UNCHANGED <<still, writer, context, told, executed, detector>>

\* Mutant: a poisoned writer is asked again instead of giving up.
CommitRetries ==
  /\ pc = "stopping" /\ ~poison
  /\ \/ reader' = Scan("RunStopped", None) /\ released' = NothingChecked /\ pc' = "done"
        /\ UNCHANGED poison
     \/ reader' \in {reader, Scan("RunStopped", None)} /\ poison' = TRUE /\ UNCHANGED <<pc, released>>
  /\ UNCHANGED <<cause, step, granted, active, observing, context, told, executed, meter, detector>>

\* commit, with the writer's downgrade.
Commit ==
  /\ pc = "stopping" /\ pc' = "done"
  /\ \/ ~poison /\ reader' = Scan("RunStopped", None) /\ released' = NothingChecked
        /\ UNCHANGED poison
     \/ ~poison /\ reader' \in {reader, Scan("RunStopped", None)} /\ poison' = TRUE
        /\ released' = Unreadable
     \/ poison /\ released' = Unreadable /\ UNCHANGED <<poison, reader>>
  /\ UNCHANGED <<cause, step, granted, active, observing, context, told, executed, meter, detector>>

Next ==
  \/ Begin \/ Charge \/ ObserveBudget
  \/ BuildContext \/ BuildContextFails \/ Request \/ RequestFails
  \/ ModelReplies \/ ChargeReplyTime \/ ChargeCompletion \/ ChargeModelError
  \/ ParseFails \/ FormatError \/ FeedStall \/ Parse
  \/ Detect \/ GiveNotice \/ LoopStop \/ Decide \/ Deny
  \/ Intend \/ SubmitRequested \/ SubmitFinished \/ Execute \/ Finish \/ Observe
  \/ ChargeCallTime \/ Commit

Spec == Init /\ [][Next]_vars /\ WF_vars(Next)

-----------------------------------------------------------------------------
(* Journal first, then charge (2.2, 7.1): whatever append fails, whichever  *)
(* budget ends the run and wherever a kill falls, the audit can pair every  *)
(* request with its reply and every call with its result, all but the one   *)
(* in progress; and when the run was committed, that one too.               *)
EvidencePairs ==
  /\ reader.fits
  /\ reader.request => pc = "model" \/ poison
  /\ reader.intents \ reader.results \subseteq {step}
  /\ executed \subseteq reader.intents
  /\ pc = "done" /\ ~poison => reader.intents = reader.results

(* step, 1 to 8: nothing is asked of the model and no provider runs unless  *)
(* every budget was checked since something was last spent, and a provider  *)
(* only for a call that was allowed and whose intent is the last record.    *)
NothingStartsUnpermitted ==
  /\ pc \in {"model", "execute"} =>
       /\ ~poison
       /\ Sat(tokens_input + tokens_output) <= TokenLimit
       /\ elapsed < WallLimit /\ cost_micros <= CostLimit
  /\ pc = "execute" =>
       /\ reply \in granted
       /\ reader.last = "ToolStarted" /\ step \in reader.intents

(* observe_budgets (2.6): a dimension's crossing of 80% is journaled when   *)
(* it begins and when it ends, never twice, and whenever the model is asked *)
(* or its reply parsed the journal says of each dimension how it stands.    *)
ConditionsAreCurrent ==
  /\ reader.once
  /\ pc \in {"context", "request", "model", "parse"} =>
       reader.standing = {dim \in Dimensions : Above80(dim)}

(* INV-14: once a budget is exhausted the run does nothing more than stop,  *)
(* and the cause it gives is that budget, whatever else went wrong since.   *)
ExhaustionStopsTheRun ==
  exhaustion # None => pc \in {"stopping", "done"} /\ cause = exhaustion.dimension

(* 2.2, 2.6: every step the run survives leaves the model one turn to read, *)
(* and it is only stopped for repeating itself after a turn with the notice *)
(* for that very call.                                                      *)
ToldBeforeStopped ==
  /\ pc = "begin" => turns = step
  /\ pc = "loop_stop" /\ signal = Repeat => reply \in announced

(* drive: every run stops and is committed, if the model and the providers  *)
(* return (each is given a deadline).                                       *)
Terminates == <>(pc = "done")

(* Design 2.2, step 1: "Charge the meter (steps plus the estimated input    *)
(* tokens).  If any dimension is exhausted, stop", before the model call.   *)
PromptChargedBeforeCall ==
  pc = "model" => tokens_input + tokens_output + DivCeil3(prompt) <= TokenLimit
=============================================================================
