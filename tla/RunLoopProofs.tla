---------------------------- MODULE RunLoopProofs ----------------------------
(***************************************************************************)
(* Proofs about the run loop, for every budget, model, policy and set of    *)
(* tools, wherever an append fails: what is spent and what is recorded       *)
(* follow pc through a step, and that is the inductive invariant.           *)
(***************************************************************************)
EXTENDS RunLoop, MeterLemmas

Halting   == {"stopping", "done"}
\* Between the decision and the end of the call it allowed.
Permitted == {"intent", "submit", "submitted", "execute", "finish"}
\* Between a call's intent and its result.
Calling   == {"submit", "submitted", "execute", "finish"}
\* From the parsed action to its result.
Acting    == {"detect", "notice", "decide", "denied"} \cup Permitted
\* observe_budgets, and where its outcome is relied on.
Observing == {"budgets_1", "budgets_2", "budgets_3"}
Current   == {"context", "request", "model", "parse"}
\* A step that is not yet in the conversation, and no notice given in it.
Untold    == PCs \ ({"begin", "tick", "budgets_3", "loop_stop"} \cup Halting)
Unnoticed == PCs \ ({"decide", "denied", "observe", "loop_stop"} \cup Permitted \cup Halting)

-----------------------------------------------------------------------------
(* Past the first charge of the step every renewable budget is kept, or the *)
(* run is stopping for the one that is not.                                 *)
Budgets ==
  /\ MeterTypeOK /\ prompt \in Nat
  /\ pc \notin Halting /\ pc # "begin" => Kept
  /\ exhaustion # None => pc \in Halting /\ cause = exhaustion.dimension

(* A call is under way only once it was allowed, and a provider is asked    *)
(* right after the intent was written.                                      *)
Permits ==
  /\ poison => pc \in Halting
  /\ pc \in Permitted => reply \in granted
  /\ pc = "execute" => reader.last = "ToolStarted"

Fields == {"last", "request", "intents", "results", "standing", "fits", "once"}
Scans(scan) == scan = [field \in Fields |-> scan[field]]

(* The journal is behind the run by the request or the call in progress,    *)
(* and by nothing else until an append fails.                               *)
Evidence ==
  /\ Scans(reader)
  /\ reader.fits
  /\ ~poison => (reader.request <=> pc = "model")
  /\ reader.results \subseteq reader.intents
  /\ reader.intents \subseteq reader.results \cup {step}
  /\ ~poison /\ pc \notin Calling => reader.intents \subseteq reader.results
  /\ pc \in Calling => step \in reader.intents
  /\ executed \subseteq reader.intents

(* What is parsed stays an action until the step ends, a loop stop has its  *)
(* signal, and a call is numbered by a step that has begun.                 *)
Types ==
  /\ DetectorTypeOK
  /\ pc \in PCs /\ cause \in Causes
  /\ step \in Nat /\ granted \subseteq Keys /\ poison \in BOOLEAN
  /\ active \subseteq Dimensions /\ observing \in 0..(Len(BUDGET_DIMS) - 1)
  /\ prompt \in {0} \cup Prompts /\ reply \in {None} \cup Replies
  /\ result \in {None, ProviderError} \cup Digests /\ notice \in {None} \cup Keys
  /\ turns \in Nat /\ announced \subseteq Keys
  /\ executed \subseteq 1..step /\ reader.intents \subseteq 1..step
  /\ reader.standing \subseteq Dimensions
  /\ released \in {None, NothingChecked, Unreadable}
  /\ pc # "begin" => step > 0
  /\ pc \in Acting => reply \in Keys
  /\ pc = "loop_stop" => signal \in Stops

(* The journal says of the writer's conditions what the writer does, and    *)
(* observe_budgets has brought the first `observing` dimensions up to date. *)
Standing ==
  /\ reader.once
  /\ ~poison => reader.standing = active
  /\ pc \notin Observing \cup Halting => observing = 0
  /\ pc \in Observing =>
       \A i \in 1..observing : BUDGET_DIMS[i] \in active <=> Above80(BUDGET_DIMS[i])
  /\ pc \in Current => \A dim \in Dimensions : dim \in active <=> Above80(dim)

(* A step has its turn from the moment it is told until the next begins,    *)
(* and a key that had its notice is announced or about to be.               *)
Told ==
  /\ pc \notin Halting \cup {"loop_stop"} => turns = IF pc \in Untold THEN step - 1 ELSE step
  /\ pc \in Unnoticed => notice = None
  /\ pc \notin Halting \cup {"loop_stop"} =>
       \A key \in repeat_noticed : key \in announced \cup {notice} \/ (pc = "notice" /\ key = reply)
  /\ pc = "loop_stop" /\ signal = Repeat => reply \in announced

IInv == Budgets /\ Permits /\ Evidence /\ Types /\ Standing /\ Told

-----------------------------------------------------------------------------
\* The records of the loop, and those the audit pairs.
Kinds == {"ContextBuilt", "ModelRequested", "ModelReplied", "FormatError", "ActionParsed", "LoopDetected",
          "PolicyDecided", "ToolStarted", "SubmitRequested", "ToolFinished", "RunStopped", "enter", "exit"}
Pairing == {"ModelRequested", "ModelReplied", "ToolStarted", "ToolFinished"}

(* A record that pairs with nothing.                                       *)
LEMMA QuietScan ==
  ASSUME Scans(reader), NEW kind \in Kinds \ Pairing, NEW of, NEW scan, scan = Scan(kind, of)
  PROVE  /\ Scans(scan) /\ scan.last = kind /\ scan.request = reader.request
         /\ scan.intents = reader.intents /\ scan.results = reader.results /\ scan.fits = reader.fits
<1>1. CASE kind = "enter"
  BY <1>1 DEF Scan, Scans, Fields
<1>2. CASE kind = "exit"
  BY <1>2 DEF Scan, Scans, Fields
<1>3. CASE kind \notin {"enter", "exit"}
  BY <1>3 DEF Scan, Scans, Fields, Pairing
<1> QED BY <1>1, <1>2, <1>3

(* A request that follows a reply fits.                                     *)
LEMMA RequestScan ==
  ASSUME Scans(reader), NEW of, NEW scan, scan = Scan("ModelRequested", of)
  PROVE  /\ Scans(scan) /\ scan.last = "ModelRequested" /\ scan.request = TRUE
         /\ scan.intents = reader.intents /\ scan.results = reader.results
         /\ reader.fits /\ ~reader.request => scan.fits
BY DEF Scan, Scans, Fields

(* A reply that follows a request fits.                                     *)
LEMMA ReplyScan ==
  ASSUME Scans(reader), NEW of, NEW scan, scan = Scan("ModelReplied", of)
  PROVE  /\ Scans(scan) /\ scan.last = "ModelReplied" /\ scan.request = FALSE
         /\ scan.intents = reader.intents /\ scan.results = reader.results
         /\ reader.fits /\ reader.request => scan.fits
BY DEF Scan, Scans, Fields

(* An intent is remembered.                                                 *)
LEMMA IntentScan ==
  ASSUME Scans(reader), NEW of, NEW scan, scan = Scan("ToolStarted", of)
  PROVE  /\ Scans(scan) /\ scan.last = "ToolStarted" /\ scan.request = reader.request
         /\ scan.intents = reader.intents \cup {of} /\ scan.results = reader.results
         /\ scan.fits = reader.fits
BY DEF Scan, Scans, Fields

(* A result that follows its intent fits.                                   *)
LEMMA ResultScan ==
  ASSUME Scans(reader), NEW of, NEW scan, scan = Scan("ToolFinished", of)
  PROVE  /\ Scans(scan) /\ scan.last = "ToolFinished" /\ scan.request = reader.request
         /\ scan.intents = reader.intents /\ scan.results = reader.results \cup {of}
         /\ reader.fits /\ of \in reader.intents => scan.fits
BY DEF Scan, Scans, Fields
-----------------------------------------------------------------------------
(* A time, a usage, an estimate and a prompt are numbers.                   *)
LEMMA AmountsAre ==
  /\ \A delay \in Delays : delay \in Nat
  /\ \A usage \in Usages : usage[1] \in Nat /\ usage[2] \in Nat
  /\ \A size \in Prompts : size \in Nat
  /\ \A size \in Nat : DivCeil3(size) \in Nat
<1>1. \A usage \in Usages : usage[1] \in Nat /\ usage[2] \in Nat
  BY RunLoopAssumption
<1>2. \A size \in Nat : DivCeil3(size) \in Nat
  BY DEF DivCeil3
<1> QED BY <1>1, <1>2, RunLoopAssumption

(* The loop goes on with every budget kept, or stops for the one that is    *)
(* exhausted.                                                               *)
LEMMA CheckedOK ==
  ASSUME MeterTypeOK', prompt' \in Nat, exhaustion' = None => Kept', NEW next, Checked(next)
  PROVE  Budgets'
<1>1. CASE exhaustion' = None
  BY <1>1 DEF Checked, Goto, Budgets
<1>2. CASE exhaustion' # None
  BY <1>2 DEF Checked, Stop, Budgets, Halting
<1> QED BY <1>1, <1>2

(* What the meter was asked last still holds when it is not asked again.    *)
LEMMA UnspentOK ==
  ASSUME Budgets, pc \notin Halting, pc # "begin", UNCHANGED meter, prompt' \in Nat
  PROVE  Budgets'
<1>1. exhaustion = None /\ Kept
  BY DEF Budgets
<1>2. /\ UNCHANGED <<spent_steps, tokens_input, tokens_output, tokens_estimated, cost_micros, elapsed,
                     last_tick, paused, consecutive_format_errors, repair_rounds_used, exhaustion>>
  BY DEF meter, spend, wall, rounds
<1>3. MeterTypeOK' /\ Kept'
  BY <1>1, <1>2 DEF Budgets, MeterTypeOK, Kept
<1> QED BY <1>1, <1>2, <1>3 DEF Budgets

(* The clock is read, and the loop goes on or stops.                        *)
LEMMA TickedOK ==
  ASSUME Budgets, Tick, UNCHANGED prompt, NEW next, Checked(next)
  PROVE  Budgets'
<1>1. PICK delay \in Delays : TickWall(last_tick + delay)
  BY DEF Tick
<1>2. last_tick + delay \in Nat
  BY AmountsAre DEF Budgets, MeterTypeOK
<1>3. MeterTypeOK' /\ (exhaustion' = None => Kept')
  BY <1>1, <1>2, TickKeeps DEF Budgets
<1>4. prompt' \in Nat
  BY DEF Budgets
<1> QED BY <1>3, <1>4, CheckedOK

(* A counter moves that no renewable limit is about.                        *)
LEMMA CountedOK ==
  ASSUME Budgets, pc \notin Halting, pc # "begin", UNCHANGED prompt,
         ChargeStep \/ RecordFormatError \/ RecordFormatOk
  PROVE  MeterTypeOK' /\ prompt' \in Nat /\ Kept'
<1>1. MeterTypeOK' /\ UNCHANGED <<tokens_input, tokens_output, elapsed, cost_micros>>
  BY CountKeeps DEF Budgets
<1> QED BY <1>1 DEF Budgets, Kept

(* Every action spends under a check, or nothing.                           *)
LEMMA BudgetsOK ==
  ASSUME Budgets, Next
  PROVE  Budgets'
<1> USE DEF Halting
<1>1. CASE Begin
  BY <1>1, TickedOK DEF Begin, context
<1>2. CASE ChargeReplyTime
  BY <1>2, TickedOK DEF ChargeReplyTime, context
<1>3. CASE ChargeCallTime
  BY <1>3, TickedOK DEF ChargeCallTime, context
<1>4. CASE Charge
  BY <1>4, CountedOK, CheckedOK DEF Charge, context
<1>5. CASE FormatError
  BY <1>5, CountedOK, CheckedOK DEF FormatError, context
<1>6. CASE ChargeCompletion
  <2>1. PICK usage \in Usages : RecordTokens(usage[1], usage[2], FALSE)
    BY <1>6 DEF ChargeCompletion
  <2>2. usage[1] \in Nat /\ usage[2] \in Nat
    BY AmountsAre
  <2>3. MeterTypeOK' /\ (exhaustion' = None => Kept')
    BY <2>1, <2>2, TokensKeep DEF Budgets
  <2>4. prompt' \in Nat
    BY <1>6 DEF ChargeCompletion, Budgets, context
  <2> QED BY <1>6, <2>3, <2>4, CheckedOK DEF ChargeCompletion
<1>7. CASE ChargeModelError
  <2>1. DivCeil3(prompt) \in Nat /\ prompt' \in Nat
    BY <1>7, AmountsAre DEF ChargeModelError, Budgets, context
  <2>2. RecordTokens(DivCeil3(prompt), 0, TRUE)
    BY <1>7 DEF ChargeModelError
  <2>3. MeterTypeOK' /\ (exhaustion' = None => Kept')
    BY <2>1, <2>2, TokensKeep DEF Budgets
  <2>4. CASE exhaustion' = None /\ reply = Unavailable
    BY <1>7, <2>1, <2>3, <2>4 DEF ChargeModelError, Stop, Budgets
  <2>5. CASE ~(exhaustion' = None /\ reply = Unavailable)
    BY <1>7, <2>1, <2>3, <2>5, CheckedOK DEF ChargeModelError
  <2> QED BY <2>4, <2>5
<1>8. CASE Parse
  <2>1. MeterTypeOK' /\ prompt' \in Nat /\ Kept'
    BY <1>8, CountedOK DEF Parse, context
  <2>2. exhaustion' = None
    BY <1>8 DEF Parse, RecordFormatOk, Budgets
  <2> QED BY <2>1, <2>2 DEF Budgets
<1>9. CASE Commit
  <2>1. /\ UNCHANGED <<spent_steps, tokens_input, tokens_output, tokens_estimated, cost_micros, elapsed,
                       last_tick, paused, consecutive_format_errors, repair_rounds_used, exhaustion>>
        /\ UNCHANGED <<prompt, cause>> /\ pc' = "done" /\ pc = "stopping"
    BY <1>9 DEF Commit, context, meter, spend, wall, rounds
  <2> QED BY <2>1 DEF Budgets, MeterTypeOK
<1>10. CASE Request
  <2>1. prompt' \in Nat
    BY <1>10, AmountsAre DEF Request
  <2> QED BY <1>10, <2>1, UnspentOK DEF Request
<1>11. CASE FeedStall
  <2>1. prompt' \in Nat
    BY <1>11 DEF FeedStall, PushTurn, Budgets, context
  <2> QED BY <1>11, <2>1, UnspentOK DEF FeedStall
<1>12. CASE Deny \/ Observe
  <2>1. prompt' \in Nat
    BY <1>12 DEF Deny, Observe, PushTurn
  <2> QED BY <1>12, <2>1, UnspentOK DEF Deny, Observe
<1>13. CASE \/ ObserveBudget \/ BuildContext \/ BuildContextFails \/ RequestFails \/ ModelReplies
            \/ ParseFails \/ Detect \/ GiveNotice \/ LoopStop \/ Decide
            \/ Intend \/ SubmitRequested \/ SubmitFinished \/ Execute \/ Finish
  <2>1. /\ pc \notin Halting /\ pc # "begin" /\ UNCHANGED meter
        /\ UNCHANGED prompt
    BY <1>13 DEF ObserveBudget, BuildContext, BuildContextFails, RequestFails, ModelReplies,
       ParseFails, Detect, GiveNotice, LoopStop, Decide, Intend, SubmitRequested, SubmitFinished, Execute,
       Finish, context
  <2> QED BY <2>1, UnspentOK DEF Budgets
<1> QED BY <1>1, <1>2, <1>3, <1>4, <1>5, <1>6, <1>7, <1>8, <1>9, <1>10, <1>11, <1>12, <1>13 DEF Next

-----------------------------------------------------------------------------
(* Every action that goes on to a call comes from the decision that         *)
(* allowed it.                                                              *)
LEMMA PermitsOK ==
  ASSUME Permits, Evidence, Next
  PROVE  Permits'
<1> USE DEF Halting, Permitted, Record, Goto, Stop, context, writer
<1>1. CASE Begin \/ Charge \/ ChargeReplyTime \/ ChargeCompletion \/ ChargeModelError \/ FormatError \/ ChargeCallTime
  <2>1. UNCHANGED poison /\ pc' \notin Permitted /\ pc' # "execute" /\ pc \notin Halting
    BY <1>1 DEF Begin, Charge, ChargeReplyTime, ChargeCompletion, ChargeModelError, FormatError, ChargeCallTime,
                Checked
  <2> QED BY <2>1 DEF Permits
<1>2. CASE ObserveBudget
  <2> DEFINE last == observing + 1 = Len(BUDGET_DIMS)
             to   == IF last THEN AfterBudgets(pc) ELSE pc
  <2>1. pc \in {"budgets_1", "budgets_2", "budgets_3"}
    BY <1>2 DEF ObserveBudget
  <2>2. to \in {"context", "parse", "begin", "budgets_1", "budgets_2", "budgets_3"}
    BY <2>1 DEF AfterBudgets
  <2>3. \/ pc' = to /\ UNCHANGED poison
        \/ pc' = "stopping"
    BY <1>2 DEF ObserveBudget
  <2> HIDE DEF to
  <2> QED BY <2>1, <2>2, <2>3 DEF Permits
<1>3. CASE BuildContext \/ BuildContextFails \/ Request \/ RequestFails \/ ModelReplies \/ ParseFails \/ FeedStall
  <2>1. \/ pc' \in Halting
        \/ UNCHANGED poison /\ pc' \notin Permitted /\ pc' # "execute" /\ pc \notin Halting
    BY <1>3 DEF BuildContext, BuildContextFails, Request, RequestFails, ModelReplies, ParseFails, FeedStall
  <2> QED BY <2>1 DEF Permits
<1>4. CASE Parse \/ Detect \/ GiveNotice \/ LoopStop \/ Deny \/ Observe
  <2>1. \/ pc' \in Halting
        \/ UNCHANGED poison /\ pc' \notin Permitted /\ pc' # "execute" /\ pc \notin Halting
    BY <1>4 DEF Parse, Detect, GiveNotice, LoopStop, Deny, Observe
  <2> QED BY <2>1 DEF Permits
<1>5. CASE Decide
  BY <1>5 DEF Decide, Permits, still
<1>6. CASE Intend
  <2>1. \/ pc' = "stopping"
        \/ reader' = Scan("ToolStarted", step) /\ pc' \in {"submit", "execute"} /\ UNCHANGED <<poison, reply, granted>>
    BY <1>6 DEF Intend, still
  <2>2. Scan("ToolStarted", step).last = "ToolStarted"
    BY IntentScan DEF Evidence
  <2> QED BY <1>6, <2>1, <2>2 DEF Intend, Permits
<1>7. CASE SubmitRequested \/ SubmitFinished \/ Execute \/ Finish
  <2>1. \/ pc' = "stopping"
        \/ pc' \in {"submitted", "finish", "observe"} /\ pc \in Permitted /\ UNCHANGED <<poison, reply, granted>>
    BY <1>7 DEF SubmitRequested, SubmitFinished, Execute, Finish, still
  <2> QED BY <2>1 DEF Permits
<1>8. CASE Commit
  BY <1>8 DEF Commit, Permits
<1> QED BY <1>1, <1>2, <1>3, <1>4, <1>5, <1>6, <1>7, <1>8 DEF Next

-----------------------------------------------------------------------------
(* A record that pairs with nothing, or none, leaves the journal behind the *)
(* run by as much as it was.                                                *)
LEMMA QuietOK ==
  ASSUME Evidence, UNCHANGED <<step, executed>>, poison => poison',
         NEW kind \in Kinds \ Pairing, NEW of, reader' \in {reader, Scan(kind, of)},
         pc # "model", pc' # "model",
         pc' \in Calling => pc \in Calling,
         pc \in Calling => pc' \in Calling \/ poison'
  PROVE  Evidence'
<1>1. /\ Scans(reader') /\ reader'.request = reader.request
      /\ reader'.intents = reader.intents /\ reader'.results = reader.results /\ reader'.fits = reader.fits
  <2>1. CASE reader' = reader
    BY <2>1 DEF Evidence
  <2>2. CASE reader' = Scan(kind, of)
    <3>1. Scans(reader)
      BY DEF Evidence
    <3> QED BY <2>2, <3>1, QuietScan
  <2> QED BY <2>1, <2>2
<1> QED BY <1>1 DEF Evidence

(* Every action appends what pairs, or poisons the writer and stops.        *)
LEMMA EvidenceOK ==
  ASSUME Permits, Evidence, Next
  PROVE  Evidence'
<1> USE DEF Halting, Calling
<1>1. CASE Begin
  <2>1. UNCHANGED <<reader, poison, executed>> /\ pc = "begin" /\ pc' \in {"charge", "stopping"}
    BY <1>1 DEF Begin, Checked, Goto, Stop, writer
  <2> QED BY <2>1 DEF Evidence, Permits
<1>2. CASE Charge \/ ChargeReplyTime \/ ChargeCompletion \/ ChargeModelError \/ FormatError \/ ChargeCallTime
           \/ BuildContextFails \/ RequestFails \/ FeedStall \/ Detect \/ Deny \/ Observe
  <2>1. /\ UNCHANGED <<step, executed, poison, reader>>
        /\ pc # "model" /\ pc' # "model" /\ pc' \notin Calling /\ pc \notin Calling
    BY <1>2 DEF Charge, ChargeReplyTime, ChargeCompletion, ChargeModelError, FormatError, ChargeCallTime,
       BuildContextFails, RequestFails, FeedStall, Detect, Deny, Observe, Checked, Goto, Stop, still, writer
  <2>2. "RunStopped" \in Kinds \ Pairing
    BY DEF Kinds, Pairing
  <2> QED BY <2>1, <2>2, QuietOK
<1>3. CASE BuildContext \/ ParseFails \/ Parse \/ GiveNotice \/ LoopStop \/ Decide
  <2>1. PICK kind \in Kinds \ Pairing, next \in {"request", "format_error", "detect", "decide", "intent", "denied"} :
          \/ reader' = Scan(kind, None) /\ UNCHANGED poison /\ pc' \in {next, "stopping"}
          \/ reader' \in {reader, Scan(kind, None)} /\ poison' = TRUE /\ pc' = "stopping"
    BY <1>3 DEF BuildContext, ParseFails, Parse, GiveNotice, LoopStop, Decide, Record, Goto, Stop, Kinds, Pairing
  <2>2. UNCHANGED <<step, executed>> /\ pc # "model" /\ pc \notin Calling
    BY <1>3 DEF BuildContext, ParseFails, Parse, GiveNotice, LoopStop, Decide, still
  <2> QED BY <2>1, <2>2, QuietOK
<1>4. CASE ObserveBudget
  <2> DEFINE last == observing + 1 = Len(BUDGET_DIMS)
             dim  == BUDGET_DIMS[observing + 1]
             to   == IF last THEN AfterBudgets(pc) ELSE pc
             kind == IF Above80(dim) THEN "enter" ELSE "exit"
  <2>1. pc \in {"budgets_1", "budgets_2", "budgets_3"} /\ UNCHANGED <<step, executed>>
    BY <1>4 DEF ObserveBudget, still
  <2>2. to \in {"context", "parse", "begin", "budgets_1", "budgets_2", "budgets_3"}
    BY <2>1 DEF AfterBudgets
  <2>3. \/ pc' = to /\ UNCHANGED poison /\ reader' \in {reader, Scan(kind, dim)}
        \/ pc' = "stopping" /\ poison' = TRUE /\ reader' \in {reader, Scan(kind, dim)}
    BY <1>4 DEF ObserveBudget, Record, Goto, Stop
  <2>4. kind \in Kinds \ Pairing
    BY DEF Kinds, Pairing
  <2> HIDE DEF to, kind, dim
  <2>5. pc' # "model" /\ pc' \notin Calling /\ pc # "model" /\ pc \notin Calling
    BY <2>1, <2>2, <2>3
  <2> QED BY <2>1, <2>3, <2>4, <2>5, QuietOK
<1>5. CASE SubmitRequested
  <2>1. \/ reader' = Scan("SubmitRequested", None) /\ pc' = "submitted" /\ UNCHANGED poison
        \/ reader' \in {reader, Scan("SubmitRequested", None)} /\ pc' = "stopping" /\ poison' = TRUE
    BY <1>5 DEF SubmitRequested, Record, Goto, Stop
  <2>2. pc = "submit" /\ UNCHANGED <<step, executed>> /\ "SubmitRequested" \in Kinds \ Pairing
    BY <1>5 DEF SubmitRequested, still, Kinds, Pairing
  <2> QED BY <2>1, <2>2, QuietOK
<1>6. CASE Commit
  <2>1. /\ reader' \in {reader, Scan("RunStopped", None)} /\ pc = "stopping" /\ pc' = "done"
        /\ poison => poison'
    BY <1>6 DEF Commit
  <2>2. UNCHANGED <<step, executed>> /\ "RunStopped" \in Kinds \ Pairing
    BY <1>6 DEF Commit, Kinds, Pairing
  <2> QED BY <2>1, <2>2, QuietOK
<1>7. CASE Request
  <2>1. /\ pc = "request" /\ UNCHANGED <<step, executed>>
        /\ \/ reader' = Scan("ModelRequested", None) /\ pc' = "model"
           \/ reader' \in {reader, Scan("ModelRequested", None)} /\ pc' = "stopping" /\ poison' = TRUE
    BY <1>7 DEF Request, Record, Goto, Stop, still
  <2>2. ~reader.request
    BY <2>1 DEF Evidence, Permits
  <2>3. CASE reader' = reader
    BY <2>1, <2>2, <2>3, RequestScan DEF Evidence, Permits
  <2>4. CASE reader' = Scan("ModelRequested", None)
    BY <2>1, <2>2, <2>4, RequestScan DEF Evidence, Permits
  <2> QED BY <2>1, <2>3, <2>4
<1>8. CASE ModelReplies
  <2>1. /\ pc = "model" /\ UNCHANGED <<step, executed>>
        /\ \/ reader' = Scan("ModelReplied", None) /\ pc' = "replied"
           \/ reader' \in {reader, Scan("ModelReplied", None)} /\ pc' = "stopping" /\ poison' = TRUE
    BY <1>8 DEF ModelReplies, Record, Goto, Stop, still
  <2>2. reader.request
    BY <2>1 DEF Evidence, Permits
  <2>3. CASE reader' = reader
    BY <2>1, <2>2, <2>3, ReplyScan DEF Evidence, Permits
  <2>4. CASE reader' = Scan("ModelReplied", None)
    BY <2>1, <2>2, <2>4, ReplyScan DEF Evidence, Permits
  <2> QED BY <2>1, <2>3, <2>4
<1>9. CASE Intend
  <2>1. /\ pc = "intent" /\ UNCHANGED <<step, executed>>
        /\ \/ reader' = Scan("ToolStarted", step) /\ pc' \in {"submit", "execute"} /\ UNCHANGED poison
           \/ reader' \in {reader, Scan("ToolStarted", step)} /\ pc' = "stopping" /\ poison' = TRUE
    BY <1>9 DEF Intend, Record, Goto, Stop, still
  <2>2. CASE reader' = reader /\ poison' = TRUE /\ pc' = "stopping"
    BY <2>1, <2>2 DEF Evidence, Permits
  <2>3. CASE reader' = Scan("ToolStarted", step)
    <3>1. /\ Scans(reader') /\ reader'.request = reader.request /\ reader'.fits = reader.fits
          /\ reader'.intents = reader.intents \cup {step} /\ reader'.results = reader.results
      BY <2>3, IntentScan DEF Evidence
    <3>2. pc' \in {"submit", "execute", "stopping"} /\ (pc' = "stopping" => poison') /\ (~poison' => ~poison)
      BY <2>1 DEF Permits
    <3> QED BY <2>1, <3>1, <3>2 DEF Evidence
  <2> QED BY <2>1, <2>2, <2>3
<1>10. CASE SubmitFinished \/ Finish
  <2>1. /\ pc \in {"submitted", "finish"} /\ UNCHANGED <<step, executed>>
        /\ \/ reader' = Scan("ToolFinished", step) /\ pc' \in {"observe", "stopping"} /\ UNCHANGED poison
           \/ reader' \in {reader, Scan("ToolFinished", step)} /\ pc' = "stopping" /\ poison' = TRUE
    BY <1>10 DEF SubmitFinished, Finish, Record, Goto, Stop, still
  <2>2. CASE reader' = reader /\ poison' = TRUE /\ pc' = "stopping"
    BY <2>1, <2>2 DEF Evidence, Permits
  <2>3. CASE reader' = Scan("ToolFinished", step)
    BY <2>1, <2>3, ResultScan DEF Evidence, Permits
  <2> QED BY <2>1, <2>2, <2>3
<1>11. CASE Execute
  <2>1. /\ pc = "execute" /\ pc' = "finish" /\ UNCHANGED <<step, poison, reader>>
        /\ executed' = executed \cup {step}
    BY <1>11 DEF Execute, Goto, still, writer
  <2> QED BY <2>1 DEF Evidence, Permits
<1> QED BY <1>1, <1>2, <1>3, <1>4, <1>5, <1>6, <1>7, <1>8, <1>9, <1>10, <1>11 DEF Next

-----------------------------------------------------------------------------
(* What a record that is no intent, or no condition, leaves as it was.      *)
LEMMA ScanLeaves ==
  ASSUME Scans(reader), NEW kind \in Kinds, NEW of, NEW scan, scan = Scan(kind, of)
  PROVE  /\ scan.intents \subseteq reader.intents \cup {of}
         /\ kind # "ToolStarted" => scan.intents = reader.intents
         /\ kind \notin {"enter", "exit"} => scan.standing = reader.standing /\ scan.once = reader.once
BY DEF Scan, Scans, Fields, Kinds

(* The begin and the end of a condition, each in its turn.                  *)
LEMMA ConditionScan ==
  ASSUME Scans(reader), NEW of
  PROVE  /\ Scan("enter", of).standing = reader.standing \cup {of}
         /\ Scan("exit", of).standing = reader.standing \ {of}
         /\ reader.once /\ of \notin reader.standing => Scan("enter", of).once
         /\ reader.once /\ of \in reader.standing => Scan("exit", of).once
BY DEF Scan, Scans, Fields

(* The window keeps its length.                                             *)
LEMMA PushedIs ==
  ASSUME window \in Seq(Keys), Len(window) <= IDENTICAL_WINDOW, NEW key \in Keys
  PROVE  Pushed(key) \in Seq(Keys) /\ Len(Pushed(key)) <= IDENTICAL_WINDOW
<1> DEFINE longer == Append(window, key)
<1>1. longer \in Seq(Keys) /\ Len(longer) = Len(window) + 1 /\ longer # <<>>
  OBVIOUS
<1>2. Tail(longer) \in Seq(Keys) /\ Len(Tail(longer)) = Len(window)
  BY <1>1
<1>3. Len(window) \in Nat /\ IDENTICAL_WINDOW \in Nat
  BY DetectorAssumption
<1> QED BY <1>1, <1>2, <1>3 DEF Pushed

(* A signal is one of the detector's.                                       *)
LEMMA SignalIs ==
  ASSUME NEW own \in {Quiet, Notice} \cup Stops, Signal(own)
  PROVE  signal' \in {Quiet, Notice} \cup Stops /\ (own # Repeat => signal' # Repeat)
BY DEF Signal, Stops, Repeat, NoProgress

(* The events the loop feeds keep the detector's types.                     *)
LEMMA DetectorKeeps ==
  ASSUME DetectorTypeOK,
         \/ ObserveStep
         \/ \E key \in Keys : ObserveAction(key)
         \/ \E cap \in Capabilities : ObserveDenial(cap)
         \/ \E digest \in Digests : ObserveObservation(digest)
         \/ UNCHANGED detector
  PROVE  DetectorTypeOK'
<1> USE DEF repeats, progress, denials, detector
<1>1. CASE ObserveStep
  <2>1. signal' \in {Quiet, Notice} \cup Stops
    BY <1>1, SignalIs DEF ObserveStep
  <2> QED BY <1>1, <2>1 DEF ObserveStep, BumpStall, DetectorTypeOK
<1>2. ASSUME NEW key \in Keys, ObserveAction(key)
      PROVE  DetectorTypeOK'
  <2>1. signal' \in {Quiet, Notice} \cup Stops
    BY <1>2, SignalIs DEF ObserveAction, Stops
  <2>2. window' \in Seq(Keys) /\ Len(window') <= IDENTICAL_WINDOW
    BY <1>2, PushedIs DEF ObserveAction, DetectorTypeOK
  <2>3. repeat_noticed' \subseteq Keys
    BY <1>2 DEF ObserveAction, DetectorTypeOK
  <2> QED BY <1>2, <2>1, <2>2, <2>3 DEF ObserveAction, BumpStall, DetectorTypeOK
<1>3. ASSUME NEW cap \in Capabilities, ObserveDenial(cap)
      PROVE  DetectorTypeOK'
  <2>1. signal' \in {Quiet, Notice} \cup Stops
    BY <1>3, SignalIs DEF ObserveDenial, Stops
  <2>2. denial_counts' \in [Capabilities -> Nat] /\ removed' \subseteq Capabilities
    BY <1>3 DEF ObserveDenial, DetectorTypeOK
  <2> QED BY <1>3, <2>1, <2>2 DEF ObserveDenial, DetectorTypeOK
<1>4. ASSUME NEW digest \in Digests, ObserveObservation(digest)
      PROVE  DetectorTypeOK'
  <2>1. signal' \in {Quiet, Notice} \cup Stops
    BY <1>4, SignalIs DEF ObserveObservation
  <2> QED BY <1>4, <2>1 DEF ObserveObservation, DetectorTypeOK
<1>5. CASE UNCHANGED detector
  BY <1>5 DEF DetectorTypeOK
<1> QED BY <1>1, <1>2, <1>3, <1>4, <1>5

(* The cause of a stop the meter asks for.                                  *)
LEMMA CheckedGoes ==
  ASSUME MeterTypeOK', cause \in Causes, NEW next \in PCs, Checked(next)
  PROVE  pc' \in {next, "stopping"} /\ cause' \in Causes
<1>1. CASE exhaustion' = None
  BY <1>1 DEF Checked, Goto
<1>2. CASE exhaustion' # None
  BY <1>2 DEF Checked, Stop, MeterTypeOK, Causes
<1> QED BY <1>1, <1>2

(* An append leaves at most its own record.                                 *)
LEMMA RecordLeaves ==
  ASSUME Types, Evidence, NEW kind \in Kinds, NEW of, reader' \in {reader, Scan(kind, of)},
         kind \notin {"enter", "exit"} \/ of \in Dimensions,
         kind # "ToolStarted" \/ of \in 1..step
  PROVE  reader'.intents \subseteq 1..step /\ reader'.standing \subseteq Dimensions
<1>1. Scan(kind, of).intents \subseteq 1..step
  BY ScanLeaves DEF Evidence, Types
<1>2. Scan(kind, of).standing \subseteq Dimensions
  BY ScanLeaves, ConditionScan DEF Evidence, Types
<1> QED BY <1>1, <1>2 DEF Types

(* Every action keeps the types, and knows what it is about.                *)
LEMMA TypesOK ==
  ASSUME Evidence, Types, Next, MeterTypeOK'
  PROVE  Types'
<1> USE DEF Acting, Permitted, still, context, told, writer
<1>1. CASE Begin
  <2>1. pc' \in {"charge", "stopping"} /\ cause' \in Causes
    BY <1>1, CheckedGoes DEF Begin, Types, PCs
  <2>2. DetectorTypeOK'
    BY <1>1, DetectorKeeps DEF Begin, Types
  <2>3. step' = step + 1 /\ UNCHANGED <<granted, released, writer, context, told, executed, detector>>
    BY <1>1 DEF Begin
  <2> QED BY <2>1, <2>2, <2>3 DEF Types, PCs
<1>2. CASE Charge \/ ChargeReplyTime \/ ChargeCompletion \/ ChargeModelError \/ FormatError \/ ChargeCallTime
  <2>1. pc' \in {"budgets_1", "tokens", "budgets_2", "format_error", "stall", "budgets_3", "stopping"} /\ cause' \in Causes
    BY <1>2, CheckedGoes DEF Charge, ChargeReplyTime, ChargeCompletion, ChargeModelError, FormatError, ChargeCallTime,
       Types, PCs, Stop, Causes
  <2>2. DetectorTypeOK'
    BY <1>2, DetectorKeeps DEF Charge, ChargeReplyTime, ChargeCompletion, ChargeModelError, FormatError,
       ChargeCallTime, Types
  <2>3. UNCHANGED <<still, writer, context, told, executed, detector>> /\ pc # "begin"
    BY <1>2 DEF Charge, ChargeReplyTime, ChargeCompletion, ChargeModelError, FormatError, ChargeCallTime
  <2> QED BY <2>1, <2>2, <2>3 DEF Types, PCs
<1>3. CASE ObserveBudget
  <2> DEFINE dim  == BUDGET_DIMS[observing + 1]
             last == observing + 1 = Len(BUDGET_DIMS)
             to   == IF last THEN AfterBudgets(pc) ELSE pc
             kind == IF Above80(dim) THEN "enter" ELSE "exit"
  <2>1. dim \in Dimensions /\ observing' \in 0..(Len(BUDGET_DIMS) - 1)
    BY <1>3 DEF ObserveBudget, Types, BUDGET_DIMS, Dimensions
  <2>2. to \in {"context", "parse", "begin", "budgets_1", "budgets_2", "budgets_3"}
    BY <1>3 DEF ObserveBudget, AfterBudgets
  <2>3. /\ pc' \in {to, "stopping"} /\ cause' \in Causes /\ poison' \in BOOLEAN
        /\ reader'.intents \subseteq 1..step /\ reader'.standing \subseteq Dimensions
    <3>1. CASE Above80(dim) = (dim \in active)
      BY <1>3, <3>1 DEF ObserveBudget, Goto, Types
    <3>2. CASE Above80(dim) # (dim \in active)
      <4>1. Record(kind, dim, Goto(to))
        BY <1>3, <3>2 DEF ObserveBudget
      <4>2. kind \in Kinds /\ kind # "ToolStarted"
        BY DEF Kinds
      <4> HIDE DEF kind, dim, to
      <4>3. /\ pc' \in {to, "stopping"} /\ cause' \in Causes /\ poison' \in BOOLEAN
            /\ reader' \in {reader, Scan(kind, dim)}
        BY <4>1 DEF Record, Goto, Stop, Types, Causes
      <4> QED BY <2>1, <4>2, <4>3, RecordLeaves
    <3> QED BY <3>1, <3>2
  <2>4. active' \subseteq Dimensions
    BY <1>3, <2>1 DEF ObserveBudget, Activated, Types
  <2>5. DetectorTypeOK'
    BY <1>3, DetectorKeeps DEF ObserveBudget, Types
  <2>6. UNCHANGED <<still, context, told, executed>> /\ pc # "begin"
    BY <1>3 DEF ObserveBudget
  <2> HIDE DEF dim, to
  <2> QED BY <2>1, <2>2, <2>3, <2>4, <2>5, <2>6 DEF Types, PCs
<1>4. CASE BuildContextFails \/ RequestFails
  <2>1. pc' = "stopping" /\ cause' \in Causes /\ pc # "begin"
    BY <1>4 DEF BuildContextFails, RequestFails, Stop, Causes
  <2>2. DetectorTypeOK'
    BY <1>4, DetectorKeeps DEF BuildContextFails, RequestFails, Types
  <2>3. UNCHANGED <<still, writer, context, told, executed>>
    BY <1>4 DEF BuildContextFails, RequestFails
  <2> QED BY <2>1, <2>2, <2>3 DEF Types, PCs
<1>5. CASE \/ BuildContext \/ Request \/ ModelReplies \/ ParseFails \/ Parse \/ GiveNotice \/ LoopStop \/ Decide
           \/ Intend \/ SubmitRequested \/ SubmitFinished \/ Finish
  <2> DEFINE Nexts == {"request", "model", "replied", "format_error", "detect", "decide", "stopping", "intent",
                       "denied", "submit", "execute", "submitted", "observe"}
  <2>1. PICK kind \in Kinds \ {"enter", "exit"}, of \in {None, step} :
          reader' \in {reader, Scan(kind, of)} /\ (kind # "ToolStarted" \/ of = step)
    BY <1>5 DEF BuildContext, Request, ModelReplies, ParseFails, Parse, GiveNotice, LoopStop, Decide, Intend,
       SubmitRequested, SubmitFinished, Finish, Kinds, Record
  <2>2. step > 0 /\ step \in Nat
    BY <1>5 DEF BuildContext, Request, ModelReplies, ParseFails, Parse, GiveNotice, LoopStop, Decide, Intend,
       SubmitRequested, SubmitFinished, Finish, Types
  <2>3. reader'.intents \subseteq 1..step /\ reader'.standing \subseteq Dimensions
    BY <2>1, <2>2, RecordLeaves
  <2>7. /\ pc' \in Nexts /\ cause' \in Causes /\ poison' \in BOOLEAN
        /\ pc' \in Acting => reply \in Keys /\ reply' = reply
    BY <1>5 DEF BuildContext, Request, ModelReplies, ParseFails, Parse, GiveNotice, LoopStop, Decide, Intend,
       SubmitRequested, SubmitFinished, Finish, Record, Goto, Stop, Causes, Types
  <2>4. DetectorTypeOK'
    BY <1>5, DetectorKeeps DEF BuildContext, Request, ModelReplies, ParseFails, Parse, GiveNotice, LoopStop, Decide,
       Intend, SubmitRequested, SubmitFinished, Finish, Types
  <2>5. UNCHANGED <<still, active, observing, result, told, executed>>
    BY <1>5 DEF BuildContext, Request, ModelReplies, ParseFails, Parse, GiveNotice, LoopStop, Decide, Intend,
       SubmitRequested, SubmitFinished, Finish
  <2>6. prompt' \in {0} \cup Prompts /\ reply' \in {None} \cup Replies /\ notice' \in {None} \cup Keys
    BY <1>5 DEF BuildContext, Request, ModelReplies, ParseFails, Parse, GiveNotice, LoopStop, Decide, Intend,
       SubmitRequested, SubmitFinished, Finish, Types
  <2> QED BY <2>2, <2>3, <2>4, <2>5, <2>6, <2>7 DEF Types, PCs
<1>6. CASE FeedStall \/ Detect \/ Deny \/ Observe
  <2>1. DetectorTypeOK'
    <3>1. CASE FeedStall
      BY <3>1, DetectorKeeps DEF FeedStall, Types
    <3>2. CASE Detect
      BY <3>2, DetectorKeeps DEF Detect, Types
    <3>3. CASE Deny
      <4>1. ToolOf[reply] \in Capabilities
        BY <3>3, RunLoopAssumption DEF Deny, Types
      <4> QED BY <3>3, <4>1, DetectorKeeps DEF Deny, Types
    <3>4. CASE Observe
      BY <3>4, DetectorKeeps DEF Observe, Types
    <3> QED BY <1>6, <3>1, <3>2, <3>3, <3>4
  <2>2. /\ pc' \in {"stopping", "begin", "loop_stop", "notice", "decide", "tick"} /\ cause' \in Causes
        /\ pc' = "loop_stop" => signal' \in Stops
    BY <1>6 DEF FeedStall, Detect, Deny, Observe, Goto, Stop, Causes, Types
  <2>3. pc' \in Acting => reply' \in Keys
    BY <1>6, <2>2 DEF FeedStall, Detect, Deny, Observe, Goto, Stop, Types
  <2>4. /\ prompt' \in {0} \cup Prompts /\ reply' \in {None} \cup Replies /\ notice' \in {None} \cup Keys
        /\ result' \in {None, ProviderError} \cup Digests /\ turns' \in Nat /\ announced' \subseteq Keys
    BY <1>6 DEF FeedStall, Detect, Deny, Observe, PushTurn, Types
  <2>5. UNCHANGED <<still, writer, executed>> /\ step > 0
    BY <1>6 DEF FeedStall, Detect, Deny, Observe, Types
  <2> QED BY <2>1, <2>2, <2>3, <2>4, <2>5 DEF Types, PCs
<1>7. CASE Execute
  <2>1. DetectorTypeOK'
    BY <1>7, DetectorKeeps DEF Execute, Types
  <2>2. /\ pc = "execute" /\ pc' = "finish" /\ result' \in {ProviderError} \cup Digests
        /\ executed' = executed \cup {step}
        /\ UNCHANGED <<cause, still, writer, prompt, reply, notice, told>>
    BY <1>7 DEF Execute, Goto
  <2> QED BY <2>1, <2>2 DEF Types, PCs
<1>8. CASE Commit
  <2>1. DetectorTypeOK'
    BY <1>8, DetectorKeeps DEF Commit, Types
  <2>2. /\ pc = "stopping" /\ pc' = "done" /\ poison' \in BOOLEAN /\ released' \in {NothingChecked, Unreadable}
        /\ reader' \in {reader, Scan("RunStopped", None)}
        /\ UNCHANGED <<cause, step, granted, active, observing, context, told, executed>>
    BY <1>8 DEF Commit, Types
  <2>3. reader'.intents \subseteq 1..step /\ reader'.standing \subseteq Dimensions
    BY <2>2, ScanLeaves DEF Types, Evidence, Kinds
  <2> QED BY <2>1, <2>2, <2>3 DEF Types, PCs
<1> QED BY <1>1, <1>2, <1>3, <1>4, <1>5, <1>6, <1>7, <1>8 DEF Next

-----------------------------------------------------------------------------
(* No dimension moves while the meter stands still.                         *)
LEMMA UsageStill ==
  ASSUME UNCHANGED meter, NEW dim \in Dimensions
  PROVE  Above80(dim)' <=> Above80(dim)
<1>1. Usage(dim)' = Usage(dim)
  BY DEF Usage, Dimensions, meter, spend, wall, rounds
<1> QED BY <1>1 DEF Above80

(* Above 80% or not.                                                        *)
LEMMA AboveIs == \A dim \in Dimensions : Above80(dim) \in BOOLEAN
BY DEF Above80

(* observe_budgets goes through every dimension.                            *)
LEMMA DimensionsAre ==
  /\ Len(BUDGET_DIMS) = 5
  /\ \A i \in 1..5 : BUDGET_DIMS[i] \in Dimensions
  /\ \A dim \in Dimensions : \E i \in 1..5 : dim = BUDGET_DIMS[i]
  /\ \A i, j \in 1..5 : BUDGET_DIMS[i] = BUDGET_DIMS[j] => i = j
<1>1. /\ BUDGET_DIMS[1] = "steps" /\ BUDGET_DIMS[2] = "tokens" /\ BUDGET_DIMS[3] = "wall"
      /\ BUDGET_DIMS[4] = "cost" /\ BUDGET_DIMS[5] = "format_errors" /\ Len(BUDGET_DIMS) = 5
  BY DEF BUDGET_DIMS
<1>2. \A i \in 1..5 : i = 1 \/ i = 2 \/ i = 3 \/ i = 4 \/ i = 5
  OBVIOUS
<1>3. \A dim \in Dimensions : \E i \in 1..5 : dim = BUDGET_DIMS[i]
  <2>1. 1 \in 1..5 /\ 2 \in 1..5 /\ 3 \in 1..5 /\ 4 \in 1..5 /\ 5 \in 1..5
    OBVIOUS
  <2> QED BY <1>1, <2>1 DEF Dimensions
<1> QED BY <1>1, <1>2, <1>3 DEF Dimensions

(* A record of something else, or none, and nothing observed.               *)
LEMMA StandingKept ==
  ASSUME Standing, Evidence, UNCHANGED active, poison => poison',
         observing' = observing, pc \notin Observing \cup Halting, pc' \in PCs,
         NEW kind \in Kinds \ {"enter", "exit"}, NEW of, reader' \in {reader, Scan(kind, of)},
         pc' \in Current => pc \in Current /\ UNCHANGED meter
  PROVE  Standing'
<1>1. reader'.once = reader.once /\ reader'.standing = reader.standing
  BY ScanLeaves DEF Evidence
<1>2. observing = 0
  BY DEF Standing
<1>3. pc' \in Current => \A dim \in Dimensions : dim \in active' <=> Above80(dim)'
  <2> SUFFICES ASSUME pc' \in Current, NEW dim \in Dimensions
               PROVE  dim \in active' <=> Above80(dim)'
    OBVIOUS
  <2>1. dim \in active <=> Above80(dim)
    BY DEF Standing
  <2> QED BY <2>1, UsageStill
<1>4. 1..observing' = {}
  BY <1>2
<1> QED BY <1>1, <1>2, <1>3, <1>4 DEF Standing

(* One dimension is observed: its record is due, and the journal and the    *)
(* writer agree on it afterwards.                                           *)
LEMMA ObserveKeeps ==
  ASSUME Permits, Evidence, Types, Standing, ObserveBudget
  PROVE  Standing'
<1> DEFINE dim  == BUDGET_DIMS[observing + 1]
           last == observing + 1 = Len(BUDGET_DIMS)
           to   == IF last THEN AfterBudgets(pc) ELSE pc
           kind == IF Above80(dim) THEN "enter" ELSE "exit"
<1>1. /\ pc \in Observing /\ active' = Activated(dim) /\ UNCHANGED meter
      /\ observing' = IF last THEN 0 ELSE observing + 1
  BY DEF ObserveBudget, Observing
<1>2. observing + 1 \in 1..5 /\ observing \in Nat /\ dim \in Dimensions
  BY DimensionsAre DEF Types
<1>3. ~poison /\ reader.once /\ reader.standing = active
  BY <1>1 DEF Permits, Standing, Observing, Halting
<1>4. /\ reader'.once
      /\ \/ pc' = to /\ UNCHANGED poison /\ reader'.standing = active'
         \/ pc' = "stopping" /\ poison' = TRUE
  <2>1. CASE Above80(dim) = (dim \in active)
    <3>1. UNCHANGED reader /\ pc' = to /\ UNCHANGED poison
      BY <2>1 DEF ObserveBudget, Goto
    <3>2. active' = active
      <4>1. CASE Above80(dim)
        BY <1>1, <2>1, <4>1 DEF Activated
      <4>2. CASE ~ Above80(dim)
        BY <1>1, <2>1, <4>2 DEF Activated
      <4> QED BY <4>1, <4>2
    <3> QED BY <1>3, <3>1, <3>2
  <2>2. CASE Above80(dim) # (dim \in active)
    <3>1. Record(kind, dim, Goto(to))
      BY <2>2 DEF ObserveBudget
    <3>2. Scan(kind, dim).once /\ Scan(kind, dim).standing = active'
      <4>1. CASE Above80(dim)
        BY <1>1, <1>3, <2>2, <4>1, ConditionScan DEF Activated, Evidence
      <4>2. CASE ~ Above80(dim)
        BY <1>1, <1>2, <1>3, <2>2, <4>2, ConditionScan, AboveIs DEF Activated, Evidence
      <4> QED BY <4>1, <4>2
    <3> HIDE DEF dim, kind, to
    <3> QED BY <1>3, <3>1, <3>2 DEF Record, Goto, Stop
  <2> QED BY <2>1, <2>2
<1>5. \A i \in 1..(observing + 1) : BUDGET_DIMS[i] \in active' <=> Above80(BUDGET_DIMS[i])'
  <2> SUFFICES ASSUME NEW i \in 1..(observing + 1)
               PROVE  BUDGET_DIMS[i] \in active' <=> Above80(BUDGET_DIMS[i])'
    OBVIOUS
  <2>1. i \in 1..5 /\ BUDGET_DIMS[i] \in Dimensions
    BY <1>2, DimensionsAre
  <2>2. Above80(BUDGET_DIMS[i])' <=> Above80(BUDGET_DIMS[i])
    BY <1>1, <2>1, UsageStill
  <2>3. CASE i = observing + 1
    <3>1. BUDGET_DIMS[i] = dim
      BY <2>3
    <3> HIDE DEF dim
    <3> QED BY <1>1, <2>2, <3>1 DEF Activated
  <2>4. CASE i # observing + 1
    <3>1. i \in 1..observing /\ dim # BUDGET_DIMS[i]
      BY <1>2, <2>1, <2>4, DimensionsAre
    <3>2. BUDGET_DIMS[i] \in active <=> Above80(BUDGET_DIMS[i])
      BY <1>1, <3>1 DEF Standing
    <3> HIDE DEF dim
    <3> QED BY <1>1, <2>2, <3>1, <3>2 DEF Activated
  <2> QED BY <2>3, <2>4
<1>6. CASE last
  <2>1. \A d \in Dimensions : d \in active' <=> Above80(d)'
    BY <1>5, <1>6, DimensionsAre
  <2>2. to \in {"context", "parse", "begin"}
    BY <1>1, <1>6 DEF AfterBudgets, Observing
  <2>3. observing' = 0
    BY <1>1, <1>6
  <2> HIDE DEF to
  <2> QED BY <1>4, <2>1, <2>2, <2>3 DEF Standing, Observing, Current, Halting
<1>7. CASE ~last
  <2>1. observing' = observing + 1 /\ to = pc
    BY <1>1, <1>7
  <2> HIDE DEF to, last
  <2> QED BY <1>1, <1>4, <1>5, <2>1 DEF Standing, Observing, Current, Halting
<1> QED BY <1>6, <1>7

(* What is relied on after observe_budgets is unchanged since.              *)
LEMMA StandingOK ==
  ASSUME Permits, Evidence, Types, Types', Standing, Next
  PROVE  Standing'
<1> USE DEF writer, still, Kinds
<1>1. CASE \/ Begin \/ Charge \/ ChargeReplyTime \/ ChargeCompletion \/ ChargeModelError \/ FormatError
           \/ ChargeCallTime \/ BuildContextFails \/ RequestFails \/ FeedStall \/ Detect \/ Deny \/ Observe \/ Execute
  <2>1. /\ UNCHANGED <<poison, active, observing, reader>>
        /\ pc \notin Observing \cup Halting /\ pc' \notin Current /\ pc' \in PCs
    BY <1>1 DEF Begin, Charge, ChargeReplyTime, ChargeCompletion, ChargeModelError, FormatError,
       ChargeCallTime, BuildContextFails, RequestFails, FeedStall, Detect, Deny, Observe, Execute, Checked, Goto, Stop,
       Observing, Halting, Current, Types
  <2> QED BY <2>1, StandingKept
<1>2. CASE \/ BuildContext \/ Request \/ ModelReplies \/ ParseFails \/ Parse \/ GiveNotice \/ LoopStop \/ Decide
           \/ Intend \/ SubmitRequested \/ SubmitFinished \/ Finish
  <2>1. PICK kind \in Kinds \ {"enter", "exit"}, of \in {None, step} : reader' \in {reader, Scan(kind, of)}
    BY <1>2 DEF BuildContext, Request, ModelReplies, ParseFails, Parse, GiveNotice, LoopStop, Decide, Intend,
       SubmitRequested, SubmitFinished, Finish, Record
  <2>2. UNCHANGED <<active, observing>> /\ (poison => poison') /\ pc \notin Observing \cup Halting /\ pc' \in PCs
    BY <1>2 DEF BuildContext, Request, ModelReplies, ParseFails, Parse, GiveNotice, LoopStop, Decide, Intend,
       SubmitRequested, SubmitFinished, Finish, Record, Observing, Halting, Types
  <2>3. pc' \in Current => pc \in Current /\ UNCHANGED meter
    BY <1>2 DEF BuildContext, Request, ModelReplies, ParseFails, Parse, GiveNotice, LoopStop, Decide, Intend,
       SubmitRequested, SubmitFinished, Finish, Record, Goto, Stop, Current
  <2> QED BY <2>1, <2>2, <2>3, StandingKept
<1>3. CASE ObserveBudget
  BY <1>3, ObserveKeeps
<1>4. CASE Commit
  <2>1. /\ pc' = "done" /\ UNCHANGED active
        /\ \/ ~poison /\ reader' = Scan("RunStopped", None) /\ UNCHANGED poison
           \/ reader' \in {reader, Scan("RunStopped", None)} /\ poison' = TRUE
    BY <1>4 DEF Commit
  <2>2. reader'.once = reader.once /\ reader'.standing = reader.standing
    BY <2>1, ScanLeaves DEF Evidence
  <2> QED BY <2>1, <2>2 DEF Standing, Observing, Current, Halting
<1> QED BY <1>1, <1>2, <1>3, <1>4 DEF Next

-----------------------------------------------------------------------------
(* A part of the step that tells nothing and detects nothing.               *)
LEMMA ToldKept ==
  ASSUME Told, UNCHANGED <<step, turns, announced, notice, repeat_noticed>>,
         pc' \in PCs, pc \notin Halting \cup {"loop_stop", "notice"},
         \/ pc' \in Halting
         \/ pc' # "loop_stop" /\ (pc' \in Untold <=> pc \in Untold) /\ (pc' \in Unnoticed => pc \in Unnoticed)
  PROVE  Told'
<1>1. CASE pc' \in Halting
  BY <1>1 DEF Told, Halting, Unnoticed
<1>2. CASE pc' \notin Halting
  BY <1>2 DEF Told
<1> QED BY <1>1, <1>2

(* The turn of a step takes its notice into the conversation.               *)
LEMMA PushTurnTells ==
  ASSUME Types, Told, PushTurn, pc \in Untold \ {"notice"}, UNCHANGED repeat_noticed
  PROVE  /\ turns' = step /\ notice' = None
         /\ \A key \in repeat_noticed' : key \in announced'
<1>1. Halting \cup {"loop_stop"} \subseteq PCs /\ pc \notin Halting \cup {"loop_stop"} /\ pc # "notice"
  BY DEF Untold, Halting, PCs
<1>2. turns = step - 1 /\ turns' = turns + 1 /\ step \in Nat
  BY <1>1 DEF Told, PushTurn, Types
<1>3. \A key \in repeat_noticed : key \in announced \cup {notice} /\ key # None
  BY <1>1, RunLoopAssumption DEF Told, Types, DetectorTypeOK
<1> QED BY <1>2, <1>3 DEF PushTurn

(* No step goes untold, and no repeat is stopped that was not announced.    *)
LEMMA ToldOK ==
  ASSUME Types, Types', Told, Next
  PROVE  Told'
<1> USE DEF still, told, context, detector, repeats
<1>1. CASE Begin
  <2>1. /\ pc = "begin" /\ pc' \in {"charge", "stopping"} /\ step' = step + 1
        /\ UNCHANGED <<turns, announced, notice, repeat_noticed, reply>>
    BY <1>1 DEF Begin, Checked, Goto, Stop
  <2>2. pc \in Unnoticed /\ pc \notin Untold /\ pc \notin Halting \cup {"loop_stop"} /\ "charge" \in Untold
    BY <2>1 DEF Untold, Unnoticed, Halting, Permitted, PCs
  <2> QED BY <2>1, <2>2 DEF Told, Halting, Types
<1>2. CASE \/ Charge \/ ChargeReplyTime \/ ChargeCompletion \/ ChargeModelError \/ FormatError \/ ChargeCallTime
           \/ BuildContext \/ BuildContextFails \/ Request \/ RequestFails \/ ModelReplies \/ ParseFails \/ Parse
           \/ Decide \/ Intend \/ SubmitRequested \/ SubmitFinished \/ Execute \/ Finish
  <2>1. /\ UNCHANGED <<step, turns, announced, notice, repeat_noticed>>
        /\ pc \notin Halting \cup {"loop_stop", "notice"} /\ pc' \in PCs
    BY <1>2 DEF Charge, ChargeReplyTime, ChargeCompletion, ChargeModelError, FormatError, ChargeCallTime,
       BuildContext, BuildContextFails, Request, RequestFails, ModelReplies, ParseFails, Parse,
       Decide, Intend, SubmitRequested, SubmitFinished, Execute, Finish, Halting, Types
  <2>2. \/ pc' = "stopping"
        \/ pc = "tick" /\ pc' = "budgets_3"
        \/ /\ pc \in {"charge", "replied", "tokens", "format_error", "context", "request", "model", "parse"}
           /\ pc' \in {"budgets_1", "tokens", "budgets_2", "format_error", "stall", "request", "model", "replied", "detect"}
        \/ /\ pc \in {"decide", "intent", "submit", "execute", "finish"}
           /\ pc' \in {"intent", "denied", "submit", "execute", "submitted", "finish", "observe"}
    BY <1>2 DEF Charge, ChargeReplyTime, ChargeCompletion, ChargeModelError, FormatError, ChargeCallTime,
       BuildContext, BuildContextFails, Request, RequestFails, ModelReplies, ParseFails, Parse,
       Decide, Intend, SubmitRequested, SubmitFinished, Execute, Finish, Checked, Record, Goto, Stop
  <2>3. \/ pc' \in Halting
        \/ pc' # "loop_stop" /\ (pc' \in Untold <=> pc \in Untold) /\ (pc' \in Unnoticed => pc \in Unnoticed)
    BY <2>2 DEF Untold, Unnoticed, Halting, Permitted, PCs
  <2> QED BY <2>1, <2>3, ToldKept
<1>3. CASE ObserveBudget
  <2> DEFINE last == observing + 1 = Len(BUDGET_DIMS)
             to   == IF last THEN AfterBudgets(pc) ELSE pc
  <2>1. pc \in Observing /\ pc' \in {to, "stopping"}
    BY <1>3 DEF ObserveBudget, Observing, Goto, Stop, Record
  <2>2. \/ to = pc
        \/ pc = "budgets_1" /\ to = "context"
        \/ pc = "budgets_2" /\ to = "parse"
        \/ pc = "budgets_3" /\ to = "begin"
    BY <2>1 DEF AfterBudgets, Observing
  <2> HIDE DEF to
  <2>3. \/ pc' \in Halting
        \/ pc' # "loop_stop" /\ (pc' \in Untold <=> pc \in Untold) /\ (pc' \in Unnoticed => pc \in Unnoticed)
    BY <2>1, <2>2 DEF Untold, Unnoticed, Halting, Permitted, PCs, Observing
  <2>4. /\ UNCHANGED <<step, turns, announced, notice, repeat_noticed>>
        /\ pc \notin Halting \cup {"loop_stop", "notice"} /\ pc' \in PCs
    BY <1>3, <2>1 DEF ObserveBudget, Observing, Halting, Types
  <2> QED BY <2>3, <2>4, ToldKept
<1>4. CASE FeedStall \/ Deny \/ Observe
  <2>1. /\ pc \in {"stall", "denied", "observe"} /\ UNCHANGED <<step, repeat_noticed>>
        /\ \/ pc' = "stopping"
           \/ pc' \in {"begin", "tick"} /\ PushTurn
           \/ pc' = "loop_stop" /\ signal' # Repeat
    <3>1. CASE FeedStall
      BY <3>1 DEF FeedStall, ObserveStep, Goto, Stop
    <3>2. CASE Observe
      BY <3>2 DEF Observe, ObserveObservation, Goto
    <3>3. CASE Deny
      <4>1. signal' # Repeat
        BY <3>3, SignalIs DEF Deny, ObserveDenial, Stops, Denied, Quiet, Repeat
      <4> QED BY <3>3, <4>1 DEF Deny, ObserveDenial, Goto
    <3> QED BY <1>4, <3>1, <3>2, <3>3
  <2>2. pc \in Untold \ {"notice"}
    BY <2>1 DEF Untold, Halting, PCs
  <2>3. CASE pc' = "stopping"
    BY <2>3 DEF Told, Halting, Unnoticed, PCs
  <2>4. CASE pc' \in {"begin", "tick"} /\ PushTurn
    <3>1. /\ turns' = step /\ notice' = None
          /\ \A key \in repeat_noticed' : key \in announced'
      BY <2>1, <2>2, <2>4, PushTurnTells
    <3> QED BY <2>1, <2>4, <3>1 DEF Told, Untold
  <2>5. CASE pc' = "loop_stop" /\ signal' # Repeat
    BY <2>5 DEF Told, Unnoticed
  <2> QED BY <2>1, <2>3, <2>4, <2>5
<1>5. CASE Detect
  <2>1. /\ pc = "detect" /\ UNCHANGED <<step, turns, announced, notice, reply>> /\ reply \in Keys
        /\ \/ pc' = "loop_stop" /\ signal' \in Stops
           \/ pc' = "notice" /\ signal' \notin Stops
           \/ pc' = "decide" /\ signal' \notin Stops \cup {Notice}
    BY <1>5 DEF Detect, Goto, Types, Acting
  <2>2. pc \in Untold /\ pc \in Unnoticed /\ "notice" \in Untold /\ "decide" \in Untold /\ "decide" \notin Unnoticed
    BY <2>1 DEF Untold, Unnoticed, Halting, Permitted, PCs
  <2>3. /\ turns = step - 1 /\ notice = None
        /\ \A key \in repeat_noticed : key \in announced
    <3>1. \A key \in repeat_noticed : key # None
      BY RunLoopAssumption DEF Types, DetectorTypeOK
    <3> QED BY <2>1, <2>2, <3>1 DEF Told, Halting
  <2>4. \/ UNCHANGED repeat_noticed /\ Signal(Quiet)
        \/ /\ repeat_noticed' = repeat_noticed \cup {reply}
           /\ Signal(IF reply \in repeat_noticed THEN Repeat ELSE Notice)
    BY <1>5 DEF Detect, ObserveAction
  <2>5. CASE pc' = "loop_stop"
    <3>1. signal' = Repeat => reply \in repeat_noticed
      BY <2>4, SignalIs DEF Stops, Repeat, Quiet, Notice
    <3> QED BY <2>1, <2>3, <2>5, <3>1 DEF Told, Unnoticed
  <2>6. CASE pc' = "notice"
    <3>1. \A key \in repeat_noticed' : key \in announced \/ key = reply
      BY <2>3, <2>4
    <3> QED BY <2>1, <2>2, <2>3, <2>6, <3>1 DEF Told
  <2>7. CASE pc' = "decide"
    <3>1. \A key \in repeat_noticed' : key \in announced
      BY <2>1, <2>3, <2>4, <2>7 DEF Signal, Stops
    <3> QED BY <2>1, <2>2, <2>3, <2>7, <3>1 DEF Told
  <2> QED BY <2>1, <2>5, <2>6, <2>7
<1>6. CASE GiveNotice
  <2>1. /\ pc = "notice" /\ pc' \in {"decide", "stopping"} /\ notice' = reply
        /\ UNCHANGED <<step, turns, announced, reply, repeat_noticed>>
    BY <1>6 DEF GiveNotice, Record, Goto, Stop
  <2>2. pc \in Untold /\ pc \in Unnoticed /\ "decide" \in Untold /\ "decide" \notin Unnoticed
    BY <2>1 DEF Untold, Unnoticed, Halting, Permitted, PCs
  <2>3. /\ turns = step - 1 /\ \A key \in repeat_noticed : key \in announced \cup {None, reply}
    BY <2>1, <2>2 DEF Told, Halting
  <2>4. \A key \in repeat_noticed : key # None
    BY RunLoopAssumption DEF Types, DetectorTypeOK
  <2> QED BY <2>1, <2>2, <2>3, <2>4 DEF Told, Halting, Unnoticed
<1>7. CASE LoopStop \/ Commit
  <2>1. pc' \in Halting
    BY <1>7 DEF LoopStop, Commit, Record, Stop, Halting
  <2> QED BY <2>1 DEF Told, Halting, Unnoticed
<1> QED BY <1>1, <1>2, <1>3, <1>4, <1>5, <1>6, <1>7 DEF Next

-----------------------------------------------------------------------------
(* Nothing is spent, allowed or recorded yet.                               *)
LEMMA InitOK ==
  ASSUME Init
  PROVE  IInv
<1>1. 0 \in Counter
  BY ConstantsAre DEF Counter
<1>2. MeterTypeOK /\ exhaustion = None
  BY <1>1 DEF Init, MeterInit, MeterTypeOK
<1>3. Budgets
  BY <1>2 DEF Init, Budgets, Halting
<1>4. Permits
  BY DEF Init, Permits, Permitted, Halting
<1>5. Scans(EmptyScan)
  BY DEF EmptyScan, Scans, Fields
<1>6. Evidence
  BY <1>5 DEF Init, EmptyScan, Evidence, Calling
<1>7. DetectorTypeOK
  <2>1. <<>> \in Seq(Keys) /\ Len(<<>>) = 0
    OBVIOUS
  <2> QED BY <2>1, DetectorAssumption DEF Init, DetectorInit, DetectorTypeOK
<1>8. Types
  <2>1. EmptyScan.intents = {} /\ EmptyScan.standing = {}
    BY DEF EmptyScan
  <2>2. "begin" \in PCs /\ "begin" \notin Acting /\ None \in Causes
    BY DEF PCs, Acting, Permitted, Causes
  <2>3. 0 \in 0..(Len(BUDGET_DIMS) - 1)
    BY DimensionsAre
  <2>4. /\ pc = "begin" /\ step = 0 /\ cause = None /\ granted \subseteq Keys /\ poison = FALSE
        /\ active = {} /\ observing = 0 /\ reader = EmptyScan
    BY DEF Init
  <2>5. /\ prompt = 0 /\ reply = None /\ result = None /\ notice = None /\ turns = 0
        /\ announced = {} /\ executed = {} /\ released = None
    BY DEF Init
  <2> QED BY <1>7, <2>1, <2>2, <2>3, <2>4, <2>5 DEF Types
<1>9. Standing
  BY DEF Init, Standing, EmptyScan, Observing, Current, Halting
<1>10. Told
  BY DEF Init, DetectorInit, Told, Untold
<1> QED BY <1>3, <1>4, <1>6, <1>8, <1>9, <1>10 DEF IInv

(* The three follow pc through every step.                                  *)
THEOREM Inductive == Spec => []IInv
<1>1. Init => IInv
  BY InitOK
<1>2. IInv /\ [Next]_vars => IInv'
  <2> SUFFICES ASSUME IInv, [Next]_vars
               PROVE  IInv'
    OBVIOUS
  <2>1. CASE Next
    <3>1. Budgets' /\ Permits' /\ Evidence'
      BY <2>1, BudgetsOK, PermitsOK, EvidenceOK DEF IInv
    <3>2. Types'
      BY <2>1, <3>1, TypesOK DEF IInv, Budgets
    <3>3. Standing' /\ Told'
      BY <2>1, <3>2, StandingOK, ToldOK DEF IInv
    <3> QED BY <3>1, <3>2, <3>3 DEF IInv
  <2>2. CASE UNCHANGED vars
    <3> USE <2>2 DEF IInv, vars, context, told, writer
    <3>1. Budgets'
      BY DEF Budgets, Kept, MeterTypeOK, meter, spend, wall, rounds
    <3>2. Permits' /\ Evidence'
      BY DEF Permits, Evidence, Scans
    <3>3. Types'
      BY DetectorKeeps DEF Types, detector
    <3>4. Standing'
      BY UsageStill, DimensionsAre DEF Standing, Types
    <3>5. Told'
      BY DEF Told, detector, repeats
    <3> QED BY <3>1, <3>2, <3>3, <3>4, <3>5
  <2> QED BY <2>1, <2>2
<1> QED BY <1>1, <1>2, PTL DEF Spec

(* Journal first, then charge: whichever append fails, whatever ends the    *)
(* run and wherever a kill falls, the audit pairs what it reads.            *)
THEOREM EvidencePairsHolds == Spec => []EvidencePairs
<1>1. IInv => EvidencePairs
  BY DEF IInv, Evidence, Permits, EvidencePairs, Calling
<1> QED BY <1>1, Inductive, PTL

(* Nothing is asked of the model and no provider runs with a budget that    *)
(* was not checked, or for a call that was not allowed and announced.       *)
THEOREM NothingStartsUnpermittedHolds == Spec => []NothingStartsUnpermitted
<1>1. IInv => NothingStartsUnpermitted
  BY DEF IInv, Budgets, Kept, Permits, Permitted, Evidence, Calling, Halting, NothingStartsUnpermitted
<1> QED BY <1>1, Inductive, PTL

(* INV-14: an exhausted run only stops, and gives that budget as its cause. *)
THEOREM ExhaustionStopsTheRunHolds == Spec => []ExhaustionStopsTheRun
<1>1. IInv => ExhaustionStopsTheRun
  BY DEF IInv, Budgets, Halting, ExhaustionStopsTheRun
<1> QED BY <1>1, Inductive, PTL

(* observe_budgets: no crossing of 80% is journaled twice or left out, and  *)
(* where the model is asked or its reply parsed the journal is up to date.  *)
THEOREM ConditionsAreCurrentHolds == Spec => []ConditionsAreCurrent
<1>1. IInv => ConditionsAreCurrent
  <2> SUFFICES ASSUME IInv, pc \in Current
               PROVE  reader.standing = {dim \in Dimensions : Above80(dim)}
    BY DEF IInv, Standing, ConditionsAreCurrent, Current
  <2>1. ~poison /\ reader.standing = active /\ active \subseteq Dimensions
    BY DEF IInv, Permits, Standing, Types, Current, Halting
  <2>2. \A dim \in Dimensions : dim \in active <=> Above80(dim)
    BY DEF IInv, Standing
  <2> QED BY <2>1, <2>2
<1> QED BY <1>1, Inductive, PTL

(* Every step the run survives gives the model one turn to read, and a run  *)
(* that stops for a repeated call told the model of that call before.       *)
THEOREM ToldBeforeStoppedHolds == Spec => []ToldBeforeStopped
<1>1. IInv => ToldBeforeStopped
  BY DEF IInv, Told, ToldBeforeStopped, Untold, Halting
<1> QED BY <1>1, Inductive, PTL

(* Every variable keeps its type, whatever is replied, denied or not        *)
(* appended.                                                                *)
THEOREM TypeCorrect == Spec => []TypeOK
<1>1. IInv => TypeOK
  <2> SUFFICES ASSUME IInv PROVE TypeOK
    OBVIOUS
  <2>1. Types /\ MeterTypeOK /\ reader.results \subseteq reader.intents
    BY DEF IInv, Budgets, Evidence
  <2>2. observing \in 0..Len(BUDGET_DIMS)
    BY <2>1, DimensionsAre DEF Types
  <2> QED BY <2>1, <2>2 DEF Types, TypeOK
<1> QED BY <1>1, Inductive, PTL
=============================================================================
