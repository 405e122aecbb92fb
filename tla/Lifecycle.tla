------------------------------ MODULE Lifecycle ------------------------------
(***************************************************************************)
(* The life of one run over its attempts: `run` (harness-run/src/driver.rs) *)
(* and `resume` and `audit` (harness-run/src/replay.rs), invoked by several *)
(* processes on one run directory, each of which may be killed anywhere.    *)
(*                                                                          *)
(* All three drive the same loop.  Of its records those are kept that carry *)
(* what a replay consumes or the comparison of an audit can tell apart:     *)
(* ContextBuilt, ActionParsed and PolicyDecided are recomputed from the     *)
(* same inputs as the ModelRequested and ToolStarted they go with, and      *)
(* every call is one that policy allows.  RunLoop has the step in full.     *)
(*                                                                          *)
(* A record is whole once written: what a failed append or a torn line      *)
(* leaves is what a kill before it leaves, and Journal is about the rest.   *)
(***************************************************************************)
EXTENDS Naturals, SequencesExt, Choice

CONSTANTS
  Processes,    \* invocations of the program on this run
  Calls,        \* the actions a reply may hold, besides submitting
  Results,      \* what a provider may return
  Delays,       \* how long a model call or a tool call may take
  StepLimit, WallLimit,
  MaxAttempts,  \* bound: attempts of the run
  Verbs,        \* bound: what is invoked after `run`, of "resume" and "audit"
  None

Submit        == "submit"
Malformed     == "malformed"       \* a reply without one usable action
Unavailable   == "unavailable"
Diverged      == "replay_diverged"
ProviderError == "provider_error"

NothingChecked == "indeterminate:nothing_checked"
CouldNotRun    == "indeterminate:could_not_run"
Unreadable     == "indeterminate:unreadable_evidence"

ASSUME LifecycleAssumption ==
  /\ StepLimit \in Nat /\ WallLimit \in Nat /\ MaxAttempts \in Nat /\ Delays \subseteq Nat
  /\ {Submit, Malformed, Unavailable, Diverged, None} \cap Calls = {}
  /\ ProviderError \notin Results

VARIABLES
  attempts,  \* the journals of attempt-1, attempt-2, ...; <<>> before its header
  driver     \* the state of each process

vars == <<attempts, driver>>

Replies == Calls \cup {Submit, Malformed, Unavailable}
Kinds   == {"RunStarted", "BudgetCharged", "ModelRequested", "ModelReplied", "FormatError",
            "ToolStarted", "SubmitRequested", "ToolFinished", "RunStopped"}
Causes  == {"wall", "steps", "model_unavailable", "submitted"}

LoopPCs == {"begin", "budgets_1", "request", "model", "budgets_2", "parse", "submit", "submitted",
            "execute", "budgets_3", "stopping"}
PCs     == {"idle", "list", "mkdir", "header", "compare", "committed", "reported"} \cup LoopPCs

Idle ==
  [pc |-> "idle",
   role |-> None,                      \* "run", "resume" or "audit"
   from |-> 0, head |-> 0,             \* the attempt that was read, and how many of its records
   attempt |-> 0,                      \* the attempt this process writes
   carried |-> 0,                      \* wall time of the attempts before it
   mono |-> 0,                         \* its own time so far
   above |-> FALSE,                    \* the standing condition: wall above 80%
   replies |-> <<>>, results |-> <<>>, \* what is left to replay
   step |-> 0, turns |-> <<>>, reply |-> None,
   intent |-> 0,                       \* sequence number of the intent
   cause |-> None, diverged |-> FALSE,
   copy |-> <<>>,                      \* an audit's own journal, replay-<k>
   anchored |-> FALSE, outcome |-> None]

-----------------------------------------------------------------------------
(***************************************************************************)
(* What a journal recorded.                                                 *)
(***************************************************************************)
Committed(records) == records # <<>> /\ Last(records).kind = "RunStopped"

ModelRecords(records) ==
  Chosen(records, {i \in DOMAIN records : records[i].kind \in {"ModelRequested", "ModelReplied"}})

Paired(records) ==
  LET model == ModelRecords(records)
  IN  /\ Len(model) % 2 = 0
      /\ \A i \in DOMAIN model :
           model[i].kind = IF i % 2 = 1 THEN "ModelRequested" ELSE "ModelReplied"

Exchanges(records) ==
  LET model == ModelRecords(records)
  IN  [i \in 1..Len(model) \div 2 |->
         [request |-> model[2*i - 1].body[1], reply |-> model[2*i].body[1]]]

CallOf(records, finished) == records[finished.body[1] + 1].body[1]

RecordedResults(records) ==
  LET finished == Chosen(records, {i \in DOMAIN records : /\ records[i].kind = "ToolFinished"
                                                          /\ CallOf(records, records[i]) # Submit})
  IN  [i \in DOMAIN finished |->
         [call |-> CallOf(records, finished[i]), result |-> finished[i].body[2]]]

LastStep(records) == Max({0} \cup {records[i].step : i \in DOMAIN records})

\* Every step but the last, which may have been cut short.
Kept(records) == Chosen(records, {i \in DOMAIN records : records[i].step < LastStep(records)})

\* The wall time spent up to the last record, and carried into its attempt.
Carried(records) == records[1].body[3] + Last(records).mono

-----------------------------------------------------------------------------
Quietly(p, next) ==
  /\ driver' = [driver EXCEPT ![p] = next]
  /\ UNCHANGED attempts

Write(p, kind, body, next) ==
  LET record == [kind |-> kind, step |-> next.step, mono |-> next.mono, body |-> body]
  IN  IF next.role = "audit"
      THEN Quietly(p, [next EXCEPT !.copy = Append(@, record)])
      ELSE /\ driver' = [driver EXCEPT ![p] = next]
           /\ attempts' = [attempts EXCEPT ![next.attempt] = Append(@, record)]

\* The sequence number of the record a process writes next.
NextSeq(d) == Len(IF d.role = "audit" THEN d.copy ELSE attempts[d.attempt])

At(p, pc)     == driver[p].pc = pc
Goto(d, pc)   == [d EXCEPT !.pc = pc]
Stop(d, why)  == [d EXCEPT !.pc = "stopping", !.cause = why]

\* An audit's meter has no wall limit.
Elapsed(d)    == d.carried + d.mono
WallIsUp(d)   == d.role # "audit" /\ Elapsed(d) >= WallLimit
WallAbove80(d) == d.role # "audit" /\ WallLimit > 0 /\ Elapsed(d) * 5 >= WallLimit * 4
Ticked(d, pc) == IF WallIsUp(d) THEN Stop(d, "wall") ELSE Goto(d, pc)

-----------------------------------------------------------------------------
(***************************************************************************)
(* Starting: `run` makes the first attempt, `resume` one that continues the *)
(* latest, an attempt without RunStopped whose journal verifies.  A refusal *)
(* writes nothing and changes nothing here.                                 *)
(***************************************************************************)
Init ==
  /\ attempts = <<>>
  /\ \E first \in Processes :
       driver = [p \in Processes |->
                   IF p = first THEN [Idle EXCEPT !.pc = "list", !.role = "run"] ELSE Idle]

\* Mutant: the results of every step are fed, the replies of the kept ones.
ResumeFeedsAll(p) ==
  LET n       == Len(attempts)
      records == attempts[n]
      kept    == Kept(records)
  IN  /\ At(p, "idle") /\ "resume" \in Verbs /\ n > 0
      /\ records # <<>> /\ ~Committed(records) /\ Paired(kept)
      /\ Quietly(p, [Idle EXCEPT
           !.pc = "list", !.role = "resume",
           !.from = n, !.head = Len(records), !.carried = Carried(records),
           !.replies = Exchanges(kept), !.results = RecordedResults(records)])

Resume(p) ==
  LET n       == Len(attempts)
      records == attempts[n]
      kept    == Kept(records)
  IN  /\ At(p, "idle") /\ "resume" \in Verbs /\ n > 0
      /\ records # <<>> /\ ~Committed(records) /\ Paired(kept)
      /\ Quietly(p, [Idle EXCEPT
           !.pc = "list", !.role = "resume",
           !.from = n, !.head = Len(records), !.carried = Carried(records),
           !.replies = Exchanges(kept), !.results = RecordedResults(kept)])

\* create_next_attempt: one past the highest, which another process may take first.
ListAttempts(p) ==
  /\ At(p, "list")
  /\ Len(attempts) < MaxAttempts
  /\ Quietly(p, [Goto(driver[p], "mkdir") EXCEPT !.attempt = Len(attempts) + 1])

\* Mutant: create_dir_all, which accepts a directory that is there.
MakeAttemptAll(p) ==
  LET d == driver[p]
  IN  /\ At(p, "mkdir")
      /\ driver' = [driver EXCEPT ![p] = Goto(d, "header")]
      /\ attempts' = IF d.attempt > Len(attempts) THEN Append(attempts, <<>>) ELSE attempts

MakeAttempt(p) ==
  LET d == driver[p]
  IN  /\ At(p, "mkdir")
      /\ IF d.attempt > Len(attempts)
         THEN /\ driver' = [driver EXCEPT ![p] = Goto(d, "header")]
              /\ attempts' = Append(attempts, <<>>)
         ELSE Quietly(p, Idle)

\* Mutant: only the time of the attempt that was read is carried on.
WriteHeaderUncarried(p) ==
  LET d == driver[p]
      own == IF d.from = 0 THEN 0 ELSE attempts[d.from][d.head].mono
  IN  /\ At(p, "header")
      /\ Write(p, "RunStarted", <<d.from, d.head, own>>, [Goto(d, "begin") EXCEPT !.carried = own])

WriteHeader(p) ==
  LET d == driver[p]
  IN  /\ At(p, "header")
      /\ Write(p, "RunStarted", <<d.from, d.head, d.carried>>, Goto(d, "begin"))

-----------------------------------------------------------------------------
(***************************************************************************)
(* The loop.                                                                *)
(***************************************************************************)
Begin(p) ==
  LET d == [driver[p] EXCEPT !.step = @ + 1]
  IN  /\ At(p, "begin")
      /\ Quietly(p, IF WallIsUp(d) THEN Stop(d, "wall")
                    ELSE IF d.step > StepLimit THEN Stop(d, "steps")
                    ELSE Goto(d, "budgets_1"))

AfterBudgets(at) ==
  CASE at = "budgets_1" -> "request" [] at = "budgets_2" -> "parse" [] at = "budgets_3" -> "begin"

\* Of the standing conditions only the wall's: time only grows, so it never ends.
ObserveBudgets(p) ==
  LET d    == driver[p]
      next == [Goto(d, AfterBudgets(d.pc)) EXCEPT !.above = WallAbove80(d)]
  IN  /\ d.pc \in {"budgets_1", "budgets_2", "budgets_3"}
      /\ IF next.above = d.above THEN Quietly(p, next)
         ELSE Write(p, "BudgetCharged", <<"wall">>, next)

\* The request is rendered from the turns, with the recorded nonce if there is one.
Request(p) ==
  LET d == driver[p]
  IN  /\ At(p, "request")
      /\ Write(p, "ModelRequested", <<d.turns>>, Goto(d, "model"))

\* The reply is journaled, then its time is charged.
Replied(p, reply, d) ==
  Write(p, "ModelReplied", <<reply>>,
        IF WallIsUp(d) THEN Stop(d, "wall")
        ELSE IF reply \in {Unavailable, Diverged} THEN Stop(d, "model_unavailable")
        ELSE [Goto(d, "budgets_2") EXCEPT !.reply = reply])

\* The live model answers: for `resume` once the recording is exhausted.
AsksLive(d) == d.pc = "model" /\ d.role # "audit" /\ d.replies = <<>>

LiveReply(p) ==
  LET d == driver[p]
  IN  /\ AsksLive(d)
      /\ \E reply \in Replies, delay \in Delays : Replied(p, reply, [d EXCEPT !.mono = @ + delay])

Fits(d) == d.replies # <<>> /\ Head(d.replies).request = d.turns

\* A replayed exchange takes no time the wall could tell.
ReplayedReply(p) ==
  LET d == driver[p]
  IN  /\ At(p, "model") /\ Fits(d)
      /\ Replied(p, Head(d.replies).reply, [d EXCEPT !.replies = Tail(@)])

ReplayDiverges(p) ==
  LET d == driver[p]
  IN  /\ At(p, "model") /\ ~Fits(d) /\ ~AsksLive(d)
      /\ Replied(p, Diverged, [d EXCEPT !.diverged = d.role = "resume"])

PushTurn(d, feedback) ==
  [d EXCEPT !.turns = Append(@, <<d.reply, feedback>>), !.reply = None, !.intent = 0]

ParseFails(p) ==
  LET d == driver[p]
  IN  /\ At(p, "parse") /\ d.reply = Malformed
      /\ Write(p, "FormatError", <<>>, Goto(PushTurn(d, None), "begin"))

Intend(p) ==
  LET d == driver[p]
  IN  /\ At(p, "parse") /\ d.reply # Malformed
      /\ Write(p, "ToolStarted", <<d.reply>>,
               [Goto(d, IF d.reply = Submit THEN "submit" ELSE "execute") EXCEPT !.intent = NextSeq(d)])

SubmitRequested(p) ==
  LET d == driver[p]
  IN  /\ At(p, "submit")
      /\ Write(p, "SubmitRequested", <<d.intent>>, Goto(d, "submitted"))

SubmitFinished(p) ==
  LET d == driver[p]
  IN  /\ At(p, "submitted")
      /\ Write(p, "ToolFinished", <<d.intent, "ok">>, Stop(d, "submitted"))

\* The result is journaled and shown, then its time is charged.
Finished(p, result, d) ==
  Write(p, "ToolFinished", <<d.intent, result>>, Ticked(PushTurn(d, result), "budgets_3"))

\* Mutant: the catch-up runs the call again.
ExecuteAgain(p) ==
  LET d == driver[p]
  IN  /\ At(p, "execute") /\ d.role # "audit"
      /\ \E result \in Results \cup {ProviderError}, delay \in Delays :
           Finished(p, result, [d EXCEPT !.mono = @ + delay, !.results = IF @ = <<>> THEN @ ELSE Tail(@)])

Execute(p) ==
  LET d == driver[p]
  IN  /\ At(p, "execute") /\ d.role # "audit" /\ d.results = <<>>
      /\ \E result \in Results \cup {ProviderError}, delay \in Delays :
           Finished(p, result, [d EXCEPT !.mono = @ + delay])

\* A recorded result for another call is a provider failure.
FeedResult(p) ==
  LET d      == driver[p]
      fed    == Head(d.results)
  IN  /\ At(p, "execute") /\ d.results # <<>>
      /\ Finished(p, IF fed.call = d.reply THEN fed.result ELSE ProviderError,
                  [d EXCEPT !.results = Tail(@)])

\* No provider runs in an audit.
NothingToFeed(p) ==
  LET d == driver[p]
  IN  /\ At(p, "execute") /\ d.role = "audit" /\ d.results = <<>>
      /\ Finished(p, ProviderError, d)

\* Mutant: the record of a stop is written again.
CommitAgain(p) ==
  LET d == driver[p]
  IN  /\ At(p, "stopping")
      /\ Write(p, "RunStopped", <<d.cause, NothingChecked>>, d)

Commit(p) ==
  LET d       == driver[p]
      outcome == IF d.diverged THEN Unreadable ELSE NothingChecked
  IN  /\ At(p, "stopping")
      /\ Write(p, "RunStopped", <<d.cause, outcome>>,
               IF d.role = "audit" THEN Goto(d, "compare")
               ELSE [Goto(d, "committed") EXCEPT !.outcome = outcome])

-----------------------------------------------------------------------------
(***************************************************************************)
(* Audit: an attempt is replayed into a journal of its own and compared.    *)
(***************************************************************************)
Snapshot(d) == SubSeq(attempts[d.from], 1, d.head)

\* Mutant: the wall's records are compared like any other.
ComparableAll(records) == Tail(records)

Comparable(records) == Chosen(records, {i \in DOMAIN records \ {1} : records[i].kind # "BudgetCharged"})

Matches(recorded, replayed, i) ==
  /\ i \in DOMAIN replayed
  /\ replayed[i].kind = recorded[i].kind /\ replayed[i].step = recorded[i].step
  /\ replayed[i].body = recorded[i].body

Compare(records, copy) ==
  LET recorded == Comparable(records)
      replayed == Comparable(copy)
      body     == IF Committed(records) THEN Front(recorded) ELSE recorded
      stop     == Len(recorded)
  IN  IF \E i \in DOMAIN body : ~Matches(recorded, replayed, i) THEN "diverged"
      ELSE IF ~Committed(records) \/ recorded[stop].body[1] = "wall" THEN "not_recomputed"
      ELSE IF Len(replayed) = stop /\ Matches(recorded, replayed, stop) THEN "recomputed"
      ELSE "diverged"

RecordedOutcome(records) == IF Committed(records) THEN Last(records).body[2] ELSE CouldNotRun

\* With or without the chain head that the run's report gave.
Reported(d, compared, anchored) ==
  [Goto(d, "reported") EXCEPT
     !.diverged = compared = "diverged", !.anchored = anchored,
     !.outcome  = IF \/ compared = "diverged"
                     \/ Committed(Snapshot(d)) /\ compared = "not_recomputed" /\ ~anchored
                  THEN Unreadable
                  ELSE RecordedOutcome(Snapshot(d))]

\* Any attempt may be audited.
Audit(p) ==
  \E n \in DOMAIN attempts :
    LET records == attempts[n]
        d == [Idle EXCEPT !.role = "audit", !.from = n, !.head = Len(records)]
    IN  /\ At(p, "idle") /\ "audit" \in Verbs
        /\ Quietly(p, IF records = <<>> \/ ~Paired(records) THEN Reported(d, "diverged", FALSE)
             ELSE [Goto(d, "begin") EXCEPT
                     !.replies = Exchanges(records), !.results = RecordedResults(records),
                     !.copy = <<[kind |-> "RunStarted", step |-> 0, mono |-> 0, body |-> <<0, 0, 0>>]>>])

Report(p) ==
  LET d == driver[p]
  IN  /\ At(p, "compare")
      /\ \E anchored \in BOOLEAN :
           Quietly(p, Reported(d, Compare(Snapshot(d), d.copy), anchored))

-----------------------------------------------------------------------------
\* The process ends, or is killed.
Exit(p) == driver[p].pc \in {"committed", "reported"} /\ Quietly(p, Idle)
Kill(p) == driver[p].pc \notin {"idle", "committed", "reported"} /\ Quietly(p, Idle)

Loop(p) ==
  \/ Begin(p) \/ ObserveBudgets(p) \/ Request(p)
  \/ LiveReply(p) \/ ReplayedReply(p) \/ ReplayDiverges(p)
  \/ ParseFails(p) \/ Intend(p) \/ SubmitRequested(p) \/ SubmitFinished(p)
  \/ Execute(p) \/ FeedResult(p) \/ NothingToFeed(p)
  \/ Commit(p)

Next == \E p \in Processes :
  \/ Resume(p) \/ ListAttempts(p) \/ MakeAttempt(p) \/ WriteHeader(p)
  \/ Loop(p)
  \/ Audit(p) \/ Report(p)
  \/ Exit(p) \/ Kill(p)

Spec == Init /\ [][Next]_vars

-----------------------------------------------------------------------------
\* An attempt's header, when it has one.
Begun(n)       == n \in DOMAIN attempts /\ attempts[n] # <<>>
ResumedFrom(n) == attempts[n][1].body[1]
ResumedAt(n)   == attempts[n][1].body[2]

\* What the process that made attempt n read of the one it continues.
Continued(n) == SubSeq(attempts[ResumedFrom(n)], 1, ResumedAt(n))

Ancestors[n \in 0..MaxAttempts] ==
  IF ~Begun(n) \/ ResumedFrom(n) = 0 THEN {} ELSE {ResumedFrom(n)} \cup Ancestors[ResumedFrom(n)]

WallBefore[n \in 0..MaxAttempts] ==
  IF ~Begun(n) \/ ResumedFrom(n) = 0 THEN 0
  ELSE WallBefore[ResumedFrom(n)] + Last(Continued(n)).mono

TypeOK ==
  /\ Len(attempts) <= MaxAttempts
  /\ \A n \in DOMAIN attempts : \A i \in DOMAIN attempts[n] :
       LET r == attempts[n][i]
       IN  /\ r.kind \in Kinds /\ r.mono \in Nat /\ r.step \in 0..StepLimit + 1
           /\ (r.kind = "RunStarted") <=> (i = 1)
           /\ r.kind = "RunStopped" => i = Len(attempts[n]) /\ r.body[1] \in Causes
           /\ i > 1 => r.step >= attempts[n][i - 1].step /\ r.mono >= attempts[n][i - 1].mono
  /\ \A p \in Processes :
       LET d == driver[p]
       IN  /\ d.pc \in PCs /\ d.role \in {None, "run", "resume", "audit"}
           /\ d.from \in 0..Len(attempts) /\ d.step \in 0..StepLimit + 1
           /\ d.reply \in Replies \cup {None} /\ d.cause \in Causes \cup {None}
           /\ d.outcome \in {None, NothingChecked, CouldNotRun, Unreadable}

-----------------------------------------------------------------------------
\* Single writer (design 7.1): processes that race for a run never write the
\* journal of one attempt, although nothing locks it.
Writes(p) == driver[p].role # "audit" /\ driver[p].pc \in LoopPCs \cup {"header"}

OneWriter ==
  \A p, q \in Processes : Writes(p) /\ Writes(q) /\ driver[p].attempt = driver[q].attempt => p = q

\* The catch-up's two cursors agree at every step: the calls in the replies not
\* yet replayed are those of the results not yet fed, in order.  Otherwise a live
\* call is answered with an old result, or a recorded call runs again.
CallsIn(replies) ==
  LET called == Chosen(replies, {i \in DOMAIN replies :
                                   replies[i].reply \notin {Submit, Malformed, Unavailable, Diverged}})
  IN  [i \in DOMAIN called |-> called[i].reply]

CursorsAgree ==
  \A p \in Processes :
    LET d == driver[p]
    IN  d.role = "resume" /\ d.pc = "begin" =>
          CallsIn(d.replies) = [i \in DOMAIN d.results |-> d.results[i].call]

\* A resumed attempt repeats every step it kept record for record (2.10), whatever
\* time it took, as long as the wall lets it: it neither diverges nor decides
\* differently.  Intent numbers and wall conditions are its own.
Content(r) ==
  CASE r.kind = "ToolFinished"    -> <<r.kind, r.step, r.body[2]>>
    [] r.kind = "SubmitRequested" -> <<r.kind, r.step>>
    [] OTHER                      -> <<r.kind, r.step, r.body>>

RepeatsTheRecord ==
  \A n \in DOMAIN attempts :
    Begun(n) /\ ResumedFrom(n) # 0 /\ Kept(Continued(n)) # <<>> =>
      LET kept == Comparable(Kept(Continued(n)))
          own  == Comparable(attempts[n])
      IN  \A i \in DOMAIN kept \cap DOMAIN own :
            \/ Content(own[i]) = Content(kept[i])
            \/ own[i].kind = "RunStopped" /\ own[i].body[1] = "wall"

\* A kill and resume buys no fresh wall budget (2.10): the live model is asked only
\* while what all the attempts before spent, as each was read, and this one's own
\* time are within it.
WallIsCarried ==
  \A p \in Processes :
    LET d == driver[p] IN AsksLive(d) => WallBefore[d.attempt] + d.mono < WallLimit

\* The audit of a journal this code wrote ends as the journal did (INV-20), with two
\* exceptions: a request that never got its reply, and a wall condition journaled
\* before an intent, which shifts the numbers of the intents after it.
Shifted(records) ==
  \E i, j \in DOMAIN records :
    i < j /\ records[i].kind = "BudgetCharged" /\ records[j].kind = "ToolStarted"

AuditConfirms ==
  \A p \in Processes :
    LET d       == driver[p]
        records == Snapshot(d)
        byWall  == Committed(records) /\ Last(records).body[1] = "wall"
    IN  /\ At(p, "reported") /\ records # <<>> /\ Paired(records) /\ ~Shifted(records)
        => /\ ~d.diverged
           /\ d.outcome = IF byWall /\ ~d.anchored THEN Unreadable
                          ELSE RecordedOutcome(records)

\* Replay.rs, module documentation: a wall BudgetCharged record is left out of the
\* comparison on both sides; so it is never why an attempt that ended is unreadable.
WallLeftOut ==
  \A p \in Processes :
    At(p, "reported") /\ Committed(Snapshot(driver[p])) => ~driver[p].diverged

\* Replay.rs, module documentation: steps are charged again by the catch-up.  So no
\* live step is one that an earlier attempt had already completed.
StepsRecharged ==
  \A p \in Processes :
    LET d == driver[p]
    IN  AsksLive(d) => \A a \in Ancestors[d.attempt] : LastStep(attempts[a]) <= d.step
=============================================================================
