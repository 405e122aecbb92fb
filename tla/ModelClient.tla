----------------------------- MODULE ModelClient -----------------------------
(***************************************************************************)
(* One call of the model server: startup_check and complete                 *)
(* (harness-model/src/client.rs) over exchange (http.rs).  The server may   *)
(* refuse, stall, trickle, close early or answer anything; time passes      *)
(* between any two calls of the operating system, which may each be late    *)
(* by `Slack`.  `now` counts from the start of the call.                    *)
(***************************************************************************)
EXTENDS Reply

CONSTANTS
  Deadline, CONNECT_TIMEOUT, READ_TIMEOUT,
  MAX_RETRIES, BASE, CAP,   \* RetryPolicy
  MAX_BODY,                 \* max_body_bytes, in events
  Slack,
  Answers,                  \* what the server may answer a chat request
  Listings,                 \* what it may answer GET /models
  MaxTime                   \* bound: how long a request may drain

Answering(answer) == /\ answer.status \in Nat /\ answer.after \in Nat
                     /\ answer.events \in Seq(Range(answer.events))

ASSUME ModelClientAssumption ==
  /\ {Deadline, CONNECT_TIMEOUT, READ_TIMEOUT} \subseteq Nat \ {0}
  /\ {MAX_RETRIES, BASE, CAP, MAX_BODY, Slack, MaxTime} \subseteq Nat
  /\ \A n \in 0..MAX_RETRIES : BASE * 2 ^ n \in Nat
  /\ \A answer \in Answers  : Answering(answer)
  /\ \A answer \in Listings : Answering(answer)

VARIABLE call

NoAnswer == [head |-> "none"]
NoPrev   == [status |-> 0, after |-> 0, ended |-> 0]

\* began, prev, served and drained are history: when the attempt began, how
\* the one before ended, every status served, and a request that drained slowly.
NoCall == [pc |-> "idle"]
Call(purpose) ==
  [pc |-> "connect", purpose |-> purpose, now |-> 0, attempt |-> 0, retried |-> <<>>, wt |-> 0,
   answer |-> NoAnswer, arrived |-> 0, outcome |-> NoAnswer,
   began |-> 0, prev |-> NoPrev, served |-> <<>>, drained |-> FALSE]

Ready == [is |-> "ready"]
Unavailable(how) == [is |-> "error", why |-> "Unavailable", how |-> how]
RateLimited(statuses) == [is |-> "error", why |-> "RateLimited", statuses |-> statuses]
StatusError(statuses) == [is |-> "error", why |-> "Status", statuses |-> statuses]

Left == Deadline - call.now
\* What a wait of at most w may take: answered in it, or expired after it.
Within(w)  == 0..w
Expired(w) == w..w + Slack
LateOr(why, t) == IF call.now + t >= Deadline THEN "Deadline" ELSE why

At(t)  == [call EXCEPT !.now = @ + t]
Done(t, outcome) == call' = [At(t) EXCEPT !.pc = "done", !.outcome = outcome]

-----------------------------------------------------------------------------
(***************************************************************************)
(* exchange: connect, then write head and body.                             *)
(***************************************************************************)
\* left(): before the connect, the first write and every read.
PastDeadline ==
  /\ call.pc \in {"connect", "write", "head", "body"} /\ Left <= 0
  /\ Done(0, Unavailable("Deadline"))

Connect ==
  LET wait == Min({CONNECT_TIMEOUT, Left})
  IN  /\ call.pc = "connect" /\ Left > 0
      /\ \/ \E t \in Within(wait) : call' = [At(t) EXCEPT !.pc = "write"]
         \/ Done(0, Unavailable("Connect"))
         \/ \E t \in Expired(wait) : Done(t, Unavailable(LateOr("ConnectTimeout", t)))

\* The write timeout is set once, for all the writes of write_all.
StartWrite ==
  /\ call.pc = "write" /\ Left > 0
  /\ call' = [call EXCEPT !.pc = "writing", !.wt = Min({READ_TIMEOUT, Left})]

Written == call.pc = "writing" /\ call' = [call EXCEPT !.pc = "head"]

WriteSome ==
  /\ call.pc = "writing"
  /\ \E t \in Within(call.wt) \ {0} :
       /\ call.now + t <= MaxTime
       /\ call' = [At(t) EXCEPT !.drained = TRUE]

\* A stalled write is reported as the deadline, whatever the time.
WriteFails ==
  /\ call.pc = "writing"
  /\ \/ \E t \in Expired(call.wt) : Done(t, Unavailable("Deadline"))
     \/ Done(0, Unavailable("Connect"))

-----------------------------------------------------------------------------
(***************************************************************************)
(* The response: its head, then its body, one read at a time.               *)
(***************************************************************************)
ReadWait == Min({READ_TIMEOUT, Left})
Reading  == call.pc \in {"head", "body"} /\ Left > 0

\* Some bytes, not yet a line or an event.
Trickle == Reading /\ \E t \in Within(ReadWait) \ {0} : call' = At(t)

ReadFails ==
  /\ Reading
  /\ \/ \E t \in Expired(ReadWait) : Done(t, Unavailable(LateOr("ReadTimeout", t)))
     \/ Done(0, Unavailable("Connect"))

Of200(answer, arrived) ==
  IF call.purpose = "models"
  THEN IF arrived = Len(answer.events) /\ answer.events = <<"listed">> THEN Ready
       ELSE ModelError("Unusable")
  ELSE ReadReply(answer.type, SubSeq(answer.events, 1, arrived), Len(answer.events) - arrived,
                 call.retried)

IsRetryable(status) == status = 429 \/ status \in 500..599

\* The body is read to its end before the status is looked at.
Receive(c, arrived) ==
  LET answer == c.answer
  IN  call' = IF call.purpose = "chat" /\ IsRetryable(answer.status)
              THEN [c EXCEPT !.pc = "retry", !.retried = Append(@, answer.status), !.arrived = 0]
              ELSE [c EXCEPT !.pc = "done", !.arrived = arrived,
                             !.outcome = IF answer.status = 200 THEN Of200(answer, arrived)
                                         ELSE ModelError("Unusable")]

\* A chunked body has its last, empty chunk.
Needed(answer) == Len(answer.events) + IF answer.framing = "chunked" THEN 1 ELSE 0

Take(c, arrived) ==
  IF arrived = Needed(c.answer) /\ c.answer.framing # "close"
  THEN Receive(c, Min({arrived, Len(c.answer.events)}))
  ELSE call' = [c EXCEPT !.arrived = arrived]

\* parse_head
HeadArrives ==
  /\ call.pc = "head" /\ Reading
  /\ \E answer \in IF call.purpose = "chat" THEN Answers ELSE Listings :
       LET c == [call EXCEPT !.pc = "body", !.answer = answer, !.arrived = 0,
                             !.served = Append(@, answer.status)]
       IN  IF answer.head # "sound" THEN Done(0, ModelError("Unusable"))
           ELSE IF answer.framing = "length" /\ Len(answer.events) > MAX_BODY
           THEN call' = [c EXCEPT !.pc = "done", !.outcome = ModelError("Unusable")]
           ELSE Take(c, 0)

BodyArrives ==
  /\ call.pc = "body" /\ Reading
  /\ call.arrived < Needed(call.answer)
  /\ IF call.arrived = MAX_BODY /\ call.arrived < Len(call.answer.events)
     THEN Done(0, ModelError("Unusable"))                          \* TooLarge
     ELSE Take(call, call.arrived + 1)

\* The server closes: the end of a body framed by it, malformed otherwise.
Closes ==
  /\ call.pc \in {"head", "body"} /\ Reading
  /\ IF call.pc = "body" /\ call.answer.framing = "close" THEN Receive(call, call.arrived)
     ELSE Done(0, ModelError("Unusable"))

\* The same, in the middle of an event of a reply: it does not parse.
ClosesInAnEvent ==
  /\ call.pc = "body" /\ Reading /\ call.answer.framing = "close"
  /\ call.answer.status = 200 /\ call.arrived < Len(call.answer.events)
  /\ Done(0, ModelError("Unusable"))

-----------------------------------------------------------------------------
(***************************************************************************)
(* complete: the retries.                                                   *)
(***************************************************************************)
HalfBackoff(attempt)  == Min({BASE * 2 ^ attempt, CAP}) \div 2
BackoffRange(attempt) == HalfBackoff(attempt)..2 * HalfBackoff(attempt)

\* mutant: what the server asks replaces the backoff
WaitAsAsked(backoff, after) == after
WaitFor(backoff, after) == Max({backoff, after})

GiveUp == IF Last(call.retried) = 429 THEN RateLimited(call.retried) ELSE StatusError(call.retried)

Retry ==
  /\ call.pc = "retry"
  /\ \E backoff \in BackoffRange(call.attempt) :
       LET wait == WaitFor(backoff, call.answer.after)
       IN  IF call.attempt >= MAX_RETRIES \/ Left <= wait THEN Done(0, GiveUp)
           ELSE \E t \in Expired(wait) :
                  call' = [At(t) EXCEPT !.pc = "connect", !.attempt = @ + 1, !.answer = NoAnswer,
                             !.began = call.now + t, !.drained = FALSE,
                             !.prev = [status |-> call.answer.status, after |-> call.answer.after,
                                       ended |-> call.now]]

ClientNext ==
  \/ PastDeadline \/ Connect \/ StartWrite \/ Written \/ WriteSome \/ WriteFails
  \/ Trickle \/ ReadFails \/ HeadArrives \/ BodyArrives \/ Closes \/ ClosesInAnEvent \/ Retry

\* One call on its own; Turn makes both kinds.
ClientInit == \E purpose \in {"models", "chat"} : call = Call(purpose)
ClientSpec == ClientInit /\ [][ClientNext]_call

-----------------------------------------------------------------------------
Calling == call.pc # "idle"
Over    == call.pc = "done"

\* Only 429 and 5xx are retried, never more often than the budget allows and
\* never sooner than the backoff and what the server asked for.
RetriesAreDue ==
  Calling =>
    /\ call.attempt <= MAX_RETRIES /\ Len(call.served) <= 1 + MAX_RETRIES
    /\ call.attempt > 0 =>
         /\ call.purpose = "chat" /\ IsRetryable(call.prev.status)
         /\ call.began - call.prev.ended >=
              Max({HalfBackoff(call.attempt - 1), call.prev.after})
         /\ call.began < Deadline + Slack

\* A call that ends past its deadline was still writing its request to a
\* server that drained it slowly.
EndsByItsDeadline == Over /\ call.now > Deadline + Slack => call.drained

\* A completion and a refusal to go on name every status the server gave
\* before the last, in order, and the refusal the last one too.
StatusesAreNamed ==
  Over => /\ call.outcome.is = "completion" => call.served = Append(call.outcome.retried, 200)
          /\ call.outcome.is = "error" /\ call.outcome.why \in {"RateLimited", "Status"}
               => call.outcome.statuses = call.served

(* The client keeps the bounds of a call: retries within the budget and no  *)
(* sooner than asked for; the end by the deadline, save for a request that  *)
(* the server drained slowly; and the statuses it went through on a         *)
(* completion and on a refusal to go on, not on the other errors            *)
(* (client.rs complete, http.rs exchange).                                  *)
CallKeepsItsBounds == RetriesAreDue /\ EndsByItsDeadline /\ StatusesAreNamed

(* A completion is never part of a reply: the server said that it finished, *)
(* and all it sent before that is in it (wire.rs Acc::done, INV-3).         *)
NeverAPartialReply ==
  Over /\ call.outcome.is = "completion" =>
    LET events == call.answer.events
        ends   == {i \in DOMAIN events : events[i].is = "finish"}
        end    == Min(ends)
        sent   == SubSeq(events, 1, end - 1)
    IN  /\ call.answer.status = 200
        /\ ends # {} /\ events[end].why \in {"stop", "tool_calls"}
        /\ IsPrefix(ContentOf(sent), call.outcome.content)
        /\ IsPrefix(Of("call", sent), call.outcome.calls)
        /\ call.outcome.content \o call.outcome.calls # <<>>
=============================================================================
