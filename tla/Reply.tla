-------------------------------- MODULE Reply --------------------------------
(***************************************************************************)
(* What is read out of a server's answer: the completion                    *)
(* (harness-model-core/src/wire.rs) and the one action in it (protocol.rs). *)
(*                                                                          *)
(* An answer is a sequence of events: pieces of content, tool calls, a      *)
(* finish reason, the end mark.  A plain JSON answer is the same pieces in  *)
(* one object, which is nothing unless it is whole.                         *)
(***************************************************************************)
EXTENDS Integers, SequencesExt, Choice

CONSTANT wire_name(_)  \* the function name of a tool id, "." as "_": two ids may have one

Words       == [is |-> "words"]
OPEN        == [is |-> "open"]                       \* <action>
CLOSE       == [is |-> "close"]                      \* </action>
JsonForms   == {"too-large", "bad-json", "wrong-shape", "sound"}
Json(form, call) == [is |-> "json", form |-> form, call |-> call]
ToolCall(name, form, args) == [is |-> "call", name |-> name, form |-> form, args |-> args]
Finish(why) == [is |-> "finish", why |-> why]
DONE        == [is |-> "done"]
Garbled     == [is |-> "garbled"]                    \* not what a delta may be

IsContent(event) == event.is \in {"words", "open", "close", "json"}
Of(kind, events) == Chosen(events, {i \in DOMAIN events : events[i].is = kind})
ContentOf(events) == Chosen(events, {i \in DOMAIN events : IsContent(events[i])})

ModelError(why)     == [is |-> "error", why |-> why]
Completion(content, calls, retried) ==
  [is |-> "completion", content |-> content, calls |-> calls, retried |-> retried]

MAX_TOOL_CALLS == 16

-----------------------------------------------------------------------------
(***************************************************************************)
(* parse_sse_reply, parse_json_reply: Acc over the events, then done.       *)
(***************************************************************************)
Unreadable(events) ==
  \/ Of("garbled", events) # <<>>
  \/ Len(Of("finish", events)) > 1
  \/ Len(Of("call", events)) > MAX_TOOL_CALLS
  \/ \E i \in DOMAIN events : events[i] = DONE /\ i < Len(events)

\* mutant: an answer without a finish reason is taken
FinishedAnyway(events) ==
  LET content == ContentOf(events)
      calls   == Of("call", events)
  IN  IF content = <<>> /\ calls = <<>> THEN "Empty" ELSE "ok"
\* done: the reasons against a completion, in order.
Finished(events) ==
  LET content == ContentOf(events)
      calls   == Of("call", events)
      finish  == Of("finish", events)
  IN  CASE finish # <<>> /\ Head(finish).why = "length" -> "Truncated"
        [] /\ ~(finish # <<>> /\ Head(finish).why = "length")
           /\ content = <<>> /\ calls = <<>> -> "Empty"
        [] finish = <<>> /\ ~(content = <<>> /\ calls = <<>>) -> "Truncated"
        [] /\ finish # <<>> /\ Head(finish).why \in {"stop", "tool_calls"}
           /\ ~(content = <<>> /\ calls = <<>>) -> "ok"
        [] OTHER -> "Unusable"

\* `cut` events are missing at the end.
ReadReply(type, events, cut, retried) ==
  CASE type \notin {"sse", "json"} -> ModelError("Unusable")
    [] type = "json" /\ cut > 0 -> ModelError(IF events = <<>> THEN "Empty" ELSE "Unusable")
    [] type \in {"sse", "json"} /\ ~(type = "json" /\ cut > 0) ->
         IF Unreadable(events) THEN ModelError("Unusable")
         ELSE IF Finished(events) # "ok" THEN ModelError(Finished(events))
         ELSE Completion(ContentOf(events), Of("call", events), retried)

-----------------------------------------------------------------------------
(***************************************************************************)
(* parse_reply: exactly one action, or a format error.                      *)
(***************************************************************************)
FormatError(why) == [is |-> "format-error", why |-> why]
Action(call)     == [is |-> "action", call |-> call]

\* strict_object; in text "wrong-shape" is also an object without a tool and args.
StrictError(form) ==
  FormatError(CASE form = "too-large"   -> "TooLarge"
                [] form = "bad-json"    -> "BadJson"
                [] form = "wrong-shape" -> "WrongShape")

\* tools are the ids of the tools of the session, in the order of the grants.
StrictCall(json, tools) ==
  IF json.form # "sound" THEN StrictError(json.form)
  ELSE IF json.call.capability \in Range(tools) THEN Action(json.call)
  ELSE FormatError("UnknownTool")

ParseText(content, calls, tools) ==
  LET opens  == {i \in DOMAIN content : content[i] = OPEN}
      closes == {i \in DOMAIN content : content[i] = CLOSE}
      start  == CHOOSE i \in opens : TRUE
      end    == CHOOSE i \in closes : TRUE
  IN  CASE calls # <<>> -> FormatError("ToolCallsInTextMode")
        [] calls = <<>> /\ (Cardinality(opens) > 1 \/ Cardinality(closes) > 1) ->
             FormatError("SeveralActions")
        [] calls = <<>> /\ opens = {} /\ closes = {} -> FormatError("NoAction")
        [] calls = <<>> /\ Cardinality(opens) + Cardinality(closes) = 1 -> FormatError("Unbalanced")
        [] calls = <<>> /\ Cardinality(opens) = 1 /\ Cardinality(closes) = 1 ->
             IF end < start THEN FormatError("Unbalanced")
             ELSE LET inner == SubSeq(content, start + 1, end - 1)
                  IN  IF Len(inner) = 1 /\ inner[1].is = "json" THEN StrictCall(inner[1], tools)
                      ELSE FormatError("BadJson")

\* The first tool of that name; then its arguments.
NativeCall(call, tools) ==
  LET named == {i \in DOMAIN tools : wire_name(tools[i]) = call.name}
  IN  IF named = {} THEN FormatError("UnknownTool")
      ELSE IF call.form # "sound" THEN StrictError(call.form)
      ELSE Action([capability |-> tools[Min(named)], args |-> call.args])

ParseNative(calls, tools) ==
  CASE Len(calls) = 0 -> FormatError("NoAction")
    [] Len(calls) > 1 -> FormatError("SeveralActions")
    [] OTHER -> NativeCall(Head(calls), tools)

ParseReply(completion, protocol, tools) ==
  IF protocol = "text" THEN ParseText(completion.content, completion.calls, tools)
  ELSE ParseNative(completion.calls, tools)
=============================================================================
