----------------------------- MODULE MCJournal -----------------------------
(* A writer with one or two calls and one large payload: five lines fit a   *)
(* header, two intents, a result and the commit record.                     *)
EXTENDS Journal

CONSTANTS c1, c2, p1

MCCalls    == {c1, c2}
MCPayloads == {p1}
MCOutcomes == {"passed", "failed"}
=============================================================================
