----------------------------- MODULE EvidenceLog -----------------------------
(***************************************************************************)
(* What an attempt's journal promises whoever relies on it, with no disk,  *)
(* no page cache and no writer: a ledger that only grows, effects that     *)
(* happen only once the ledger announces them, and a verdict that is       *)
(* either the one the ledger ends with or an admission that there is none. *)
(* JournalWriter (Journal.tla) implements it.                              *)
(***************************************************************************)
EXTENDS Naturals, Sequences

CONSTANTS Verdicts,   \* verdicts a ledger can end with
          Downgrades, \* what is said when the ledger cannot carry one
          None        \* nothing said yet

VARIABLES ledger,  \* the lines no crash can take away any more
          effects, \* the announced calls that were executed
          verdict  \* what was said of the attempt

evidence == <<ledger, effects, verdict>>

Init == ledger = <<>> /\ effects = {} /\ verdict = None

Grows ==
  /\ Len(ledger) <= Len(ledger')
  /\ ledger = SubSeq(ledger', 1, Len(ledger))

Ends(log, v) == log # <<>> /\ log[Len(log)].kind = "RunStopped" /\ log[Len(log)].of = v

\* The ledger grows, unless its verdict was already given.
Extend ==
  /\ verdict \notin Verdicts
  /\ Grows
  /\ UNCHANGED <<effects, verdict>>

\* A call is executed: the line that announces it is in the ledger.
Perform ==
  \E i \in 1..Len(ledger) :
     /\ ledger[i].kind = "ToolStarted"
     /\ [seq |-> i, call |-> ledger[i].of] \notin effects
     /\ effects' = effects \cup {[seq |-> i, call |-> ledger[i].of]}
     /\ UNCHANGED <<ledger, verdict>>

\* The verdict is given as the line that carries it becomes permanent.
Conclude ==
  /\ verdict = None
  /\ Grows
  /\ \E v \in Verdicts : Ends(ledger', v) /\ verdict' = v
  /\ UNCHANGED effects

Downgrade ==
  /\ verdict = None
  /\ verdict' \in Downgrades
  /\ UNCHANGED <<ledger, effects>>

Next == Extend \/ Perform \/ Conclude \/ Downgrade

Spec == Init /\ [][Next]_evidence
=============================================================================
