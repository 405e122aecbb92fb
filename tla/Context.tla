------------------------------- MODULE Context -------------------------------
(***************************************************************************)
(* The context builder (harness-model-core/src/context.rs): which turns are *)
(* shown word for word, and how far their results are cut, to fit the token *)
(* budget.  Sizes are in bytes; the text itself is left out.                *)
(*                                                                          *)
(* A turn is [reply, lines, width, notice]: the bytes of the reply; a       *)
(* result of `lines` lines of `width` bytes, or, with width 0, a message of *)
(* the harness of `lines` bytes; and the bytes of its notice, if any.       *)
(***************************************************************************)
EXTENDS Integers, SequencesExt

CONSTANTS
  Prefix,       \* bytes of blocks 1 to 4, their messages included
  Budget,       \* context_window * fill_ratio, in tokens
  RecentTurns   \* of the profile

ASSUME ContextAssumption == Prefix \in Nat /\ Budget \in Nat /\ RecentTurns \in Nat \ {0}

MESSAGE_OVERHEAD_BYTES == 96
INDEX_LINE_BYTES       == 110
NOTICE_BYTES           == 150

\* ObsCap::DEFAULT and what halved makes of it, down to the floor.
ObsCaps == << [lines |-> 100, bytes |-> 16384], [lines |-> 50, bytes |-> 8192],
              [lines |-> 25, bytes |-> 4096],   [lines |-> 12, bytes |-> 2048],
              [lines |-> 10, bytes |-> 1024] >>

IsObservation(turn) == turn.width > 0
Full(turn)       == turn.lines * turn.width
\* cap_text: at most so many lines, then at most so many bytes.
Shown(turn, cap) == Min({Min({turn.lines, cap.lines}) * turn.width, cap.bytes})

\* A reply, its result, and a notice where the result was cut.
Verbatim(turn, cap) ==
  turn.reply + 2 * MESSAGE_OVERHEAD_BYTES
  + (IF turn.notice = 0 THEN 0 ELSE turn.notice + MESSAGE_OVERHEAD_BYTES)
  + IF ~IsObservation(turn) THEN turn.lines
  ELSE Shown(turn, cap) + IF Shown(turn, cap) < Full(turn)
                          THEN NOTICE_BYTES + MESSAGE_OVERHEAD_BYTES ELSE 0

\* estimate_tokens over what assemble lays out: older turns are one index line each.
Estimate(turns, recent, cap) ==
  LET split == Len(turns) - recent
      index == IF split = 0 THEN 0 ELSE MESSAGE_OVERHEAD_BYTES + split * INDEX_LINE_BYTES
      bytes == Prefix + index + FoldLeft(LAMBDA sum, turn : sum + Verbatim(turn, cap), 0,
                                         SubSeq(turns, split + 1, Len(turns)))
  IN  (bytes + 2) \div 3

\* mutant: the newest turn is dropped like any other
ShrinkToNothing(turns) ==
  LET wanted == Min({RecentTurns, Len(turns)})
  IN  [k \in 1..wanted + 1 |-> <<wanted + 1 - k, 1>>]
\* What build tries, in order: fewer turns down to one, then smaller caps.
Shrinks(turns) ==
  LET wanted == Min({RecentTurns, Len(turns)})
  IN  [k \in 1..Max({wanted, 1}) |-> <<wanted + 1 - k, 1>>]
      \o [k \in 1..Len(ObsCaps) - 1 |-> <<Min({wanted, 1}), k + 1>>]

Exhausted == [is |-> "exhausted"]
Built(recent, cap, estimate) ==
  [is |-> "built", recent |-> recent, cap |-> cap, estimate |-> estimate]

Build(turns) ==
  LET tries == Shrinks(turns)
      fits  == {k \in DOMAIN tries : Estimate(turns, tries[k][1], ObsCaps[tries[k][2]]) <= Budget}
      fit   == Min(fits)
  IN  IF fits = {} THEN Exhausted
      ELSE Built(tries[fit][1], tries[fit][2],
                 Estimate(turns, tries[fit][1], ObsCaps[tries[fit][2]]))
=============================================================================
