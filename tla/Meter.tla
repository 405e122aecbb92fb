-------------------------------- MODULE Meter --------------------------------
(***************************************************************************)
(* Meter (harness-core/src/lib.rs): the six budgets of a run.  Every        *)
(* fallible call returns Ok exactly when `exhaustion` is None after it, and *)
(* otherwise the stop cause of that record.  Counters saturate at MaxU64.   *)
(***************************************************************************)
EXTENDS Integers

CONSTANTS
  StepLimit, TokenLimit, WallLimit, CostLimit, FormatErrorLimit, RepairLimit,
  InputPrice, OutputPrice, \* micros per token; 0 for a local model
  MaxU64,                  \* the largest value of a counter
  None                     \* no exhaustion latched

Dimensions == {"steps", "tokens", "wall", "cost", "format_errors"}
Counter    == 0..MaxU64

ASSUME MeterAssumption ==
  /\ MaxU64 \in Nat
  /\ None \notin [dimension : Dimensions, spent : Counter, limit : Counter]
  /\ {StepLimit, TokenLimit, WallLimit, CostLimit, FormatErrorLimit, RepairLimit} \subseteq 0..MaxU64
  /\ {InputPrice, OutputPrice} \subseteq 0..MaxU64

VARIABLES
  spent_steps, tokens_input, tokens_output, tokens_estimated, cost_micros,
  elapsed, last_tick, paused,
  consecutive_format_errors, repair_rounds_used,
  exhaustion  \* None, or the first [dimension, spent, limit]

spend  == <<spent_steps, tokens_input, tokens_output, tokens_estimated, cost_micros>>
wall   == <<elapsed, last_tick, paused>>
rounds == <<consecutive_format_errors, repair_rounds_used>>
meter  == <<spend, wall, rounds, exhaustion>>

MeterTypeOK ==
  /\ spent_steps \in Counter /\ tokens_input \in Counter /\ tokens_output \in Counter
  /\ cost_micros \in Counter /\ elapsed \in Counter
  /\ consecutive_format_errors \in Counter /\ repair_rounds_used \in Counter
  /\ tokens_estimated \in BOOLEAN /\ paused \in BOOLEAN
  /\ last_tick \in Nat
  /\ exhaustion \in {None} \cup [dimension : Dimensions, spent : Counter, limit : Counter]

\* new, and new_resumed with the wall time earlier attempts spent.
MeterInit(now, already_elapsed) ==
  /\ spent_steps = 0 /\ tokens_input = 0 /\ tokens_output = 0 /\ tokens_estimated = FALSE
  /\ cost_micros = 0
  /\ elapsed = already_elapsed /\ last_tick = now /\ paused = FALSE
  /\ consecutive_format_errors = 0 /\ repair_rounds_used = 0
  /\ exhaustion = None

Exhausted(dimension, spent, limit) == [dimension |-> dimension, spent |-> spent, limit |-> limit]

\* Mutant: the sum wraps instead of saturating.
Wrap(n) == n % (MaxU64 + 1)

\* Mutant: nothing keeps a sum in the counter's range.
Overflow(n) == n

Sat(n) == IF n > MaxU64 THEN MaxU64 ELSE n

Larger(m, n) == IF m > n THEN m ELSE n

DivCeil3(bytes) == (bytes + 2) \div 3

\* Every fallible call returns the latched cause and changes nothing once there
\* is one: that is the first guard of each.
ChargeStep ==
  /\ exhaustion = None
  /\ IF spent_steps >= StepLimit
     THEN exhaustion' = Exhausted("steps", spent_steps, StepLimit) /\ UNCHANGED spent_steps
     ELSE spent_steps' = spent_steps + 1 /\ UNCHANGED exhaustion
  /\ UNCHANGED <<tokens_input, tokens_output, tokens_estimated, cost_micros, wall, rounds>>

\* After any spend, in table order: tokens, wall, cost.
CheckRenewable ==
  LET tokens == Sat(tokens_input' + tokens_output')
  IN  exhaustion' =
        IF tokens > TokenLimit          THEN Exhausted("tokens", tokens, TokenLimit)
        ELSE IF elapsed' >= WallLimit   THEN Exhausted("wall", elapsed', WallLimit)
        ELSE IF cost_micros' > CostLimit THEN Exhausted("cost", cost_micros', CostLimit)
        ELSE None

CostOf(input, output) == Sat(Sat(input * InputPrice) + Sat(output * OutputPrice))

RecordTokens(input, output, estimated) ==
  /\ exhaustion = None
  /\ tokens_input' = Sat(tokens_input + input)
  /\ tokens_output' = Sat(tokens_output + output)
  /\ tokens_estimated' = (tokens_estimated \/ estimated)
  /\ cost_micros' = Sat(cost_micros + CostOf(input, output))
  /\ UNCHANGED <<spent_steps, wall, rounds>>
  /\ CheckRenewable

\* Mutant: the tick also moves back with the clock.
TickWallBackwards(now) ==
  /\ exhaustion = None
  /\ elapsed' = IF paused THEN elapsed ELSE Sat(elapsed + Larger(now - last_tick, 0))
  /\ last_tick' = now
  /\ UNCHANGED <<spend, paused, rounds>>
  /\ CheckRenewable

TickWall(now) ==
  /\ exhaustion = None
  /\ elapsed' = IF paused THEN elapsed ELSE Sat(elapsed + Larger(now - last_tick, 0))
  /\ last_tick' = Larger(now, last_tick)
  /\ UNCHANGED <<spend, paused, rounds>>
  /\ CheckRenewable

\* tick_wall, then the guard: a refusal starts no wait.
PauseWall(now) ==
  /\ exhaustion = None
  /\ elapsed' = Sat(elapsed + Larger(now - last_tick, 0))
  /\ last_tick' = Larger(now, last_tick)
  /\ UNCHANGED <<spend, rounds>>
  /\ CheckRenewable
  /\ paused' = (exhaustion' = None)

\* The guard is dropped.
ResumeWall(now) ==
  /\ paused /\ paused' = FALSE
  /\ last_tick' = Larger(now, last_tick)
  /\ UNCHANGED <<spend, elapsed, rounds, exhaustion>>

\* Mutant: a later exhaustion replaces the latched one.
RecordFormatErrorAgain ==
  /\ consecutive_format_errors' = Sat(consecutive_format_errors + 1)
  /\ exhaustion' = IF consecutive_format_errors' >= FormatErrorLimit
                   THEN Exhausted("format_errors", consecutive_format_errors', FormatErrorLimit)
                   ELSE exhaustion
  /\ UNCHANGED <<spend, wall, repair_rounds_used>>

RecordFormatError ==
  /\ exhaustion = None
  /\ consecutive_format_errors' = Sat(consecutive_format_errors + 1)
  /\ exhaustion' = IF consecutive_format_errors' >= FormatErrorLimit
                   THEN Exhausted("format_errors", consecutive_format_errors', FormatErrorLimit)
                   ELSE None
  /\ UNCHANGED <<spend, wall, repair_rounds_used>>

RecordFormatOk ==
  /\ consecutive_format_errors' = 0
  /\ UNCHANGED <<spend, wall, repair_rounds_used, exhaustion>>

TakeRepairRound ==
  /\ repair_rounds_used' = IF repair_rounds_used >= RepairLimit THEN repair_rounds_used
                           ELSE repair_rounds_used + 1
  /\ UNCHANGED <<spend, wall, consecutive_format_errors, exhaustion>>

Usage(dimension) ==
  CASE dimension = "steps"         -> <<spent_steps, StepLimit>>
    [] dimension = "tokens"        -> <<Sat(tokens_input + tokens_output), TokenLimit>>
    [] dimension = "wall"          -> <<elapsed, WallLimit>>
    [] dimension = "cost"          -> <<cost_micros, CostLimit>>
    [] dimension = "format_errors" -> <<consecutive_format_errors, FormatErrorLimit>>

Above80(dimension) ==
  LET u == Usage(dimension) IN u[2] > 0 /\ u[1] * 5 >= u[2] * 4
=============================================================================
