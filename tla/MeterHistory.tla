----------------------------- MODULE MeterHistory -----------------------------
(***************************************************************************)
(* The meter beside what was really spent: `truth` adds up the same         *)
(* exchanges without saturating, and `worked` the clock's forward movement  *)
(* while nobody waited for an approval, `peak` the furthest it ever got.    *)
(* The caller calls in any order; the clock may jump, backwards too.        *)
(***************************************************************************)
EXTENDS Meter

CONSTANTS Amounts,  \* tokens one side of an exchange may report
          Bytes,    \* sizes of a prompt or a reply with no usage report
          Carried,  \* wall time an earlier attempt may have spent
          MaxSpend, \* bound: tokens really spent
          MaxClock, \* bound: the clock
          MaxBack   \* bound: jumps of the clock backwards

ASSUME HistoryAssumption ==
  /\ Amounts \subseteq Nat /\ Bytes \subseteq Nat /\ Carried \subseteq Counter
  /\ {MaxSpend, MaxClock, MaxBack} \subseteq Nat

VARIABLES clock, peak, worked, back, carried, truth

history == <<peak, worked, back, carried, truth>>

TypeOK ==
  /\ MeterTypeOK
  /\ clock \in 0..MaxClock /\ peak \in clock..MaxClock
  /\ worked \in Nat /\ back \in 0..MaxBack

Init ==
  /\ clock = 0 /\ peak = 0 /\ carried \in Carried
  /\ MeterInit(clock, carried)
  /\ worked = 0 /\ back = 0
  /\ truth = [input |-> 0, output |-> 0, cost |-> 0]

ClockMoves ==
  /\ clock' \in 0..MaxClock /\ clock' # clock
  /\ back' = IF clock' < clock THEN back + 1 ELSE back
  /\ back' <= MaxBack
  /\ peak' = Larger(clock', peak)
  /\ worked' = IF paused THEN worked ELSE worked + Larger(clock' - clock, 0)
  /\ UNCHANGED <<meter, carried, truth>>

Exchange(input, output, estimated) ==
  /\ ~paused
  /\ RecordTokens(input, output, estimated)
  /\ truth' = [input  |-> truth.input + input, output |-> truth.output + output,
               cost   |-> truth.cost + input * InputPrice + output * OutputPrice]
  /\ truth'.input + truth'.output <= MaxSpend
  /\ UNCHANGED <<clock, peak, worked, back, carried>>

\* The guard of a wait borrows the meter: until it is dropped only tick_wall
\* can be called, through it.
Next ==
  \/ ClockMoves
  \/ \E input, output \in Amounts : Exchange(input, output, FALSE)
  \/ \E prompt, reply \in Bytes : Exchange(DivCeil3(prompt), DivCeil3(reply), TRUE)
  \/ /\ \/ TickWall(clock) \/ ResumeWall(clock)
        \/ ~paused /\ (ChargeStep \/ PauseWall(clock) \/ RecordFormatError)
        \/ ~paused /\ (RecordFormatOk \/ TakeRepairRound)
     /\ UNCHANGED <<clock, history>>

vars == <<meter, clock, history>>

Spec == Init /\ [][Next]_vars

-----------------------------------------------------------------------------
(* record_tokens, charge_step: while calls return Ok nothing is overspent,  *)
(* and saturation cannot hide an overrun (a limit of u64::MAX is no limit). *)
(* Wall time that came with a resume is first looked at by a tick.          *)
NoHiddenOverrun ==
  exhaustion = None =>
    /\ truth.input + truth.output <= TokenLimit \/ TokenLimit = MaxU64
    /\ truth.cost <= CostLimit \/ CostLimit = MaxU64
    /\ elapsed < WallLimit \/ elapsed = carried

(* The first exhaustion stands (INV-14): it names a dimension really spent, *)
(* and after it nothing more is charged and no later cause replaces it.     *)
FirstExhaustionStands ==
  [][exhaustion # None => UNCHANGED <<exhaustion, spend, elapsed>>]_vars

(* tick_wall, pause_wall, resume_wall: only working time is charged, none   *)
(* of it twice when the clock jumps back and catches up, and with a clock   *)
(* that never jumps back all of it is.                                      *)
OnlyWorkingTime ==
  /\ elapsed <= carried + worked
  /\ elapsed <= carried + peak
  /\ back = 0 /\ exhaustion = None =>
       elapsed + (IF paused THEN 0 ELSE clock - last_tick) = carried + worked
=============================================================================
