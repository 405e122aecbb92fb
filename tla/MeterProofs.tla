----------------------------- MODULE MeterProofs -----------------------------
(***************************************************************************)
(* Proofs about the meter beside what was really spent, for every limit,    *)
(* price, width of a counter and behaviour of the clock.                    *)
(***************************************************************************)
EXTENDS MeterHistory, MeterLemmas

-----------------------------------------------------------------------------
(* The counters are what was really spent, up to saturation.                *)
Adds ==
  /\ truth = [input |-> truth.input, output |-> truth.output, cost |-> truth.cost]
  /\ truth.input \in Nat /\ truth.output \in Nat /\ truth.cost \in Nat
  /\ tokens_input = Sat(truth.input) /\ tokens_output = Sat(truth.output)
  /\ cost_micros = Sat(truth.cost)

(* Until something is exhausted every renewable limit is kept.              *)
Within ==
  exhaustion = None =>
    /\ Sat(tokens_input + tokens_output) <= TokenLimit
    /\ cost_micros <= CostLimit
    /\ elapsed < WallLimit \/ elapsed = carried

(* What is charged and what is still to be charged was worked; a clock that  *)
(* never jumped back is at its furthest.                                    *)
Works ==
  /\ carried \in Nat /\ last_tick <= peak
  /\ elapsed <= carried + last_tick
  /\ elapsed <= carried + worked
  /\ ~paused /\ clock > last_tick => elapsed + (clock - last_tick) <= carried + worked
  /\ back = 0 => clock = peak
  /\ back = 0 /\ exhaustion = None =>
       elapsed + (IF paused THEN 0 ELSE clock - last_tick) = carried + worked

IInv == TypeOK /\ Adds /\ Within /\ Works

-----------------------------------------------------------------------------
(* What is spent, carried and bounded are numbers.                          *)
LEMMA HistoryIs ==
  /\ \A a \in Amounts : a \in Nat
  /\ \A b \in Bytes : b \in Nat
  /\ \A c \in Carried : c \in Counter /\ c \in Nat
  /\ MaxSpend \in Nat /\ MaxClock \in Nat /\ MaxBack \in Nat
BY HistoryAssumption, ConstantsAre DEF Counter

(* A new meter, or a resumed one, has charged what was carried.             *)
LEMMA InitOK ==
  ASSUME Init
  PROVE  IInv
<1>0. 0 \in Counter
  BY ConstantsAre DEF Counter
<1>1. TypeOK
  <2>1. /\ spent_steps \in Counter /\ tokens_input \in Counter /\ tokens_output \in Counter
        /\ cost_micros \in Counter /\ elapsed \in Counter /\ exhaustion = None
        /\ consecutive_format_errors \in Counter /\ repair_rounds_used \in Counter
    BY <1>0, HistoryIs DEF Init, MeterInit
  <2>2. tokens_estimated = FALSE /\ paused = FALSE
    BY DEF Init, MeterInit
  <2>3. last_tick \in Nat /\ clock \in 0..MaxClock /\ peak \in clock..MaxClock /\ worked \in Nat /\ back \in 0..MaxBack
    BY HistoryIs DEF Init, MeterInit
  <2> QED BY <2>1, <2>2, <2>3 DEF TypeOK, MeterTypeOK
<1>2. Adds
  BY ConstantsAre DEF Init, MeterInit, Adds, Sat
<1>3. Within
  BY ConstantsAre DEF Init, MeterInit, Within, Sat, Counter
<1>4. Works
  BY HistoryIs DEF Init, MeterInit, Works
<1> QED BY <1>1, <1>2, <1>3, <1>4 DEF IInv

(* Time passing charges nothing, and is working time unless the wall is     *)
(* paused.                                                                  *)
LEMMA ClockMovesOK ==
  ASSUME IInv, ClockMoves
  PROVE  IInv'
<1>1. UNCHANGED <<spent_steps, tokens_input, tokens_output, tokens_estimated, cost_micros, elapsed, last_tick,
                  paused, consecutive_format_errors, repair_rounds_used, exhaustion, carried, truth>>
  BY DEF ClockMoves, meter, spend, wall, rounds
<1>2. /\ clock' \in 0..MaxClock /\ back' = (IF clock' < clock THEN back + 1 ELSE back) /\ back' <= MaxBack
      /\ peak' = Larger(clock', peak)
  BY DEF ClockMoves
<1>3. paused => worked' = worked
  BY DEF ClockMoves
<1>4. ~paused => worked' = worked + Larger(clock' - clock, 0)
  BY DEF ClockMoves
<1>5. /\ clock \in Nat /\ clock <= MaxClock /\ peak \in Nat /\ clock <= peak /\ peak <= MaxClock
      /\ worked \in Nat /\ back \in Nat /\ back <= MaxBack /\ last_tick \in Nat /\ elapsed \in Nat
      /\ MaxClock \in Nat /\ MaxBack \in Nat
  BY HistoryIs, ConstantsAre DEF IInv, TypeOK, MeterTypeOK, Counter
<1>6. /\ clock' \in Nat /\ clock' <= MaxClock /\ clock' <= peak' /\ peak' <= MaxClock /\ peak' \in Nat
      /\ peak <= peak' /\ back' \in Nat /\ (back' = 0 => back = 0 /\ clock <= clock')
  BY <1>2, <1>5 DEF Larger
<1>7. Larger(clock' - clock, 0) \in Nat /\ clock' <= clock + Larger(clock' - clock, 0)
      /\ (clock <= clock' => clock' = clock + Larger(clock' - clock, 0))
  <2>1. clock' - clock \in Int /\ 0 \in Int
    BY <1>5, <1>6
  <2> QED BY <1>5, <1>6, <2>1, LargerIs
<1>8. worked' \in Nat /\ worked <= worked'
  <2>1. CASE paused
    BY <2>1, <1>3, <1>5
  <2>2. CASE ~paused
    BY <2>2, <1>4, <1>5, <1>7
  <2> QED BY <2>1, <2>2
<1>9. TypeOK'
  <2>1. MeterTypeOK'
    BY <1>1 DEF IInv, TypeOK, MeterTypeOK
  <2> QED BY <1>2, <1>5, <1>6, <1>8, <2>1 DEF TypeOK
<1>10. Adds' /\ Within'
  BY <1>1 DEF IInv, Adds, Within
<1>11. carried \in Nat /\ last_tick <= peak /\ elapsed <= carried + last_tick /\ elapsed <= carried + worked
  BY DEF IInv, Works
<1>12. last_tick <= peak' /\ elapsed <= carried + worked'
  <2>1. last_tick <= peak'
    BY <1>5, <1>6, <1>11
  <2>2. elapsed <= carried + worked'
    BY <1>5, <1>8, <1>11, NoLess
  <2> QED BY <2>1, <2>2
<1>13. ~paused /\ clock' > last_tick => elapsed + (clock' - last_tick) <= carried + worked'
  <2>1. SUFFICES ASSUME ~paused, clock' > last_tick
                 PROVE  elapsed + (clock' - last_tick) <= carried + worked'
    OBVIOUS
  <2>2. worked' = worked + Larger(clock' - clock, 0)
    BY <1>4, <2>1
  <2>3. clock > last_tick => elapsed + (clock - last_tick) <= carried + worked
    BY <2>1 DEF IInv, Works
  <2> HIDE <2>1
  <2>4. clock' > last_tick
    BY <2>1
  <2> QED BY <1>5, <1>6, <1>7, <1>11, <2>2, <2>3, <2>4
<1>14. back' = 0 => clock' = peak'
  BY <1>2, <1>5, <1>6 DEF IInv, Works, Larger
<1>15. back' = 0 /\ exhaustion = None =>
          elapsed + (IF paused THEN 0 ELSE clock' - last_tick) = carried + worked'
  <2>1. CASE paused
    <3>1. back = 0 /\ exhaustion = None => elapsed + 0 = carried + worked
      BY <2>1 DEF IInv, Works
    <3>2. back' = 0 /\ exhaustion = None => elapsed + 0 = carried + worked'
      BY <1>3, <1>6, <2>1, <3>1
    <3> QED BY <2>1, <3>2
  <2>2. CASE ~paused
    <3>1. back = 0 /\ exhaustion = None => elapsed + (clock - last_tick) = carried + worked
      BY <2>2 DEF IInv, Works
    <3>2. worked' = worked + Larger(clock' - clock, 0)
      BY <1>4, <2>2
    <3>3. back' = 0 /\ exhaustion = None => elapsed + (clock' - last_tick) = carried + worked'
      BY <1>5, <1>6, <1>7, <1>11, <3>1, <3>2
    <3> QED BY <2>2, <3>3
  <2> QED BY <2>1, <2>2
<1>16. Works'
  BY <1>1, <1>11, <1>12, <1>13, <1>14, <1>15 DEF Works
<1> QED BY <1>9, <1>10, <1>16 DEF IInv

-----------------------------------------------------------------------------
(* A call that spends no tokens and no time leaves what was added up.       *)
LEMMA CountsOK ==
  ASSUME IInv,
         UNCHANGED <<tokens_input, tokens_output, tokens_estimated, cost_micros, wall, clock, history>>,
         spent_steps' \in Counter, consecutive_format_errors' \in Counter, repair_rounds_used' \in Counter,
         exhaustion' \in {exhaustion} \cup [dimension : Dimensions, spent : Counter, limit : Counter],
         exhaustion' = None => exhaustion = None
  PROVE  IInv'
<1> USE DEF wall, history
<1>1. TypeOK'
  BY DEF IInv, TypeOK, MeterTypeOK
<1>2. Adds' /\ Within'
  BY DEF IInv, Adds, Within
<1>3. Works'
  BY DEF IInv, Works
<1> QED BY <1>1, <1>2, <1>3 DEF IInv

(* The calls that only count.                                               *)
LEMMA CallsOK ==
  ASSUME IInv, UNCHANGED <<clock, history>>,
         ChargeStep \/ RecordFormatError \/ RecordFormatOk \/ TakeRepairRound
  PROVE  IInv'
<1>1. /\ MaxU64 \in Nat /\ StepLimit \in Counter /\ FormatErrorLimit \in Counter /\ RepairLimit \in Counter
      /\ spent_steps \in Counter /\ consecutive_format_errors \in Counter /\ repair_rounds_used \in Counter
      /\ 0 \in Counter
  BY ConstantsAre DEF IInv, TypeOK, MeterTypeOK, Counter
<1>2. CASE ChargeStep
  <2>1. \/ spent_steps >= StepLimit /\ exhaustion' = Exhausted("steps", spent_steps, StepLimit)
           /\ spent_steps' = spent_steps
        \/ ~ (spent_steps >= StepLimit) /\ spent_steps' = spent_steps + 1 /\ exhaustion' = exhaustion
    BY <1>2 DEF ChargeStep
  <2>2. spent_steps' \in Counter
    BY <1>1, <2>1 DEF Counter
  <2>3. \/ exhaustion' = exhaustion
        \/ /\ exhaustion' # None
           /\ exhaustion' \in [dimension : Dimensions, spent : Counter, limit : Counter]
    BY <1>1, <2>1, ExhaustedIs DEF Dimensions
  <2> QED BY <1>1, <1>2, <2>2, <2>3, CountsOK DEF ChargeStep, rounds
<1>3. CASE RecordFormatError
  <2>1. consecutive_format_errors' = Sat(consecutive_format_errors + 1)
    BY <1>3 DEF RecordFormatError
  <2>2. consecutive_format_errors' \in Counter
    BY <1>1, <2>1, SatIs DEF Counter
  <2>3. \/ exhaustion' = Exhausted("format_errors", consecutive_format_errors', FormatErrorLimit)
        \/ exhaustion' = exhaustion
    BY <1>3 DEF RecordFormatError
  <2>4. \/ exhaustion' = exhaustion
        \/ /\ exhaustion' # None
           /\ exhaustion' \in [dimension : Dimensions, spent : Counter, limit : Counter]
    BY <1>1, <2>2, <2>3, ExhaustedIs DEF Dimensions
  <2> QED BY <1>1, <1>3, <2>2, <2>4, CountsOK DEF RecordFormatError, spend
<1>4. CASE RecordFormatOk
  BY <1>1, <1>4, CountsOK DEF RecordFormatOk, spend
<1>5. CASE TakeRepairRound
  <2>1. repair_rounds_used' \in Counter
    BY <1>1, <1>5 DEF TakeRepairRound, Counter
  <2> QED BY <1>1, <1>5, <2>1, CountsOK DEF TakeRepairRound, spend
<1> QED BY <1>2, <1>3, <1>4, <1>5

-----------------------------------------------------------------------------
(* The state a tick finds.                                                  *)
LEMMA WallIs ==
  ASSUME IInv
  PROVE  /\ elapsed \in Nat /\ elapsed \in Counter /\ last_tick \in Nat /\ clock \in Nat /\ peak \in Nat
         /\ carried \in Nat /\ worked \in Nat /\ last_tick <= peak /\ clock <= peak
         /\ elapsed <= carried + last_tick /\ elapsed <= carried + worked
         /\ tokens_input \in Counter /\ tokens_output \in Counter /\ cost_micros \in Counter
         /\ Sat(tokens_input + tokens_output) \in Counter
<1>1. tokens_input + tokens_output \in Nat
  BY ConstantsAre DEF IInv, TypeOK, MeterTypeOK, Counter
<1>2. Sat(tokens_input + tokens_output) \in Counter
  BY <1>1, SatIs
<1> QED BY <1>2, HistoryIs, ConstantsAre DEF IInv, TypeOK, MeterTypeOK, Counter, Works

(* What a tick charges: nothing twice, and everything if the clock is at    *)
(* its furthest.                                                            *)
Charged == Sat(elapsed + Larger(clock - last_tick, 0))
Ticked  == Larger(clock, last_tick)

(* What a reading of the clock charges is no more than was worked since     *)
(* the last.                                                                *)
LEMMA TickIs ==
  ASSUME IInv, ~paused
  PROVE  /\ Charged \in Counter /\ Ticked \in Nat /\ Ticked <= peak
         /\ Charged <= carried + Ticked /\ Charged <= carried + worked /\ clock <= Ticked
         /\ (Charged < MaxU64 /\ clock = peak) =>
              (Ticked = clock /\ (elapsed + (clock - last_tick) = carried + worked => Charged = carried + worked))
<1>1. clock > last_tick => elapsed + (clock - last_tick) <= carried + worked
  BY DEF IInv, Works
<1>2. /\ elapsed \in Nat /\ last_tick \in Nat /\ clock \in Nat /\ peak \in Nat
      /\ carried \in Nat /\ worked \in Nat /\ last_tick <= peak /\ clock <= peak
      /\ elapsed <= carried + last_tick /\ elapsed <= carried + worked
  BY WallIs
<1>3. CASE clock > last_tick
  <2>1. Larger(clock - last_tick, 0) = clock - last_tick /\ Ticked = clock /\ elapsed + (clock - last_tick) \in Nat
    BY <1>2, <1>3 DEF Larger, Ticked
  <2>2. Charged \in Counter /\ Charged <= elapsed + (clock - last_tick)
        /\ (Charged < MaxU64 => Charged = elapsed + (clock - last_tick))
    BY <2>1, SatIs DEF Charged
  <2> QED BY <1>1, <1>2, <1>3, <2>1, <2>2, ConstantsAre DEF Counter
<1>4. CASE clock <= last_tick
  <2>1. Larger(clock - last_tick, 0) = 0 /\ Ticked = last_tick /\ elapsed + 0 = elapsed
    BY <1>2, <1>4 DEF Larger, Ticked
  <2>2. Charged \in Counter /\ Charged <= elapsed /\ (Charged < MaxU64 => Charged = elapsed)
    BY <1>2, <2>1, SatIs DEF Charged
  <2> QED BY <1>2, <1>4, <2>1, <2>2, ConstantsAre DEF Counter
<1> QED BY <1>2, <1>3, <1>4

(* A renewed check after a tick or an exchange.                             *)
LEMMA CheckIs ==
  ASSUME IInv, CheckRenewable, elapsed' \in Counter, cost_micros' \in Counter,
         Sat(tokens_input' + tokens_output') \in Counter
  PROVE  /\ exhaustion' \in {None} \cup [dimension : Dimensions, spent : Counter, limit : Counter]
         /\ exhaustion' = None => /\ Sat(tokens_input' + tokens_output') <= TokenLimit
                                  /\ elapsed' < WallLimit /\ cost_micros' <= CostLimit
BY RenewableIs DEF CheckRenewable

(* A reading of the clock, however the call goes on.                        *)
LEMMA WallCallOK ==
  ASSUME IInv, UNCHANGED <<spend, rounds, clock, history>>, last_tick' = Larger(clock, last_tick),
         CheckRenewable, exhaustion = None, paused' \in BOOLEAN,
         \/ /\ ~paused /\ elapsed' = Sat(elapsed + Larger(clock - last_tick, 0))
         \/ /\ paused /\ paused' /\ elapsed' = elapsed
  PROVE  IInv'
<1> USE DEF spend, rounds, history
<1>1. /\ last_tick' \in Nat /\ last_tick' <= peak /\ clock <= last_tick'
      /\ elapsed' \in Counter /\ elapsed' <= carried + last_tick' /\ elapsed' <= carried + worked
      /\ elapsed' < MaxU64 /\ back = 0 =>
           elapsed' + (IF paused' THEN 0 ELSE clock - last_tick') = carried + worked
  <2>1. CASE ~paused /\ elapsed' = Sat(elapsed + Larger(clock - last_tick, 0))
    <3>1. clock > last_tick => elapsed + (clock - last_tick) <= carried + worked
      BY <2>1 DEF IInv, Works
    <3>2. back = 0 => clock = peak /\ elapsed + (clock - last_tick) = carried + worked
      BY <2>1 DEF IInv, Works
    <3>3. /\ elapsed' \in Counter /\ last_tick' \in Nat /\ last_tick' <= peak
          /\ elapsed' <= carried + last_tick' /\ elapsed' <= carried + worked /\ clock <= last_tick'
          /\ elapsed' < MaxU64 /\ clock = peak => last_tick' = clock /\
               (elapsed + (clock - last_tick) = carried + worked => elapsed' = carried + worked)
      <4>1. elapsed' = Charged /\ last_tick' = Ticked
        BY <2>1 DEF Charged, Ticked
      <4> QED BY <2>1, <4>1, TickIs
    <3>4. elapsed' < MaxU64 /\ back = 0 => elapsed' = carried + worked /\ clock - last_tick' = 0
      BY <3>2, <3>3, WallIs
    <3>5. elapsed' < MaxU64 /\ back = 0 => elapsed' + 0 = carried + worked
      BY <3>3, <3>4, WallIs, ConstantsAre DEF Counter
    <3> QED BY <3>3, <3>4, <3>5
  <2>2. CASE paused /\ paused' /\ elapsed' = elapsed
    <3>1. back = 0 => elapsed + 0 = carried + worked
      BY <2>2 DEF IInv, Works
    <3>2. last_tick' \in Nat /\ last_tick' <= peak /\ clock <= last_tick' /\ last_tick <= last_tick'
      BY WallIs DEF Larger
    <3>3. elapsed <= carried + last_tick'
      BY <3>2, WallIs, NoLess
    <3> QED BY <2>2, <3>1, <3>2, <3>3, WallIs
  <2> QED BY <2>1, <2>2
<1>2. Sat(tokens_input' + tokens_output') \in Counter /\ cost_micros' \in Counter
  BY WallIs
<1>3. /\ exhaustion' \in {None} \cup [dimension : Dimensions, spent : Counter, limit : Counter]
      /\ exhaustion' = None => /\ Sat(tokens_input' + tokens_output') <= TokenLimit
                               /\ elapsed' < WallLimit /\ cost_micros' <= CostLimit
  BY <1>1, <1>2, CheckIs
<1>4. TypeOK'
  BY <1>1, <1>3 DEF IInv, TypeOK, MeterTypeOK
<1>5. Adds' /\ Within'
  BY <1>3 DEF IInv, Adds, Within
<1>6. exhaustion' = None => elapsed' < MaxU64
  BY <1>1, <1>3, ConstantsAre DEF Counter
<1>7. ~ (clock > last_tick')
  BY <1>1, WallIs
<1>8. carried \in Nat /\ (back = 0 => clock = peak)
  BY DEF IInv, Works
<1>9. back = 0 /\ exhaustion' = None =>
        elapsed' + (IF paused' THEN 0 ELSE clock - last_tick') = carried + worked
  BY <1>1, <1>6
<1>10. Works'
  BY <1>1, <1>7, <1>8, <1>9 DEF Works
<1> QED BY <1>4, <1>5, <1>10 DEF IInv

(* tick_wall.                                                               *)
LEMMA TickWallOK ==
  ASSUME IInv, TickWall(clock), UNCHANGED <<clock, history>>
  PROVE  IInv'
<1>1. paused \in BOOLEAN
  BY DEF IInv, TypeOK, MeterTypeOK
<1>2. /\ ~paused => elapsed' = Sat(elapsed + Larger(clock - last_tick, 0))
      /\ paused => elapsed' = elapsed
      /\ paused' = paused
  BY DEF TickWall
<1> QED BY <1>1, <1>2, WallCallOK DEF TickWall

(* pause_wall.                                                              *)
LEMMA PauseWallOK ==
  ASSUME IInv, ~paused, PauseWall(clock), UNCHANGED <<clock, history>>
  PROVE  IInv'
<1>1. paused' \in BOOLEAN
  BY DEF PauseWall
<1> QED BY <1>1, WallCallOK DEF PauseWall

(* resume_wall.                                                             *)
LEMMA ResumeWallOK ==
  ASSUME IInv, ResumeWall(clock), UNCHANGED <<clock, history>>
  PROVE  IInv'
<1> USE DEF spend, rounds, history
<1>1. paused /\ paused' = FALSE /\ last_tick' = Larger(clock, last_tick)
      /\ UNCHANGED <<spend, elapsed, rounds, exhaustion, clock, history>>
  BY DEF ResumeWall
<1>2. /\ last_tick' \in Nat /\ last_tick' <= peak /\ clock <= last_tick' /\ last_tick <= last_tick'
      /\ clock = peak => clock - last_tick' = 0
  BY <1>1, WallIs DEF Larger
<1>3. elapsed <= carried + last_tick'
  BY <1>2, WallIs, NoLess
<1>4. TypeOK'
  BY <1>1, <1>2 DEF IInv, TypeOK, MeterTypeOK
<1>5. Adds' /\ Within'
  BY <1>1 DEF IInv, Adds, Within
<1>6. back = 0 => clock = peak
  BY DEF IInv, Works
<1>7. back = 0 /\ exhaustion = None => elapsed + 0 = carried + worked
  BY <1>1 DEF IInv, Works
<1>8. back = 0 /\ exhaustion = None => elapsed + (clock - last_tick') = carried + worked
  BY <1>2, <1>6, <1>7
<1>9. Works'
  BY <1>1, <1>2, <1>3, <1>6, <1>8, WallIs DEF Works
<1> QED BY <1>4, <1>5, <1>9 DEF IInv

-----------------------------------------------------------------------------
(* An exchange with the model charges what it really took.                  *)
LEMMA ExchangeOK ==
  ASSUME IInv, NEW input \in Nat, NEW output \in Nat, NEW estimated \in BOOLEAN,
         Exchange(input, output, estimated)
  PROVE  IInv'
<1> DEFINE price == input * InputPrice + output * OutputPrice
<1>1. input * InputPrice \in Nat /\ output * OutputPrice \in Nat /\ price \in Nat
  BY ConstantsAre
<1>2. truth.input \in Nat /\ truth.output \in Nat /\ truth.cost \in Nat
  BY DEF IInv, Adds
<1>3. truth' = [input |-> truth.input + input, output |-> truth.output + output,
                cost |-> truth.cost + input * InputPrice + output * OutputPrice]
  BY DEF Exchange
<1>4. /\ truth' = [input |-> truth'.input, output |-> truth'.output, cost |-> truth'.cost]
      /\ truth'.input = truth.input + input /\ truth'.output = truth.output + output
      /\ truth'.cost = truth.cost + price
      /\ truth'.input \in Nat /\ truth'.output \in Nat /\ truth'.cost \in Nat
  BY <1>1, <1>2, <1>3
<1>5. tokens_input' = Sat(truth'.input) /\ tokens_output' = Sat(truth'.output)
  <2>1. tokens_input' = Sat(Sat(truth.input) + input) /\ tokens_output' = Sat(Sat(truth.output) + output)
    BY DEF Exchange, RecordTokens, IInv, Adds
  <2> QED BY <1>2, <1>4, <2>1, SatOfSum
<1>6. cost_micros' = Sat(truth'.cost)
  <2>1. cost_micros' = Sat(Sat(truth.cost) + CostOf(input, output))
    BY DEF Exchange, RecordTokens, IInv, Adds
  <2>2. CostOf(input, output) = Sat(price)
    BY <1>1, SatOfSum DEF CostOf
  <2>3. Sat(Sat(truth.cost) + Sat(price)) = Sat(truth.cost + price)
    BY <1>1, <1>2, SatOfSum
  <2> QED BY <1>4, <2>1, <2>2, <2>3
<1>7. /\ UNCHANGED <<spent_steps, elapsed, last_tick, paused, consecutive_format_errors, repair_rounds_used,
                     clock, peak, worked, back, carried>>
      /\ exhaustion = None /\ CheckRenewable /\ tokens_estimated' = (tokens_estimated \/ estimated)
  BY DEF Exchange, RecordTokens, wall, rounds
<1>8. tokens_input' \in Counter /\ tokens_output' \in Counter /\ cost_micros' \in Counter
      /\ Sat(tokens_input' + tokens_output') \in Counter
  <2>1. tokens_input' \in Counter /\ tokens_output' \in Counter /\ cost_micros' \in Counter
    BY <1>4, <1>5, <1>6, SatIs
  <2>2. \A a, b \in Counter : Sat(a + b) \in Counter
    BY SatIs, ConstantsAre DEF Counter
  <2> QED BY <2>1, <2>2
<1>9. /\ exhaustion' \in {None} \cup [dimension : Dimensions, spent : Counter, limit : Counter]
      /\ exhaustion' = None => /\ Sat(tokens_input' + tokens_output') <= TokenLimit
                               /\ elapsed' < WallLimit /\ cost_micros' <= CostLimit
  BY <1>7, <1>8, WallIs, CheckIs
<1>10. TypeOK'
  <2>1. tokens_estimated' \in BOOLEAN
    BY <1>7 DEF IInv, TypeOK, MeterTypeOK
  <2> QED BY <1>7, <1>8, <1>9, <2>1 DEF IInv, TypeOK, MeterTypeOK
<1>11. Adds' /\ Within'
  BY <1>4, <1>5, <1>6, <1>9 DEF Adds, Within
<1>12. Works'
  BY <1>7 DEF IInv, Works
<1> QED BY <1>10, <1>11, <1>12 DEF IInv

(* IInv is inductive.                                                       *)
THEOREM Inductive == Spec => []IInv
<1>1. IInv /\ [Next]_vars => IInv'
  <2> SUFFICES ASSUME IInv, [Next]_vars
               PROVE  IInv'
    OBVIOUS
  <2>1. CASE UNCHANGED vars
    BY <2>1 DEF vars, meter, spend, wall, rounds, history, IInv, TypeOK, MeterTypeOK, Adds, Within, Works
  <2>2. ASSUME NEW input \in Amounts, NEW output \in Amounts, Exchange(input, output, FALSE)
        PROVE  IInv'
    BY <2>2, HistoryIs, ExchangeOK
  <2>3. ASSUME NEW prompt \in Bytes, NEW reply \in Bytes, Exchange(DivCeil3(prompt), DivCeil3(reply), TRUE)
        PROVE  IInv'
    <3>1. DivCeil3(prompt) \in Nat /\ DivCeil3(reply) \in Nat
      BY HistoryIs DEF DivCeil3
    <3> QED BY <2>3, <3>1, ExchangeOK
  <2>4. CASE Next
    BY <2>2, <2>3, <2>4, ClockMovesOK, TickWallOK, ResumeWallOK, PauseWallOK, CallsOK DEF Next
  <2> QED BY <2>1, <2>4
<1> QED BY InitOK, <1>1, PTL DEF Spec

(* The meter keeps its types.                                               *)
THEOREM TypeCorrect == Spec => []TypeOK
<1>1. IInv => TypeOK
  BY DEF IInv
<1> QED BY <1>1, Inductive, PTL

(* Saturation hides no overrun: while calls return Ok, what was really spent *)
(* is within every limit (record_tokens, charge_step).                      *)
THEOREM NoHiddenOverrunHolds == Spec => []NoHiddenOverrun
<1>1. IInv => NoHiddenOverrun
  <2> SUFFICES ASSUME IInv, exhaustion = None
               PROVE  /\ truth.input + truth.output <= TokenLimit \/ TokenLimit = MaxU64
                      /\ truth.cost <= CostLimit \/ CostLimit = MaxU64
                      /\ elapsed < WallLimit \/ elapsed = carried
    BY DEF NoHiddenOverrun
  <2>1. /\ truth.input \in Nat /\ truth.output \in Nat /\ truth.cost \in Nat
        /\ Sat(Sat(truth.input) + Sat(truth.output)) <= TokenLimit /\ Sat(truth.cost) <= CostLimit
        /\ elapsed < WallLimit \/ elapsed = carried
    BY DEF IInv, Adds, Within
  <2>2. truth.input + truth.output \in Nat /\ Sat(truth.input + truth.output) <= TokenLimit
    BY <2>1, SatOfSum
  <2>3. \A n \in Nat, limit \in Counter : Sat(n) <= limit => n <= limit \/ limit = MaxU64
    BY SatIs, ConstantsAre DEF Counter
  <2> QED BY <2>1, <2>2, <2>3, ConstantsAre
<1> QED BY <1>1, Inductive, PTL

(* Only working time is charged, none of it twice whatever the clock does,  *)
(* and all of it with a clock that never jumps back (tick_wall, pause_wall, *)
(* resume_wall).                                                            *)
THEOREM OnlyWorkingTimeHolds == Spec => []OnlyWorkingTime
<1>1. IInv => OnlyWorkingTime
  <2> SUFFICES ASSUME IInv
               PROVE  OnlyWorkingTime
    OBVIOUS
  <2>1. elapsed <= carried + peak
    BY WallIs, NoLess
  <2>2. elapsed <= carried + worked
    BY WallIs
  <2> QED BY <2>1, <2>2 DEF IInv, Works, OnlyWorkingTime
<1> QED BY <1>1, Inductive, PTL

(* The first exhaustion stands, and nothing is charged after it (INV-14).   *)
THEOREM FirstStands == Spec => FirstExhaustionStands
<1>1. [Next]_vars => (exhaustion # None => UNCHANGED <<exhaustion, spend, elapsed>>)
  <2> SUFFICES ASSUME [Next]_vars, exhaustion # None
               PROVE  UNCHANGED <<exhaustion, spend, elapsed>>
    OBVIOUS
  <2>1. CASE UNCHANGED vars
    BY <2>1 DEF vars, meter, wall
  <2>2. CASE ClockMoves
    BY <2>2 DEF ClockMoves, meter, wall
  <2>3. CASE ResumeWall(clock)
    BY <2>3 DEF ResumeWall
  <2>4. CASE RecordFormatOk \/ TakeRepairRound
    BY <2>4 DEF RecordFormatOk, TakeRepairRound, wall
  <2> QED BY <2>1, <2>2, <2>3, <2>4
          DEF Next, Exchange, RecordTokens, TickWall, ChargeStep, PauseWall, RecordFormatError
<1> QED BY <1>1, PTL DEF Spec, FirstExhaustionStands
=============================================================================
