----------------------------- MODULE MeterLemmas -----------------------------
(***************************************************************************)
(* What one call of the meter does to its counters, for every limit, price  *)
(* and width of a counter: shared by the proofs about the meter and about   *)
(* the run loop that owns it.                                               *)
(***************************************************************************)
EXTENDS Meter, TLAPS

(* What the counters, limits and prices are.                                *)
LEMMA ConstantsAre ==
  /\ MaxU64 \in Nat /\ StepLimit \in Counter /\ TokenLimit \in Counter /\ WallLimit \in Counter
  /\ CostLimit \in Counter /\ FormatErrorLimit \in Counter /\ RepairLimit \in Counter
  /\ InputPrice \in Nat /\ OutputPrice \in Nat
BY MeterAssumption DEF Counter

(* Saturation bounds a sum and loses nothing but what is over the bound.    *)
LEMMA SatIs ==
  ASSUME NEW n \in Nat
  PROVE  /\ Sat(n) \in Counter /\ Sat(n) <= n
         /\ Sat(n) < MaxU64 => Sat(n) = n
         /\ n <= MaxU64 => Sat(n) = n
         /\ n > MaxU64 => Sat(n) = MaxU64
BY ConstantsAre DEF Sat, Counter

(* Saturating the parts first changes nothing.                              *)
LEMMA SatOfSum ==
  ASSUME NEW a \in Nat, NEW b \in Nat
  PROVE  Sat(Sat(a) + Sat(b)) = Sat(a + b) /\ Sat(Sat(a) + b) = Sat(a + b)
BY ConstantsAre DEF Sat

(* What the larger of two is.                                               *)
LEMMA LargerIs ==
  ASSUME NEW m \in Int, NEW n \in Int
  PROVE  /\ Larger(m, n) \in {m, n} /\ m <= Larger(m, n) /\ n <= Larger(m, n)
         /\ m >= n => Larger(m, n) = m
         /\ m <= n => Larger(m, n) = n
BY DEF Larger

(* A bound may grow.                                                        *)
LEMMA NoLess ==
  ASSUME NEW a \in Nat, NEW b \in Nat, NEW c \in Nat, NEW d \in Nat, a <= b + c, c <= d
  PROVE  a <= b + d
OBVIOUS

(* The record of an exhaustion is one.                                      *)
LEMMA ExhaustedIs ==
  ASSUME NEW dimension \in Dimensions, NEW spent \in Counter, NEW limit \in Counter
  PROVE  /\ Exhausted(dimension, spent, limit) # None
         /\ Exhausted(dimension, spent, limit) \in [dimension : Dimensions, spent : Counter, limit : Counter]
BY MeterAssumption DEF Exhausted

(* A spend that is let through is within every renewable limit.             *)
LEMMA RenewableIs ==
  ASSUME NEW tokens \in Counter, NEW spent \in Counter, NEW cost \in Counter, NEW e,
         e = IF tokens > TokenLimit     THEN Exhausted("tokens", tokens, TokenLimit)
             ELSE IF spent >= WallLimit THEN Exhausted("wall", spent, WallLimit)
             ELSE IF cost > CostLimit   THEN Exhausted("cost", cost, CostLimit)
             ELSE None
  PROVE  /\ e \in {None} \cup [dimension : Dimensions, spent : Counter, limit : Counter]
         /\ e = None => tokens <= TokenLimit /\ spent < WallLimit /\ cost <= CostLimit
<1>1. "tokens" \in Dimensions /\ "wall" \in Dimensions /\ "cost" \in Dimensions
  BY DEF Dimensions
<1>2. TokenLimit \in Counter /\ WallLimit \in Counter /\ CostLimit \in Counter
  BY ConstantsAre
<1>3. CASE tokens > TokenLimit
  BY <1>1, <1>2, <1>3, ExhaustedIs
<1>4. CASE ~ (tokens > TokenLimit) /\ spent >= WallLimit
  BY <1>1, <1>2, <1>4, ExhaustedIs
<1>5. CASE ~ (tokens > TokenLimit) /\ ~ (spent >= WallLimit) /\ cost > CostLimit
  BY <1>1, <1>2, <1>5, ExhaustedIs
<1>6. CASE ~ (tokens > TokenLimit) /\ ~ (spent >= WallLimit) /\ ~ (cost > CostLimit)
  <2>1. e = None
    BY <1>6
  <2>2. tokens <= TokenLimit /\ spent < WallLimit /\ cost <= CostLimit
    BY <1>2, <1>6, ConstantsAre DEF Counter
  <2> QED BY <2>1, <2>2
<1> QED BY <1>3, <1>4, <1>5, <1>6

-----------------------------------------------------------------------------
Exhaustions == [dimension : Dimensions, spent : Counter, limit : Counter]

(* What a call that renews the check leaves when it returns Ok.             *)
Kept == /\ Sat(tokens_input + tokens_output) <= TokenLimit
        /\ elapsed < WallLimit /\ cost_micros <= CostLimit

(* check_renewable_exhaustion.                                              *)
LEMMA CheckKeeps ==
  ASSUME CheckRenewable, tokens_input' \in Counter, tokens_output' \in Counter,
         elapsed' \in Counter, cost_micros' \in Counter
  PROVE  exhaustion' \in {None} \cup Exhaustions /\ (exhaustion' = None => Kept')
<1>1. \A a, b \in Counter : Sat(a + b) \in Counter
  BY SatIs, ConstantsAre DEF Counter
<1>2. Sat(tokens_input' + tokens_output') \in Counter
  BY <1>1
<1> QED BY <1>2, RenewableIs DEF CheckRenewable, Exhaustions, Kept

(* tick_wall.                                                               *)
LEMMA TickKeeps ==
  ASSUME MeterTypeOK, NEW now \in Nat, TickWall(now)
  PROVE  MeterTypeOK' /\ (exhaustion' = None => Kept')
<1>1. /\ UNCHANGED <<spent_steps, tokens_input, tokens_output, tokens_estimated, cost_micros, paused,
                     consecutive_format_errors, repair_rounds_used>>
      /\ last_tick' = Larger(now, last_tick) /\ CheckRenewable
  BY DEF TickWall, spend, rounds
<1>2. /\ tokens_input \in Counter /\ tokens_output \in Counter /\ cost_micros \in Counter
      /\ elapsed \in Counter /\ elapsed \in Nat /\ last_tick \in Nat
  BY ConstantsAre DEF MeterTypeOK, Counter
<1>3. last_tick' \in Nat
  BY <1>1, <1>2 DEF Larger
<1>4. elapsed' \in Counter
  <2>1. CASE paused
    BY <1>2, <2>1 DEF TickWall
  <2>2. CASE ~paused
    <3>1. elapsed' = Sat(elapsed + Larger(now - last_tick, 0))
      BY <2>2 DEF TickWall
    <3>2. elapsed + Larger(now - last_tick, 0) \in Nat
      BY <1>2 DEF Larger
    <3> QED BY <3>1, <3>2, SatIs
  <2> QED BY <2>1, <2>2
<1>5. exhaustion' \in {None} \cup Exhaustions /\ (exhaustion' = None => Kept')
  BY <1>1, <1>2, <1>4, CheckKeeps
<1>6. MeterTypeOK'
  BY <1>1, <1>3, <1>4, <1>5 DEF MeterTypeOK, Exhaustions
<1> QED BY <1>5, <1>6

(* record_tokens.                                                           *)
LEMMA TokensKeep ==
  ASSUME MeterTypeOK, NEW input \in Nat, NEW output \in Nat, NEW estimated \in BOOLEAN,
         RecordTokens(input, output, estimated)
  PROVE  MeterTypeOK' /\ (exhaustion' = None => Kept')
<1>1. /\ UNCHANGED <<spent_steps, elapsed, last_tick, paused, consecutive_format_errors, repair_rounds_used>>
      /\ tokens_input' = Sat(tokens_input + input) /\ tokens_output' = Sat(tokens_output + output)
      /\ cost_micros' = Sat(cost_micros + CostOf(input, output))
      /\ tokens_estimated' = (tokens_estimated \/ estimated) /\ CheckRenewable
  BY DEF RecordTokens, wall, rounds
<1>2. /\ tokens_input \in Nat /\ tokens_output \in Nat /\ cost_micros \in Nat /\ elapsed \in Counter
  BY ConstantsAre DEF MeterTypeOK, Counter
<1>3. input * InputPrice \in Nat /\ output * OutputPrice \in Nat
  BY ConstantsAre
<1>4. CostOf(input, output) \in Nat
  <2>1. CostOf(input, output) = Sat(input * InputPrice + output * OutputPrice)
    BY <1>3, SatOfSum DEF CostOf
  <2> QED BY <1>3, <2>1, SatIs, ConstantsAre DEF Counter
<1>5. tokens_input' \in Counter /\ tokens_output' \in Counter /\ cost_micros' \in Counter
  BY <1>1, <1>2, <1>4, SatIs
<1>6. exhaustion' \in {None} \cup Exhaustions /\ (exhaustion' = None => Kept')
  BY <1>1, <1>2, <1>5, CheckKeeps
<1>7. tokens_estimated' \in BOOLEAN
  BY <1>1 DEF MeterTypeOK
<1>8. MeterTypeOK'
  BY <1>1, <1>5, <1>6, <1>7 DEF MeterTypeOK, Exhaustions
<1> QED BY <1>6, <1>8

(* charge_step, record_format_error and record_format_ok touch no           *)
(* renewable budget.                                                        *)
LEMMA CountKeeps ==
  ASSUME MeterTypeOK, ChargeStep \/ RecordFormatError \/ RecordFormatOk
  PROVE  MeterTypeOK' /\ UNCHANGED <<tokens_input, tokens_output, elapsed, cost_micros>>
<1> USE DEF wall, rounds, spend
<1>1. /\ MaxU64 \in Nat /\ StepLimit \in Counter /\ FormatErrorLimit \in Counter
      /\ spent_steps \in Counter /\ consecutive_format_errors \in Counter /\ 0 \in Counter
  BY ConstantsAre DEF MeterTypeOK, Counter
<1>2. CASE ChargeStep
  <2>1. \/ spent_steps >= StepLimit /\ exhaustion' = Exhausted("steps", spent_steps, StepLimit)
           /\ spent_steps' = spent_steps
        \/ ~ (spent_steps >= StepLimit) /\ spent_steps' = spent_steps + 1 /\ exhaustion' = exhaustion
    BY <1>2 DEF ChargeStep
  <2>2. spent_steps' \in Counter
    BY <1>1, <2>1 DEF Counter
  <2>3. exhaustion' = exhaustion \/ exhaustion' \in Exhaustions
    BY <1>1, <2>1, ExhaustedIs DEF Dimensions, Exhaustions
  <2>4. UNCHANGED <<tokens_input, tokens_output, tokens_estimated, cost_micros, wall, rounds>>
    BY <1>2 DEF ChargeStep
  <2> QED BY <2>2, <2>3, <2>4 DEF MeterTypeOK, Exhaustions
<1>3. CASE RecordFormatError
  <2>1. consecutive_format_errors' = Sat(consecutive_format_errors + 1)
    BY <1>3 DEF RecordFormatError
  <2>2. consecutive_format_errors' \in Counter
    BY <1>1, <2>1, SatIs DEF Counter
  <2>3. exhaustion' = Exhausted("format_errors", consecutive_format_errors', FormatErrorLimit) \/ exhaustion' = exhaustion
    BY <1>3 DEF RecordFormatError
  <2>4. exhaustion' = exhaustion \/ exhaustion' \in Exhaustions
    BY <1>1, <2>2, <2>3, ExhaustedIs DEF Dimensions, Exhaustions
  <2>5. UNCHANGED <<spend, wall, repair_rounds_used>>
    BY <1>3 DEF RecordFormatError
  <2> QED BY <2>2, <2>4, <2>5 DEF MeterTypeOK, Exhaustions
<1>4. CASE RecordFormatOk
  BY <1>1, <1>4 DEF RecordFormatOk, MeterTypeOK
<1> QED BY <1>2, <1>3, <1>4
=============================================================================
