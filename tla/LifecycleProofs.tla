--------------------------- MODULE LifecycleProofs ---------------------------
(***************************************************************************)
(* Proofs about Lifecycle, for every number of processes, attempts, steps   *)
(* and delays: however processes race for a run and are killed, no two of   *)
(* them write the journal of one attempt, and no sequence of kills and      *)
(* resumes buys wall time.                                                  *)
(***************************************************************************)
EXTENDS Lifecycle, SequenceTheorems, WellFoundedInduction, TLAPS

-----------------------------------------------------------------------------
(***************************************************************************)
(* Induction over the numbers, and what Chosen computes.                    *)
(***************************************************************************)
LessThan == {pair \in Nat \X Nat : pair[1] < pair[2]}

(* Every nonempty set of numbers has a least one.                           *)
LEMMA LeastIs ==
  ASSUME NEW S, S \subseteq Nat, S # {}
  PROVE  \E n \in S : \A m \in S : n <= m
<1>1. IsWellFoundedOn(LessThan, Nat)
  <2>1. LessThan = OpToRel(<, Nat)
    BY DEF OpToRel, LessThan
  <2> QED BY <2>1, NatLessThanWellFounded
<1>2. \E n \in S : \A m \in S : ~ (<<m, n>> \in LessThan)
  BY <1>1, WFMin
<1>3. \A n, m \in Nat : ~ (<<m, n>> \in LessThan) => n <= m
  BY DEF LessThan
<1> QED BY <1>2, <1>3

(* A set with zero and every successor has all numbers.                     *)
LEMMA FromZero ==
  ASSUME NEW S, S \subseteq Nat, 0 \in S, \A n \in S : n + 1 \in S
  PROVE  S = Nat
<1> SUFFICES ASSUME Nat \ S # {} PROVE FALSE
  OBVIOUS
<1>1. PICK n \in Nat \ S : \A m \in Nat \ S : n <= m
  BY LeastIs
<1>2. n - 1 \in Nat /\ n - 1 \notin Nat \ S
  BY <1>1
<1>3. (n - 1) + 1 \in S
  BY <1>2
<1> QED BY <1>1, <1>3

\* What Chosen has chosen of the first n.
Choosing(f, s, I, n) ==
  f = [i \in 0..n |-> IF i = 0 THEN <<>>
                      ELSE IF i \in I THEN Append(f[i - 1], s[i]) ELSE f[i - 1]]

(* There is such a function for every n.                                    *)
LEMMA ChoosingExists ==
  ASSUME NEW s, NEW I, NEW length \in Nat
  PROVE  \E f : Choosing(f, s, I, length)
<1> DEFINE S == {n \in Nat : \E f : Choosing(f, s, I, n)}
<1>1. 0 \in S
  <2> DEFINE f == [i \in 0..0 |-> <<>>]
  <2>1. Choosing(f, s, I, 0)
    BY DEF Choosing
  <2> QED BY <2>1
<1>2. ASSUME NEW n \in S PROVE n + 1 \in S
  <2>1. PICK f : Choosing(f, s, I, n)
    OBVIOUS
  <2> DEFINE next == IF n + 1 \in I THEN Append(f[n], s[n + 1]) ELSE f[n]
             g == [i \in 0..(n + 1) |-> IF i = n + 1 THEN next ELSE f[i]]
  <2>2. \A i \in 0..n : f[i] = IF i = 0 THEN <<>> ELSE IF i \in I THEN Append(f[i - 1], s[i]) ELSE f[i - 1]
    BY <2>1 DEF Choosing
  <2>3. ASSUME NEW i \in 0..(n + 1)
        PROVE  g[i] = IF i = 0 THEN <<>> ELSE IF i \in I THEN Append(g[i - 1], s[i]) ELSE g[i - 1]
    <3>1. CASE i = n + 1
      <4>1. i # 0 /\ i - 1 = n /\ n \in 0..(n + 1) /\ n # n + 1
        BY <3>1
      <4>2. g[i] = next /\ g[i - 1] = f[n]
        BY <3>1, <4>1
      <4> QED BY <3>1, <4>1, <4>2
    <3>2. CASE i # n + 1
      <4>1. i \in 0..n /\ g[i] = f[i] /\ (i # 0 => i - 1 \in 0..n /\ i - 1 # n + 1)
        BY <3>2
      <4>2. i # 0 => g[i - 1] = f[i - 1]
        BY <4>1
      <4> QED BY <2>2, <4>1, <4>2
    <3> QED BY <3>1, <3>2
  <2>4. Choosing(g, s, I, n + 1)
    <3> DEFINE h == [i \in 0..(n + 1) |-> IF i = 0 THEN <<>>
                       ELSE IF i \in I THEN Append(g[i - 1], s[i]) ELSE g[i - 1]]
    <3>1. \A i \in 0..(n + 1) : g[i] = h[i]
      BY <2>3
    <3>2. g = h
      BY <3>1
    <3> QED BY <3>2 DEF Choosing
  <2> HIDE DEF g
  <2> QED BY <2>4
<1>3. S = Nat
  <2> HIDE DEF S
  <2>1. S \subseteq Nat
    BY DEF S
  <2> QED BY <1>1, <1>2, <2>1, FromZero
<1> QED BY <1>3

(* Chosen is what such a function ends with.                                *)
LEMMA ChosenIs ==
  ASSUME NEW s, NEW I, Len(s) \in Nat
  PROVE  \E f : Choosing(f, s, I, Len(s)) /\ Chosen(s, I) = f[Len(s)]
<1> DEFINE f == CHOOSE f : Choosing(f, s, I, Len(s))
<1>1. Choosing(f, s, I, Len(s))
  BY ChoosingExists
<1>2. Chosen(s, I) = f[Len(s)]
  BY DEF Chosen, Choosing
<1> QED BY <1>1, <1>2

(* What is chosen is a sequence of elements at the indices chosen.          *)
LEMMA ChosenFrom ==
  ASSUME NEW S, NEW s \in Seq(S), NEW I
  PROVE  /\ Chosen(s, I) \in Seq(S)
         /\ \A k \in DOMAIN Chosen(s, I) : \E i \in I \cap DOMAIN s : Chosen(s, I)[k] = s[i]
<1>1. PICK f : Choosing(f, s, I, Len(s)) /\ Chosen(s, I) = f[Len(s)]
  BY ChosenIs
<1> DEFINE From(n) == /\ f[n] \in Seq(S)
                      /\ \A k \in DOMAIN f[n] : \E i \in I \cap DOMAIN s : f[n][k] = s[i]
           N == {n \in Nat : n <= Len(s) => From(n)}
<1>2. \A i \in 0..Len(s) : f[i] = IF i = 0 THEN <<>> ELSE IF i \in I THEN Append(f[i - 1], s[i]) ELSE f[i - 1]
  BY <1>1 DEF Choosing
<1>3. 0 \in N
  <2>1. f[0] = <<>>
    BY <1>2
  <2>2. <<>> \in Seq(S) /\ DOMAIN <<>> = {}
    OBVIOUS
  <2>3. From(0)
    BY <2>1, <2>2
  <2> QED BY <2>3
<1>4. ASSUME NEW n \in N PROVE n + 1 \in N
  <2> SUFFICES ASSUME n + 1 <= Len(s) PROVE From(n + 1)
    OBVIOUS
  <2>1. n \in Nat /\ From(n) /\ n + 1 \in 0..Len(s) /\ n + 1 # 0 /\ (n + 1) - 1 = n /\ n + 1 \in DOMAIN s
    OBVIOUS
  <2>2. CASE n + 1 \in I
    <3>1. f[n + 1] = Append(f[n], s[n + 1])
      BY <1>2, <2>1, <2>2
    <3>2. s[n + 1] \in S
      BY <2>1
    <3>3. /\ f[n + 1] \in Seq(S) /\ DOMAIN f[n + 1] = 1..(Len(f[n]) + 1)
          /\ \A k \in 1..Len(f[n]) : f[n + 1][k] = f[n][k]
          /\ f[n + 1][Len(f[n]) + 1] = s[n + 1]
      BY <2>1, <3>1, <3>2, AppendProperties
    <3>4. DOMAIN f[n] = 1..Len(f[n]) /\ Len(f[n]) \in Nat
      BY <2>1
    <3>5. ASSUME NEW k \in DOMAIN f[n + 1]
          PROVE  \E i \in I \cap DOMAIN s : f[n + 1][k] = s[i]
      <4>1. CASE k \in 1..Len(f[n])
        BY <2>1, <3>3, <3>4, <4>1
      <4>2. CASE k = Len(f[n]) + 1
        BY <2>1, <2>2, <3>3, <4>2
      <4> QED BY <3>3, <3>4, <4>1, <4>2
    <3> QED BY <3>3, <3>5
  <2>3. CASE n + 1 \notin I
    <3>1. f[n + 1] = f[n]
      BY <1>2, <2>1, <2>3
    <3> QED BY <2>1, <3>1
  <2> QED BY <2>2, <2>3
<1>5. N = Nat
  <2> HIDE DEF N
  <2>1. N \subseteq Nat
    BY DEF N
  <2> QED BY <1>3, <1>4, <2>1, FromZero
<1>6. From(Len(s))
  <2>1. Len(s) \in Nat
    OBVIOUS
  <2> QED BY <1>5, <2>1
<1> QED BY <1>1, <1>6

-----------------------------------------------------------------------------
(***************************************************************************)
(* The inductive invariant.                                                 *)
(***************************************************************************)
\* Replies that a journal holds: the backend's, and a replay that diverged.
Answers == Replies \cup {Diverged}

Outcomes == {NothingChecked, CouldNotRun, Unreadable}

AnswersOK(replies) ==
  /\ replies \in Seq(Range(replies))
  /\ \A i \in DOMAIN replies : replies[i].reply \in Answers

\* From the check of the wall to the call it is for.
Asking == {"budgets_1", "request", "model"}

(* A process wherever it is.                                                *)
Typed(d) ==
  /\ DOMAIN d = DOMAIN Idle
  /\ d.pc \in PCs /\ d.role \in {None, "run", "resume", "audit"}
  /\ d.from \in Nat /\ d.head \in Nat /\ d.attempt \in Nat
  /\ d.carried \in Nat /\ d.mono \in Nat /\ d.step \in 0..StepLimit + 1
  /\ d.reply \in Replies \cup {None} /\ d.cause \in Causes \cup {None}
  /\ d.outcome \in Outcomes \cup {None}
  /\ AnswersOK(d.replies)

(* And by where it is: the model is asked under the limits.                 *)
Timely(d) ==
  /\ d.pc = "stopping" => d.cause \in Causes
  /\ d.pc = "compare" => d.role = "audit"
  /\ d.pc \in {"list", "mkdir", "header"} \cup (LoopPCs \ {"stopping"}) => d.step <= StepLimit
  /\ d.pc \in Asking /\ d.role # "audit" => Elapsed(d) < WallLimit

(* What an attempt carries: the time up to a record of the one it           *)
(* continues, and what that one carried.                                    *)
CarriedIs(from, head, carried) ==
  IF from = 0 THEN carried = 0
  ELSE /\ Begun(from) /\ head \in DOMAIN attempts[from]
       /\ carried = attempts[from][1].body[3] + attempts[from][head].mono

Live(d) == d.role # "audit" /\ d.pc \in LoopPCs

(* The journal a process writes is behind it and has no RunStopped.         *)
OwnOK(d) ==
  LET own == attempts[d.attempt]
  IN  /\ own # <<>> /\ own[1].body[3] = d.carried
      /\ own[Len(own)].step <= d.step /\ own[Len(own)].mono <= d.mono
      /\ own[Len(own)].kind # "RunStopped"

(* What a process read of the attempts, and its place among them.           *)
Placed(d) ==
  /\ d.from <= Len(attempts)
  /\ d.role # "audit" /\ d.pc \in {"list", "mkdir", "header"} \cup LoopPCs =>
       CarriedIs(d.from, d.head, d.carried)
  /\ d.pc \in {"list", "mkdir", "header"} => d.role # "audit"
  /\ d.pc = "mkdir" => d.attempt \in 1..(Len(attempts) + 1) /\ d.attempt <= MaxAttempts /\ d.from < d.attempt
  /\ d.pc = "header" =>
       /\ d.from < d.attempt
       /\ d.attempt \in DOMAIN attempts /\ attempts[d.attempt] = <<>>
  /\ Live(d) => d.attempt \in DOMAIN attempts /\ OwnOK(d)
  /\ d.role = "audit" /\ d.pc # "idle" =>
       d.from \in DOMAIN attempts /\ 1..d.head \subseteq DOMAIN attempts[d.from]

(* One record of a journal, by its place in it.                             *)
RecordOK(records, i) ==
  LET r == records[i]
  IN  /\ r.kind \in Kinds /\ r.mono \in Nat /\ r.step \in 0..StepLimit + 1
      /\ (r.kind = "RunStarted") <=> (i = 1)
      /\ r.kind = "RunStopped" => i = Len(records) /\ r.body[1] \in Causes /\ r.body[2] \in Outcomes
      /\ i > 1 => r.step >= records[i - 1].step /\ r.mono >= records[i - 1].mono
      /\ r.kind = "ModelReplied" => r.body[1] \in Answers

Whole(records) ==
  /\ records \in Seq(Range(records))
  /\ \A i \in DOMAIN records : RecordOK(records, i)

Headed(n) ==
  LET header == attempts[n][1].body
  IN  header[1] \in 0..(n - 1) /\ header[3] \in Nat /\ CarriedIs(header[1], header[2], header[3])

Journals ==
  /\ attempts \in Seq(Range(attempts)) /\ Len(attempts) <= MaxAttempts
  /\ \A n \in DOMAIN attempts : Whole(attempts[n]) /\ (attempts[n] # <<>> => Headed(n))

Drivers ==
  /\ DOMAIN driver = Processes
  /\ \A p \in Processes : Typed(driver[p]) /\ Timely(driver[p]) /\ Placed(driver[p])

IInv == Journals /\ Drivers /\ OneWriter

-----------------------------------------------------------------------------
(***************************************************************************)
(* How the journals grow.                                                   *)
(***************************************************************************)
\* No record is lost or changed.
Grown ==
  /\ DOMAIN attempts \subseteq DOMAIN attempts'
  /\ \A n \in DOMAIN attempts :
       /\ DOMAIN attempts[n] \subseteq DOMAIN attempts'[n]
       /\ \A i \in DOMAIN attempts[n] : attempts'[n][i] = attempts[n][i]

(* A sequence is one over its own elements.                                 *)
LEMMA InRange ==
  ASSUME NEW S, NEW s \in Seq(S)
  PROVE  s \in Seq(Range(s))
BY DEF Range

(* Appending an element.                                                    *)
LEMMA Appended ==
  ASSUME NEW s, s \in Seq(Range(s)), NEW e, NEW t, t = Append(s, e)
  PROVE  /\ t \in Seq(Range(t)) /\ Len(t) = Len(s) + 1 /\ Len(s) \in Nat
         /\ DOMAIN t = DOMAIN s \cup {Len(s) + 1} /\ DOMAIN s = 1..Len(s)
         /\ t[Len(s) + 1] = e /\ \A i \in DOMAIN s : t[i] = s[i]
<1> DEFINE S == Range(s) \cup {e}
<1>1. s \in Seq(S) /\ e \in S
  OBVIOUS
<1> HIDE DEF S
<1>2. /\ t \in Seq(S) /\ Len(t) = Len(s) + 1 /\ \A i \in 1..Len(s) : t[i] = s[i]
      /\ t[Len(s) + 1] = e
  BY <1>1, AppendProperties
<1>3. DOMAIN s = 1..Len(s) /\ Len(s) \in Nat /\ DOMAIN t = 1..Len(t)
  BY <1>1, <1>2
<1>4. t \in Seq(Range(t))
  BY <1>2, InRange
<1> QED BY <1>2, <1>3, <1>4

With(s, i, e) == [s EXCEPT ![i] = e]

(* Replacing an element.                                                    *)
LEMMA Replaced ==
  ASSUME NEW s, s \in Seq(Range(s)), NEW i \in DOMAIN s, NEW e, NEW t, t = With(s, i, e)
  PROVE  t \in Seq(Range(t)) /\ Len(t) = Len(s)
<1> DEFINE S == Range(s) \cup {e}
<1>1. s \in Seq(S) /\ e \in S
  OBVIOUS
<1> HIDE DEF S
<1>2. i \in 1..Len(s)
  BY <1>1
<1>3. t \in Seq(S) /\ Len(t) = Len(s)
  BY <1>1, <1>2, ExceptSeq DEF With
<1>4. t \in Seq(Range(t))
  BY <1>3, InRange
<1> QED BY <1>3, <1>4

(* A new attempt is empty.                                                  *)
LEMMA MadeGrows ==
  ASSUME Journals, attempts' = Append(attempts, <<>>)
  PROVE  /\ Grown /\ Len(attempts') = Len(attempts) + 1
         /\ attempts' \in Seq(Range(attempts'))
         /\ DOMAIN attempts' = DOMAIN attempts \cup {Len(attempts) + 1}
         /\ attempts'[Len(attempts) + 1] = <<>>
         /\ \A n \in DOMAIN attempts : attempts'[n] = attempts[n]
<1>1. attempts \in Seq(Range(attempts))
  BY DEF Journals
<1>2. /\ attempts' \in Seq(Range(attempts')) /\ Len(attempts') = Len(attempts) + 1
      /\ DOMAIN attempts' = DOMAIN attempts \cup {Len(attempts) + 1}
      /\ attempts'[Len(attempts) + 1] = <<>>
      /\ \A n \in DOMAIN attempts : attempts'[n] = attempts[n]
  <2> DEFINE empty == <<>>
  <2>1. attempts' = Append(attempts, empty)
    OBVIOUS
  <2> HIDE DEF empty
  <2>2. attempts' \in Seq(Range(attempts')) /\ Len(attempts') = Len(attempts) + 1
    BY ONLY <1>1, <2>1, Appended
  <2>3. DOMAIN attempts' = DOMAIN attempts \cup {Len(attempts) + 1}
    BY ONLY <1>1, <2>1, Appended
  <2>4. attempts'[Len(attempts) + 1] = empty
    BY ONLY <1>1, <2>1, Appended
  <2>5. \A n \in DOMAIN attempts : attempts'[n] = attempts[n]
    BY ONLY <1>1, <2>1, Appended
  <2> QED BY <2>2, <2>3, <2>4, <2>5 DEF empty
<1>3. Grown
  BY <1>2 DEF Grown
<1> QED BY <1>2, <1>3

\* One record more of attempt a.
Appends(a, record) == attempts' = [attempts EXCEPT ![a] = Append(@, record)]

(* The other journals are as they were.                                     *)
LEMMA AppendGrows ==
  ASSUME Journals, NEW a \in DOMAIN attempts, NEW record, Appends(a, record)
  PROVE  /\ Grown /\ Len(attempts') = Len(attempts)
         /\ attempts' \in Seq(Range(attempts')) /\ DOMAIN attempts' = DOMAIN attempts
         /\ attempts'[a] = Append(attempts[a], record)
         /\ \A n \in DOMAIN attempts : n # a => attempts'[n] = attempts[n]
<1>1. attempts \in Seq(Range(attempts)) /\ attempts[a] \in Seq(Range(attempts[a]))
  BY DEF Journals, Whole
<1>2. /\ Len(attempts') = Len(attempts)
      /\ attempts' \in Seq(Range(attempts')) /\ DOMAIN attempts' = DOMAIN attempts
      /\ attempts'[a] = Append(attempts[a], record)
      /\ \A n \in DOMAIN attempts : n # a => attempts'[n] = attempts[n]
  <2> DEFINE longer == Append(attempts[a], record)
  <2>1. attempts' = [attempts EXCEPT ![a] = longer]
    BY DEF Appends
  <2> HIDE DEF longer
  <2>2. a \in DOMAIN attempts
    OBVIOUS
  <2>3. attempts' \in Seq(Range(attempts')) /\ Len(attempts') = Len(attempts)
    <3>1. attempts' = With(attempts, a, longer)
      BY <2>1 DEF With
    <3> QED BY ONLY <1>1, <2>2, <3>1, Replaced
  <2>4. DOMAIN attempts' = DOMAIN attempts
    BY ONLY <2>1
  <2>5. attempts'[a] = longer
    BY ONLY <2>1, <2>2
  <2>6. \A n \in DOMAIN attempts : n # a => attempts'[n] = attempts[n]
    BY ONLY <2>1
  <2> QED BY <2>3, <2>4, <2>5, <2>6 DEF longer
<1>3. /\ DOMAIN attempts[a] \subseteq DOMAIN attempts'[a]
      /\ \A i \in DOMAIN attempts[a] : attempts'[a][i] = attempts[a][i]
  BY <1>1, <1>2, Appended
<1>4. Grown
  BY <1>2, <1>3 DEF Grown
<1> QED BY <1>2, <1>4

(* A journal with a record has a first one.                                 *)
LEMMA HasFirst ==
  ASSUME Journals, NEW n \in DOMAIN attempts
  PROVE  attempts[n] # <<>> <=> 1 \in DOMAIN attempts[n]
<1>1. attempts[n] \in Seq(Range(attempts[n]))
  BY DEF Journals, Whole
<1> QED BY <1>1

(* What was carried stays so.                                               *)
LEMMA CarriedKept ==
  ASSUME Journals, Grown, NEW from, NEW head, NEW carried, CarriedIs(from, head, carried)
  PROVE  /\ from # 0 => /\ from \in DOMAIN attempts' /\ attempts'[from] # <<>>
                        /\ head \in DOMAIN attempts'[from]
                        /\ carried = attempts'[from][1].body[3] + attempts'[from][head].mono
         /\ from = 0 => carried = 0
<1> SUFFICES ASSUME from # 0
             PROVE  /\ from \in DOMAIN attempts' /\ attempts'[from] # <<>>
                    /\ head \in DOMAIN attempts'[from]
                    /\ carried = attempts'[from][1].body[3] + attempts'[from][head].mono
  BY DEF CarriedIs
<1>1. /\ from \in DOMAIN attempts /\ attempts[from] # <<>> /\ head \in DOMAIN attempts[from]
      /\ carried = attempts[from][1].body[3] + attempts[from][head].mono
  BY DEF CarriedIs, Begun
<1>2. 1 \in DOMAIN attempts[from]
  BY <1>1, HasFirst
<1>3. /\ from \in DOMAIN attempts' /\ head \in DOMAIN attempts'[from] /\ 1 \in DOMAIN attempts'[from]
      /\ attempts'[from][1] = attempts[from][1] /\ attempts'[from][head] = attempts[from][head]
  BY <1>1, <1>2 DEF Grown
<1>4. attempts'[from] # <<>>
  BY <1>3
<1> QED BY <1>1, <1>3, <1>4

-----------------------------------------------------------------------------
(***************************************************************************)
(* What a step of the loop does to its process.                             *)
(***************************************************************************)
(* The process d, further on: the same run, the same attempt, no earlier.   *)
Further(d, next) ==
  /\ next.role = d.role /\ next.attempt = d.attempt
  /\ next.from = d.from /\ next.head = d.head /\ next.carried = d.carried
  /\ next.mono >= d.mono /\ next.step >= d.step

Onward == LoopPCs \cup {"compare", "committed"}

(* The fields of the idle process are those of every one.                   *)
LEMMA Fields ==
  DOMAIN Idle = {"pc", "role", "from", "head", "attempt", "carried", "mono", "above", "replies", "results",
                 "step", "turns", "reply", "intent", "cause", "diverged", "copy", "anchored", "outcome"}
BY DEF Idle

(* Where the loop goes, any process may be.                                 *)
LEMMA OnwardIs == Onward \subseteq PCs /\ "header" \in PCs /\ "list" \in PCs /\ "mkdir" \in PCs
BY DEF Onward, PCs, LoopPCs

(* Nothing but time, and only at the place, is needed to go there.          *)
LEMMA Goes ==
  ASSUME NEW d, Typed(d), NEW pc \in PCs
  PROVE  /\ Typed(Goto(d, pc)) /\ Further(d, Goto(d, pc)) /\ Goto(d, pc).pc = pc
         /\ Goto(d, pc).step = d.step /\ Goto(d, pc).mono = d.mono /\ Goto(d, pc).cause = d.cause
BY Fields DEF Typed, Further, Goto

(* A stop has its cause.                                                    *)
LEMMA Stops ==
  ASSUME NEW d, Typed(d), NEW why \in Causes
  PROVE  Typed(Stop(d, why)) /\ Timely(Stop(d, why)) /\ Further(d, Stop(d, why)) /\ Stop(d, why).pc = "stopping"
<1>1. "stopping" \in PCs /\ "stopping" \notin Asking
  BY DEF PCs, LoopPCs, Asking
<1>2. /\ DOMAIN Stop(d, why) = DOMAIN d /\ Stop(d, why).pc = "stopping" /\ Stop(d, why).cause = why
      /\ \A field \in DOMAIN d \ {"pc", "cause"} : Stop(d, why)[field] = d[field]
  BY Fields DEF Typed, Stop
<1>3. Typed(Stop(d, why)) /\ Further(d, Stop(d, why))
  BY <1>1, <1>2, Fields DEF Typed, Further
<1> QED BY <1>1, <1>2, <1>3 DEF Timely

(* A place of the loop where nothing is asked.                              *)
LEMMA GoesOn ==
  ASSUME NEW d, Typed(d), d.step <= StepLimit, NEW pc \in LoopPCs \ (Asking \cup {"stopping"})
  PROVE  Typed(Goto(d, pc)) /\ Timely(Goto(d, pc)) /\ Further(d, Goto(d, pc)) /\ Goto(d, pc).pc = pc
<1>1. pc \in PCs /\ "compare" \notin LoopPCs
  BY DEF PCs, LoopPCs
<1> QED BY <1>1, Goes DEF Timely

(* One step further and another.                                            *)
LEMMA FurtherStill ==
  ASSUME NEW d, NEW e, NEW f, Typed(d), Typed(e), Typed(f), Further(d, e), Further(e, f)
  PROVE  Further(d, f)
BY LifecycleAssumption DEF Further, Typed

(* A step of the loop.                                                      *)
Fitting(d, next, record) ==
  /\ record.kind \in Kinds /\ record.step = next.step /\ record.mono = next.mono
  /\ record.kind = "RunStarted" <=> d.pc = "header"
  /\ d.pc = "header" => record.body[1] = d.from /\ record.body[2] = d.head /\ record.body[3] = d.carried
  /\ record.kind = "RunStopped" =>
       next.pc = "committed" /\ record.body[1] \in Causes /\ record.body[2] \in Outcomes
  /\ record.kind = "ModelReplied" => record.body[1] \in Answers

Continues(p, next) ==
  /\ driver[p].pc \in LoopPCs \cup {"header"}
  /\ driver' = [driver EXCEPT ![p] = next]
  /\ Typed(next) /\ Timely(next) /\ Further(driver[p], next) /\ next.pc \in Onward
  /\ \/ UNCHANGED attempts /\ (next.role = "audit" \/ driver[p].pc # "header")
     \/ next.role # "audit" /\ \E record : Fitting(driver[p], next, record) /\ Appends(next.attempt, record)

(* A record that fits is written, into an audit's own journal or the        *)
(* attempt's.                                                               *)
LEMMA WriteContinues ==
  ASSUME NEW p, driver[p].pc \in LoopPCs \cup {"header"}, NEW next, Typed(next), Timely(next),
         Further(driver[p], next), next.pc \in Onward,
         NEW kind \in Kinds, NEW body, Write(p, kind, body, next),
         kind = "RunStarted" <=> driver[p].pc = "header",
         driver[p].pc = "header" => body = <<driver[p].from, driver[p].head, driver[p].carried>>,
         kind = "RunStopped" /\ next.role # "audit" =>
           next.pc = "committed" /\ body[1] \in Causes /\ body[2] \in Outcomes,
         kind = "ModelReplied" => body[1] \in Answers
  PROVE  \E d : Continues(p, d)
<1> DEFINE record == [kind |-> kind, step |-> next.step, mono |-> next.mono, body |-> body]
<1>1. CASE next.role = "audit"
  <2> DEFINE own == [next EXCEPT !.copy = Append(@, record)]
  <2>1. Quietly(p, own)
    BY <1>1 DEF Write
  <2>2. DOMAIN own = DOMAIN next /\ \A field \in DOMAIN next \ {"copy"} : own[field] = next[field]
    OBVIOUS
  <2> HIDE DEF own
  <2>3. Typed(own) /\ Timely(own) /\ Further(driver[p], own) /\ own.pc \in Onward /\ own.role = "audit"
    BY <1>1, <2>2, Fields DEF Typed, Timely, Further, Elapsed
  <2> QED BY <2>1, <2>3 DEF Quietly, Continues
<1>2. CASE next.role # "audit"
  <2>1. driver' = [driver EXCEPT ![p] = next] /\ Appends(next.attempt, record)
    BY <1>2 DEF Write, Appends
  <2>2. Fitting(driver[p], next, record)
    BY <1>2 DEF Fitting
  <2> HIDE DEF record
  <2> QED BY <1>2, <2>1, <2>2 DEF Continues
<1> QED BY <1>1, <1>2

(* The step that takes a reply.                                             *)
LEMMA RepliedContinues ==
  ASSUME NEW p, Typed(driver[p]), At(p, "model"), NEW reply \in Answers, NEW d, Typed(d), Further(driver[p], d),
         d.step <= StepLimit, Replied(p, reply, d)
  PROVE  \E next : Continues(p, next)
<1> DEFINE next == IF WallIsUp(d) THEN Stop(d, "wall")
                   ELSE IF reply \in {Unavailable, Diverged} THEN Stop(d, "model_unavailable")
                   ELSE [Goto(d, "budgets_2") EXCEPT !.reply = reply]
<1>1. Typed(next) /\ Timely(next) /\ Further(d, next) /\ next.pc \in Onward \ {"committed"}
  <2>1. CASE WallIsUp(d)
    BY <2>1, Stops DEF Causes, Onward, LoopPCs
  <2>2. CASE ~WallIsUp(d) /\ reply \in {Unavailable, Diverged}
    BY <2>2, Stops DEF Causes, Onward, LoopPCs
  <2>3. CASE ~WallIsUp(d) /\ reply \notin {Unavailable, Diverged}
    <3> DEFINE e == Goto(d, "budgets_2")
    <3>1. Typed(e) /\ Timely(e) /\ Further(d, e) /\ e.pc = "budgets_2"
      BY GoesOn DEF Asking, LoopPCs
    <3>2. next = [e EXCEPT !.reply = reply]
      BY <2>3
    <3> HIDE DEF e, next
    <3>3. DOMAIN next = DOMAIN e /\ next.reply = reply /\ \A field \in DOMAIN e \ {"reply"} : next[field] = e[field]
      BY <3>1, <3>2, Fields DEF Typed
    <3>4. reply \in Replies
      BY <2>3 DEF Answers
    <3> QED BY <3>1, <3>3, <3>4, Fields DEF Typed, Timely, Further, Elapsed, Onward, LoopPCs
  <2> QED BY <2>1, <2>2, <2>3
<1>2. Write(p, "ModelReplied", <<reply>>, next)
  BY DEF Replied
<1> HIDE DEF next
<1>3. Further(driver[p], next)
  BY <1>1, FurtherStill
<1>4. driver[p].pc \in LoopPCs /\ driver[p].pc # "header" /\ "ModelReplied" \in Kinds
  BY DEF At, LoopPCs, Kinds
<1> QED BY <1>1, <1>2, <1>3, <1>4, WriteContinues

(* The step that takes a result.                                            *)
LEMMA FinishedContinues ==
  ASSUME NEW p, Typed(driver[p]), At(p, "execute"), NEW result, NEW d, Typed(d), Further(driver[p], d),
         d.step <= StepLimit, Finished(p, result, d)
  PROVE  \E next : Continues(p, next)
<1> DEFINE e    == PushTurn(d, result)
           next == Ticked(e, "budgets_3")
<1>1. Typed(e) /\ Further(d, e) /\ e.step <= StepLimit
  <2>1. /\ DOMAIN e = DOMAIN d /\ e.reply = None
        /\ \A field \in DOMAIN d \ {"turns", "reply", "intent"} : e[field] = d[field]
    BY Fields DEF Typed, PushTurn
  <2> HIDE DEF e
  <2> QED BY <2>1, Fields DEF Typed, Further
<1> HIDE DEF e
<1>2. Typed(next) /\ Timely(next) /\ Further(e, next) /\ next.pc \in Onward \ {"committed"}
  <2>1. CASE WallIsUp(e)
    BY <1>1, <2>1, Stops DEF Ticked, Causes, Onward, LoopPCs
  <2>2. CASE ~WallIsUp(e)
    BY <1>1, <2>2, GoesOn DEF Ticked, Onward, LoopPCs, Asking
  <2> QED BY <2>1, <2>2
<1>3. Write(p, "ToolFinished", <<d.intent, result>>, next)
  BY DEF Finished, e
<1> HIDE DEF next
<1>4. Further(driver[p], next)
  BY <1>1, <1>2, FurtherStill
<1>5. driver[p].pc \in LoopPCs /\ driver[p].pc # "header" /\ "ToolFinished" \in Kinds
  BY DEF At, LoopPCs, Kinds
<1> QED BY <1>2, <1>3, <1>4, <1>5, WriteContinues

(* A step that writes nothing.                                              *)
LEMMA QuietContinues ==
  ASSUME NEW p, driver[p].pc \in LoopPCs, NEW next, Typed(next), Timely(next),
         Further(driver[p], next), next.pc \in Onward, Quietly(p, next)
  PROVE  \E d : Continues(p, d)
<1>1. driver[p].pc # "header"
  BY DEF LoopPCs
<1> QED BY <1>1 DEF Quietly, Continues

(* The rest of the replies are replies.                                     *)
LEMMA RestAnswers ==
  ASSUME NEW replies, AnswersOK(replies), replies # <<>>
  PROVE  AnswersOK(Tail(replies)) /\ Head(replies).reply \in Answers
<1> DEFINE S == Range(replies)
<1>1. replies \in Seq(S) /\ \A i \in DOMAIN replies : replies[i].reply \in Answers
  BY DEF AnswersOK
<1> HIDE DEF S
<1>2. /\ Tail(replies) \in Seq(S) /\ Len(Tail(replies)) = Len(replies) - 1 /\ Len(replies) \in Nat
      /\ \A i \in 1..(Len(replies) - 1) : Tail(replies)[i] = replies[i + 1]
      /\ Head(replies) = replies[1] /\ 1 \in DOMAIN replies /\ DOMAIN replies = 1..Len(replies)
  BY <1>1
<1>3. \A i \in DOMAIN Tail(replies) : i \in 1..(Len(replies) - 1) /\ i + 1 \in DOMAIN replies
  BY <1>2
<1>4. Tail(replies) \in Seq(Range(Tail(replies)))
  BY <1>2, InRange
<1> QED BY <1>1, <1>2, <1>3, <1>4 DEF AnswersOK

(* Every action of the loop is such a step.                                 *)
LEMMA LoopContinues ==
  ASSUME NEW p \in Processes, Typed(driver[p]), Timely(driver[p]), Loop(p)
  PROVE  \E next : Continues(p, next)
<1> DEFINE d == driver[p]
<1>l. StepLimit \in Nat /\ WallLimit \in Nat
  BY LifecycleAssumption
<1>1. CASE Begin(p)
  <2> DEFINE e == [d EXCEPT !.step = @ + 1]
             next == IF WallIsUp(e) THEN Stop(e, "wall")
                     ELSE IF e.step > StepLimit THEN Stop(e, "steps")
                     ELSE Goto(e, "budgets_1")
  <2>1. d.pc = "begin" /\ Quietly(p, next)
    BY <1>1 DEF Begin, At
  <2>2. d.step <= StepLimit
    BY <2>1 DEF Timely, LoopPCs
  <2>3. DOMAIN e = DOMAIN d /\ e.step = d.step + 1 /\ \A field \in DOMAIN d \ {"step"} : e[field] = d[field]
    BY Fields DEF Typed
  <2> HIDE DEF e
  <2>4. Typed(e) /\ Further(d, e) /\ e.step <= StepLimit + 1
    BY <1>l, <2>2, <2>3, Fields DEF Typed, Further
  <2>5. Typed(next) /\ Timely(next) /\ Further(e, next) /\ next.pc \in Onward
    <3>1. CASE WallIsUp(e) \/ e.step > StepLimit
      BY <2>4, <3>1, Stops DEF Causes, Onward, LoopPCs
    <3>2. CASE ~WallIsUp(e) /\ ~(e.step > StepLimit)
      <4> DEFINE f == Goto(e, "budgets_1")
      <4>1. next = f
        BY <3>2
      <4>2. "budgets_1" \in PCs /\ "budgets_1" \in Onward /\ "budgets_1" # "stopping"
        BY DEF PCs, LoopPCs, Onward
      <4>3. /\ Typed(f) /\ Further(e, f) /\ f.pc = "budgets_1" /\ f.step = e.step /\ f.mono = e.mono
            /\ f.role = e.role /\ f.carried = e.carried
        BY <2>4, <4>2, Goes DEF Further
      <4>4. e.step <= StepLimit /\ e.step \in Nat
        BY <1>l, <2>4, <3>2 DEF Typed
      <4>5. e.role # "audit" => Elapsed(f) < WallLimit
        BY <1>l, <2>4, <3>2, <4>3 DEF WallIsUp, Elapsed, Typed
      <4> HIDE DEF f, next
      <4> QED BY <4>1, <4>2, <4>3, <4>4, <4>5 DEF Timely
    <3> QED BY <3>1, <3>2
  <2> HIDE DEF next
  <2>6. Further(d, next) /\ d.pc \in LoopPCs
    BY <2>1, <2>4, <2>5, FurtherStill DEF LoopPCs
  <2> QED BY <2>1, <2>5, <2>6, QuietContinues
<1>2. CASE ObserveBudgets(p)
  <2> DEFINE to   == AfterBudgets(d.pc)
             e    == Goto(d, to)
             next == [e EXCEPT !.above = WallAbove80(d)]
  <2>1. /\ d.pc \in {"budgets_1", "budgets_2", "budgets_3"}
        /\ Quietly(p, next) \/ Write(p, "BudgetCharged", <<"wall">>, next)
    BY <1>2 DEF ObserveBudgets
  <2>2. to \in {"request", "parse", "begin"} /\ (to = "request" => d.pc = "budgets_1")
    BY <2>1 DEF AfterBudgets
  <2>3. to \in PCs /\ to \in Onward /\ d.step <= StepLimit /\ d.pc \in LoopPCs /\ d.pc # "header" /\ to # "committed"
    BY <2>1, <2>2 DEF PCs, Onward, LoopPCs, Timely
  <2>4. /\ Typed(e) /\ Further(d, e) /\ e.pc = to /\ e.step = d.step /\ e.mono = d.mono
        /\ e.role = d.role /\ e.carried = d.carried
    BY <2>3, Goes DEF Further
  <2> HIDE DEF e
  <2>5. DOMAIN next = DOMAIN e /\ \A field \in DOMAIN e \ {"above"} : next[field] = e[field]
    BY Fields, <2>4 DEF Typed
  <2>6. Elapsed(next) = Elapsed(d)
    BY <2>4, <2>5, Fields DEF Elapsed, Typed
  <2> HIDE DEF next, to
  <2>7. Typed(next) /\ Further(d, next) /\ next.pc = to /\ next.step = d.step
    BY <2>4, <2>5, Fields DEF Typed, Further
  <2>8. Timely(next)
    BY <2>1, <2>2, <2>3, <2>6, <2>7 DEF Timely, Asking, Further
  <2>9. CASE Quietly(p, next)
    BY <2>3, <2>7, <2>8, <2>9, QuietContinues
  <2>10. CASE Write(p, "BudgetCharged", <<"wall">>, next)
    <3>1. "BudgetCharged" \in Kinds
      BY DEF Kinds
    <3> QED BY <2>3, <2>7, <2>8, <2>10, <3>1, WriteContinues
  <2> QED BY <2>1, <2>9, <2>10
<1>3. CASE Request(p)
  <2> DEFINE next == Goto(d, "model")
  <2>1. d.pc = "request" /\ Write(p, "ModelRequested", <<d.turns>>, next)
    BY <1>3 DEF Request, At
  <2>2. "model" \in PCs /\ "model" \in Onward /\ d.pc \in LoopPCs /\ "ModelRequested" \in Kinds
    BY <2>1 DEF PCs, LoopPCs, Onward, Kinds
  <2>3. /\ Typed(next) /\ Further(d, next) /\ next.pc = "model" /\ next.step = d.step /\ next.mono = d.mono
        /\ next.role = d.role /\ next.carried = d.carried
    BY <2>2, Goes DEF Further
  <2> HIDE DEF next
  <2>4. Timely(next)
    BY <2>1, <2>3 DEF Timely, Asking, LoopPCs, Elapsed
  <2> QED BY <2>1, <2>2, <2>3, <2>4, WriteContinues
<1>m. ASSUME At(p, "model") PROVE d.step <= StepLimit
  BY <1>m DEF At, Timely, LoopPCs
<1>e. ASSUME NEW delay \in Delays, NEW e, e = [d EXCEPT !.mono = @ + delay]
      PROVE  Typed(e) /\ Further(d, e) /\ e.step = d.step
  <2>1. DOMAIN e = DOMAIN d /\ e.mono = d.mono + delay /\ \A field \in DOMAIN d \ {"mono"} : e[field] = d[field]
    BY <1>e, Fields DEF Typed
  <2>2. delay \in Nat
    BY LifecycleAssumption
  <2> QED BY <1>l, <2>1, <2>2, Fields DEF Typed, Further
<1>4. CASE LiveReply(p)
  <2>1. PICK reply \in Replies, delay \in Delays : Replied(p, reply, [d EXCEPT !.mono = @ + delay])
    BY <1>4 DEF LiveReply
  <2> DEFINE e == [d EXCEPT !.mono = @ + delay]
  <2>2. At(p, "model") /\ reply \in Answers
    BY <1>4 DEF LiveReply, AsksLive, At, Answers
  <2>3. Typed(e) /\ Further(d, e) /\ e.step <= StepLimit
    BY <1>e, <1>m, <2>2
  <2> HIDE DEF e
  <2> QED BY <2>1, <2>2, <2>3, RepliedContinues DEF e
<1>5. CASE ReplayedReply(p)
  <2> DEFINE e == [d EXCEPT !.replies = Tail(@)]
  <2>1. At(p, "model") /\ Replied(p, Head(d.replies).reply, e) /\ d.replies # <<>>
    BY <1>5 DEF ReplayedReply, Fits
  <2>2. AnswersOK(Tail(d.replies)) /\ Head(d.replies).reply \in Answers
    BY <2>1, RestAnswers DEF Typed
  <2>3. /\ DOMAIN e = DOMAIN d /\ e.replies = Tail(d.replies)
        /\ \A field \in DOMAIN d \ {"replies"} : e[field] = d[field]
    BY Fields DEF Typed
  <2> HIDE DEF e
  <2>a. AnswersOK(e.replies)
    BY <2>2, <2>3
  <2>b. /\ e.pc = d.pc /\ e.role = d.role /\ e.from = d.from /\ e.head = d.head /\ e.attempt = d.attempt
        /\ e.carried = d.carried /\ e.mono = d.mono /\ e.step = d.step /\ e.reply = d.reply
        /\ e.cause = d.cause /\ e.outcome = d.outcome /\ DOMAIN e = DOMAIN Idle
    BY <2>3, Fields DEF Typed
  <2>c. Typed(e)
    BY <2>a, <2>b DEF Typed
  <2>4. Typed(e) /\ Further(d, e) /\ e.step <= StepLimit
    BY <1>l, <1>m, <2>1, <2>b, <2>c DEF Typed, Further
  <2> QED BY <2>1, <2>2, <2>4, RepliedContinues
<1>6. CASE ReplayDiverges(p)
  <2> DEFINE e == [d EXCEPT !.diverged = d.role = "resume"]
  <2>1. At(p, "model") /\ Replied(p, Diverged, e) /\ Diverged \in Answers
    BY <1>6 DEF ReplayDiverges, Answers
  <2>2. DOMAIN e = DOMAIN d /\ \A field \in DOMAIN d \ {"diverged"} : e[field] = d[field]
    BY Fields DEF Typed
  <2> HIDE DEF e
  <2>3. Typed(e) /\ Further(d, e) /\ e.step <= StepLimit
    BY <1>l, <1>m, <2>1, <2>2, Fields DEF Typed, Further
  <2> QED BY <2>1, <2>3, RepliedContinues
<1>7. CASE ParseFails(p)
  <2> DEFINE e == PushTurn(d, None)
             next == Goto(e, "begin")
  <2>1. d.pc = "parse" /\ Write(p, "FormatError", <<>>, next)
    BY <1>7 DEF ParseFails, At
  <2>2. /\ DOMAIN e = DOMAIN d /\ e.reply = None
        /\ \A field \in DOMAIN d \ {"turns", "reply", "intent"} : e[field] = d[field]
    BY Fields DEF Typed, PushTurn
  <2>3. d.step <= StepLimit /\ d.pc \in LoopPCs /\ d.pc # "header" /\ "FormatError" \in Kinds
    BY <2>1 DEF Timely, LoopPCs, Kinds
  <2> HIDE DEF e
  <2>4. Typed(e) /\ Further(d, e) /\ e.step <= StepLimit
    BY <1>l, <2>2, <2>3, Fields DEF Typed, Further
  <2>5. Typed(next) /\ Timely(next) /\ Further(e, next) /\ next.pc = "begin"
    BY <2>4, GoesOn DEF LoopPCs, Asking
  <2> HIDE DEF next
  <2>6. Further(d, next) /\ next.pc \in Onward
    BY <2>4, <2>5, FurtherStill DEF Onward, LoopPCs
  <2> QED BY <2>1, <2>3, <2>5, <2>6, WriteContinues
<1>8. CASE Intend(p)
  <2> DEFINE to   == IF d.reply = Submit THEN "submit" ELSE "execute"
             e    == Goto(d, to)
             next == [e EXCEPT !.intent = NextSeq(d)]
  <2>1. d.pc = "parse" /\ Write(p, "ToolStarted", <<d.reply>>, next)
    BY <1>8 DEF Intend, At
  <2>2. d.step <= StepLimit /\ d.pc \in LoopPCs /\ d.pc # "header" /\ "ToolStarted" \in Kinds
    BY <2>1 DEF Timely, LoopPCs, Kinds
  <2>3. to \in LoopPCs \ (Asking \cup {"stopping"}) /\ to \in Onward
    BY DEF LoopPCs, Asking, Onward
  <2> HIDE DEF to
  <2>4. Typed(e) /\ Timely(e) /\ Further(d, e) /\ e.pc = to
    BY <2>2, <2>3, GoesOn
  <2> HIDE DEF e
  <2>5. DOMAIN next = DOMAIN e /\ \A field \in DOMAIN e \ {"intent"} : next[field] = e[field]
    BY <2>4, Fields DEF Typed
  <2> HIDE DEF next
  <2>6. Typed(next) /\ Timely(next) /\ Further(d, next) /\ next.pc = to
    BY <2>4, <2>5, Fields DEF Typed, Timely, Further, Elapsed
  <2> QED BY <2>1, <2>2, <2>3, <2>6, WriteContinues
<1>9. CASE SubmitRequested(p)
  <2> DEFINE next == Goto(d, "submitted")
  <2>1. d.pc = "submit" /\ Write(p, "SubmitRequested", <<d.intent>>, next)
    BY <1>9 DEF SubmitRequested, At
  <2>2. d.step <= StepLimit /\ d.pc \in LoopPCs /\ d.pc # "header" /\ "SubmitRequested" \in Kinds
    BY <2>1 DEF Timely, LoopPCs, Kinds
  <2>3. Typed(next) /\ Timely(next) /\ Further(d, next) /\ next.pc = "submitted" /\ "submitted" \in Onward
    BY <2>2, GoesOn DEF LoopPCs, Asking, Onward
  <2> HIDE DEF next
  <2> QED BY <2>1, <2>2, <2>3, WriteContinues
<1>10. CASE SubmitFinished(p)
  <2> DEFINE next == Stop(d, "submitted")
  <2>1. d.pc = "submitted" /\ Write(p, "ToolFinished", <<d.intent, "ok">>, next)
    BY <1>10 DEF SubmitFinished, At
  <2>2. d.pc \in LoopPCs /\ d.pc # "header" /\ "ToolFinished" \in Kinds /\ "submitted" \in Causes
    BY <2>1 DEF LoopPCs, Kinds, Causes
  <2>3. Typed(next) /\ Timely(next) /\ Further(d, next) /\ next.pc = "stopping" /\ "stopping" \in Onward
    BY <2>2, Stops DEF LoopPCs, Onward
  <2> HIDE DEF next
  <2> QED BY <2>1, <2>2, <2>3, WriteContinues
<1>x. ASSUME At(p, "execute") PROVE d.step <= StepLimit
  BY <1>x DEF At, Timely, LoopPCs
<1>11. CASE Execute(p)
  <2>1. PICK result \in Results \cup {ProviderError}, delay \in Delays : Finished(p, result, [d EXCEPT !.mono = @ + delay])
    BY <1>11 DEF Execute
  <2> DEFINE e == [d EXCEPT !.mono = @ + delay]
  <2>2. At(p, "execute")
    BY <1>11 DEF Execute
  <2>3. Typed(e) /\ Further(d, e) /\ e.step <= StepLimit
    BY <1>e, <1>x, <2>2
  <2> HIDE DEF e
  <2> QED BY <2>1, <2>2, <2>3, FinishedContinues DEF e
<1>12. CASE FeedResult(p)
  <2> DEFINE e == [d EXCEPT !.results = Tail(@)]
  <2>1. At(p, "execute") /\ \E result : Finished(p, result, e)
    BY <1>12 DEF FeedResult
  <2>2. DOMAIN e = DOMAIN d /\ \A field \in DOMAIN d \ {"results"} : e[field] = d[field]
    BY Fields DEF Typed
  <2> HIDE DEF e
  <2>3. Typed(e) /\ Further(d, e) /\ e.step <= StepLimit
    BY <1>l, <1>x, <2>1, <2>2, Fields DEF Typed, Further
  <2> QED BY <2>1, <2>3, FinishedContinues
<1>13. CASE NothingToFeed(p)
  <2>1. At(p, "execute") /\ Finished(p, ProviderError, d)
    BY <1>13 DEF NothingToFeed
  <2>2. Further(d, d) /\ d.step <= StepLimit
    BY <1>x, <2>1 DEF Typed, Further
  <2> QED BY <2>1, <2>2, FinishedContinues
<1>14. CASE Commit(p)
  <2> DEFINE outcome == IF d.diverged THEN Unreadable ELSE NothingChecked
             next == IF d.role = "audit" THEN Goto(d, "compare")
                     ELSE [Goto(d, "committed") EXCEPT !.outcome = outcome]
  <2>1. d.pc = "stopping" /\ Write(p, "RunStopped", <<d.cause, outcome>>, next)
    BY <1>14 DEF Commit, At
  <2>2. /\ d.pc \in LoopPCs /\ d.pc # "header" /\ "RunStopped" \in Kinds /\ d.cause \in Causes
        /\ "compare" \in PCs /\ "committed" \in PCs /\ outcome \in Outcomes
    BY <2>1 DEF LoopPCs, Kinds, Timely, PCs, Outcomes
  <2>3. Typed(next) /\ Further(d, next) /\ next.pc = IF d.role = "audit" THEN "compare" ELSE "committed"
    <3>1. CASE d.role = "audit"
      BY <2>2, <3>1, Goes
    <3>2. CASE d.role # "audit"
      <4> DEFINE e == Goto(d, "committed")
      <4>1. Typed(e) /\ Further(d, e) /\ e.pc = "committed"
        BY <2>2, Goes
      <4>2. next = [e EXCEPT !.outcome = outcome]
        BY <3>2
      <4> HIDE DEF e, next
      <4>3. DOMAIN next = DOMAIN e /\ next.outcome = outcome /\ \A field \in DOMAIN e \ {"outcome"} : next[field] = e[field]
        BY <4>1, <4>2, Fields DEF Typed
      <4> HIDE DEF outcome
      <4> QED BY <2>2, <3>2, <4>1, <4>3, Fields DEF Typed, Further
    <3> QED BY <3>1, <3>2
  <2> HIDE DEF next, outcome
  <2>5. next.role = d.role
    BY <2>3 DEF Further
  <2>4. Timely(next) /\ next.pc \in Onward
    BY <2>3, <2>5 DEF Timely, LoopPCs, Asking, Onward
  <2> QED BY <2>1, <2>2, <2>3, <2>4, <2>5, WriteContinues
<1> QED
  BY <1>1, <1>2, <1>3, <1>4, <1>5, <1>6, <1>7, <1>8, <1>9, <1>10, <1>11, <1>12, <1>13, <1>14 DEF Loop

-----------------------------------------------------------------------------
(***************************************************************************)
(* The invariant is kept: by a step of the loop.                            *)
(***************************************************************************)
(* A journal stays whole when a record that fits is written after its last. *)
LEMMA Lengthened ==
  ASSUME NEW s, Whole(s), NEW r, NEW t, t = Append(s, r),
         r.kind \in Kinds, r.mono \in Nat, r.step \in 0..StepLimit + 1,
         r.kind = "RunStarted" <=> s = <<>>,
         r.kind = "RunStopped" => r.body[1] \in Causes /\ r.body[2] \in Outcomes,
         r.kind = "ModelReplied" => r.body[1] \in Answers,
         s # <<>> => /\ s[Len(s)].step <= r.step /\ s[Len(s)].mono <= r.mono
                     /\ s[Len(s)].kind # "RunStopped"
  PROVE  Whole(t)
<1>1. s \in Seq(Range(s)) /\ (\A i \in DOMAIN s : RecordOK(s, i)) /\ t = Append(s, r)
  BY DEF Whole
<1>2. /\ t \in Seq(Range(t)) /\ Len(t) = Len(s) + 1 /\ Len(s) \in Nat
      /\ DOMAIN t = DOMAIN s \cup {Len(s) + 1} /\ DOMAIN s = 1..Len(s)
      /\ t[Len(s) + 1] = r /\ \A i \in DOMAIN s : t[i] = s[i]
  <2>1. t \in Seq(Range(t)) /\ Len(t) = Len(s) + 1 /\ Len(s) \in Nat
    BY ONLY <1>1, Appended
  <2>2. DOMAIN t = DOMAIN s \cup {Len(s) + 1} /\ DOMAIN s = 1..Len(s)
    BY ONLY <1>1, Appended
  <2>3. t[Len(s) + 1] = r /\ \A i \in DOMAIN s : t[i] = s[i]
    BY ONLY <1>1, Appended
  <2> QED BY <2>1, <2>2, <2>3
<1>3. s = <<>> <=> Len(s) = 0
  BY <1>1
<1>4. ASSUME NEW i \in DOMAIN s PROVE RecordOK(t, i)
  <2>1. RecordOK(s, i) /\ t[i] = s[i] /\ i \in 1..Len(s)
    BY <1>1, <1>2
  <2>2. i > 1 => t[i - 1] = s[i - 1]
    BY <1>2
  <2>3. s[i].kind # "RunStopped"
    BY <1>2, <1>3, <2>1 DEF RecordOK
  <2> QED BY <2>1, <2>2, <2>3 DEF RecordOK
<1>5. RecordOK(t, Len(s) + 1)
  <2>1. Len(s) + 1 = 1 <=> s = <<>>
    BY <1>2, <1>3
  <2>2. Len(s) + 1 > 1 => s # <<>> /\ t[(Len(s) + 1) - 1] = s[Len(s)]
    <3>1. (Len(s) + 1) - 1 = Len(s) /\ (Len(s) + 1 > 1 => Len(s) # 0 /\ Len(s) \in DOMAIN s)
      BY <1>2
    <3> QED BY <1>2, <1>3, <3>1
  <2>3. t[Len(s) + 1] = r /\ Len(s) + 1 = Len(t)
    BY <1>2
  <2>4. Len(s) + 1 > 1 => /\ r.step >= t[(Len(s) + 1) - 1].step
                          /\ r.mono >= t[(Len(s) + 1) - 1].mono
    <3> SUFFICES ASSUME Len(s) + 1 > 1
                 PROVE  r.step >= s[Len(s)].step /\ r.mono >= s[Len(s)].mono
      BY <2>2
    <3>1. RecordOK(s, Len(s))
      BY <1>1, <1>2
    <3> QED BY <2>2, <3>1, LifecycleAssumption DEF RecordOK
  <2> QED BY <2>1, <2>3, <2>4 DEF RecordOK
<1> QED BY <1>2, <1>4, <1>5 DEF Whole

(* A process that takes no step keeps its place, while its journal does.    *)
LEMMA OthersPlaced ==
  ASSUME Journals, Grown, Len(attempts') >= Len(attempts), Len(attempts') \in Nat,
         NEW q \in Processes, Typed(driver[q]), Timely(driver[q]), Placed(driver[q]), driver'[q] = driver[q],
         Writes(q) => attempts'[driver[q].attempt] = attempts[driver[q].attempt]
  PROVE  Typed(driver[q])' /\ Timely(driver[q])' /\ Placed(driver[q])'
<1> DEFINE d == driver[q]
<1>1. Typed(driver[q])'
  BY DEF Typed
<1>2. Timely(driver[q])'
  BY DEF Timely, Elapsed
<1>3. attempts \in Seq(Range(attempts)) /\ Len(attempts) \in Nat
  BY DEF Journals
<1>4. d.from \in Nat /\ d.attempt \in Nat
  BY DEF Typed
<1>5. d.from <= Len(attempts)'
  BY <1>3, <1>4 DEF Placed
<1>6. ASSUME d.role # "audit", d.pc \in {"list", "mkdir", "header"} \cup LoopPCs
      PROVE  CarriedIs(d.from, d.head, d.carried)'
  <2>1. CarriedIs(d.from, d.head, d.carried)
    BY <1>6 DEF Placed
  <2>2. /\ d.from # 0 => /\ d.from \in DOMAIN attempts' /\ attempts'[d.from] # <<>>
                         /\ d.head \in DOMAIN attempts'[d.from]
                         /\ d.carried = attempts'[d.from][1].body[3] + attempts'[d.from][d.head].mono
        /\ d.from = 0 => d.carried = 0
    BY <2>1, CarriedKept
  <2> QED BY <2>2 DEF CarriedIs, Begun
<1>7. d.pc = "mkdir" => d.attempt \in 1..(Len(attempts)' + 1) /\ d.attempt <= MaxAttempts /\ d.from < d.attempt
  BY <1>3, <1>4 DEF Placed
<1>8. d.pc = "header" =>
        /\ d.from < d.attempt
        /\ d.attempt \in DOMAIN attempts' /\ attempts'[d.attempt] = <<>>
  BY DEF Placed, Writes, Grown
<1>9. Live(d) => d.attempt \in DOMAIN attempts' /\ OwnOK(d)'
  BY DEF Placed, Writes, Live, Grown, OwnOK
<1>10. d.role = "audit" /\ d.pc # "idle" =>
         d.from \in DOMAIN attempts' /\ 1..d.head \subseteq DOMAIN attempts'[d.from]
  BY DEF Placed, Grown
<1>11. d.pc \in {"list", "mkdir", "header"} => d.role # "audit"
  BY DEF Placed
<1> QED BY <1>1, <1>2, <1>5, <1>6, <1>7, <1>8, <1>9, <1>10, <1>11 DEF Placed, Live

(* A header, once written, stays what it is.                                *)
LEMMA HeadedKept ==
  ASSUME Journals, Grown, NEW n \in DOMAIN attempts, attempts[n] # <<>>
  PROVE  Headed(n)'
<1> DEFINE header == attempts[n][1].body
<1>1. Headed(n) /\ 1 \in DOMAIN attempts[n]
  BY HasFirst DEF Journals
<1>2. attempts'[n][1] = attempts[n][1]
  BY <1>1 DEF Grown
<1>3. header[1] \in 0..(n - 1) /\ header[3] \in Nat /\ CarriedIs(header[1], header[2], header[3])
  BY <1>1 DEF Headed
<1>4. /\ header[1] # 0 =>
           /\ header[1] \in DOMAIN attempts' /\ attempts'[header[1]] # <<>>
           /\ header[2] \in DOMAIN attempts'[header[1]]
           /\ header[3] = attempts'[header[1]][1].body[3] + attempts'[header[1]][header[2]].mono
      /\ header[1] = 0 => header[3] = 0
  BY <1>3, CarriedKept
<1> QED BY <1>2, <1>3, <1>4 DEF Headed, CarriedIs, Begun

(* What a process that goes on has read, and where it is among the attempts.*)
LEMMA ContinuesPlaced ==
  ASSUME IInv, NEW p \in Processes, NEW next, Continues(p, next), Grown, Len(attempts') = Len(attempts),
         Live(next) => next.attempt \in DOMAIN attempts' /\ OwnOK(next)'
  PROVE  Placed(next)'
<1> DEFINE d == driver[p]
<1>1. Journals /\ Typed(d) /\ Placed(d) /\ Typed(next) /\ Further(d, next)
  BY DEF IInv, Drivers, Continues
<1>2. next.from <= Len(attempts)'
  BY <1>1 DEF Further, Placed
<1>3. next.pc \notin {"list", "mkdir", "header"}
  BY DEF Continues, Onward, LoopPCs
<1>4. ASSUME next.role # "audit" PROVE CarriedIs(next.from, next.head, next.carried)'
  <2>1. d.role # "audit" /\ d.pc \in {"list", "mkdir", "header"} \cup LoopPCs
    BY <1>1, <1>4 DEF Further, Continues
  <2>2. CarriedIs(d.from, d.head, d.carried)
    BY <1>1, <2>1 DEF Placed
  <2>3. CarriedIs(next.from, next.head, next.carried)
    BY <1>1, <2>2 DEF Further
  <2>4. /\ next.from # 0 => /\ next.from \in DOMAIN attempts' /\ attempts'[next.from] # <<>>
                            /\ next.head \in DOMAIN attempts'[next.from]
                            /\ next.carried = attempts'[next.from][1].body[3] + attempts'[next.from][next.head].mono
        /\ next.from = 0 => next.carried = 0
    BY <1>1, <2>3, CarriedKept
  <2> QED BY <2>4 DEF CarriedIs, Begun
<1>5. next.role = "audit" => next.from \in DOMAIN attempts' /\ 1..next.head \subseteq DOMAIN attempts'[next.from]
  BY <1>1 DEF Placed, Further, Grown, Continues, LoopPCs
<1> QED BY <1>2, <1>3, <1>4, <1>5 DEF Placed, Live

(* A step of the loop keeps the invariant.                                  *)
LEMMA ContinuesOK ==
  ASSUME IInv, NEW p \in Processes, NEW next, Continues(p, next)
  PROVE  IInv'
<1> DEFINE d == driver[p]
<1>1. Journals /\ Typed(d) /\ Timely(d) /\ Placed(d) /\ Typed(next) /\ Timely(next) /\ Further(d, next)
  BY DEF IInv, Drivers, Continues
<1>2. /\ DOMAIN driver' = Processes /\ driver'[p] = next
      /\ \A q \in Processes \ {p} : driver'[q] = driver[q]
  BY DEF Continues, IInv, Drivers
<1>3. attempts \in Seq(Range(attempts)) /\ Len(attempts) \in Nat /\ Len(attempts) <= MaxAttempts
  BY DEF IInv, Journals
<1>4. OneWriter'
  <2>1. \A q \in Processes : Writes(q)' => Writes(q) /\ driver'[q].attempt = driver[q].attempt
    BY <1>1, <1>2 DEF Writes, Further, Continues
  <2> QED BY <2>1 DEF OneWriter, IInv
<1>5. ASSUME Grown, Len(attempts') = Len(attempts), Placed(next)',
             \A q \in Processes \ {p} : Writes(q) => attempts'[driver[q].attempt] = attempts[driver[q].attempt]
      PROVE  Drivers'
  <2>1. ASSUME NEW q \in Processes \ {p}
        PROVE  Typed(driver[q])' /\ Timely(driver[q])' /\ Placed(driver[q])'
    <3>1. Typed(driver[q]) /\ Timely(driver[q]) /\ Placed(driver[q])
      BY DEF IInv, Drivers
    <3> QED BY <1>1, <1>2, <1>3, <1>5, <3>1, OthersPlaced
  <2>2. Typed(driver[p])' /\ Timely(driver[p])' /\ Placed(driver[p])'
    BY <1>1, <1>2, <1>5 DEF Typed, Timely, Elapsed, Placed, OwnOK, CarriedIs, Live, Begun
  <2> QED BY <1>2, <2>1, <2>2 DEF Drivers
<1>6. CASE UNCHANGED attempts /\ (next.role = "audit" \/ d.pc # "header")
  <2>1. Grown
    BY <1>6 DEF Grown
  <2>2. Live(next) => next.attempt \in DOMAIN attempts' /\ OwnOK(next)'
    <3> SUFFICES ASSUME Live(next) PROVE next.attempt \in DOMAIN attempts /\ OwnOK(next)
      BY <1>6 DEF OwnOK
    <3>1. Live(d) /\ d.attempt = next.attempt /\ d.carried = next.carried
      BY <1>1, <1>6 DEF Live, Further, Continues
    <3>2. next.attempt \in DOMAIN attempts /\ OwnOK(d)
      BY <1>1, <3>1 DEF Placed
    <3>3. RecordOK(attempts[next.attempt], Len(attempts[next.attempt]))
      <4>1. Whole(attempts[next.attempt])
        BY <1>1, <3>2 DEF Journals
      <4> QED BY <3>1, <3>2, <4>1 DEF Whole, OwnOK
    <3> DEFINE last == attempts[next.attempt][Len(attempts[next.attempt])]
    <3>4. last.step \in Nat /\ last.mono \in Nat
      BY <3>3, LifecycleAssumption DEF RecordOK
    <3>5. last.step <= d.step /\ last.mono <= d.mono /\ last.kind # "RunStopped"
      BY <3>1, <3>2 DEF OwnOK
    <3>6. /\ next.step >= d.step /\ next.mono >= d.mono
          /\ d.step \in Nat /\ d.mono \in Nat /\ next.step \in Nat /\ next.mono \in Nat
      BY <1>1, LifecycleAssumption DEF Further, Typed
    <3>7. last.step <= next.step /\ last.mono <= next.mono
      <4> HIDE DEF last, d
      <4> QED BY <3>4, <3>5, <3>6
    <3> QED BY <3>1, <3>2, <3>5, <3>7 DEF OwnOK
  <2>3. Placed(next)'
    BY <1>6, <2>1, <2>2, ContinuesPlaced
  <2>4. Drivers'
    BY <1>5, <1>6, <2>1, <2>3
  <2>5. Journals'
    BY <1>1, <1>6 DEF Journals, Headed, CarriedIs, Begun
  <2> QED BY <1>4, <2>4, <2>5 DEF IInv
<1>7. CASE next.role # "audit" /\ \E record : Fitting(d, next, record) /\ Appends(next.attempt, record)
  <2>a. PICK a : a = d.attempt
    OBVIOUS
  <2>1. PICK record : Fitting(d, next, record) /\ Appends(a, record)
    BY <1>1, <1>7, <2>a DEF Further
  <2>2. /\ d.role # "audit" /\ next.attempt = a /\ next.carried = d.carried /\ next.from = d.from
        /\ d.pc \in LoopPCs \cup {"header"} /\ Writes(p)
    BY <1>1, <1>7, <2>a DEF Further, Continues, Writes
  <2>3. a \in DOMAIN attempts /\ (d.pc = "header" <=> attempts[a] = <<>>) /\ (d.pc # "header" => OwnOK(d))
    BY <1>1, <2>2, <2>a DEF Placed, Live, OwnOK
  <2>4. /\ Grown /\ Len(attempts') = Len(attempts)
        /\ attempts' \in Seq(Range(attempts')) /\ DOMAIN attempts' = DOMAIN attempts
        /\ attempts'[a] = Append(attempts[a], record)
        /\ \A n \in DOMAIN attempts : n # a => attempts'[n] = attempts[n]
    BY <1>1, <2>1, <2>3, AppendGrows
  <2>5. Whole(attempts[a])
    BY <1>1, <2>3 DEF Journals
  <2>6. /\ record.kind \in Kinds /\ record.mono \in Nat /\ record.step \in 0..StepLimit + 1
        /\ (record.kind = "RunStarted" <=> attempts[a] = <<>>)
        /\ (record.kind = "RunStopped" => record.body[1] \in Causes /\ record.body[2] \in Outcomes)
        /\ (record.kind = "ModelReplied" => record.body[1] \in Answers)
        /\ record.step = next.step /\ record.mono = next.mono
    BY <1>1, <2>1, <2>3 DEF Fitting, Typed
  <2>7. attempts[a] # <<>> => /\ attempts[a][Len(attempts[a])].step <= record.step
                              /\ attempts[a][Len(attempts[a])].mono <= record.mono
                              /\ attempts[a][Len(attempts[a])].kind # "RunStopped"
    <3> SUFFICES ASSUME attempts[a] # <<>>
                 PROVE  /\ attempts[a][Len(attempts[a])].step <= next.step
                        /\ attempts[a][Len(attempts[a])].mono <= next.mono
                        /\ attempts[a][Len(attempts[a])].kind # "RunStopped"
      BY <2>6
    <3>1. RecordOK(attempts[a], Len(attempts[a]))
      BY <2>5 DEF Whole
    <3> DEFINE last == attempts[a][Len(attempts[a])]
    <3>2. last.step \in Nat /\ last.mono \in Nat
      BY <3>1, LifecycleAssumption DEF RecordOK
    <3>3. last.step <= d.step /\ last.mono <= d.mono /\ last.kind # "RunStopped"
      BY <2>3, <2>a DEF OwnOK
    <3>4. /\ next.step >= d.step /\ next.mono >= d.mono
          /\ d.step \in Nat /\ d.mono \in Nat /\ next.step \in Nat /\ next.mono \in Nat
      BY <1>1, LifecycleAssumption DEF Further, Typed
    <3>5. last.step <= next.step /\ last.mono <= next.mono
      <4> HIDE DEF last, d
      <4> QED BY <3>2, <3>3, <3>4
    <3> QED BY <3>3, <3>5
  <2>8. Whole(attempts'[a])
    BY <2>4, <2>5, <2>6, <2>7, Lengthened
  <2>9. /\ Len(attempts'[a]) = Len(attempts[a]) + 1 /\ Len(attempts[a]) \in Nat
        /\ attempts'[a][Len(attempts[a]) + 1] = record /\ attempts'[a] # <<>>
        /\ attempts[a] = <<>> => attempts'[a][1] = record
        /\ attempts[a] # <<>> => attempts'[a][1] = attempts[a][1]
    <3>1. attempts[a] \in Seq(Range(attempts[a]))
      BY <2>5 DEF Whole
    <3>2. Len(attempts'[a]) = Len(attempts[a]) + 1 /\ Len(attempts[a]) \in Nat /\ attempts'[a] \in Seq(Range(attempts'[a]))
      <4>1. attempts'[a] = Append(attempts[a], record)
        BY <2>4
      <4>2. attempts'[a] \in Seq(Range(attempts'[a]))
        BY <2>8 DEF Whole
      <4>3. Len(attempts'[a]) = Len(attempts[a]) + 1 /\ Len(attempts[a]) \in Nat
        BY ONLY <3>1, <4>1, Appended
      <4> QED BY <4>2, <4>3
    <3>3. attempts'[a][Len(attempts[a]) + 1] = record /\ \A i \in DOMAIN attempts[a] : attempts'[a][i] = attempts[a][i]
      BY ONLY <2>4, <3>1, Appended
    <3>4. attempts[a] = <<>> => Len(attempts[a]) + 1 = 1
      BY <3>1
    <3>5. attempts[a] # <<>> => 1 \in DOMAIN attempts[a]
      BY <3>1
    <3>6. attempts'[a] # <<>>
      BY <3>2
    <3> QED BY <3>2, <3>3, <3>4, <3>5, <3>6
  <2>10. Headed(a)'
    <3>1. CASE d.pc = "header"
      <4>1. attempts'[a][1] = record /\ record.body[1] = d.from /\ record.body[2] = d.head /\ record.body[3] = d.carried
        BY <2>1, <2>3, <2>9, <3>1 DEF Fitting
      <4>2. d.from < a /\ d.from \in Nat /\ a \in Nat /\ d.carried \in Nat /\ CarriedIs(d.from, d.head, d.carried)
        BY <1>1, <2>2, <2>a, <3>1 DEF Placed, Typed
      <4>3. /\ d.from # 0 => /\ d.from \in DOMAIN attempts' /\ attempts'[d.from] # <<>>
                             /\ d.head \in DOMAIN attempts'[d.from]
                             /\ d.carried = attempts'[d.from][1].body[3] + attempts'[d.from][d.head].mono
            /\ d.from = 0 => d.carried = 0
        BY <1>1, <2>4, <4>2, CarriedKept
      <4>4. d.from \in 0..(a - 1)
        <5> HIDE DEF d
        <5> QED BY <4>2
      <4> QED BY <4>1, <4>2, <4>3, <4>4 DEF Headed, CarriedIs, Begun
    <3>2. CASE d.pc # "header"
      BY <1>1, <2>3, <2>4, <3>2, HeadedKept
    <3> QED BY <3>1, <3>2
  <2>11. Journals'
    <3>1. ASSUME NEW n \in DOMAIN attempts', n # a
          PROVE  Whole(attempts'[n]) /\ (attempts'[n] # <<>> => Headed(n)')
      BY <1>1, <2>4, <3>1, HeadedKept DEF Journals
    <3>2. \A n \in DOMAIN attempts' : Whole(attempts'[n]) /\ (attempts'[n] # <<>> => Headed(n)')
      BY <2>8, <2>10, <3>1
    <3> QED BY <1>3, <2>4, <3>2 DEF Journals
  <2>12. Live(next) => next.attempt \in DOMAIN attempts' /\ OwnOK(next)'
    <3> SUFFICES ASSUME Live(next) PROVE next.attempt \in DOMAIN attempts' /\ OwnOK(next)'
      OBVIOUS
    <3>1. record.kind # "RunStopped"
      BY <2>1 DEF Fitting, Live, LoopPCs
    <3>2. attempts'[a][1].body[3] = next.carried
      BY <2>1, <2>2, <2>3, <2>9, <2>a DEF Fitting, OwnOK
    <3>3. next.step \in Nat /\ next.mono \in Nat
      BY <1>1, LifecycleAssumption DEF Typed
    <3> QED BY <2>2, <2>3, <2>4, <2>6, <2>9, <3>1, <3>2, <3>3 DEF OwnOK
  <2>13. Placed(next)'
    BY <2>4, <2>12, ContinuesPlaced
  <2>14. \A q \in Processes \ {p} : Writes(q) => attempts'[driver[q].attempt] = attempts[driver[q].attempt]
    <3> SUFFICES ASSUME NEW q \in Processes \ {p}, Writes(q)
                 PROVE  attempts'[driver[q].attempt] = attempts[driver[q].attempt]
      OBVIOUS
    <3>1. driver[q].attempt # a
      BY <2>2, <2>a DEF IInv, OneWriter
    <3>2. driver[q].attempt \in DOMAIN attempts
      BY DEF Writes, IInv, Drivers, Placed, Live
    <3> QED BY <2>4, <3>1, <3>2
  <2>15. Drivers'
    BY <1>5, <2>4, <2>13, <2>14
  <2> QED BY <1>4, <2>11, <2>15 DEF IInv
<1> QED BY <1>6, <1>7 DEF Continues

-----------------------------------------------------------------------------
(***************************************************************************)
(* The invariant is kept: by what happens around the loop.                  *)
(***************************************************************************)
(* The exchanges of whole pairs are answers.                                *)
LEMMA ExchangesOK ==
  ASSUME NEW S, NEW s \in Seq(S), Paired(s),
         \A i \in DOMAIN s : s[i].kind = "ModelReplied" => s[i].body[1] \in Answers
  PROVE  AnswersOK(Exchanges(s))
<1> DEFINE model == ModelRecords(s)
           n == Len(model) \div 2
<1>1. model \in Seq(S) /\ \A k \in DOMAIN model : \E i \in DOMAIN s : model[k] = s[i]
  <2> DEFINE I == {i \in DOMAIN s : s[i].kind \in {"ModelRequested", "ModelReplied"}}
  <2>1. model = Chosen(s, I)
    BY DEF ModelRecords
  <2> HIDE DEF model, I
  <2> QED BY <2>1, ChosenFrom
<1>2. Len(model) \in Nat /\ DOMAIN model = 1..Len(model)
  BY <1>1
<1>3. Len(model) % 2 = 0 /\ \A i \in DOMAIN model :
        model[i].kind = IF i % 2 = 1 THEN "ModelRequested" ELSE "ModelReplied"
  BY DEF Paired
<1>4. Exchanges(s) = [i \in 1..n |-> [request |-> model[2*i - 1].body[1], reply |-> model[2*i].body[1]]]
  BY DEF Exchanges
<1> HIDE DEF model
<1>5. n \in Nat
  BY <1>2
<1>6. ASSUME NEW i \in 1..n PROVE model[2*i].body[1] \in Answers
  <2>1. 2*i \in DOMAIN model /\ (2*i) % 2 # 1
    BY <1>2, <1>3
  <2>2. model[2*i].kind = "ModelReplied"
    BY <1>3, <2>1
  <2>3. PICK k \in DOMAIN s : model[2*i] = s[k]
    BY <1>1, <2>1
  <2> QED BY <2>2, <2>3
<1> DEFINE exchanges == Exchanges(s)
<1> HIDE DEF n
<1>7. DOMAIN exchanges = 1..n /\ \A i \in 1..n : exchanges[i].reply = model[2*i].body[1]
  BY <1>4
<1>8. exchanges \in Seq(Range(exchanges))
  <2> DEFINE f(i) == [request |-> model[2*i - 1].body[1], reply |-> model[2*i].body[1]]
             R == {f(i) : i \in 1..n}
  <2>1. exchanges \in [1..n -> R]
    BY <1>4
  <2> HIDE DEF exchanges, R
  <2>2. exchanges \in Seq(R)
    BY <1>5, <2>1
  <2> QED BY <2>2, InRange
<1> HIDE DEF exchanges
<1>9. AnswersOK(exchanges)
  BY <1>6, <1>7, <1>8 DEF AnswersOK
<1> QED BY <1>9 DEF exchanges

(* No replies are answers.                                                  *)
LEMMA NoReplies == AnswersOK(<<>>)
<1>1. <<>> \in Seq(Range(<<>>)) /\ DOMAIN <<>> = {}
  OBVIOUS
<1> QED BY <1>1 DEF AnswersOK

(* A process that is told nothing.                                          *)
LEMMA IdleIs == Typed(Idle) /\ Timely(Idle) /\ Idle.pc = "idle" /\ (Journals => Placed(Idle))
<1>1. /\ Idle.pc = "idle" /\ Idle.role = None /\ Idle.from = 0 /\ Idle.head = 0 /\ Idle.attempt = 0
      /\ Idle.carried = 0 /\ Idle.mono = 0 /\ Idle.step = 0 /\ Idle.reply = None /\ Idle.cause = None
      /\ Idle.outcome = None /\ Idle.replies = <<>>
  BY DEF Idle
<1>2. "idle" \in PCs /\ "idle" \notin LoopPCs \cup {"list", "mkdir", "header"} /\ "idle" \notin Asking
  BY DEF PCs, LoopPCs, Asking
<1>3. Typed(Idle)
  BY <1>1, <1>2, NoReplies, LifecycleAssumption DEF Typed
<1>4. Timely(Idle)
  BY <1>1, <1>2 DEF Timely
<1>5. ASSUME Journals PROVE Placed(Idle)
  <2>1. Len(attempts) \in Nat
    BY <1>5 DEF Journals
  <2> QED BY <1>1, <1>2, <2>1 DEF Placed, Live
<1> QED BY <1>1, <1>3, <1>4, <1>5

(* A process that does not write an attempt moves.                          *)
LEMMA AsideOK ==
  ASSUME IInv, NEW p \in Processes, NEW next, Quietly(p, next), Typed(next), Timely(next), Placed(next),
         next.role = "audit" \/ next.pc \notin LoopPCs \cup {"header"}
  PROVE  IInv'
<1>1. /\ DOMAIN driver' = Processes /\ driver'[p] = next /\ UNCHANGED attempts
      /\ \A q \in Processes \ {p} : driver'[q] = driver[q]
  BY DEF Quietly, IInv, Drivers
<1>2. Journals'
  BY <1>1 DEF IInv, Journals, Headed, CarriedIs, Begun
<1>3. Drivers'
  <2>1. Grown /\ Len(attempts') \in Nat /\ Len(attempts') >= Len(attempts)
    BY <1>1 DEF Grown, IInv, Journals
  <2>2. ASSUME NEW q \in Processes \ {p}
        PROVE  Typed(driver[q])' /\ Timely(driver[q])' /\ Placed(driver[q])'
    BY <1>1, <2>1, OthersPlaced DEF IInv, Drivers
  <2>3. Typed(driver[p])' /\ Timely(driver[p])' /\ Placed(driver[p])'
    BY <1>1 DEF Typed, Timely, Elapsed, Placed, OwnOK, CarriedIs, Live, Begun
  <2> QED BY <1>1, <2>2, <2>3 DEF Drivers
<1>4. OneWriter'
  BY <1>1 DEF IInv, OneWriter, Writes
<1> QED BY <1>2, <1>3, <1>4 DEF IInv

(* A process ends, or is killed.                                            *)
LEMMA EndsOK ==
  ASSUME IInv, NEW p \in Processes, Quietly(p, Idle)
  PROVE  IInv'
<1>1. Idle.pc \notin LoopPCs \cup {"header"} /\ Placed(Idle)
  BY IdleIs DEF LoopPCs, IInv
<1> QED BY <1>1, IdleIs, AsideOK

(* A resume reads an attempt whole and carries the time up to its head.     *)
LEMMA ResumeOK ==
  ASSUME IInv, NEW p \in Processes, Resume(p)
  PROVE  IInv'
<1> DEFINE n       == Len(attempts)
           records == attempts[n]
           kept    == Kept(records)
           next    == [Idle EXCEPT
                         !.pc = "list", !.role = "resume",
                         !.from = n, !.head = Len(records), !.carried = Carried(records),
                         !.replies = Exchanges(kept), !.results = RecordedResults(kept)]
<1>1. n > 0 /\ records # <<>> /\ Paired(kept) /\ Quietly(p, next)
  BY DEF Resume
<1>2. /\ DOMAIN next = DOMAIN Idle /\ next.pc = "list" /\ next.role = "resume" /\ next.from = n
      /\ next.head = Len(records) /\ next.carried = Carried(records) /\ next.replies = Exchanges(kept)
      /\ next.step = 0 /\ next.mono = 0 /\ next.attempt = 0 /\ next.reply = None /\ next.cause = None
      /\ next.outcome = None
  BY Fields DEF Idle
<1>3. n \in Nat /\ n \in DOMAIN attempts /\ Whole(records) /\ Headed(n)
  <2>1. attempts \in Seq(Range(attempts))
    BY DEF IInv, Journals
  <2>2. n \in Nat /\ n \in DOMAIN attempts
    BY <1>1, <2>1
  <2> QED BY <1>1, <2>2 DEF IInv, Journals
<1>4. records \in Seq(Range(records)) /\ Len(records) \in Nat /\ Len(records) \in DOMAIN records
  <2>1. records \in Seq(Range(records))
    BY <1>3 DEF Whole
  <2> QED BY <1>1, <2>1
<1>5. AnswersOK(Exchanges(kept))
  <2> DEFINE I == {i \in DOMAIN records : records[i].step < LastStep(records)}
             S == Range(records)
  <2>1. kept = Chosen(records, I)
    BY DEF Kept
  <2>2. records \in Seq(S) /\ \A i \in DOMAIN records : records[i].kind = "ModelReplied" => records[i].body[1] \in Answers
    BY <1>3, <1>4 DEF Whole, RecordOK
  <2> HIDE DEF I, S, kept, records
  <2>3. kept \in Seq(S) /\ \A k \in DOMAIN kept : \E i \in DOMAIN records : kept[k] = records[i]
    BY <2>1, <2>2, ChosenFrom
  <2>4. \A k \in DOMAIN kept : kept[k].kind = "ModelReplied" => kept[k].body[1] \in Answers
    BY <2>2, <2>3
  <2> QED BY <1>1, <2>3, <2>4, ExchangesOK
<1>6. Carried(records) = records[1].body[3] + records[Len(records)].mono
  BY DEF Carried, Last
<1>7. Carried(records) \in Nat
  <2>1. records[1].body[3] \in Nat
    BY <1>3 DEF Headed
  <2>2. records[Len(records)].mono \in Nat
    BY <1>3, <1>4 DEF Whole, RecordOK
  <2> HIDE DEF records
  <2> QED BY ONLY <1>6, <2>1, <2>2
<1>8. CarriedIs(n, Len(records), Carried(records))
  BY <1>1, <1>3, <1>4, <1>6 DEF CarriedIs, Begun
<1>9. "list" \in PCs /\ "list" \notin LoopPCs /\ "list" \notin Asking
  BY DEF PCs, LoopPCs, Asking
<1> HIDE DEF next, kept
<1>10. Typed(next)
  BY <1>2, <1>3, <1>4, <1>5, <1>7, <1>9, LifecycleAssumption DEF Typed
<1>11. Timely(next)
  BY <1>2, <1>9, LifecycleAssumption DEF Timely
<1>12. CarriedIs(next.from, next.head, next.carried)
  BY <1>2, <1>8
<1>13. Placed(next)
  <2>1. next.from <= Len(attempts)
    BY <1>2, <1>3
  <2> HIDE DEF n
  <2> QED BY <1>2, <1>9, <1>12, <2>1 DEF Placed, Live
<1>14. next.pc \notin LoopPCs \cup {"header"}
  BY <1>2, <1>9
<1> QED BY <1>1, <1>10, <1>11, <1>13, <1>14, AsideOK

(* The number for the next attempt is one past those there are.             *)
LEMMA ListOK ==
  ASSUME IInv, NEW p \in Processes, ListAttempts(p)
  PROVE  IInv'
<1> DEFINE d    == driver[p]
           next == [Goto(d, "mkdir") EXCEPT !.attempt = Len(attempts) + 1]
<1>1. d.pc = "list" /\ Len(attempts) < MaxAttempts /\ Quietly(p, next)
  BY DEF ListAttempts, At
<1>2. Typed(d) /\ Timely(d) /\ Placed(d)
  BY DEF IInv, Drivers
<1>3. Len(attempts) \in Nat
  BY DEF IInv, Journals
<1>4. /\ DOMAIN next = DOMAIN d /\ next.pc = "mkdir" /\ next.attempt = Len(attempts) + 1
      /\ \A field \in DOMAIN d \ {"pc", "attempt"} : next[field] = d[field]
  BY <1>2, Fields DEF Typed, Goto
<1>5. "mkdir" \in PCs /\ "mkdir" \notin LoopPCs /\ "mkdir" \notin Asking
  BY DEF PCs, LoopPCs, Asking
<1> HIDE DEF next
<1>6. Typed(next)
  BY <1>2, <1>3, <1>4, <1>5, Fields DEF Typed
<1>7. Timely(next)
  BY <1>1, <1>2, <1>4, <1>5, Fields DEF Timely, Typed
<1>8. /\ next.from = d.from /\ next.head = d.head /\ next.carried = d.carried /\ next.role = d.role
      /\ d.from \in Nat
  BY <1>2, <1>4, Fields DEF Typed
<1>9. Placed(next)
  <2>1. next.from <= Len(attempts)
    BY <1>2, <1>8 DEF Placed
  <2>2. next.role # "audit" => CarriedIs(next.from, next.head, next.carried)
    BY <1>1, <1>2, <1>8 DEF Placed
  <2>3. next.attempt \in 1..(Len(attempts) + 1) /\ next.attempt <= MaxAttempts /\ next.from < next.attempt
    BY <1>1, <1>3, <1>4, <1>8, <2>1, LifecycleAssumption
  <2>4. next.role # "audit"
    BY <1>1, <1>2, <1>8 DEF Placed
  <2> QED BY <1>4, <1>5, <2>1, <2>2, <2>3, <2>4 DEF Placed, Live
<1> QED BY <1>1, <1>4, <1>5, <1>6, <1>7, <1>9, AsideOK

(* Of those who chose one number one makes the attempt.                     *)
LEMMA MakeOK ==
  ASSUME IInv, NEW p \in Processes, MakeAttempt(p)
  PROVE  IInv'
<1> DEFINE d == driver[p]
<1>n. PICK next : next = Goto(d, "header")
  OBVIOUS
<1>1. CASE Quietly(p, Idle)
  BY <1>1, EndsOK
<1>2. CASE ~Quietly(p, Idle)
  <2>1. /\ d.pc = "mkdir" /\ d.attempt > Len(attempts)
        /\ driver' = [driver EXCEPT ![p] = next] /\ attempts' = Append(attempts, <<>>)
    BY <1>2, <1>n DEF MakeAttempt, At
  <2>2. /\ DOMAIN driver' = Processes /\ driver'[p] = next
        /\ \A q \in Processes \ {p} : driver'[q] = driver[q]
    BY <2>1 DEF IInv, Drivers
  <2>3. Journals /\ Typed(d) /\ Timely(d) /\ Placed(d)
    BY DEF IInv, Drivers
  <2>4. /\ Grown /\ Len(attempts') = Len(attempts) + 1
        /\ attempts' \in Seq(Range(attempts'))
        /\ DOMAIN attempts' = DOMAIN attempts \cup {Len(attempts) + 1}
        /\ attempts'[Len(attempts) + 1] = <<>>
        /\ \A n \in DOMAIN attempts : attempts'[n] = attempts[n]
    BY <2>1, <2>3, MadeGrows
  <2>5. Len(attempts) \in Nat /\ DOMAIN attempts = 1..Len(attempts)
    BY <2>3 DEF Journals
  <2>6. d.attempt = Len(attempts) + 1 /\ d.attempt <= MaxAttempts /\ d.from < d.attempt /\ d.role # "audit"
    BY <2>1, <2>3, <2>5 DEF Placed
  <2>7. /\ Typed(next) /\ next.pc = "header" /\ next.step = d.step /\ next.mono = d.mono /\ next.attempt = d.attempt
        /\ next.from = d.from /\ next.head = d.head /\ next.carried = d.carried /\ next.role = d.role
    BY <1>n, <2>3, Goes, OnwardIs DEF Further
  <2>8. Timely(next)
    BY <2>1, <2>3, <2>7 DEF Timely, LoopPCs, Asking
  <2>9. Journals'
    <3>1. \A n \in DOMAIN attempts : Whole(attempts'[n]) /\ (attempts'[n] # <<>> => Headed(n)')
      BY <2>3, <2>4, HeadedKept DEF Journals
    <3>2. Whole(<<>>)
      <4>1. <<>> \in Seq(Range(<<>>)) /\ DOMAIN <<>> = {}
        OBVIOUS
      <4> QED BY <4>1 DEF Whole
    <3>3. \A n \in DOMAIN attempts' : Whole(attempts'[n]) /\ (attempts'[n] # <<>> => Headed(n)')
      BY <2>4, <3>1, <3>2
    <3>4. Len(attempts') <= MaxAttempts
      BY <2>4, <2>6
    <3> QED BY <2>4, <3>3, <3>4 DEF Journals
  <2>10. \A q \in Processes : Writes(q) => driver[q].attempt \in DOMAIN attempts
    BY DEF IInv, Drivers, Placed, Writes, Live
  <2>11. Placed(next)'
    <3>1. next.from <= Len(attempts)'
      BY <2>3, <2>4, <2>5, <2>6, <2>7 DEF Typed
    <3>2. CarriedIs(next.from, next.head, next.carried)'
      <4>1. CarriedIs(next.from, next.head, next.carried)
        BY <2>1, <2>3, <2>6, <2>7 DEF Placed
      <4>2. /\ next.from # 0 => /\ next.from \in DOMAIN attempts' /\ attempts'[next.from] # <<>>
                                /\ next.head \in DOMAIN attempts'[next.from]
                                /\ next.carried = attempts'[next.from][1].body[3] + attempts'[next.from][next.head].mono
            /\ next.from = 0 => next.carried = 0
        BY <2>3, <2>4, <4>1, CarriedKept
      <4> QED BY <4>2 DEF CarriedIs, Begun
    <3>3. next.from < next.attempt /\ next.attempt \in DOMAIN attempts' /\ attempts'[next.attempt] = <<>>
      BY <2>4, <2>6, <2>7
    <3>4. next.pc = "header" /\ next.role # "audit" /\ "header" \notin LoopPCs
      BY <2>6, <2>7 DEF LoopPCs
    <3> QED BY <3>1, <3>2, <3>3, <3>4 DEF Placed, Live
  <2>12. Drivers'
    <3>1. ASSUME NEW q \in Processes \ {p}
          PROVE  Typed(driver[q])' /\ Timely(driver[q])' /\ Placed(driver[q])'
      <4>1. Typed(driver[q]) /\ Timely(driver[q]) /\ Placed(driver[q])
        BY DEF IInv, Drivers
      <4>2. Len(attempts') \in Nat /\ Len(attempts') >= Len(attempts)
        BY <2>4, <2>5
      <4>3. Writes(q) => attempts'[driver[q].attempt] = attempts[driver[q].attempt]
        BY <2>4, <2>10
      <4> QED BY <2>2, <2>3, <2>4, <4>1, <4>2, <4>3, OthersPlaced
    <3>2. Typed(driver[p])' /\ Timely(driver[p])' /\ Placed(driver[p])'
      BY <2>2, <2>7, <2>8, <2>11 DEF Typed, Timely, Elapsed, Placed, OwnOK, CarriedIs, Live, Begun
    <3> QED BY <2>2, <3>1, <3>2 DEF Drivers
  <2>13. OneWriter'
    <3>1. \A q \in Processes \ {p} : Writes(q)' => Writes(q) /\ driver'[q].attempt = driver[q].attempt
      BY <2>2 DEF Writes
    <3>2. driver'[p].attempt = Len(attempts) + 1 /\ Len(attempts) + 1 \notin DOMAIN attempts
      BY <2>2, <2>5, <2>6, <2>7
    <3> QED BY <2>10, <3>1, <3>2 DEF OneWriter, IInv
  <2> QED BY <2>9, <2>12, <2>13 DEF IInv
<1> QED BY <1>1, <1>2

(* The header says what the process read.                                   *)
LEMMA HeaderOK ==
  ASSUME IInv, NEW p \in Processes, WriteHeader(p)
  PROVE  IInv'
<1> DEFINE d    == driver[p]
           next == Goto(d, "begin")
<1>1. d.pc = "header" /\ Write(p, "RunStarted", <<d.from, d.head, d.carried>>, next)
  BY DEF WriteHeader, At
<1>2. Typed(d) /\ d.step <= StepLimit
  BY <1>1 DEF IInv, Drivers, Timely
<1>3. Typed(next) /\ Timely(next) /\ Further(d, next) /\ next.pc = "begin"
  BY <1>2, GoesOn DEF LoopPCs, Asking
<1>4. "begin" \in Onward /\ "RunStarted" \in Kinds
  BY DEF Onward, LoopPCs, Kinds
<1> HIDE DEF next
<1>5. \E e : Continues(p, e)
  BY <1>1, <1>3, <1>4, WriteContinues
<1> QED BY <1>5, ContinuesOK

(* What an audit read is a prefix of a journal that is still there.         *)
LEMMA SnapshotIs ==
  ASSUME Journals, NEW d, d.from \in DOMAIN attempts, d.head \in Nat, 1..d.head \subseteq DOMAIN attempts[d.from]
  PROVE  /\ Len(Snapshot(d)) = d.head /\ DOMAIN Snapshot(d) = 1..d.head
         /\ \A i \in 1..d.head : Snapshot(d)[i] = attempts[d.from][i]
         /\ Snapshot(d) # <<>> <=> d.head > 0
<1> DEFINE s == attempts[d.from]
<1>1. s \in Seq(Range(s))
  BY DEF Journals, Whole
<1> HIDE DEF s
<1>2. DOMAIN s = 1..Len(s) /\ Len(s) \in Nat
  BY <1>1
<1>3. 1..d.head \subseteq DOMAIN s
  BY DEF s
<1>4. d.head <= Len(s)
  BY <1>2, <1>3
<1>5. SubSeq(s, 1, d.head) = [i \in 1..d.head |-> s[i]]
  BY <1>1, <1>2, <1>4
<1>6. Len(SubSeq(s, 1, d.head)) = d.head /\ SubSeq(s, 1, d.head) \in Seq(Range(s))
  BY <1>1, <1>2, <1>4
<1> QED BY <1>5, <1>6 DEF Snapshot, s

(* A report says one of the outcomes.                                       *)
LEMMA ReportedIs ==
  ASSUME Journals, NEW d, Typed(d), d.role = "audit",
         d.from \in DOMAIN attempts, 1..d.head \subseteq DOMAIN attempts[d.from], NEW compared, NEW anchored
  PROVE  LET r == Reported(d, compared, anchored)
         IN  Typed(r) /\ Timely(r) /\ Placed(r) /\ r.role = "audit"
<1>1. RecordedOutcome(Snapshot(d)) \in Outcomes
  <2>1. d.head \in Nat
    BY DEF Typed
  <2>2. CASE Committed(Snapshot(d))
    <3>1. d.head \in 1..d.head /\ Len(Snapshot(d)) = d.head /\ Snapshot(d)[d.head] = attempts[d.from][d.head]
      BY <2>1, <2>2, SnapshotIs DEF Committed
    <3>2. attempts[d.from][d.head].kind = "RunStopped"
      BY <2>2, <3>1 DEF Committed, Last
    <3>3. RecordOK(attempts[d.from], d.head)
      BY <3>1 DEF Journals, Whole
    <3> QED BY <2>2, <3>1, <3>2, <3>3 DEF RecordOK, RecordedOutcome, Last
  <2>3. CASE ~Committed(Snapshot(d))
    BY <2>3 DEF RecordedOutcome, Outcomes
  <2> QED BY <2>2, <2>3
<1> DEFINE r == Reported(d, compared, anchored)
<1>2. /\ DOMAIN r = DOMAIN d /\ r.pc = "reported" /\ r.outcome \in Outcomes
      /\ \A field \in DOMAIN d \ {"pc", "diverged", "anchored", "outcome"} : r[field] = d[field]
  BY <1>1, Fields DEF Reported, Goto, Typed, Outcomes
<1>3. "reported" \in PCs /\ "reported" \notin LoopPCs \cup {"list", "mkdir", "header"} /\ "reported" \notin Asking
  BY DEF PCs, LoopPCs, Asking
<1> HIDE DEF r
<1>4. Typed(r)
  BY <1>2, <1>3, Fields DEF Typed
<1>5. Timely(r)
  BY <1>2, <1>3 DEF Timely
<1>6. r.role = "audit" /\ r.from = d.from /\ r.head = d.head
  BY <1>2, Fields DEF Typed
<1>7. d.from <= Len(attempts)
  <2>1. attempts \in Seq(Range(attempts))
    BY DEF Journals
  <2> QED BY <2>1
<1>8. Placed(r)
  BY <1>2, <1>3, <1>6, <1>7 DEF Placed, Live
<1>9. Typed(r) /\ Timely(r) /\ Placed(r) /\ r.role = "audit"
  BY <1>4, <1>5, <1>6, <1>8
<1> QED BY <1>9 DEF r

(* An audit starts on what a journal holds and reports on that.             *)
LEMMA AuditOK ==
  ASSUME IInv, NEW p \in Processes, Audit(p)
  PROVE  IInv'
<1> DEFINE e(n) == [Idle EXCEPT !.role = "audit", !.from = n, !.head = Len(attempts[n])]
           copy == <<[kind |-> "RunStarted", step |-> 0, mono |-> 0, body |-> <<0, 0, 0>>]>>
           start(n) == [Goto(e(n), "begin") EXCEPT
                          !.replies = Exchanges(attempts[n]), !.results = RecordedResults(attempts[n]),
                          !.copy = copy]
<1>1. PICK n \in DOMAIN attempts :
        Quietly(p, IF attempts[n] = <<>> \/ ~Paired(attempts[n]) THEN Reported(e(n), "diverged", FALSE) ELSE start(n))
  BY DEF Audit
<1>2. Journals /\ Whole(attempts[n]) /\ n \in Nat /\ n <= Len(attempts)
  <2>1. attempts \in Seq(Range(attempts)) /\ Journals
    BY DEF IInv, Journals
  <2> QED BY <2>1 DEF Journals
<1>3. attempts[n] \in Seq(Range(attempts[n])) /\ Len(attempts[n]) \in Nat
      /\ 1..Len(attempts[n]) \subseteq DOMAIN attempts[n]
  <2>1. attempts[n] \in Seq(Range(attempts[n]))
    BY <1>2 DEF Whole
  <2> QED BY <2>1
<1> DEFINE d == e(n)
<1>4. /\ DOMAIN d = DOMAIN Idle /\ d.role = "audit" /\ d.from = n /\ d.head = Len(attempts[n])
      /\ \A field \in DOMAIN Idle \ {"role", "from", "head"} : d[field] = Idle[field]
  BY Fields
<1>5. Quietly(p, IF attempts[n] = <<>> \/ ~Paired(attempts[n]) THEN Reported(d, "diverged", FALSE) ELSE start(n))
  BY <1>1
<1> HIDE DEF d
<1>6. Typed(d)
  <2>1. AnswersOK(d.replies)
    BY <1>4, NoReplies, Fields DEF Idle
  <2> QED BY <1>2, <1>3, <1>4, <2>1, IdleIs, Fields DEF Typed
<1>7. CASE attempts[n] = <<>> \/ ~Paired(attempts[n])
  <2> DEFINE next == Reported(d, "diverged", FALSE)
  <2>1. Quietly(p, next)
    BY <1>5, <1>7
  <2>2. Typed(next) /\ Timely(next) /\ Placed(next) /\ next.role = "audit"
    BY <1>2, <1>3, <1>4, <1>6, ReportedIs
  <2> HIDE DEF next
  <2> QED BY <2>1, <2>2, AsideOK
<1>8. CASE ~(attempts[n] = <<>> \/ ~Paired(attempts[n]))
  <2> DEFINE next == start(n)
  <2>1. Quietly(p, next)
    BY <1>5, <1>8
  <2>2. AnswersOK(Exchanges(attempts[n]))
    <3> DEFINE s == attempts[n]
               S == Range(s)
    <3>1. s \in Seq(S) /\ Paired(s) /\ \A i \in DOMAIN s : s[i].kind = "ModelReplied" => s[i].body[1] \in Answers
      BY <1>2, <1>3, <1>8 DEF Whole, RecordOK
    <3> HIDE DEF s, S
    <3>2. AnswersOK(Exchanges(s))
      BY <3>1, ExchangesOK
    <3> QED BY <3>2 DEF s
  <2>3. /\ DOMAIN next = DOMAIN Idle /\ next.pc = "begin" /\ next.replies = Exchanges(attempts[n])
        /\ \A field \in DOMAIN Idle \ {"pc", "replies", "results", "copy"} : next[field] = d[field]
    BY <1>4, Fields DEF d, Goto
  <2> HIDE DEF next
  <2>4. Typed(next) /\ next.step = 0 /\ next.role = "audit" /\ next.from = n /\ next.head = Len(attempts[n])
    <3>1. "begin" \in PCs
      BY DEF PCs, LoopPCs
    <3>2. d.step = 0
      BY <1>4, Fields DEF Idle
    <3> QED BY <1>4, <1>6, <2>2, <2>3, <3>1, <3>2, Fields DEF Typed
  <2>5. Timely(next)
    BY <2>3, <2>4, LifecycleAssumption DEF Timely, Asking
  <2>6. Placed(next)
    BY <1>2, <1>3, <2>3, <2>4 DEF Placed, Live
  <2> QED BY <2>1, <2>4, <2>5, <2>6, AsideOK
<1> QED BY <1>7, <1>8

LEMMA ReportOK ==
  ASSUME IInv, NEW p \in Processes, Report(p)
  PROVE  IInv'
<1> DEFINE d == driver[p]
<1>1. PICK anchored \in BOOLEAN : Quietly(p, Reported(d, Compare(Snapshot(d), d.copy), anchored))
  BY DEF Report
<1>2. d.pc = "compare" /\ Typed(d) /\ Placed(d) /\ Timely(d) /\ Journals
  BY DEF Report, At, IInv, Drivers
<1> DEFINE next == Reported(d, Compare(Snapshot(d), d.copy), anchored)
<1>3. d.role = "audit"
  BY <1>2 DEF Timely
<1>4. Typed(next) /\ Timely(next) /\ Placed(next) /\ next.role = "audit"
  BY <1>2, <1>3, ReportedIs DEF Placed
<1> HIDE DEF next
<1> QED BY <1>1, <1>4, AsideOK DEF next

-----------------------------------------------------------------------------
(***************************************************************************)
(* The theorems.                                                            *)
(***************************************************************************)
(* The invariant holds from the start and every step keeps it.              *)
THEOREM Inductive == Spec => []IInv
<1>1. Init => IInv
  <2> SUFFICES ASSUME Init PROVE IInv
    OBVIOUS
  <2> DEFINE run == [Idle EXCEPT !.pc = "list", !.role = "run"]
  <2>1. PICK first \in Processes :
          driver = [p \in Processes |-> IF p = first THEN run ELSE Idle]
    BY DEF Init
  <2>2. attempts = <<>> /\ attempts \in Seq(Range(attempts)) /\ Len(attempts) = 0 /\ DOMAIN attempts = {}
    BY DEF Init
  <2>3. Journals
    BY <2>2, LifecycleAssumption DEF Journals
  <2>4. /\ DOMAIN run = DOMAIN Idle /\ run.pc = "list" /\ run.role = "run"
        /\ \A field \in DOMAIN Idle \ {"pc", "role"} : run[field] = Idle[field]
    BY Fields
  <2>5. Idle.step = 0 /\ Idle.from = 0 /\ Idle.carried = 0
    BY DEF Idle
  <2>6. "list" \in PCs /\ "list" \notin LoopPCs /\ "list" \notin Asking
    BY DEF PCs, LoopPCs, Asking
  <2> HIDE DEF run
  <2>7. Typed(run) /\ Timely(run)
    BY <2>4, <2>5, <2>6, IdleIs, Fields, LifecycleAssumption DEF Typed, Timely
  <2>8. run.from = 0 /\ run.carried = 0
    BY <2>4, <2>5, Fields
  <2>9. Placed(run)
    BY <2>2, <2>4, <2>6, <2>8 DEF Placed, Live, CarriedIs
  <2>10. Drivers
    BY <2>1, <2>3, <2>7, <2>9, IdleIs DEF Drivers
  <2>11. \A p \in Processes : ~Writes(p)
    BY <2>1, <2>4, IdleIs DEF Writes, LoopPCs
  <2> QED BY <2>3, <2>10, <2>11 DEF IInv, OneWriter
<1>2. IInv /\ [Next]_vars => IInv'
  <2> SUFFICES ASSUME IInv, [Next]_vars PROVE IInv'
    OBVIOUS
  <2>1. ASSUME NEW p \in Processes, Loop(p) PROVE IInv'
    <3>1. \E next : Continues(p, next)
      BY <2>1, LoopContinues DEF IInv, Drivers
    <3> QED BY <3>1, ContinuesOK
  <2>2. ASSUME NEW p \in Processes, Exit(p) \/ Kill(p) PROVE IInv'
    BY <2>2, EndsOK DEF Exit, Kill
  <2>3. CASE UNCHANGED vars
    <3>1. attempts' = attempts /\ driver' = driver
      BY <2>3 DEF vars
    <3>2. Journals /\ Drivers /\ OneWriter
      BY DEF IInv
    <3>3. Journals'
      BY ONLY <3>1, <3>2 DEF Journals, Headed, CarriedIs, Begun
    <3>4. Drivers'
      BY ONLY <3>1, <3>2 DEF Drivers, Typed, Timely, Elapsed, Placed, CarriedIs, Begun, OwnOK, Live
    <3>5. OneWriter'
      BY ONLY <3>1, <3>2 DEF OneWriter, Writes
    <3> QED BY <3>3, <3>4, <3>5 DEF IInv
  <2> QED BY <2>1, <2>2, <2>3, ResumeOK, ListOK, MakeOK, HeaderOK, AuditOK, ReportOK DEF Next
<1> QED BY <1>1, <1>2, PTL DEF Spec

(* However processes race for a run, no two of them write one journal.      *)
THEOREM OneWriterHolds == Spec => []OneWriter
<1>1. IInv => OneWriter
  BY DEF IInv
<1> QED BY <1>1, Inductive, PTL

(* A journal's records, and a process, are what they can be: the steps and  *)
(* times in a journal never go back, and only its last record is a stop.    *)
THEOREM TypeCorrect == Spec => []TypeOK
<1>1. ASSUME IInv PROVE TypeOK
  <2>1. Len(attempts) <= MaxAttempts /\ Len(attempts) \in Nat
    BY <1>1 DEF IInv, Journals
  <2>2. ASSUME NEW n \in DOMAIN attempts, NEW i \in DOMAIN attempts[n]
        PROVE  LET r == attempts[n][i]
               IN  /\ r.kind \in Kinds /\ r.mono \in Nat /\ r.step \in 0..StepLimit + 1
                   /\ (r.kind = "RunStarted") <=> (i = 1)
                   /\ r.kind = "RunStopped" => i = Len(attempts[n]) /\ r.body[1] \in Causes
                   /\ i > 1 => r.step >= attempts[n][i - 1].step /\ r.mono >= attempts[n][i - 1].mono
    <3>1. RecordOK(attempts[n], i)
      BY <1>1 DEF IInv, Journals, Whole
    <3> QED BY <3>1 DEF RecordOK
  <2>3. ASSUME NEW p \in Processes
        PROVE  LET d == driver[p]
               IN  /\ d.pc \in PCs /\ d.role \in {None, "run", "resume", "audit"}
                   /\ d.from \in 0..Len(attempts) /\ d.step \in 0..StepLimit + 1
                   /\ d.reply \in Replies \cup {None} /\ d.cause \in Causes \cup {None}
                   /\ d.outcome \in {None, NothingChecked, CouldNotRun, Unreadable}
    <3>1. Typed(driver[p]) /\ driver[p].from <= Len(attempts)
      BY <1>1 DEF IInv, Drivers, Placed
    <3> QED BY <2>1, <3>1 DEF Typed, Outcomes
  <2> QED BY <2>1, <2>2, <2>3 DEF TypeOK
<1> QED BY <1>1, Inductive, PTL

\* What the headers say was carried.
Walls == [n \in 0..MaxAttempts |-> IF Begun(n) THEN attempts[n][1].body[3] ELSE 0]

\* The equation that WallBefore solves.
Sums(f) ==
  f = [n \in 0..MaxAttempts |->
         IF ~Begun(n) \/ ResumedFrom(n) = 0 THEN 0
         ELSE f[ResumedFrom(n)] + Last(Continued(n)).mono]

(* The time an attempt carries is that of all the attempts before it, each  *)
(* up to where it was read.                                                 *)
LEMMA WallsAre ==
  ASSUME Journals
  PROVE  WallBefore = Walls
<1>1. ASSUME NEW n \in 0..MaxAttempts, Begun(n)
      PROVE  /\ ResumedFrom(n) \in 0..MaxAttempts /\ ResumedFrom(n) < n
             /\ attempts[n][1].body[3] = IF ResumedFrom(n) = 0 THEN 0
                                         ELSE Walls[ResumedFrom(n)] + Last(Continued(n)).mono
  <2> DEFINE from == ResumedFrom(n)
             head == ResumedAt(n)
  <2>1. from \in 0..(n - 1) /\ CarriedIs(from, head, attempts[n][1].body[3])
    BY <1>1 DEF Begun, Journals, Headed, ResumedFrom, ResumedAt
  <2>2. from \in 0..MaxAttempts /\ from < n
    BY <2>1, LifecycleAssumption
  <2>3. ASSUME from # 0
        PROVE  /\ Begun(from) /\ Last(Continued(n)) = attempts[from][head]
               /\ attempts[n][1].body[3] = attempts[from][1].body[3] + attempts[from][head].mono
    <3>1. /\ Begun(from) /\ head \in DOMAIN attempts[from]
          /\ attempts[n][1].body[3] = attempts[from][1].body[3] + attempts[from][head].mono
      BY <2>1, <2>3 DEF CarriedIs
    <3>2. attempts[from] \in Seq(Range(attempts[from]))
      BY <3>1 DEF Begun, Journals, Whole
    <3>3. Last(SubSeq(attempts[from], 1, head)) = attempts[from][head]
      <4> DEFINE s == attempts[from]
                 sub == SubSeq(s, 1, head)
      <4>1. s \in Seq(Range(s)) /\ head \in 1..Len(s) /\ Len(s) \in Nat
        BY <3>1, <3>2
      <4> HIDE DEF s, head
      <4>2. Len(sub) = head /\ sub[head] = s[head]
        BY <4>1
      <4> HIDE DEF sub
      <4>3. Last(sub) = s[head]
        BY <4>2 DEF Last
      <4> QED BY <4>3 DEF s, sub
    <3> QED BY <3>1, <3>3 DEF Continued
  <2>4. from # 0 => Walls[from] = attempts[from][1].body[3]
    BY <2>2, <2>3 DEF Walls
  <2>5. from = 0 => attempts[n][1].body[3] = 0
    BY <2>1 DEF CarriedIs
  <2> QED BY <2>2, <2>3, <2>4, <2>5
<1>2. Sums(Walls)
  <2> DEFINE g == [n \in 0..MaxAttempts |->
                     IF ~Begun(n) \/ ResumedFrom(n) = 0 THEN 0
                     ELSE Walls[ResumedFrom(n)] + Last(Continued(n)).mono]
  <2>1. \A n \in 0..MaxAttempts : Walls[n] = g[n]
    <3> SUFFICES ASSUME NEW n \in 0..MaxAttempts PROVE Walls[n] = g[n]
      OBVIOUS
    <3>1. Walls[n] = IF Begun(n) THEN attempts[n][1].body[3] ELSE 0
      BY DEF Walls
    <3>2. g[n] = IF ~Begun(n) \/ ResumedFrom(n) = 0 THEN 0
                 ELSE Walls[ResumedFrom(n)] + Last(Continued(n)).mono
      OBVIOUS
    <3> HIDE DEF g
    <3> QED BY <1>1, <3>1, <3>2
  <2>2. Walls = g
    BY <2>1 DEF Walls
  <2> QED BY <2>2 DEF Sums
<1>3. Sums(WallBefore)
  <2>1. WallBefore = CHOOSE f : Sums(f)
    BY DEF WallBefore, Sums
  <2> HIDE DEF Sums
  <2> QED BY <1>2, <2>1
<1>4. DOMAIN WallBefore = 0..MaxAttempts /\ \A n \in 0..MaxAttempts :
        WallBefore[n] = IF ~Begun(n) \/ ResumedFrom(n) = 0 THEN 0
                        ELSE WallBefore[ResumedFrom(n)] + Last(Continued(n)).mono
  BY <1>3 DEF Sums
<1>5. \A n \in 0..MaxAttempts : WallBefore[n] = Walls[n]
  <2> DEFINE B == {n \in 0..MaxAttempts : WallBefore[n] # Walls[n]}
  <2> SUFFICES ASSUME B # {} PROVE FALSE
    OBVIOUS
  <2>1. B \subseteq Nat
    BY LifecycleAssumption
  <2>2. PICK n \in B : \A m \in B : n <= m
    <3> HIDE DEF B
    <3> QED BY <2>1, LeastIs
  <2>3. \A m \in 0..MaxAttempts : m < n => WallBefore[m] = Walls[m]
    BY <2>1, <2>2, LifecycleAssumption
  <2>4. Walls[n] = IF Begun(n) THEN attempts[n][1].body[3] ELSE 0
    BY DEF Walls
  <2>5. WallBefore[n] = Walls[n]
    <3>1. CASE ~Begun(n)
      BY <1>4, <2>4, <3>1
    <3>2. CASE Begun(n)
      BY <1>1, <1>4, <2>3, <2>4, <3>2
    <3> QED BY <3>1, <3>2
  <2> QED BY <2>5
<1>6. Walls = [n \in 0..MaxAttempts |-> Walls[n]]
  BY DEF Walls
<1>7. WallBefore = [n \in 0..MaxAttempts |-> WallBefore[n]]
  BY <1>3 DEF Sums
<1> HIDE DEF Walls
<1> QED BY <1>5, <1>6, <1>7

(* A kill and resume buys no fresh wall budget: the live model is asked     *)
(* only while what all the attempts before spent, as each was read, and     *)
(* this one's own time are within the limit.                                *)
THEOREM WallIsCarriedHolds == Spec => []WallIsCarried
<1>1. ASSUME IInv PROVE WallIsCarried
  <2> SUFFICES ASSUME NEW p \in Processes, AsksLive(driver[p])
               PROVE  WallBefore[driver[p].attempt] + driver[p].mono < WallLimit
    BY DEF WallIsCarried
  <2> DEFINE d == driver[p]
  <2>1. Live(d) /\ d.pc \in Asking /\ d.role # "audit"
    BY DEF AsksLive, Live, LoopPCs, Asking
  <2>2. Journals /\ Typed(d) /\ Timely(d) /\ Placed(d)
    BY <1>1 DEF IInv, Drivers
  <2>3. d.carried + d.mono < WallLimit
    BY <2>1, <2>2 DEF Timely, Elapsed
  <2>4. /\ d.attempt \in DOMAIN attempts /\ attempts[d.attempt] # <<>>
        /\ attempts[d.attempt][1].body[3] = d.carried
    BY <2>1, <2>2 DEF Placed, OwnOK
  <2>5. d.attempt \in 0..MaxAttempts
    <3>1. attempts \in Seq(Range(attempts)) /\ Len(attempts) <= MaxAttempts
      BY <2>2 DEF Journals
    <3> QED BY <2>4, <3>1, LifecycleAssumption
  <2>6. WallBefore[d.attempt] = d.carried
    BY <2>2, <2>4, <2>5, WallsAre DEF Walls, Begun
  <2> QED BY <2>3, <2>6
<1> QED BY <1>1, Inductive, PTL
-----------------------------------------------------------------------------
(***************************************************************************)
(* The places of a journal that a filter keeps, in order.                   *)
(***************************************************************************)
\* g lists the numbers of I from the least to the greatest.
Lists(g, I) ==
  /\ g \in Seq(Nat) /\ \A i \in 1..Len(g) : g[i] \in I
  /\ \A i, j \in 1..Len(g) : i < j => g[i] < g[j]
  /\ \A x \in I : \E i \in 1..Len(g) : g[i] = x

Picked(s, g) == [i \in 1..Len(g) |-> s[g[i]]]

(* What is chosen is what stands at those places.                           *)
LEMMA ChosenBy ==
  ASSUME NEW S, NEW s \in Seq(S), NEW I, I \subseteq 1..Len(s), NEW g, Lists(g, I)
  PROVE  Chosen(s, I) = Picked(s, g)
<1>1. PICK f : Choosing(f, s, I, Len(s)) /\ Chosen(s, I) = f[Len(s)]
  BY ChosenIs
<1>2. \A i \in 0..Len(s) : f[i] = IF i = 0 THEN <<>> ELSE IF i \in I THEN Append(f[i - 1], s[i]) ELSE f[i - 1]
  BY <1>1 DEF Choosing
<1>3. Len(s) \in Nat /\ Len(g) \in Nat /\ \A i \in 1..Len(g) : g[i] \in I /\ g[i] \in Nat
  BY DEF Lists
<1> DEFINE Upon(n, c) == /\ c \in 0..Len(g) /\ f[n] \in Seq(S) /\ Len(f[n]) = c
                         /\ \A i \in 1..c : f[n][i] = s[g[i]]
                         /\ \A i \in 1..Len(g) : i <= c <=> g[i] <= n
           N == {n \in Nat : n <= Len(s) => \E c : Upon(n, c)}
<1>4. 0 \in N
  <2>1. f[0] = <<>>
    BY <1>2, <1>3
  <2>2. \A i \in 1..Len(g) : ~(g[i] <= 0)
    BY <1>3
  <2>3. Upon(0, 0)
    BY <1>3, <2>1, <2>2
  <2> QED BY <2>3
<1>5. ASSUME NEW n \in N PROVE n + 1 \in N
  <2> SUFFICES ASSUME n + 1 <= Len(s) PROVE \E c : Upon(n + 1, c)
    <3> HIDE DEF Upon
    <3>1. n \in Nat
      OBVIOUS
    <3> QED BY <3>1
  <2>1. n \in Nat /\ n <= Len(s) /\ n + 1 \in 0..Len(s) /\ n + 1 # 0 /\ (n + 1) - 1 = n
    BY <1>3
  <2>2. PICK c : Upon(n, c)
    BY <2>1
  <2>3. CASE n + 1 \in I
    <3>1. PICK k \in 1..Len(g) : g[k] = n + 1
      BY <2>3 DEF Lists
    <3>2. k = c + 1
      <4>1. ~(k <= c)
        BY <2>1, <2>2, <3>1
      <4>2. ASSUME c + 1 < k PROVE FALSE
        <5>1. c + 1 \in 1..Len(g) /\ ~(c + 1 <= c)
          BY <2>2, <3>1, <4>2, <1>3
        <5>2. g[c + 1] < n + 1
          BY <3>1, <4>2, <5>1 DEF Lists
        <5>3. g[c + 1] <= n
          BY <1>3, <2>1, <5>1, <5>2
        <5> QED BY <2>2, <5>1, <5>3
      <4> QED BY <2>2, <3>1, <4>1, <4>2, <1>3
    <3>3. f[n + 1] = Append(f[n], s[n + 1])
      BY <1>2, <2>1, <2>3
    <3>4. s[n + 1] \in S
      BY <2>1
    <3>5. /\ f[n + 1] \in Seq(S) /\ Len(f[n + 1]) = c + 1 /\ f[n + 1][c + 1] = s[n + 1]
          /\ \A i \in 1..c : f[n + 1][i] = f[n][i]
      BY <2>2, <3>3, <3>4, AppendProperties
    <3>6. c + 1 \in 0..Len(g) /\ c \in Nat
      BY <2>2, <3>1, <3>2
    <3>7. ASSUME NEW i \in 1..(c + 1) PROVE f[n + 1][i] = s[g[i]]
      <4>1. CASE i = c + 1
        BY <3>1, <3>2, <3>5, <4>1
      <4>2. CASE i # c + 1
        <5>1. i \in 1..c
          BY <3>6, <4>2
        <5> QED BY <2>2, <3>5, <5>1
      <4> QED BY <4>1, <4>2
    <3>8. ASSUME NEW i \in 1..Len(g) PROVE i <= c + 1 <=> g[i] <= n + 1
      <4>1. i < k => g[i] < n + 1
        BY <3>1 DEF Lists
      <4>2. k < i => n + 1 < g[i]
        BY <3>1 DEF Lists
      <4>3. i = k => g[i] = n + 1
        BY <3>1
      <4>4. g[i] \in Nat /\ i \in Nat
        BY <1>3
      <4> QED BY <2>1, <3>2, <3>6, <4>1, <4>2, <4>3, <4>4
    <3>9. Upon(n + 1, c + 1)
      BY <3>5, <3>6, <3>7, <3>8
    <3> QED BY <3>9
  <2>4. CASE n + 1 \notin I
    <3>1. f[n + 1] = f[n]
      BY <1>2, <2>1, <2>4
    <3>2. \A i \in 1..Len(g) : g[i] # n + 1 /\ g[i] \in Nat
      BY <1>3, <2>4
    <3>3. \A i \in 1..Len(g) : i <= c <=> g[i] <= n + 1
      BY <2>1, <2>2, <3>2
    <3>4. Upon(n + 1, c)
      BY <2>2, <3>1, <3>3
    <3> QED BY <3>4
  <2> QED BY <2>3, <2>4
<1>6. N = Nat
  <2> HIDE DEF N
  <2>1. N \subseteq Nat
    BY DEF N
  <2> QED BY <1>4, <1>5, <2>1, FromZero
<1>7. PICK c : Upon(Len(s), c)
  <2>1. Len(s) \in N
    BY <1>3, <1>6
  <2> HIDE DEF Upon
  <2> QED BY <1>3, <2>1
<1>8. c = Len(g)
  <2>1. ASSUME c # Len(g) PROVE FALSE
    <3>1. Len(g) \in 1..Len(g) /\ ~(Len(g) <= c)
      BY <1>3, <1>7, <2>1
    <3>2. g[Len(g)] \in 1..Len(s)
      BY <1>3, <3>1
    <3> QED BY <1>7, <3>1, <3>2
  <2> QED BY <2>1
<1>9. Chosen(s, I) = [i \in 1..Len(f[Len(s)]) |-> f[Len(s)][i]]
  BY <1>1, <1>7
<1> HIDE DEF N
<1>10. Chosen(s, I) = [i \in 1..Len(g) |-> s[g[i]]]
  BY <1>7, <1>8, <1>9
<1> QED BY <1>10 DEF Picked

(* Every set of numbers up to n has its list.                               *)
LEMMA ListExists ==
  ASSUME NEW n \in Nat, NEW I, I \subseteq 1..n
  PROVE  \E g : Lists(g, I)
<1> DEFINE N == {k \in Nat : \E g : Lists(g, I \cap 1..k)}
<1>1. 0 \in N
  <2>1. I \cap 1..0 = {}
    OBVIOUS
  <2>2. <<>> \in Seq(Nat) /\ Len(<<>>) = 0 /\ 1..0 = {}
    OBVIOUS
  <2>3. Lists(<<>>, {})
    BY <2>2 DEF Lists
  <2>4. Lists(<<>>, I \cap 1..0)
    BY <2>1, <2>3
  <2> QED BY <2>4
<1>2. ASSUME NEW k \in N PROVE k + 1 \in N
  <2>1. PICK g : Lists(g, I \cap 1..k)
    OBVIOUS
  <2>2. k \in Nat /\ g \in Seq(Nat) /\ Len(g) \in Nat
    BY <2>1 DEF Lists
  <2>3. CASE k + 1 \notin I
    <3>1. I \cap 1..(k + 1) = I \cap 1..k
      BY <2>2, <2>3
    <3>2. Lists(g, I \cap 1..(k + 1))
      BY <2>1, <3>1
    <3> QED BY <2>2, <3>2
  <2>4. CASE k + 1 \in I
    <3> DEFINE h == Append(g, k + 1)
    <3>1. /\ h \in Seq(Nat) /\ Len(h) = Len(g) + 1 /\ h[Len(g) + 1] = k + 1
          /\ \A i \in 1..Len(g) : h[i] = g[i]
      BY <2>2, AppendProperties
    <3> HIDE DEF h
    <3>2. \A i \in 1..Len(g) : g[i] \in I \cap 1..k /\ g[i] < k + 1
      BY <2>1, <2>2 DEF Lists
    <3>3. \A i \in 1..Len(h) : i \in 1..Len(g) \/ i = Len(g) + 1
      BY <2>2, <3>1
    <3>4. \A i \in 1..Len(h) : h[i] \in I \cap 1..(k + 1)
      BY <2>2, <2>4, <3>1, <3>2, <3>3
    <3>5. \A i, j \in 1..Len(h) : i < j => h[i] < h[j]
      <4> SUFFICES ASSUME NEW i \in 1..Len(h), NEW j \in 1..Len(h), i < j PROVE h[i] < h[j]
        OBVIOUS
      <4>1. i \in 1..Len(g)
        BY <2>2, <3>1
      <4>2. CASE j \in 1..Len(g)
        BY <2>1, <3>1, <4>1, <4>2 DEF Lists
      <4>3. CASE j = Len(g) + 1
        BY <3>1, <3>2, <4>1, <4>3
      <4> QED BY <3>3, <4>2, <4>3
    <3>6. ASSUME NEW x \in I \cap 1..(k + 1) PROVE \E i \in 1..Len(h) : h[i] = x
      <4>1. CASE x = k + 1
        BY <2>2, <3>1, <4>1
      <4>2. CASE x # k + 1
        <5>1. x \in I \cap 1..k
          BY <2>2, <4>2
        <5>2. PICK i \in 1..Len(g) : g[i] = x
          BY <2>1, <5>1 DEF Lists
        <5> QED BY <2>2, <3>1, <5>2
      <4> QED BY <4>1, <4>2
    <3>7. Lists(h, I \cap 1..(k + 1))
      BY <3>1, <3>4, <3>5, <3>6 DEF Lists
    <3> QED BY <2>2, <3>7
  <2> QED BY <2>3, <2>4
<1>3. N = Nat
  <2> HIDE DEF N
  <2>1. N \subseteq Nat
    BY DEF N
  <2> QED BY <1>1, <1>2, <2>1, FromZero
<1>4. I \cap 1..n = I
  OBVIOUS
<1> QED BY <1>3, <1>4

(* The same, for a sequence over its own values.                            *)
LEMMA Chooses ==
  ASSUME NEW s, s \in Seq(Range(s)), NEW I, I \subseteq 1..Len(s), NEW g, Lists(g, I)
  PROVE  Chosen(s, I) = Picked(s, g)
<1>1. PICK S : S = Range(s)
  OBVIOUS
<1>2. s \in Seq(S)
  BY <1>1
<1> QED BY <1>2, ChosenBy

(* A function that rises from each number to the next rises throughout.     *)
LEMMA Rising ==
  ASSUME NEW n \in Nat, NEW f \in [0..n -> Nat], \A s \in 1..n : f[s - 1] < f[s]
  PROVE  \A s, u \in 0..n : s < u => f[s] < f[u]
<1> SUFFICES ASSUME NEW s \in 0..n PROVE \A u \in 0..n : s < u => f[s] < f[u]
  OBVIOUS
<1> DEFINE B == {u \in 0..n : s < u /\ ~(f[s] < f[u])}
<1> SUFFICES ASSUME B # {} PROVE FALSE
  OBVIOUS
<1>1. B \subseteq Nat
  OBVIOUS
<1>2. PICK u \in B : \A v \in B : u <= v
  <2> HIDE DEF B
  <2> QED BY <1>1, LeastIs
<1>3. u \in 1..n /\ u - 1 \in 0..n /\ f[u - 1] < f[u] /\ u - 1 \notin B
  BY <1>2
<1>4. f[u - 1] \in Nat /\ f[u] \in Nat /\ f[s] \in Nat
  BY <1>3
<1>5. CASE s = u - 1
  BY <1>2, <1>3, <1>5
<1>6. CASE s # u - 1
  <2>1. s < u - 1
    BY <1>2, <1>6
  <2>2. f[s] < f[u - 1]
    BY <1>3, <2>1
  <2>3. f[s] < f[u]
    BY <1>3, <1>4, <2>2
  <2> QED BY <1>2, <2>3
<1> QED BY <1>5, <1>6

(* And passes every number on its way.                                      *)
LEMMA Between ==
  ASSUME NEW n \in Nat, NEW f \in [0..n -> Nat], f[0] = 0, NEW j \in Nat, j > 0, j <= f[n]
  PROVE  \E s \in 1..n : f[s - 1] < j /\ j <= f[s]
<1> DEFINE U == {s \in 0..n : j <= f[s]}
<1>1. n \in U /\ U \subseteq Nat
  OBVIOUS
<1>2. PICK s \in U : \A u \in U : s <= u
  <2> HIDE DEF U
  <2> QED BY <1>1, LeastIs
<1>3. s # 0
  BY <1>2
<1>4. s \in 1..n /\ s - 1 \in 0..n /\ s - 1 \notin U
  BY <1>2, <1>3
<1>5. f[s - 1] < j
  BY <1>4
<1> QED BY <1>2, <1>4, <1>5

-----------------------------------------------------------------------------
(***************************************************************************)
(* What a journal tells: the steps it holds whole, each with its turn, and  *)
(* how far the one after them has come.                                     *)
(***************************************************************************)
Upto(s, n) == [i \in 1..n |-> s[i]]

\* The records that a comparison passes over, and that end it.
Apart == {"BudgetCharged", "RunStopped"}

Counted(J) == {i \in 2..Len(J) : J[i].kind \notin Apart}

Reads(r, kind, step, body) == r.kind = kind /\ r.step = step /\ r.body = body

OneTurn(x) ==
  /\ x = <<x[1], x[2]>> /\ x[1] \in Calls \cup {Malformed}
  /\ x[1] = Malformed => x[2] = None

\* Step s, from the counted record after b to e: it ends in the turn K[s].
StepTold(J, E, K, b, e, s) ==
  /\ Reads(J[E[b + 1]], "ModelRequested", s, <<Upto(K, s - 1)>>)
  /\ Reads(J[E[b + 2]], "ModelReplied", s, <<K[s][1]>>)
  /\ \/ /\ K[s][1] = Malformed /\ e = b + 3
        /\ Reads(J[E[b + 3]], "FormatError", s, <<>>)
     \/ /\ K[s][1] # Malformed /\ e = b + 4
        /\ Reads(J[E[b + 3]], "ToolStarted", s, <<K[s][1]>>)
        /\ Reads(J[E[b + 4]], "ToolFinished", s, <<E[b + 3] - 1, K[s][2]>>)

\* The step after the turns K, of which t records are there; its reply is r.
StepOpen(J, E, K, b, t, r) ==
  /\ t >= 1 => Reads(J[E[b + 1]], "ModelRequested", Len(K) + 1, <<Upto(K, Len(K))>>)
  /\ t >= 2 => Reads(J[E[b + 2]], "ModelReplied", Len(K) + 1, <<r>>) /\ r \in Answers
  /\ t >= 3 => Reads(J[E[b + 3]], "ToolStarted", Len(K) + 1, <<r>>) /\ r \in Calls \cup {Submit}
  /\ t >= 4 => Reads(J[E[b + 4]], "SubmitRequested", Len(K) + 1, <<E[b + 3] - 1>>) /\ r = Submit
  /\ t >= 5 => Reads(J[E[b + 5]], "ToolFinished", Len(K) + 1, <<E[b + 3] - 1, "ok">>)

Why(cause, K, t, r, step) ==
  \/ cause = "wall"
  \/ cause = "steps" /\ t = 0 /\ Len(K) = StepLimit /\ step = StepLimit + 1
  \/ cause = "model_unavailable" /\ t = 2 /\ r \in {Unavailable, Diverged} /\ step = Len(K) + 1
  \/ cause = "submitted" /\ t = 5 /\ step = Len(K) + 1

Ending(last, K, t, r) ==
  \E cause : last.body = <<cause, NothingChecked>> /\ Why(cause, K, t, r, last.step)

Stopped(J) == J # <<>> /\ J[Len(J)].kind = "RunStopped"

Turns(K) == K \in Seq(Range(K)) /\ \A s \in 1..Len(K) : OneTurn(K[s])

Ends(E, K, P, t) ==
  /\ P \in [0..Len(K) -> Nat] /\ P[0] = 0
  /\ t \in 0..5 /\ Len(E) = P[Len(K)] + t

Limited(K, t) == Len(K) <= StepLimit /\ (t > 0 => Len(K) < StepLimit)

\* A journal J, its counted records at E, tells the turns K, the last record of
\* each at P, and t records of the step after them.
Story(J, E, K, P, t, r) ==
  /\ J \in Seq(Range(J)) /\ Lists(E, Counted(J))
  /\ Turns(K) /\ Limited(K, t) /\ Ends(E, K, P, t)
  /\ \A s \in 1..Len(K) : StepTold(J, E, K, P[s - 1], P[s], s)
  /\ StepOpen(J, E, K, P[Len(K)], t, r)
  /\ Stopped(J) => Ending(J[Len(J)], K, t, r)

(* The steps follow one another, and the records counted are theirs.        *)
LEMMA StoryEnds ==
  ASSUME NEW J, NEW E, NEW K, NEW P, NEW t, NEW r, Story(J, E, K, P, t, r)
  PROVE  /\ Len(K) \in Nat /\ DOMAIN K = 1..Len(K)
         /\ Len(E) \in Nat /\ DOMAIN E = 1..Len(E) /\ t \in 0..5
         /\ \A s \in 0..Len(K) : P[s] \in Nat
         /\ \A s \in 1..Len(K) : s - 1 \in 0..Len(K) /\ P[s] \in {P[s - 1] + 3, P[s - 1] + 4}
         /\ \A s, u \in 0..Len(K) : s < u => P[s] < P[u]
         /\ \A s \in 0..Len(K) : P[s] <= P[Len(K)]
         /\ Len(E) = P[Len(K)] + t
         /\ \A j \in 1..Len(E) : E[j] \in 2..Len(J) /\ J[E[j]].kind \notin Apart
         /\ Len(J) \in Nat /\ DOMAIN J = 1..Len(J)
<1>1. Len(K) \in Nat /\ DOMAIN K = 1..Len(K) /\ Len(J) \in Nat /\ DOMAIN J = 1..Len(J)
  BY DEF Story, Turns
<1>2. Len(E) \in Nat /\ DOMAIN E = 1..Len(E) /\ \A j \in 1..Len(E) : E[j] \in Counted(J)
  BY DEF Story, Lists
<1>3. P \in [0..Len(K) -> Nat] /\ P[0] = 0 /\ t \in 0..5 /\ Len(E) = P[Len(K)] + t
  BY DEF Story, Ends
<1>4. \A s \in 0..Len(K) : P[s] \in Nat
  BY <1>3
<1>5. ASSUME NEW s \in 1..Len(K)
      PROVE  s - 1 \in 0..Len(K) /\ P[s] \in {P[s - 1] + 3, P[s - 1] + 4}
  <2>1. StepTold(J, E, K, P[s - 1], P[s], s)
    BY DEF Story
  <2> QED BY <1>1, <2>1 DEF StepTold
<1>6. \A s \in 1..Len(K) : P[s - 1] < P[s]
  BY <1>1, <1>4, <1>5
<1>7. \A s, u \in 0..Len(K) : s < u => P[s] < P[u]
  BY <1>1, <1>3, <1>6, Rising
<1>8. \A s \in 0..Len(K) : P[s] <= P[Len(K)]
  <2> SUFFICES ASSUME NEW s \in 0..Len(K) PROVE P[s] <= P[Len(K)]
    OBVIOUS
  <2>1. s = Len(K) \/ s < Len(K)
    <3>1. \A n \in Nat : \A i \in 0..n : i = n \/ i < n
      OBVIOUS
    <3> QED BY <1>1, <3>1
  <2>2. Len(K) \in 0..Len(K)
    BY <1>1
  <2> QED BY <1>4, <1>7, <2>1, <2>2
<1> QED BY <1>1, <1>2, <1>3, <1>4, <1>5, <1>7, <1>8 DEF Counted

\* One record more, after those that E counts.
Keeps(J, E, J2, E2) == \A j \in 1..Len(E) : E2[j] = E[j] /\ J2[E[j]] = J[E[j]]

(* The first of a sequence stay when something is appended.                 *)
LEMMA UptoOn ==
  ASSUME NEW K, K \in Seq(Range(K)), NEW x, NEW n \in 0..Len(K)
  PROVE  Upto(Append(K, x), n) = Upto(K, n)
<1> DEFINE t == Append(K, x)
<1>1. \A i \in DOMAIN K : t[i] = K[i]
  BY Appended
<1>2. DOMAIN K = 1..Len(K) /\ Len(K) \in Nat
  OBVIOUS
<1>3. \A i \in 1..n : t[i] = K[i]
  BY <1>1, <1>2
<1> HIDE DEF t
<1>4. Upto(t, n) = Upto(K, n)
  BY <1>3 DEF Upto
<1> QED BY <1>4 DEF t

(* All of a sequence is the sequence.                                       *)
LEMMA UptoAll ==
  ASSUME NEW K, K \in Seq(Range(K))
  PROVE  Upto(K, Len(K)) = K
<1>1. K = [i \in 1..Len(K) |-> K[i]]
  OBVIOUS
<1> QED BY <1>1 DEF Upto

(* The steps told stay told.                                                *)
LEMMA ToldOn ==
  ASSUME NEW J, NEW E, NEW K, NEW P, NEW t, NEW r, Story(J, E, K, P, t, r),
         NEW J2, NEW E2, Keeps(J, E, J2, E2), NEW K2, Len(K2) >= Len(K), \A s \in 1..Len(K) : K2[s] = K[s],
         \A n \in 0..Len(K) : Upto(K2, n) = Upto(K, n)
  PROVE  \A s \in 1..Len(K) : StepTold(J2, E2, K2, P[s - 1], P[s], s)
<1> SUFFICES ASSUME NEW s \in 1..Len(K) PROVE StepTold(J2, E2, K2, P[s - 1], P[s], s)
  OBVIOUS
<1>1. StepTold(J, E, K, P[s - 1], P[s], s)
  BY DEF Story
<1>2. PICK b \in Nat : b = P[s - 1] /\ P[s] \in {b + 3, b + 4} /\ P[s] <= Len(E) /\ P[s] \in Nat
  <2>1. /\ P[s - 1] \in Nat /\ P[s] \in Nat /\ P[s] \in {P[s - 1] + 3, P[s - 1] + 4}
        /\ P[s] <= P[Len(K)] /\ Len(E) = P[Len(K)] + t /\ t \in 0..5 /\ P[Len(K)] \in Nat
    BY StoryEnds
  <2>2. P[s] <= Len(E)
    BY <2>1
  <2> QED BY <2>1, <2>2
<1>3. Len(E) \in Nat /\ Len(K) \in Nat
  BY StoryEnds
<1>n. PICK n \in Nat : n = Len(E)
  BY <1>3
<1>k. \A j \in 1..n : E2[j] = E[j] /\ J2[E[j]] = J[E[j]]
  BY <1>n DEF Keeps
<1>4. \A k \in 1..3 : J2[E2[b + k]] = J[E[b + k]] /\ E2[b + k] = E[b + k]
  <2>1. b + 3 <= n /\ b \in Nat /\ n \in Nat
    BY ONLY <1>2, <1>n
  <2>2. \A k \in 1..3 : b + k \in 1..n
    BY ONLY <2>1
  <2> QED BY <1>k, <2>2
<1>5. P[s] = b + 4 => J2[E2[b + 4]] = J[E[b + 4]]
  <2>1. \A x, y \in Nat : x <= y /\ x = b + 4 => b + 4 \in 1..y
    OBVIOUS
  <2>2. P[s] \in Nat /\ P[s] <= n
    BY ONLY <1>2, <1>n
  <2>3. P[s] = b + 4 => b + 4 \in 1..n
    BY <2>1, <2>2
  <2> QED BY <1>k, <2>3
<1>6. Upto(K2, s - 1) = Upto(K, s - 1) /\ K2[s] = K[s]
  <2>1. s - 1 \in 0..Len(K)
    BY <1>3
  <2> QED BY <2>1
<1>7. /\ J2[E2[b + 1]] = J[E[b + 1]] /\ J2[E2[b + 2]] = J[E[b + 2]]
      /\ J2[E2[b + 3]] = J[E[b + 3]] /\ E2[b + 3] = E[b + 3]
  BY <1>4
<1>8. StepTold(J, E, K, b, P[s], s)
  BY <1>1, <1>2
<1>9. StepTold(J2, E2, K2, b, P[s], s)
  BY <1>5, <1>6, <1>7, <1>8 DEF StepTold
<1> QED BY <1>2, <1>9

(* And what there is of the step after them.                                *)
LEMMA OpenOn ==
  ASSUME NEW J, NEW E, NEW K, NEW P, NEW t, NEW r, Story(J, E, K, P, t, r),
         NEW J2, NEW E2, Keeps(J, E, J2, E2)
  PROVE  StepOpen(J2, E2, K, P[Len(K)], t, r)
<1>1. PICK b \in Nat : b = P[Len(K)] /\ Len(E) = b + t /\ t \in 0..5 /\ StepOpen(J, E, K, b, t, r)
  <2>1. Len(E) = P[Len(K)] + t /\ t \in 0..5
    BY StoryEnds
  <2>2. P[Len(K)] \in Nat
    <3>1. Len(K) \in Nat /\ P \in [0..Len(K) -> Nat]
      BY StoryEnds DEF Story, Ends
    <3> QED BY <3>1
  <2>3. StepOpen(J, E, K, P[Len(K)], t, r)
    BY DEF Story
  <2> QED BY <2>1, <2>2, <2>3
<1>2. \A k \in 1..5 : k <= t => J2[E2[b + k]] = J[E[b + k]] /\ E2[b + k] = E[b + k]
  BY <1>1 DEF Keeps
<1>3. /\ t >= 1 => J2[E2[b + 1]] = J[E[b + 1]]
      /\ t >= 2 => J2[E2[b + 2]] = J[E[b + 2]]
      /\ t >= 3 => J2[E2[b + 3]] = J[E[b + 3]] /\ E2[b + 3] = E[b + 3]
      /\ t >= 4 => J2[E2[b + 4]] = J[E[b + 4]]
      /\ t >= 5 => J2[E2[b + 5]] = J[E[b + 5]]
  BY <1>1, <1>2
<1>4. /\ t >= 4 => t >= 3 
      /\ t >= 5 => t >= 3
  BY <1>1
<1>5. StepOpen(J2, E2, K, b, t, r)
  BY <1>1, <1>3, <1>4 DEF StepOpen
<1> QED BY <1>1, <1>5

\* A record that is counted is the last counted.
CountsOn(J, E, e, J2, E2) ==
  /\ Keeps(J, E, J2, E2) /\ Keeps(J, E, J2, E)
  /\ Len(E2) = Len(E) + 1 /\ Len(E) \in Nat /\ E2[Len(E) + 1] = Len(J) + 1 /\ J2[Len(J) + 1] = e
  /\ e.kind \notin Apart => Lists(E2, Counted(J2))
  /\ e.kind \in Apart => Lists(E, Counted(J2))
  /\ J2 \in Seq(Range(J2)) /\ Len(J2) = Len(J) + 1 /\ J2 # <<>> /\ Len(J) \in Nat

(* One record more is counted, or passed over.                              *)
LEMMA CountedOn ==
  ASSUME NEW J, J \in Seq(Range(J)), Len(J) >= 1, NEW E, Lists(E, Counted(J)),
         NEW e, NEW J2, J2 = Append(J, e), NEW E2, E2 = Append(E, Len(J) + 1)
  PROVE  CountsOn(J, E, e, J2, E2)
<1>1. /\ J2 \in Seq(Range(J2)) /\ Len(J2) = Len(J) + 1 /\ Len(J) \in Nat
      /\ DOMAIN J = 1..Len(J) /\ J2[Len(J) + 1] = e /\ \A i \in DOMAIN J : J2[i] = J[i]
  <2>1. J2 \in Seq(Range(J2)) /\ Len(J2) = Len(J) + 1 /\ Len(J) \in Nat
    BY Appended
  <2>2. DOMAIN J = 1..Len(J) /\ J2[Len(J) + 1] = e /\ \A i \in DOMAIN J : J2[i] = J[i]
    BY Appended
  <2> QED BY <2>1, <2>2
<1>2. /\ E \in Seq(Nat) /\ Len(E) \in Nat /\ \A j \in 1..Len(E) : E[j] \in Counted(J)
      /\ \A i, j \in 1..Len(E) : i < j => E[i] < E[j]
      /\ \A x \in Counted(J) : \E i \in 1..Len(E) : E[i] = x
  BY DEF Lists
<1>3. /\ E2 \in Seq(Nat) /\ Len(E2) = Len(E) + 1 /\ E2[Len(E) + 1] = Len(J) + 1
      /\ \A i \in 1..Len(E) : E2[i] = E[i]
  <2>1. Len(J) + 1 \in Nat
    BY <1>1
  <2> QED BY <1>2, <2>1, AppendProperties
<1>4. \A x \in Counted(J) : x \in 2..Len(J) /\ x \in DOMAIN J /\ J2[x] = J[x] /\ x < Len(J) + 1
  BY <1>1 DEF Counted
<1>5. Keeps(J, E, J2, E2) /\ Keeps(J, E, J2, E)
  BY <1>2, <1>3, <1>4 DEF Keeps
<1>6. ASSUME e.kind \notin Apart PROVE Lists(E2, Counted(J2))
  <2>1. Counted(J2) = Counted(J) \cup {Len(J) + 1}
    <3>1. \A x \in 2..Len(J2) : x \in 2..Len(J) \/ x = Len(J) + 1
      BY <1>1
    <3>2. \A x \in 2..Len(J) : x \in 2..Len(J2) /\ J2[x] = J[x]
      BY <1>1
    <3>3. Len(J) + 1 \in 2..Len(J2) /\ J2[Len(J) + 1] = e
      BY <1>1
    <3> QED BY <1>6, <3>1, <3>2, <3>3 DEF Counted
  <2>2. \A i \in 1..Len(E2) : i \in 1..Len(E) \/ i = Len(E) + 1
    BY <1>2, <1>3
  <2>3. \A i \in 1..Len(E2) : E2[i] \in Counted(J2)
    BY <1>2, <1>3, <2>1, <2>2
  <2>4. ASSUME NEW i \in 1..Len(E2), NEW j \in 1..Len(E2), i < j PROVE E2[i] < E2[j]
    <3>1. i \in 1..Len(E)
      BY <1>2, <1>3, <2>4
    <3>2. CASE j \in 1..Len(E)
      BY <1>2, <1>3, <2>4, <3>1, <3>2
    <3>3. CASE j = Len(E) + 1
      BY <1>2, <1>3, <1>4, <3>1, <3>3
    <3> QED BY <2>2, <3>2, <3>3
  <2>5. ASSUME NEW x \in Counted(J2) PROVE \E i \in 1..Len(E2) : E2[i] = x
    <3>1. CASE x \in Counted(J)
      <4>1. PICK i \in 1..Len(E) : E[i] = x
        BY <1>2, <3>1
      <4> QED BY <1>2, <1>3, <4>1
    <3>2. CASE x = Len(J) + 1
      BY <1>2, <1>3, <3>2
    <3> QED BY <2>1, <3>1, <3>2
  <2> QED BY <1>3, <2>3, <2>4, <2>5 DEF Lists
<1>7. ASSUME e.kind \in Apart PROVE Lists(E, Counted(J2))
  <2>1. Counted(J2) = Counted(J)
    <3>1. \A x \in 2..Len(J2) : x \in 2..Len(J) \/ x = Len(J) + 1
      BY <1>1
    <3>2. \A x \in 2..Len(J) : x \in 2..Len(J2) /\ J2[x] = J[x]
      BY <1>1
    <3>3. J2[Len(J) + 1] = e
      BY <1>1
    <3> QED BY <1>7, <3>1, <3>2, <3>3 DEF Counted
  <2> QED BY <2>1
<1>8. J2 # <<>>
  BY <1>1
<1> QED BY <1>1, <1>2, <1>3, <1>5, <1>6, <1>7, <1>8 DEF CountsOn

\* The record after the t that are there of the step after the turns K.
NextOf(e, K, t, r, intent) ==
  /\ t = 0 => Reads(e, "ModelRequested", Len(K) + 1, <<K>>)
  /\ t = 1 => Reads(e, "ModelReplied", Len(K) + 1, <<r>>) /\ r \in Answers
  /\ t = 2 => Reads(e, "ToolStarted", Len(K) + 1, <<r>>) /\ r \in Calls \cup {Submit}
  /\ t = 3 => Reads(e, "SubmitRequested", Len(K) + 1, <<intent>>) /\ r = Submit
  /\ t = 4 => Reads(e, "ToolFinished", Len(K) + 1, <<intent, "ok">>)

(* The journal tells one record more of the step it is in.                  *)
LEMMA StoryOn ==
  ASSUME NEW J, NEW E, NEW K, NEW P, NEW t, NEW r, Story(J, E, K, P, t, r), Len(J) >= 1,
         NEW e, e.kind \notin Apart, NEW J2, NEW E2, CountsOn(J, E, e, J2, E2),
         t < 5, Len(K) < StepLimit, NEW r2, t >= 2 => r2 = r, NextOf(e, K, t, r2, E[P[Len(K)] + 3] - 1)
  PROVE  Story(J2, E2, K, P, t + 1, r2)
<1>1. J \in Seq(Range(J)) /\ Lists(E, Counted(J)) /\ K \in Seq(Range(K))
  BY DEF Story, Turns
<1>2. /\ Keeps(J, E, J2, E2) /\ Len(E2) = Len(E) + 1 /\ Len(E) \in Nat
      /\ E2[Len(E) + 1] = Len(J) + 1 /\ J2[Len(J) + 1] = e
  BY DEF CountsOn
<1>3. /\ Lists(E2, Counted(J2)) /\ J2 \in Seq(Range(J2)) /\ Len(J2) = Len(J) + 1
  BY DEF CountsOn
<1>4. ~Stopped(J2)
  BY <1>2, <1>3 DEF Stopped, Apart
<1>5. \A s \in 1..Len(K) : StepTold(J2, E2, K, P[s - 1], P[s], s)
  <2>1. Len(K) >= Len(K)
    BY StoryEnds
  <2> QED BY <1>2, <2>1, ToldOn
<1>6. PICK b \in Nat : b = P[Len(K)] /\ Len(E) = b + t /\ t \in 0..5
  <2>1. Len(K) \in Nat /\ P \in [0..Len(K) -> Nat] /\ Len(E) = P[Len(K)] + t /\ t \in 0..5
    BY StoryEnds DEF Story, Ends
  <2> QED BY <2>1
<1>7. StepOpen(J2, E2, K, b, t, r)
  BY <1>2, <1>6, OpenOn
<1>8. \A k \in Nat : k = Len(E) + 1 => J2[E2[k]] = e
  BY <1>2
<1>n. PICK n \in Nat : n = Len(E)
  BY <1>2
<1>9. t >= 3 => E2[b + 3] = E[b + 3]
  <2>1. t >= 3 => b + 3 \in 1..Len(E)
    BY <1>6
  <2> QED BY <1>2, <2>1 DEF Keeps
<1>10. Upto(K, Len(K)) = K
  BY <1>1, UptoAll
<1>11. StepOpen(J2, E2, K, b, t + 1, r2)
  <2>1. t \in {0, 1, 2, 3, 4}
    BY <1>6
  <2>2. CASE t = 0
    <3>1. b + 1 = n + 1 /\ b + 1 \in Nat
      BY <1>6, <1>n, <2>2
    <3>2. J2[E2[b + 1]] = e
      BY <1>8, <1>n, <3>1
    <3> QED BY <1>10, <2>2, <3>2 DEF StepOpen, NextOf
  <2>3. CASE t = 1
    <3>1. b + 2 = n + 1 /\ b + 2 \in Nat
      BY <1>6, <1>n, <2>3
    <3>2. J2[E2[b + 2]] = e
      BY <1>8, <1>n, <3>1
    <3> QED BY <1>7, <2>3, <3>2 DEF StepOpen, NextOf
  <2>4. CASE t = 2
    <3>1. b + 3 = n + 1 /\ b + 3 \in Nat
      BY <1>6, <1>n, <2>4
    <3>2. J2[E2[b + 3]] = e
      BY <1>8, <1>n, <3>1
    <3> QED BY <1>7, <2>4, <3>2 DEF StepOpen, NextOf
  <2>5. CASE t = 3
    <3>1. b + 4 = n + 1 /\ b + 4 \in Nat
      BY <1>6, <1>n, <2>5
    <3>2. J2[E2[b + 4]] = e
      BY <1>8, <1>n, <3>1
    <3> QED BY <1>6, <1>7, <1>9, <2>5, <3>2 DEF StepOpen, NextOf
  <2>6. CASE t = 4
    <3>1. b + 5 = n + 1 /\ b + 5 \in Nat
      BY <1>6, <1>n, <2>6
    <3>2. J2[E2[b + 5]] = e
      BY <1>8, <1>n, <3>1
    <3>3. Reads(e, "ToolFinished", Len(K) + 1, <<E[P[Len(K)] + 3] - 1, "ok">>)
      BY <2>6 DEF NextOf
    <3>4. E2[b + 3] = E[P[Len(K)] + 3]
      BY <1>6, <1>9, <2>6
    <3>5. Reads(J2[E2[b + 5]], "ToolFinished", Len(K) + 1, <<E2[b + 3] - 1, "ok">>)
      BY <3>2, <3>3, <3>4
    <3>6. r2 = r
      BY <2>6
    <3> QED BY <1>7, <2>6, <3>5, <3>6 DEF StepOpen
  <2> QED BY <2>1, <2>2, <2>3, <2>4, <2>5, <2>6
<1>12. Ends(E2, K, P, t + 1)
  <2>1. P \in [0..Len(K) -> Nat] /\ P[0] = 0
    BY DEF Story, Ends
  <2>2. t < 5
    OBVIOUS
  <2>3. t + 1 \in 0..5
    BY ONLY <1>6, <2>2
  <2>4. Len(E2) = b + (t + 1)
    BY ONLY <1>2, <1>6
  <2>5. Len(E2) = P[Len(K)] + (t + 1)
    BY ONLY <1>6, <2>4
  <2> QED BY <2>1, <2>3, <2>5 DEF Ends
<1>13. Turns(K) /\ Limited(K, t + 1)
  BY DEF Story, Limited
<1> QED BY <1>3, <1>4, <1>5, <1>6, <1>11, <1>12, <1>13 DEF Story

(* A record that is not counted tells nothing, or why the attempt ended.    *)
LEMMA StoryApart ==
  ASSUME NEW J, NEW E, NEW K, NEW P, NEW t, NEW r, Story(J, E, K, P, t, r), Len(J) >= 1,
         NEW e, e.kind \in Apart, NEW J2, NEW E2, CountsOn(J, E, e, J2, E2),
         e.kind = "RunStopped" => Ending(e, K, t, r)
  PROVE  Story(J2, E, K, P, t, r)
<1>1. J \in Seq(Range(J)) /\ Lists(E, Counted(J)) /\ K \in Seq(Range(K))
  BY DEF Story, Turns
<1>2. /\ Keeps(J, E, J2, E) /\ J2[Len(J) + 1] = e
      /\ Lists(E, Counted(J2)) /\ J2 \in Seq(Range(J2)) /\ Len(J2) = Len(J) + 1
  BY DEF CountsOn
<1>3. Stopped(J2) => Ending(J2[Len(J2)], K, t, r)
  BY <1>2 DEF Stopped
<1>4. \A s \in 1..Len(K) : StepTold(J2, E, K, P[s - 1], P[s], s)
  <2>1. Len(K) >= Len(K)
    BY StoryEnds
  <2> QED BY <1>2, <2>1, ToldOn
<1>5. StepOpen(J2, E, K, P[Len(K)], t, r)
  BY <1>2, OpenOn
<1> QED BY <1>2, <1>3, <1>4, <1>5 DEF Story

\* Where the steps end when one more does.
EndsOn(P, n, e) == [s \in 0..n + 1 |-> IF s <= n THEN P[s] ELSE e]

\* One turn more.
TurnsOn(K, x, K2) ==
  /\ K2 \in Seq(Range(K2)) /\ Len(K2) = Len(K) + 1
  /\ K2[Len(K) + 1] = x /\ \A s \in 1..Len(K) : K2[s] = K[s]
  /\ \A n \in 0..Len(K) : Upto(K2, n) = Upto(K, n)

(* Appending a turn leaves those before it.                                 *)
LEMMA TurnedOn ==
  ASSUME NEW K, K \in Seq(Range(K)), NEW x
  PROVE  TurnsOn(K, x, Append(K, x))
<1>1. PICK K2 : K2 = Append(K, x)
  OBVIOUS
<1>2. K2 \in Seq(Range(K2)) /\ Len(K2) = Len(K) + 1
  BY <1>1, Appended
<1>3. K2[Len(K) + 1] = x /\ DOMAIN K = 1..Len(K) /\ \A s \in DOMAIN K : K2[s] = K[s]
  BY <1>1, Appended
<1>4. \A n \in 0..Len(K) : Upto(K2, n) = Upto(K, n)
  BY <1>1, UptoOn
<1> QED BY ONLY <1>1, <1>2, <1>3, <1>4 DEF TurnsOn

\* The record that ends the step.
LastOf(e, K, t, r, f, intent) ==
  \/ t = 2 /\ r = Malformed /\ f = None /\ Reads(e, "FormatError", Len(K) + 1, <<>>)
  \/ t = 3 /\ r \in Calls /\ Reads(e, "ToolFinished", Len(K) + 1, <<intent, f>>)

(* The step it is in ends in a turn.                                        *)
LEMMA StoryTurn ==
  ASSUME NEW J, NEW E, NEW K, NEW P, NEW t, NEW r, Story(J, E, K, P, t, r), Len(J) >= 1,
         NEW e, e.kind \notin Apart, NEW J2, NEW E2, CountsOn(J, E, e, J2, E2),
         NEW f, NEW K2, TurnsOn(K, <<r, f>>, K2), LastOf(e, K, t, r, f, E[P[Len(K)] + 3] - 1), NEW r2
  PROVE  Story(J2, E2, K2, EndsOn(P, Len(K), Len(E) + 1), 0, r2)
<1>1. J \in Seq(Range(J)) /\ Lists(E, Counted(J)) /\ K \in Seq(Range(K)) /\ Len(K) \in Nat
  BY DEF Story, Turns
<1>2. /\ Keeps(J, E, J2, E2) /\ Len(E2) = Len(E) + 1 /\ Len(E) \in Nat
      /\ E2[Len(E) + 1] = Len(J) + 1 /\ J2[Len(J) + 1] = e
  BY DEF CountsOn
<1>3. /\ Lists(E2, Counted(J2)) /\ J2 \in Seq(Range(J2)) /\ Len(J2) = Len(J) + 1
  BY DEF CountsOn
<1>4. ~Stopped(J2)
  BY <1>2, <1>3 DEF Stopped, Apart
<1>5. /\ K2 \in Seq(Range(K2)) /\ Len(K2) = Len(K) + 1
      /\ K2[Len(K) + 1] = <<r, f>> /\ \A s \in 1..Len(K) : K2[s] = K[s]
  BY DEF TurnsOn
<1>6. \A n \in 0..Len(K) : Upto(K2, n) = Upto(K, n)
  BY DEF TurnsOn
<1>p. PICK P2 : P2 = EndsOn(P, Len(K), Len(E) + 1)
  OBVIOUS
<1>t. t \in {2, 3} /\ r \in Calls \cup {Malformed} /\ (r = Malformed => f = None)
  BY LifecycleAssumption DEF LastOf
<1>7. \A s \in 1..Len(K) : StepTold(J2, E2, K2, P[s - 1], P[s], s)
  <2>1. Len(K2) >= Len(K)
    BY <1>1, <1>5
  <2> QED BY <1>2, <1>5, <1>6, <2>1, ToldOn
<1>8. PICK b \in Nat : b = P[Len(K)] /\ Len(E) = b + t
  <2>1. Len(K) \in Nat /\ P \in [0..Len(K) -> Nat] /\ Len(E) = P[Len(K)] + t /\ t \in 0..5
    BY StoryEnds DEF Story, Ends
  <2> QED BY <2>1
<1>9. StepOpen(J2, E2, K, b, t, r)
  BY <1>2, <1>8, OpenOn
<1>10. \A k \in Nat : k = Len(E) + 1 => J2[E2[k]] = e
  BY <1>2
<1>11. t = 3 => E2[b + 3] = E[b + 3]
  <2>1. t = 3 => b + 3 \in 1..Len(E)
    BY <1>8
  <2> QED BY <1>2, <2>1 DEF Keeps
<1>12. PICK n \in Nat : n = Len(K) + 1
  BY <1>1
<1>13. Upto(K2, n - 1) = Upto(K, Len(K)) /\ K2[n][1] = r /\ K2[n][2] = f
  <2>1. Len(K) \in 0..Len(K) /\ n - 1 = Len(K)
    BY <1>1, <1>12
  <2>2. K2[n] = <<r, f>>
    BY <1>5, <1>12
  <2> QED BY <1>6, <2>1, <2>2
<1>14. StepTold(J2, E2, K2, b, Len(E) + 1, n)
  <2>1. CASE t = 2
    <3>1. r = Malformed /\ Reads(e, "FormatError", Len(K) + 1, <<>>) /\ f = None
      BY <2>1 DEF LastOf
    <3>2. Len(E) + 1 = b + 3
      BY <1>8, <2>1
    <3>3. J2[E2[b + 3]] = e
      BY <1>2, <1>8, <1>10, <3>2
    <3> QED BY <1>9, <1>12, <1>13, <2>1, <3>1, <3>2, <3>3 DEF StepOpen, StepTold
  <2>2. CASE t = 3
    <3>1. r \in Calls /\ Reads(e, "ToolFinished", Len(K) + 1, <<E[b + 3] - 1, f>>)
      BY <1>8, <2>2 DEF LastOf
    <3>2. Len(E) + 1 = b + 4 /\ r # Malformed
      BY <1>8, <2>2, <3>1, LifecycleAssumption
    <3>3. J2[E2[b + 4]] = e /\ E2[b + 3] = E[b + 3]
      BY <1>2, <1>8, <1>10, <1>11, <2>2, <3>2
    <3> QED BY <1>9, <1>12, <1>13, <2>2, <3>1, <3>2, <3>3 DEF StepOpen, StepTold
  <2> QED BY <1>t, <2>1, <2>2
<1>15. /\ P2 \in [0..Len(K2) -> Nat] /\ P2[0] = 0 /\ P2[n] = Len(E) + 1
       /\ \A s \in 0..Len(K) : P2[s] = P[s]
  <2>1. P \in [0..Len(K) -> Nat] /\ P[0] = 0 /\ 0 \in 0..Len(K)
    BY <1>1 DEF Story, Ends
  <2>2. \A s \in 0..Len(K) + 1 : s \in 0..Len(K) \/ (s = Len(K) + 1 /\ ~(s <= Len(K)))
    BY <1>1
  <2>3. \A s \in 0..Len(K) : s \in 0..Len(K) + 1 /\ s <= Len(K)
    BY <1>1
  <2>4. n \in 0..Len(K) + 1 /\ ~(n <= Len(K))
    BY <1>1, <1>12
  <2>5. \A s \in 0..Len(K) + 1 : P2[s] \in Nat
    BY <1>p, <1>2, <2>1, <2>2 DEF EndsOn
  <2>6. P2 \in [0..Len(K2) -> Nat]
    BY <1>p, <1>5, <2>5 DEF EndsOn
  <2> QED BY <1>p, <2>1, <2>3, <2>4, <2>6 DEF EndsOn
<1>16. \A s \in 1..Len(K2) : StepTold(J2, E2, K2, P2[s - 1], P2[s], s)
  <2> SUFFICES ASSUME NEW s \in 1..Len(K2) PROVE StepTold(J2, E2, K2, P2[s - 1], P2[s], s)
    OBVIOUS
  <2>1. CASE s \in 1..Len(K)
    <3>1. s \in 0..Len(K) /\ s - 1 \in 0..Len(K)
      BY <1>1, <2>1
    <3> QED BY <1>7, <1>15, <2>1, <3>1
  <2>2. CASE s \notin 1..Len(K)
    <3>1. s = n /\ s - 1 = Len(K) /\ Len(K) \in 0..Len(K)
      BY <1>1, <1>5, <1>12, <2>2
    <3> QED BY <1>8, <1>14, <1>15, <3>1
  <2> QED BY <2>1, <2>2
<1>17. StepOpen(J2, E2, K2, P2[Len(K2)], 0, r2)
  BY DEF StepOpen
<1>18. Ends(E2, K2, P2, 0)
  BY <1>2, <1>5, <1>12, <1>15 DEF Ends
<1>19. Turns(K2)
  <2>1. OneTurn(<<r, f>>)
    BY <1>t DEF OneTurn
  <2>2. \A s \in 1..Len(K2) : s \in 1..Len(K) \/ s = Len(K) + 1
    BY <1>1, <1>5
  <2>3. \A s \in 1..Len(K2) : OneTurn(K2[s])
    BY <1>5, <2>1, <2>2 DEF Story, Turns
  <2> QED BY <1>5, <2>3 DEF Turns
<1>20. Limited(K2, 0)
  <2>1. t > 0
    BY <1>t
  <2>2. Len(K) < StepLimit
    BY <2>1 DEF Story, Limited
  <2> QED BY <1>1, <1>5, <2>2, LifecycleAssumption DEF Limited
<1> QED BY <1>p, <1>3, <1>4, <1>5, <1>16, <1>17, <1>18, <1>19, <1>20 DEF Story

-----------------------------------------------------------------------------
(***************************************************************************)
(* A process and the script it plays: the turns of the journal it replays,  *)
(* and the reply of the step after them when that journal has one.          *)
(***************************************************************************)
\* The steps whose reply was a call.
Called(K) == {s \in 1..Len(K) : K[s][1] # Malformed}

\* The script: turns K, m replies, of which the one after the turns is r, and
\* the steps N that had a result.
ScriptOK(K, m, r, N) ==
  /\ Turns(K) /\ m \in {Len(K), Len(K) + 1} /\ (m > Len(K) => r \in Replies)
  /\ Lists(N, Called(K))

ReplyAt(K, r, s) == IF s <= Len(K) THEN K[s][1] ELSE r

ExchangeAt(K, r, s) == [request |-> Upto(K, s - 1), reply |-> ReplyAt(K, r, s)]
ResultAt(K, s)      == [call |-> K[s][1], result |-> K[s][2]]

\* The turns T, and the reply q of the step after them, are those of the script.
Follows(T, t, q, K, m, r) ==
  /\ \A s \in 1..Len(T) : s <= Len(K) => T[s] = K[s]
  /\ \A s \in 1..Len(T) : s <= m => T[s][1] = ReplyAt(K, r, s)
  /\ t >= 2 /\ Len(T) + 1 <= m => q = ReplyAt(K, r, Len(T) + 1)

\* How many replies, and how many results, the process has taken.
Taken(T, t) == IF t >= 2 THEN Len(T) + 1 ELSE Len(T)

FedUpTo(N, o, n) == o \in 0..Len(N) /\ \A i \in 1..Len(N) : i <= o <=> N[i] <= n

Fed(d, K, m, r, N, o, t, q) ==
  /\ d.replies = [i \in 1..(m - Taken(d.turns, t)) |-> ExchangeAt(K, r, Taken(d.turns, t) + i)]
  /\ d.results = [i \in 1..(Len(N) - o) |-> ResultAt(K, N[o + i])]
  /\ FedUpTo(N, o, Len(d.turns))
  /\ Follows(d.turns, t, q, K, m, r)

\* What holds of a process wherever it is in the step.
Steady(d, J, t, q) ==
  /\ Len(J) >= 1 /\ ~d.diverged /\ d.step \in {Len(d.turns), Len(d.turns) + 1}
  /\ t > 0 => d.step = Len(d.turns) + 1 /\ J[Len(J)].step = d.step
  /\ t >= 2 /\ q = Diverged => d.role = "audit"
  /\ d.role = "audit" => d.above = FALSE /\ \A i \in 1..Len(J) : J[i].kind # "BudgetCharged"

\* And by where it is: `at` is the number of the intent.
Where(d, at, t, q) ==
  /\ d.pc \in Onward
  /\ d.pc \in {"begin", "budgets_3"}    => t = 0 /\ d.step = Len(d.turns)
  /\ d.pc \in {"budgets_1", "request"}  => t = 0 /\ d.step = Len(d.turns) + 1
  /\ d.pc = "model"                     => t = 1
  /\ d.pc \in {"budgets_2", "parse"}    => t = 2 /\ d.reply = q /\ q \in Replies \ {Unavailable}
  /\ d.pc = "submit"                    => t = 3 /\ q = Submit /\ d.intent = at
  /\ d.pc = "submitted"                 => t = 4 /\ q = Submit /\ d.intent = at
  /\ d.pc = "execute"                   => t = 3 /\ q \in Calls /\ d.reply = q /\ d.intent = at
  /\ d.pc = "stopping" => Why(d.cause, d.turns, t, q, d.step) /\ (d.role = "audit" => d.cause # "wall")

OneStop(J) == J[1].kind = "RunStarted" /\ \A i \in 1..(Len(J) - 1) : J[i].kind # "RunStopped"

Stand(d, J) ==
  /\ OneStop(J)
  /\ Stopped(J) <=> d.pc \in {"compare", "committed"}
  /\ d.pc = "compare" => d.role = "audit" /\ J[Len(J)].body[1] # "wall"

\* Where the intent of the step after the turns K is.
IntentOf(E, P, K) == E[P[Len(K)] + 3] - 1

Plays(d, J, K, m, r, N, E, P, t, q, o) ==
  /\ Story(J, E, d.turns, P, t, q)
  /\ Steady(d, J, t, q) /\ Where(d, IntentOf(E, P, d.turns), t, q) /\ Stand(d, J)
  /\ Fed(d, K, m, r, N, o, t, q)

Playing(d, J, K, m, r, N) == \E E, P, t, q, o : Plays(d, J, K, m, r, N, E, P, t, q, o)

\* The journal a process writes.
Owned(d) == IF d.role = "audit" THEN d.copy ELSE attempts[d.attempt]

\* What its step makes of the process and of that journal.
PlaysOn(p, K, m, r, N) ==
  \E e, J :
    /\ driver' = [driver EXCEPT ![p] = e] /\ Owned(e)' = J /\ Playing(e, J, K, m, r, N)
    /\ \/ J = Owned(driver[p]) /\ UNCHANGED attempts
       \/ /\ \E record : J = Append(Owned(driver[p]), record) /\ record.step = driver[p].step
          /\ \/ e.role = "audit" /\ UNCHANGED attempts
             \/ e.role # "audit" /\ attempts' = [attempts EXCEPT ![e.attempt] = J]

\* The fields that matter to the play.
Alike(d, e) ==
  /\ e.pc = d.pc /\ e.role = d.role /\ e.replies = d.replies /\ e.results = d.results
  /\ e.step = d.step /\ e.turns = d.turns /\ e.reply = d.reply /\ e.intent = d.intent
  /\ e.cause = d.cause /\ e.diverged = d.diverged /\ e.above = d.above

(* What a process plays depends on these fields alone.                      *)
LEMMA PlaysAlike ==
  ASSUME NEW d, NEW e, Alike(d, e), NEW J, NEW K, NEW m, NEW r, NEW N, Playing(d, J, K, m, r, N)
  PROVE  Playing(e, J, K, m, r, N)
<1>1. PICK E, P, t, q, o : Plays(d, J, K, m, r, N, E, P, t, q, o)
  BY DEF Playing
<1>2. Story(J, E, e.turns, P, t, q)
  BY <1>1 DEF Plays, Alike
<1>3. Steady(e, J, t, q)
  BY <1>1 DEF Plays, Alike, Steady
<1>4. Where(e, IntentOf(E, P, e.turns), t, q)
  BY <1>1 DEF Plays, Alike, Where
<1>5. Stand(e, J)
  BY <1>1 DEF Plays, Alike, Stand
<1>6. Fed(e, K, m, r, N, o, t, q)
  BY <1>1 DEF Plays, Alike, Fed
<1> QED BY <1>2, <1>3, <1>4, <1>5, <1>6 DEF Plays, Playing

Entry(kind, body, next) == [kind |-> kind, step |-> next.step, mono |-> next.mono, body |-> body]

(* What a record says.                                                      *)
LEMMA EntryIs ==
  ASSUME NEW kind, NEW body, NEW next
  PROVE  LET e == Entry(kind, body, next) IN e.kind = kind /\ e.body = body /\ e.step = next.step
BY DEF Entry

\* The journal J with the next record of its process.
Adds(J2, J, kind, body, next) == J2 = Append(J, Entry(kind, body, next))

(* A step that writes plays on when the record told is the next.            *)
LEMMA WritePlays ==
  ASSUME NEW p, NEW next, DOMAIN next = DOMAIN Idle, NEW kind, NEW body, Write(p, kind, body, next),
         next.role = driver[p].role, next.attempt = driver[p].attempt, next.copy = driver[p].copy,
         next.step = driver[p].step, next.role # "audit" => next.attempt \in DOMAIN attempts,
         NEW K, NEW m, NEW r, NEW N, NEW J, Adds(J, Owned(driver[p]), kind, body, next),
         Playing(next, J, K, m, r, N)
  PROVE  PlaysOn(p, K, m, r, N)
<1> DEFINE d == driver[p]
<1>e. PICK e : e = Entry(kind, body, next)
  OBVIOUS
<1>1. e.step = d.step
  BY <1>e, EntryIs
<1>J. J = Append(Owned(d), e)
  BY <1>e DEF Adds
<1>2. CASE next.role = "audit"
  <2> DEFINE own == [next EXCEPT !.copy = Append(@, e)]
  <2>1. driver' = [driver EXCEPT ![p] = own] /\ UNCHANGED attempts
    BY <1>2, <1>e DEF Write, Quietly, Entry
  <2>2. /\ DOMAIN own = DOMAIN next /\ own.copy = Append(next.copy, e)
        /\ \A field \in DOMAIN next \ {"copy"} : own[field] = next[field]
    BY Fields
  <2>3. J = own.copy
    BY <1>2, <1>J, <2>2 DEF Owned
  <2> HIDE DEF own
  <2>4. Alike(next, own) /\ own.role = "audit"
    BY <1>2, <2>2, Fields DEF Alike
  <2>5. Playing(own, J, K, m, r, N)
    BY <2>4, PlaysAlike
  <2>6. Owned(own)' = J
    BY <2>3, <2>4 DEF Owned
  <2> QED BY <1>1, <1>J, <2>1, <2>4, <2>5, <2>6 DEF PlaysOn
<1>3. CASE next.role # "audit"
  <2>1. driver' = [driver EXCEPT ![p] = next] /\ attempts' = [attempts EXCEPT ![next.attempt] = Append(@, e)]
    BY <1>3, <1>e DEF Write, Entry
  <2>2. Owned(d) = attempts[next.attempt]
    BY <1>3 DEF Owned
  <2>3. attempts' = [attempts EXCEPT ![next.attempt] = J]
    BY <1>J, <2>1, <2>2
  <2>4. Owned(next)' = J
    <3>1. attempts'[next.attempt] = J
      BY <1>3, <2>3
    <3> QED BY <1>3, <3>1 DEF Owned
  <2>5. \E record : J = Append(Owned(d), record) /\ record.step = d.step
    BY <1>1, <1>J
  <2>6. Playing(next, J, K, m, r, N) /\ driver' = [driver EXCEPT ![p] = next]
    BY <2>1
  <2> HIDE DEF d
  <2> QED BY ONLY <1>3, <2>3, <2>4, <2>5, <2>6 DEF PlaysOn, d
<1> QED BY <1>2, <1>3

(* A step that writes nothing.                                              *)
LEMMA QuietPlays ==
  ASSUME NEW p, NEW next, Quietly(p, next),
         next.role = driver[p].role, next.attempt = driver[p].attempt, next.copy = driver[p].copy,
         NEW K, NEW m, NEW r, NEW N, Playing(next, Owned(driver[p]), K, m, r, N)
  PROVE  PlaysOn(p, K, m, r, N)
<1>1. driver' = [driver EXCEPT ![p] = next] /\ UNCHANGED attempts
  BY DEF Quietly
<1>2. Owned(next)' = Owned(driver[p])
  BY <1>1 DEF Owned
<1> QED BY <1>1, <1>2 DEF PlaysOn

-----------------------------------------------------------------------------
(***************************************************************************)
(* What the steps of the loop set of a process.                             *)
(***************************************************************************)
\* All of e but the fields X is that of d.
Sets(d, e, X) ==
  DOMAIN d = DOMAIN Idle /\ DOMAIN e = DOMAIN Idle /\ \A field \in DOMAIN Idle \ X : e[field] = d[field]

(* One change of a process, and another.                                    *)
LEMMA SetsStill ==
  ASSUME NEW d, NEW e, NEW f, NEW X, NEW Y, Sets(d, e, X), Sets(e, f, Y)
  PROVE  Sets(d, f, X \cup Y)
BY DEF Sets

(* No change at all.                                                        *)
LEMMA SetsNothing ==
  ASSUME NEW d, Typed(d)
  PROVE  Sets(d, d, {})
BY DEF Sets, Typed

(* Going to another place changes that.                                     *)
LEMMA GotoSets ==
  ASSUME NEW d, DOMAIN d = DOMAIN Idle, NEW pc
  PROVE  Sets(d, Goto(d, pc), {"pc"}) /\ Goto(d, pc).pc = pc
BY Fields DEF Sets, Goto

(* A stop sets its place and its cause.                                     *)
LEMMA StopSets ==
  ASSUME NEW d, DOMAIN d = DOMAIN Idle, NEW why
  PROVE  Sets(d, Stop(d, why), {"pc", "cause"}) /\ Stop(d, why).pc = "stopping" /\ Stop(d, why).cause = why
BY Fields DEF Sets, Stop

(* A turn pushed ends the reply and the intent.                             *)
LEMMA PushSets ==
  ASSUME NEW d, DOMAIN d = DOMAIN Idle, NEW f
  PROVE  /\ Sets(d, PushTurn(d, f), {"turns", "reply", "intent"})
         /\ PushTurn(d, f).turns = Append(d.turns, <<d.reply, f>>)
BY Fields DEF Sets, PushTurn

\* What the play has of a process besides its place and its time.
Kin(d, e, X) ==
  /\ e.role = d.role /\ e.attempt = d.attempt /\ e.copy = d.copy
  /\ "step" \notin X => e.step = d.step
  /\ "turns" \notin X => e.turns = d.turns
  /\ "replies" \notin X => e.replies = d.replies
  /\ "results" \notin X => e.results = d.results
  /\ "diverged" \notin X => e.diverged = d.diverged
  /\ "above" \notin X => e.above = d.above
  /\ "reply" \notin X => e.reply = d.reply
  /\ "intent" \notin X => e.intent = d.intent
  /\ "cause" \notin X => e.cause = d.cause

(* The fields that were not set are the same.                               *)
LEMMA SetsKin ==
  ASSUME NEW d, NEW e, NEW X, Sets(d, e, X), X \cap {"role", "attempt", "copy"} = {}
  PROVE  Kin(d, e, X) /\ DOMAIN e = DOMAIN Idle
BY Fields DEF Sets, Kin

(* What is left to replay stays so while nothing is taken of it.            *)
LEMMA FedSame ==
  ASSUME NEW d, NEW K, NEW m, NEW r, NEW N, NEW o, NEW t, NEW q, Fed(d, K, m, r, N, o, t, q),
         NEW e, e.replies = d.replies, e.results = d.results, e.turns = d.turns,
         NEW t2, t2 >= 2 <=> t >= 2, NEW q2, t >= 2 => q2 = q
  PROVE  Fed(e, K, m, r, N, o, t2, q2)
<1>1. Taken(d.turns, t2) = Taken(d.turns, t)
  BY DEF Taken
<1>2. Follows(d.turns, t2, q2, K, m, r)
  BY DEF Fed, Follows
<1> QED BY <1>1, <1>2 DEF Fed

\* A process that plays in the journal it owns, with the script.
Ready(p, K, m, r, N) ==
  /\ Typed(driver[p]) /\ Timely(driver[p])
  /\ driver[p].role # "audit" => driver[p].attempt \in DOMAIN attempts
  /\ ScriptOK(K, m, r, N) /\ Playing(driver[p], Owned(driver[p]), K, m, r, N)

(* A step is begun, or there is none left.                                  *)
LEMMA BeginPlays ==
  ASSUME NEW p, NEW K, NEW m, NEW r, NEW N, Ready(p, K, m, r, N), Begin(p)
  PROVE  PlaysOn(p, K, m, r, N)
<1> DEFINE d == driver[p]
           e == [d EXCEPT !.step = @ + 1]
           next == IF WallIsUp(e) THEN Stop(e, "wall")
                   ELSE IF e.step > StepLimit THEN Stop(e, "steps")
                   ELSE Goto(e, "budgets_1")
<1>1. d.pc = "begin" /\ Quietly(p, next)
  BY DEF Begin, At
<1>2. d.step <= StepLimit /\ d.step \in Nat /\ StepLimit \in Nat /\ DOMAIN d = DOMAIN Idle
  BY <1>1, LifecycleAssumption DEF Ready, Timely, LoopPCs, Typed
<1>3. DOMAIN e = DOMAIN Idle /\ e.step = d.step + 1 /\ Sets(d, e, {"step"})
  BY <1>2, Fields DEF Sets
<1> HIDE DEF e
<1>4. /\ Sets(e, next, {"pc", "cause"})
      /\ \/ next.pc = "stopping" /\ next.cause = "wall" /\ WallIsUp(e)
         \/ next.pc = "stopping" /\ next.cause = "steps" /\ e.step > StepLimit
         \/ next.pc = "budgets_1"
  <2>1. Sets(e, Goto(e, "budgets_1"), {"pc", "cause"}) /\ Goto(e, "budgets_1").pc = "budgets_1"
    BY <1>3, GotoSets DEF Sets
  <2>2. CASE WallIsUp(e)
    BY <1>3, <2>2, StopSets
  <2>3. CASE ~WallIsUp(e) /\ e.step > StepLimit
    BY <1>3, <2>3, StopSets
  <2>4. CASE ~WallIsUp(e) /\ ~(e.step > StepLimit)
    BY <2>1, <2>4
  <2> QED BY <2>2, <2>3, <2>4
<1> HIDE DEF next
<1>5. Kin(d, next, {"pc", "cause", "step"}) /\ next.step = d.step + 1
  <2>1. Sets(d, next, {"step"} \cup {"pc", "cause"})
    BY <1>3, <1>4, SetsStill
  <2>2. next.step = e.step
    BY <1>4, SetsKin DEF Kin
  <2>3. {"step"} \cup {"pc", "cause"} = {"pc", "cause", "step"}
    OBVIOUS
  <2> QED BY <1>3, <2>1, <2>2, <2>3, SetsKin
<1>w. WallIsUp(e) => d.role # "audit"
  BY <1>3, SetsKin DEF WallIsUp, Kin
<1>j. PICK J : J = Owned(d)
  OBVIOUS
<1>6. PICK E, P, t, q, o : Plays(d, J, K, m, r, N, E, P, t, q, o)
  BY <1>j DEF Ready, Playing
<1>7. /\ Story(J, E, d.turns, P, t, q) /\ t = 0 /\ d.step = Len(d.turns)
      /\ Steady(d, J, t, q) /\ Stand(d, J) /\ Fed(d, K, m, r, N, o, t, q)
  BY <1>1, <1>6 DEF Plays, Where
<1>8. Story(J, E, next.turns, P, t, q) /\ Fed(next, K, m, r, N, o, t, q)
  <2>1. next.turns = d.turns /\ next.replies = d.replies /\ next.results = d.results
    BY <1>5 DEF Kin
  <2> QED BY <1>7, <2>1, FedSame
<1>9. Steady(next, J, t, q)
  BY <1>2, <1>5, <1>7 DEF Steady, Kin
<1>10. Where(next, IntentOf(E, P, next.turns), t, q)
  <2>1. Len(d.turns) \in Nat /\ next.turns = d.turns /\ next.role = d.role
    BY <1>2, <1>5, <1>7 DEF Kin
  <2>2. CASE next.pc = "budgets_1"
    BY <1>5, <1>7, <2>1, <2>2 DEF Where, Onward, LoopPCs
  <2>3. CASE next.pc = "stopping" /\ next.cause = "wall" /\ WallIsUp(e)
    BY <1>w, <2>1, <2>3 DEF Where, Why, Onward, LoopPCs
  <2>4. CASE next.pc = "stopping" /\ next.cause = "steps" /\ e.step > StepLimit
    <3>1. d.step = StepLimit
      BY <1>2, <1>3, <2>4
    <3> QED BY <1>5, <1>7, <2>1, <2>4, <3>1 DEF Where, Why, Onward, LoopPCs
  <2> QED BY <1>4, <2>2, <2>3, <2>4
<1>11. Stand(next, J)
  BY <1>1, <1>4, <1>7 DEF Stand
<1>12. Playing(next, J, K, m, r, N)
  BY <1>8, <1>9, <1>10, <1>11 DEF Plays, Playing
<1> QED BY <1>1, <1>5, <1>12, <1>j, QuietPlays DEF Kin


(* The record written is the last of the journal.                           *)
LEMMA EntryCounts ==
  ASSUME NEW d, NEW J, NEW K, NEW m, NEW r, NEW N, NEW E, NEW P, NEW t, NEW q, NEW o,
         Plays(d, J, K, m, r, N, E, P, t, q, o),
         NEW kind, NEW body, NEW next, NEW J2, Adds(J2, J, kind, body, next)
  PROVE  \E e, E2 : Reads(e, kind, next.step, body) /\ CountsOn(J, E, e, J2, E2)
<1>1. PICK e, E2 : e = Entry(kind, body, next) /\ E2 = Append(E, Len(J) + 1)
  OBVIOUS
<1>2. Reads(e, kind, next.step, body)
  BY <1>1, EntryIs DEF Reads
<1>3. J2 = Append(J, e)
  BY <1>1 DEF Adds
<1>4. J \in Seq(Range(J)) /\ Len(J) >= 1 /\ Lists(E, Counted(J))
  BY DEF Plays, Story, Steady
<1>5. CountsOn(J, E, e, J2, E2)
  BY <1>1, <1>3, <1>4, CountedOn
<1> QED BY <1>2, <1>5

(* The record after the last, and those before it.                          *)
LEMMA AfterLast ==
  ASSUME NEW J, NEW E, NEW e, NEW J2, NEW E2, CountsOn(J, E, e, J2, E2),
         NEW kind, NEW body, NEW next, Adds(J2, J, kind, body, next), J \in Seq(Range(J))
  PROVE  /\ Len(J2) >= 1 /\ J2[Len(J2)] = e /\ J2 # <<>>
         /\ \A i \in 1..Len(J2) : i \in 1..Len(J) \/ J2[i] = e
         /\ \A i \in 1..Len(J) : J2[i] = J[i]
<1>1. PICK f : J2 = Append(J, f)
  BY DEF Adds
<1>2. DOMAIN J = 1..Len(J) /\ \A i \in DOMAIN J : J2[i] = J[i]
  BY <1>1, Appended
<1>3. Len(J2) = Len(J) + 1 /\ Len(J) \in Nat /\ J2[Len(J) + 1] = e /\ J2 # <<>>
  BY DEF CountsOn
<1>4. Len(J2) >= 1 /\ J2[Len(J2)] = e
  BY <1>3
<1>5. \A i \in 1..Len(J2) : i \in 1..Len(J) \/ i = Len(J) + 1
  BY <1>3
<1> QED BY <1>2, <1>3, <1>4, <1>5

(* Only the last is a stop.                                                 *)
LEMMA StopIsLast ==
  ASSUME NEW d, NEW J, NEW E, NEW e, NEW J2, NEW E2, CountsOn(J, E, e, J2, E2),
         NEW kind, NEW body, NEW next, Adds(J2, J, kind, body, next), J \in Seq(Range(J)), Len(J) >= 1,
         Stand(d, J), d.pc \notin {"compare", "committed"}
  PROVE  OneStop(J2)
<1>1. Len(J2) = Len(J) + 1 /\ Len(J) \in Nat
  BY DEF CountsOn
<1>2. \A i \in 1..Len(J) : J2[i] = J[i]
  BY AfterLast
<1>3. J[Len(J)].kind # "RunStopped" /\ OneStop(J)
  <2>1. J # <<>>
    BY <1>1
  <2> QED BY <2>1 DEF Stand, Stopped
<1>4. \A i \in 1..(Len(J2) - 1) : i \in 1..Len(J) /\ (i \in 1..(Len(J) - 1) \/ i = Len(J))
  BY <1>1
<1>5. 1 \in 1..Len(J)
  BY <1>1
<1> QED BY <1>2, <1>3, <1>4, <1>5 DEF OneStop

(* The standing conditions are looked at.                                   *)
LEMMA ObservePlays ==
  ASSUME NEW p, NEW K, NEW m, NEW r, NEW N, Ready(p, K, m, r, N), ObserveBudgets(p)
  PROVE  PlaysOn(p, K, m, r, N)
<1> DEFINE d    == driver[p]
           to   == AfterBudgets(d.pc)
           e    == Goto(d, to)
           next == [e EXCEPT !.above = WallAbove80(d)]
<1>1. /\ d.pc \in {"budgets_1", "budgets_2", "budgets_3"}
      /\ \/ next.above = d.above /\ Quietly(p, next)
         \/ next.above # d.above /\ Write(p, "BudgetCharged", <<"wall">>, next)
  BY DEF ObserveBudgets
<1>2. /\ d.pc = "budgets_1" => to = "request"
      /\ d.pc = "budgets_2" => to = "parse"
      /\ d.pc = "budgets_3" => to = "begin"
  BY DEF AfterBudgets
<1>3. DOMAIN d = DOMAIN Idle
  BY DEF Ready, Typed
<1>4. Sets(d, e, {"pc"}) /\ e.pc = to
  BY <1>3, GotoSets
<1> HIDE DEF e
<1>5. DOMAIN next = DOMAIN Idle /\ next.above = WallAbove80(d) /\ Sets(e, next, {"above"}) /\ next.pc = e.pc
  BY <1>4, Fields DEF Sets
<1> HIDE DEF next, to
<1>6. Kin(d, next, {"pc", "above"}) /\ next.pc = to
  <2>1. Sets(d, next, {"pc"} \cup {"above"})
    BY <1>4, <1>5, SetsStill
  <2>2. {"pc"} \cup {"above"} = {"pc", "above"}
    OBVIOUS
  <2> QED BY <1>4, <1>5, <2>1, <2>2, SetsKin
<1>7. d.role = "audit" => next.above = FALSE
  BY <1>5 DEF WallAbove80
<1>j. PICK J : J = Owned(d)
  OBVIOUS
<1>8. PICK E, P, t, q, o : Plays(d, J, K, m, r, N, E, P, t, q, o)
  BY <1>j DEF Ready, Playing
<1>9. /\ Story(J, E, d.turns, P, t, q)
      /\ Steady(d, J, t, q) /\ Stand(d, J) /\ Fed(d, K, m, r, N, o, t, q)
  BY <1>8 DEF Plays
<1>10. Fed(next, K, m, r, N, o, t, q) /\ next.turns = d.turns
  <2>1. next.turns = d.turns /\ next.replies = d.replies /\ next.results = d.results
    BY <1>6 DEF Kin
  <2> QED BY <1>9, <2>1, FedSame
<1>11. Where(next, IntentOf(E, P, next.turns), t, q)
  <2>1. Where(d, IntentOf(E, P, d.turns), t, q)
    BY <1>8 DEF Plays
  <2> QED BY <1>1, <1>2, <1>6, <1>10, <2>1 DEF Where, Onward, LoopPCs, Kin
<1>12. CASE Quietly(p, next)
  <2>1. Steady(next, J, t, q)
    BY <1>6, <1>7, <1>9 DEF Steady, Kin
  <2>2. Stand(next, J)
    BY <1>1, <1>2, <1>6, <1>9 DEF Stand
  <2>3. Playing(next, J, K, m, r, N)
    BY <1>9, <1>10, <1>11, <2>1, <2>2 DEF Plays, Playing
  <2> QED BY <1>6, <1>12, <1>j, <2>3, QuietPlays DEF Kin
<1>13. CASE next.above # d.above /\ Write(p, "BudgetCharged", <<"wall">>, next)
  <2>1. d.role # "audit"
    BY <1>7, <1>9, <1>13 DEF Steady
  <2>2. PICK J2 : Adds(J2, J, "BudgetCharged", <<"wall">>, next)
    BY DEF Adds
  <2>3. PICK en, E2 : Reads(en, "BudgetCharged", next.step, <<"wall">>) /\ CountsOn(J, E, en, J2, E2)
    BY <1>8, <2>2, EntryCounts
  <2>4. Story(J2, E, next.turns, P, t, q)
    <3>1. en.kind \in Apart /\ en.kind # "RunStopped" /\ Len(J) >= 1
      BY <1>9, <2>3 DEF Reads, Apart, Steady
    <3> QED BY <1>9, <1>10, <2>3, <3>1, StoryApart
  <2>5. Len(J2) >= 1 /\ J2[Len(J2)] = en
    BY <1>9, <2>2, <2>3, AfterLast DEF Story
  <2>6. Steady(next, J2, t, q)
    BY <1>6, <1>9, <2>1, <2>3, <2>5 DEF Steady, Kin, Reads
  <2>7. Stand(next, J2)
    <3>1. OneStop(J2)
      BY <1>1, <1>9, <2>2, <2>3, StopIsLast DEF Story, Steady
    <3> QED BY <1>1, <1>2, <1>6, <2>3, <2>5, <3>1 DEF Stand, Stopped, Reads
  <2>8. Playing(next, J2, K, m, r, N)
    BY <1>10, <1>11, <2>4, <2>6, <2>7 DEF Plays, Playing
  <2>9. /\ next.role = d.role /\ next.attempt = d.attempt /\ next.copy = d.copy /\ next.step = d.step
        /\ d.attempt \in DOMAIN attempts
    BY <1>6, <2>1 DEF Kin, Ready
  <2> QED BY <1>5, <1>13, <1>j, <2>2, <2>8, <2>9, WritePlays
<1> QED BY <1>1, <1>12, <1>13

(* The attempt ends.                                                        *)
LEMMA CommitPlays ==
  ASSUME NEW p, NEW K, NEW m, NEW r, NEW N, Ready(p, K, m, r, N), Commit(p)
  PROVE  PlaysOn(p, K, m, r, N)
<1> DEFINE d == driver[p]
           outcome == IF d.diverged THEN Unreadable ELSE NothingChecked
           next == IF d.role = "audit" THEN Goto(d, "compare")
                   ELSE [Goto(d, "committed") EXCEPT !.outcome = outcome]
<1>1. d.pc = "stopping" /\ Write(p, "RunStopped", <<d.cause, outcome>>, next)
  BY DEF Commit, At
<1>2. DOMAIN d = DOMAIN Idle
  BY DEF Ready, Typed
<1>3. /\ Sets(d, next, {"pc", "outcome"})
      /\ next.pc = IF d.role = "audit" THEN "compare" ELSE "committed"
  <2>1. CASE d.role = "audit"
    BY <1>2, <2>1, GotoSets DEF Sets
  <2>2. CASE d.role # "audit"
    <3> DEFINE f == Goto(d, "committed")
    <3>1. Sets(d, f, {"pc"}) /\ f.pc = "committed"
      BY <1>2, GotoSets
    <3> HIDE DEF f
    <3>2. next = [f EXCEPT !.outcome = outcome]
      BY <2>2 DEF f
    <3>3. Sets(f, next, {"outcome"}) /\ next.pc = f.pc
      BY <3>1, <3>2, Fields DEF Sets
    <3>4. Sets(d, next, {"pc"} \cup {"outcome"})
      BY <3>1, <3>3, SetsStill
    <3>5. {"pc"} \cup {"outcome"} = {"pc", "outcome"}
      OBVIOUS
    <3> QED BY <2>2, <3>1, <3>3, <3>4, <3>5
  <2> QED BY <2>1, <2>2
<1> HIDE DEF next
<1>4. Kin(d, next, {"pc", "outcome"}) /\ DOMAIN next = DOMAIN Idle
  BY <1>3, SetsKin
<1>j. PICK J : J = Owned(d)
  OBVIOUS
<1>5. PICK E, P, t, q, o : Plays(d, J, K, m, r, N, E, P, t, q, o)
  BY <1>j DEF Ready, Playing
<1>6. /\ Story(J, E, d.turns, P, t, q) /\ Where(d, IntentOf(E, P, d.turns), t, q)
      /\ Steady(d, J, t, q) /\ Stand(d, J) /\ Fed(d, K, m, r, N, o, t, q)
  BY <1>5 DEF Plays
<1>7. outcome = NothingChecked
  BY <1>6 DEF Steady
<1> HIDE DEF outcome
<1>8. PICK cause : cause = d.cause
  OBVIOUS
<1>b. PICK body : body = <<cause, NothingChecked>>
  OBVIOUS
<1>9. body = <<cause, NothingChecked>> /\ body[1] = cause
  BY ONLY <1>b
<1>10. Write(p, "RunStopped", body, next)
  BY <1>1, <1>7, <1>8, <1>9
<1>11. Fed(next, K, m, r, N, o, t, q) /\ next.turns = d.turns
  <2>1. next.turns = d.turns /\ next.replies = d.replies /\ next.results = d.results
    BY <1>4 DEF Kin
  <2> QED BY <1>6, <2>1, FedSame
<1>12. PICK J2 : Adds(J2, J, "RunStopped", body, next)
  BY DEF Adds
<1>13. PICK en, E2 : Reads(en, "RunStopped", next.step, body) /\ CountsOn(J, E, en, J2, E2)
  BY <1>5, <1>12, EntryCounts
<1>14. Story(J2, E, next.turns, P, t, q)
  <2>1. en.kind \in Apart /\ Len(J) >= 1
    BY <1>6, <1>13 DEF Reads, Apart, Steady
  <2>2. Why(cause, d.turns, t, q, d.step)
    BY <1>1, <1>6, <1>8 DEF Where
  <2>3. en.step = d.step /\ en.body = body
    BY <1>4, <1>13 DEF Reads, Kin
  <2>4. Ending(en, d.turns, t, q)
    BY <1>9, <2>2, <2>3 DEF Ending
  <2> QED BY <1>6, <1>11, <1>13, <2>1, <2>4, StoryApart
<1>15. Len(J2) >= 1 /\ J2[Len(J2)] = en /\ J2 # <<>> /\ \A i \in 1..Len(J2) : i \in 1..Len(J) \/ J2[i] = en
  BY <1>6, <1>12, <1>13, AfterLast DEF Story
<1>16. \A i \in 1..Len(J) : J2[i] = J[i]
  BY <1>6, <1>12, <1>13, AfterLast DEF Story
<1>17. Steady(next, J2, t, q)
  BY <1>4, <1>6, <1>13, <1>15, <1>16 DEF Steady, Kin, Reads
<1>18. Where(next, IntentOf(E, P, next.turns), t, q)
  BY <1>3 DEF Where, Onward
<1>19. Stand(next, J2)
  <2>1. Stopped(J2) /\ J2[Len(J2)].body[1] = cause
    BY <1>9, <1>13, <1>15 DEF Stopped, Reads
  <2>2. next.role = d.role /\ (d.role = "audit" => cause # "wall")
    BY <1>1, <1>4, <1>6, <1>8 DEF Kin, Where
  <2>3. OneStop(J2)
    BY <1>1, <1>6, <1>12, <1>13, StopIsLast DEF Story, Steady
  <2> QED BY <1>3, <2>1, <2>2, <2>3 DEF Stand
<1>20. Playing(next, J2, K, m, r, N)
  BY <1>11, <1>14, <1>17, <1>18, <1>19 DEF Plays, Playing
<1>21. /\ next.role = d.role /\ next.attempt = d.attempt /\ next.copy = d.copy /\ next.step = d.step
       /\ d.role # "audit" => d.attempt \in DOMAIN attempts
  BY <1>4 DEF Kin, Ready
<1> QED BY <1>4, <1>10, <1>j, <1>12, <1>20, <1>21, WritePlays


-----------------------------------------------------------------------------
(***************************************************************************)
(* The steps that tell one record more of the step of the loop.             *)
(***************************************************************************)
\* The record of that kind and body is the next of the step.
Comes(kind, step, body, K, t, q, intent) ==
  \A e : Reads(e, kind, step, body) => kind \notin Apart /\ NextOf(e, K, t, q, intent)

\* Where it leads: the intent is where the step's third record is.
Lands(next, at, length, t, q) ==
  /\ next.pc \notin {"compare", "committed"}
  /\ \A intent : (t >= 4 => intent = at) /\ (t = 3 => intent = length) => Where(next, intent, t, q)

(* A step that writes the next record of the turn plays on.                 *)
LEMMA TellsOne ==
  ASSUME NEW p, NEW K, NEW m, NEW r, NEW N, Ready(p, K, m, r, N),
         NEW J, J = Owned(driver[p]), NEW E, NEW P, NEW t, NEW q, NEW o,
         Plays(driver[p], J, K, m, r, N, E, P, t, q, o),
         driver[p].step = Len(driver[p].turns) + 1, driver[p].step <= StepLimit,
         driver[p].pc \notin {"compare", "committed"},
         NEW next, DOMAIN next = DOMAIN Idle, NEW X, Kin(driver[p], next, X),
         X \cap {"step", "turns", "above"} = {}, ~next.diverged,
         NEW kind, NEW body, Write(p, kind, body, next), t < 5,
         NEW q2, t >= 2 => q2 = q, t = 1 /\ q2 = Diverged => next.role = "audit",
         Comes(kind, next.step, body, driver[p].turns, t, q2, IntentOf(E, P, driver[p].turns)),
         Fed(next, K, m, r, N, o, t + 1, q2),
         Lands(next, IntentOf(E, P, driver[p].turns), Len(J), t + 1, q2)
  PROVE  PlaysOn(p, K, m, r, N)
<1> DEFINE d == driver[p]
<1>1. /\ next.role = d.role /\ next.attempt = d.attempt /\ next.copy = d.copy /\ next.step = d.step
      /\ next.turns = d.turns /\ next.above = d.above
  BY DEF Kin
<1>2. /\ Story(J, E, d.turns, P, t, q) /\ Steady(d, J, t, q) /\ Stand(d, J) /\ Len(J) >= 1
  BY DEF Plays, Steady
<1>3. t \in 0..5 /\ Len(d.turns) \in Nat /\ J \in Seq(Range(J)) /\ StepLimit \in Nat
  <2>1. t \in 0..5 /\ Len(d.turns) \in Nat
    BY <1>2, StoryEnds
  <2> QED BY <1>2, <2>1, LifecycleAssumption DEF Story
<1>4. PICK J2 : Adds(J2, J, kind, body, next)
  BY DEF Adds
<1>5. PICK en, E2 : Reads(en, kind, next.step, body) /\ CountsOn(J, E, en, J2, E2)
  BY <1>4, EntryCounts
<1>6. en.kind = kind /\ en.step = d.step /\ kind \notin Apart
  BY <1>1, <1>5 DEF Reads, Comes
<1>7. NextOf(en, d.turns, t, q2, IntentOf(E, P, d.turns))
  BY <1>5 DEF Comes
<1>8. Story(J2, E2, d.turns, P, t + 1, q2)
  <2>1. NextOf(en, d.turns, t, q2, E[P[Len(d.turns)] + 3] - 1)
    BY <1>7 DEF IntentOf
  <2>2. Len(d.turns) < StepLimit
    BY <1>3
  <2> QED BY <1>2, <1>5, <1>6, <2>1, <2>2, StoryOn
<1>9. Len(J2) >= 1 /\ J2[Len(J2)] = en /\ \A i \in 1..Len(J2) : i \in 1..Len(J) \/ J2[i] = en
  BY <1>3, <1>4, <1>5, AfterLast
<1>10. \A i \in 1..Len(J) : J2[i] = J[i]
  BY <1>3, <1>4, <1>5, AfterLast
<1>11. Steady(next, J2, t + 1, q2)
  <2>1. /\ Len(J2) >= 1 /\ ~next.diverged /\ next.step = Len(next.turns) + 1
        /\ J2[Len(J2)].step = next.step
    BY <1>1, <1>6, <1>9
  <2>2. next.role = "audit" => next.above = FALSE
    BY <1>1, <1>2 DEF Steady
  <2>3. next.role = "audit" => \A i \in 1..Len(J2) : J2[i].kind # "BudgetCharged"
    BY <1>1, <1>2, <1>6, <1>9, <1>10 DEF Steady, Apart
  <2>4. t + 1 >= 2 /\ q2 = Diverged => next.role = "audit"
    <3>1. t + 1 >= 2 => t = 1 \/ t >= 2
      BY <1>3
    <3> QED BY <1>1, <1>2, <3>1 DEF Steady
  <2> QED BY <2>1, <2>2, <2>3, <2>4 DEF Steady
<1>12. PICK b \in Nat : b = P[Len(d.turns)] /\ Len(E) = b + t /\ Len(E) \in Nat
  <2>1. Len(d.turns) \in Nat /\ P \in [0..Len(d.turns) -> Nat] /\ Len(E) = P[Len(d.turns)] + t /\ Len(E) \in Nat
    BY <1>2, StoryEnds DEF Story, Ends
  <2> QED BY <2>1
<1>n. PICK n \in Nat : n = Len(E)
  BY <1>12
<1>j. PICK j \in Nat : j = Len(J)
  BY <1>3
<1>13. t = 2 => IntentOf(E2, P, d.turns) = Len(J)
  <2>1. E2[n + 1] = j + 1
    BY <1>5, <1>n, <1>j DEF CountsOn
  <2>2. t = 2 => b + 3 = n + 1
    BY ONLY <1>12, <1>n
  <2>3. t = 2 => E2[b + 3] = j + 1
    BY ONLY <2>1, <2>2
  <2>4. (j + 1) - 1 = j
    BY ONLY <1>j
  <2> QED BY ONLY <1>12, <1>j, <2>3, <2>4 DEF IntentOf
<1>14. t >= 3 => IntentOf(E2, P, d.turns) = IntentOf(E, P, d.turns)
  <2>0. t >= 3 => b + 3 \in 1..n
    BY ONLY <1>3, <1>12, <1>n
  <2>1. t >= 3 => b + 3 \in 1..Len(E)
    BY ONLY <2>0, <1>n
  <2>2. t >= 3 => E2[b + 3] = E[b + 3]
    BY <1>5, <2>1 DEF CountsOn, Keeps
  <2> QED BY <1>12, <2>2 DEF IntentOf
<1>15. Where(next, IntentOf(E2, P, next.turns), t + 1, q2)
  <2>1. (t + 1 >= 4 => t >= 3) /\ (t + 1 = 3 => t = 2)
    BY <1>3
  <2> QED BY <1>1, <1>13, <1>14, <2>1 DEF Lands
<1>16. Stand(next, J2)
  <2>1. ~Stopped(J2)
    BY <1>6, <1>9 DEF Stopped, Apart
  <2>2. OneStop(J2)
    BY <1>2, <1>3, <1>4, <1>5, StopIsLast
  <2> QED BY <2>1, <2>2 DEF Stand, Lands
<1>17. Story(J2, E2, next.turns, P, t + 1, q2)
  BY <1>1, <1>8
<1>18. Playing(next, J2, K, m, r, N)
  BY <1>11, <1>15, <1>16, <1>17 DEF Plays, Playing
<1>19. next.role # "audit" => next.attempt \in DOMAIN attempts
  BY <1>1 DEF Ready
<1> QED BY <1>1, <1>4, <1>18, <1>19, WritePlays


(* The request is rendered from the turns.                                  *)
LEMMA RequestPlays ==
  ASSUME NEW p, NEW K, NEW m, NEW r, NEW N, Ready(p, K, m, r, N), Request(p)
  PROVE  PlaysOn(p, K, m, r, N)
<1> DEFINE d == driver[p]
           next == Goto(d, "model")
<1>1. d.pc = "request" /\ Write(p, "ModelRequested", <<d.turns>>, next)
  BY DEF Request, At
<1>2. DOMAIN d = DOMAIN Idle /\ d.step <= StepLimit
  BY <1>1 DEF Ready, Typed, Timely, LoopPCs
<1>3. Kin(d, next, {"pc"}) /\ DOMAIN next = DOMAIN Idle /\ next.pc = "model"
  BY <1>2, GotoSets, SetsKin
<1> HIDE DEF next
<1>j. PICK J : J = Owned(d)
  OBVIOUS
<1>4. PICK E, P, t, q, o : Plays(d, J, K, m, r, N, E, P, t, q, o)
  BY <1>j DEF Ready, Playing
<1>5. t = 0 /\ d.step = Len(d.turns) + 1 /\ ~d.diverged
  BY <1>1, <1>4 DEF Plays, Where, Steady
<1>6. /\ next.turns = d.turns /\ next.replies = d.replies /\ next.results = d.results
      /\ next.step = d.step /\ ~next.diverged
  BY <1>3, <1>5 DEF Kin
<1>7. Fed(next, K, m, r, N, o, t + 1, q)
  <2>1. Fed(d, K, m, r, N, o, t, q) /\ (t + 1 >= 2 <=> t >= 2)
    BY <1>4, <1>5 DEF Plays
  <2> QED BY <1>6, <2>1, FedSame
<1>8. Comes("ModelRequested", next.step, <<d.turns>>, d.turns, t, q, IntentOf(E, P, d.turns))
  <2>1. d.step = Len(d.turns) + 1 /\ t = 0
    BY <1>5
  <2>2. ~(t = 1) /\ ~(t = 2) /\ ~(t = 3) /\ ~(t = 4) /\ "ModelRequested" \notin Apart
    BY <2>1 DEF Apart
  <2> QED BY <1>6, <2>1, <2>2 DEF Comes, NextOf
<1>9. Lands(next, IntentOf(E, P, d.turns), Len(J), t + 1, q)
  BY <1>3, <1>5 DEF Lands, Where, Onward, LoopPCs
<1>10. t < 5 /\ ~(t >= 2) /\ ~(t = 1) /\ {"pc"} \cap {"step", "turns", "above"} = {}
  BY <1>5
<1> QED BY <1>1, <1>2, <1>3, <1>j, <1>4, <1>5, <1>6, <1>7, <1>8, <1>9, <1>10, TellsOne

(* What a process is asked to do is journaled first.                        *)
LEMMA IntendPlays ==
  ASSUME NEW p, NEW K, NEW m, NEW r, NEW N, Ready(p, K, m, r, N), Intend(p)
  PROVE  PlaysOn(p, K, m, r, N)
<1> DEFINE d == driver[p]
           to   == IF d.reply = Submit THEN "submit" ELSE "execute"
           e    == Goto(d, to)
           next == [e EXCEPT !.intent = NextSeq(d)]
<1>1. d.pc = "parse" /\ d.reply # Malformed /\ Write(p, "ToolStarted", <<d.reply>>, next)
  BY DEF Intend, At
<1>2. DOMAIN d = DOMAIN Idle /\ d.step <= StepLimit
  BY <1>1 DEF Ready, Typed, Timely, LoopPCs
<1>3. (to = "submit" /\ d.reply = Submit) \/ (to = "execute" /\ d.reply # Submit)
  OBVIOUS
<1> HIDE DEF to
<1>4. Sets(d, e, {"pc"}) /\ e.pc = to
  BY <1>2, GotoSets
<1> HIDE DEF e
<1>5. DOMAIN next = DOMAIN Idle /\ next.intent = NextSeq(d) /\ Sets(e, next, {"intent"}) /\ next.pc = e.pc
  BY <1>4, Fields DEF Sets
<1> HIDE DEF next
<1>6. Kin(d, next, {"pc", "intent"}) /\ next.pc = to
  <2>1. Sets(d, next, {"pc"} \cup {"intent"})
    BY <1>4, <1>5, SetsStill
  <2>2. {"pc"} \cup {"intent"} = {"pc", "intent"}
    OBVIOUS
  <2> QED BY <1>4, <1>5, <2>1, <2>2, SetsKin
<1>j. PICK J : J = Owned(d)
  OBVIOUS
<1>7. PICK E, P, t, q, o : Plays(d, J, K, m, r, N, E, P, t, q, o)
  BY <1>j DEF Ready, Playing
<1>8. t = 2 /\ d.step = Len(d.turns) + 1 /\ ~d.diverged /\ d.reply = q /\ q \in Calls \cup {Submit}
  <2>1. t = 2 /\ d.reply = q /\ q \in Replies \ {Unavailable}
    BY <1>1, <1>7 DEF Plays, Where
  <2>2. d.step = Len(d.turns) + 1 /\ ~d.diverged
    BY <1>7, <2>1 DEF Plays, Steady
  <2> QED BY <1>1, <2>1, <2>2 DEF Replies
<1>9. /\ next.turns = d.turns /\ next.replies = d.replies /\ next.results = d.results
      /\ next.step = d.step /\ ~next.diverged /\ next.reply = d.reply
  BY <1>6, <1>8 DEF Kin
<1>10. Fed(next, K, m, r, N, o, t + 1, q)
  <2>1. Fed(d, K, m, r, N, o, t, q) /\ (t + 1 >= 2 <=> t >= 2)
    BY <1>7, <1>8 DEF Plays
  <2> QED BY <1>9, <2>1, FedSame
<1>11. Comes("ToolStarted", next.step, <<d.reply>>, d.turns, t, q, IntentOf(E, P, d.turns))
  <2>1. d.step = Len(d.turns) + 1 /\ t = 2
    BY <1>8
  <2>2. ~(t = 1) /\ ~(t = 0) /\ ~(t = 3) /\ ~(t = 4) /\ "ToolStarted" \notin Apart
    BY <2>1 DEF Apart
  <2> QED BY <1>8, <1>9, <2>1, <2>2 DEF Comes, NextOf
<1>12. NextSeq(d) = Len(J)
  BY <1>j DEF NextSeq, Owned
<1>13. Lands(next, IntentOf(E, P, d.turns), Len(J), t + 1, q)
  <2>1. t + 1 = 3 /\ next.intent = Len(J)
    BY <1>5, <1>8, <1>12
  <2>2. next.pc \in {"submit", "execute"} /\ (next.pc = "submit" => q = Submit) /\ (next.pc = "execute" => q \in Calls)
    BY <1>3, <1>6, <1>8
  <2>3. next.reply = q
    BY <1>8, <1>9
  <2> QED BY <2>1, <2>2, <2>3 DEF Lands, Where, Onward, LoopPCs
<1>14. t < 5 /\ ~(t = 1) /\ {"pc", "intent"} \cap {"step", "turns", "above"} = {}
  BY <1>8
<1>15. d.pc \notin {"compare", "committed"}
  BY <1>1
<1> QED BY <1>1, <1>2, <1>5, <1>6, <1>j, <1>7, <1>8, <1>9, <1>10, <1>11, <1>13, <1>14, <1>15, TellsOne

(* A submission is asked for.                                               *)
LEMMA SubmitPlays ==
  ASSUME NEW p, NEW K, NEW m, NEW r, NEW N, Ready(p, K, m, r, N), SubmitRequested(p)
  PROVE  PlaysOn(p, K, m, r, N)
<1> DEFINE d == driver[p]
           next == Goto(d, "submitted")
<1>1. d.pc = "submit" /\ Write(p, "SubmitRequested", <<d.intent>>, next)
  BY DEF SubmitRequested, At
<1>2. DOMAIN d = DOMAIN Idle /\ d.step <= StepLimit
  BY <1>1 DEF Ready, Typed, Timely, LoopPCs
<1>3. Kin(d, next, {"pc"}) /\ DOMAIN next = DOMAIN Idle /\ next.pc = "submitted"
  BY <1>2, GotoSets, SetsKin
<1> HIDE DEF next
<1>j. PICK J : J = Owned(d)
  OBVIOUS
<1>4. PICK E, P, t, q, o : Plays(d, J, K, m, r, N, E, P, t, q, o)
  BY <1>j DEF Ready, Playing
<1>5. t = 3 /\ q = Submit /\ d.intent = IntentOf(E, P, d.turns) /\ d.step = Len(d.turns) + 1 /\ ~d.diverged
  BY <1>1, <1>4 DEF Plays, Where, Steady
<1>6. /\ next.turns = d.turns /\ next.replies = d.replies /\ next.results = d.results
      /\ next.step = d.step /\ ~next.diverged /\ next.intent = d.intent
  BY <1>3, <1>5 DEF Kin
<1>7. Fed(next, K, m, r, N, o, t + 1, q)
  <2>1. Fed(d, K, m, r, N, o, t, q) /\ (t + 1 >= 2 <=> t >= 2)
    BY <1>4, <1>5 DEF Plays
  <2> QED BY <1>6, <2>1, FedSame
<1>8. Comes("SubmitRequested", next.step, <<d.intent>>, d.turns, t, q, IntentOf(E, P, d.turns))
  <2>1. d.step = Len(d.turns) + 1 /\ t = 3
    BY <1>5
  <2>2. ~(t = 1) /\ ~(t = 0) /\ ~(t = 2) /\ ~(t = 4) /\ "SubmitRequested" \notin Apart
    BY <2>1 DEF Apart
  <2> QED BY <1>5, <1>6, <2>1, <2>2 DEF Comes, NextOf
<1>9. Lands(next, IntentOf(E, P, d.turns), Len(J), t + 1, q)
  <2>1. t + 1 = 4
    BY <1>5
  <2> QED BY <1>3, <1>5, <1>6, <2>1 DEF Lands, Where, Onward, LoopPCs
<1>10. t < 5 /\ ~(t = 1) /\ {"pc"} \cap {"step", "turns", "above"} = {}
  BY <1>5
<1>11. d.pc \notin {"compare", "committed"}
  BY <1>1
<1> QED BY <1>1, <1>2, <1>3, <1>j, <1>4, <1>5, <1>6, <1>7, <1>8, <1>9, <1>10, <1>11, TellsOne

(* And done.                                                                *)
LEMMA SubmittedPlays ==
  ASSUME NEW p, NEW K, NEW m, NEW r, NEW N, Ready(p, K, m, r, N), SubmitFinished(p)
  PROVE  PlaysOn(p, K, m, r, N)
<1> DEFINE d == driver[p]
           next == Stop(d, "submitted")
<1>1. d.pc = "submitted" /\ Write(p, "ToolFinished", <<d.intent, "ok">>, next)
  BY DEF SubmitFinished, At
<1>2. DOMAIN d = DOMAIN Idle /\ d.step <= StepLimit
  BY <1>1 DEF Ready, Typed, Timely, LoopPCs
<1>3. Kin(d, next, {"pc", "cause"}) /\ DOMAIN next = DOMAIN Idle /\ next.pc = "stopping" /\ next.cause = "submitted"
  BY <1>2, StopSets, SetsKin
<1> HIDE DEF next
<1>j. PICK J : J = Owned(d)
  OBVIOUS
<1>4. PICK E, P, t, q, o : Plays(d, J, K, m, r, N, E, P, t, q, o)
  BY <1>j DEF Ready, Playing
<1>5. t = 4 /\ q = Submit /\ d.intent = IntentOf(E, P, d.turns) /\ d.step = Len(d.turns) + 1 /\ ~d.diverged
  BY <1>1, <1>4 DEF Plays, Where, Steady
<1>6. /\ next.turns = d.turns /\ next.replies = d.replies /\ next.results = d.results
      /\ next.step = d.step /\ ~next.diverged
  BY <1>3, <1>5 DEF Kin
<1>7. Fed(next, K, m, r, N, o, t + 1, q)
  <2>1. Fed(d, K, m, r, N, o, t, q) /\ (t + 1 >= 2 <=> t >= 2)
    BY <1>4, <1>5 DEF Plays
  <2> QED BY <1>6, <2>1, FedSame
<1>8. Comes("ToolFinished", next.step, <<d.intent, "ok">>, d.turns, t, q, IntentOf(E, P, d.turns))
  <2>1. d.step = Len(d.turns) + 1 /\ t = 4
    BY <1>5
  <2>2. ~(t = 1) /\ ~(t = 0) /\ ~(t = 2) /\ ~(t = 3) /\ "ToolFinished" \notin Apart
    BY <2>1 DEF Apart
  <2> QED BY <1>5, <1>6, <2>1, <2>2 DEF Comes, NextOf
<1>9. Lands(next, IntentOf(E, P, d.turns), Len(J), t + 1, q)
  <2>1. t + 1 = 5
    BY <1>5
  <2> QED BY <1>3, <1>5, <1>6, <2>1 DEF Lands, Where, Why, Onward, LoopPCs
<1>10. t < 5 /\ ~(t = 1) /\ {"pc", "cause"} \cap {"step", "turns", "above"} = {}
  BY <1>5
<1>11. d.pc \notin {"compare", "committed"}
  BY <1>1
<1> QED BY <1>1, <1>2, <1>3, <1>j, <1>4, <1>5, <1>6, <1>7, <1>8, <1>9, <1>10, <1>11, TellsOne


-----------------------------------------------------------------------------
(***************************************************************************)
(* The steps that take a reply: the live model's, or the next of the script.*)
(***************************************************************************)
(* What is left when the first of a list is taken.                          *)
LEMMA TailIs ==
  ASSUME NEW s, s \in Seq(Range(s)), NEW c \in Nat, Len(s) = c, c >= 1
  PROVE  Tail(s) = [i \in 1..(c - 1) |-> s[i + 1]] /\ Head(s) = s[1]
<1>1. Tail(s) \in Seq(Range(s)) /\ Len(Tail(s)) = c - 1 /\ \A i \in 1..(c - 1) : Tail(s)[i] = s[i + 1]
  <2>1. s # <<>>
    OBVIOUS
  <2> QED BY <2>1, HeadTailProperties
<1>2. PICK u : u = Tail(s)
  OBVIOUS
<1>3. u = [i \in 1..(c - 1) |-> u[i]]
  <2>1. u \in Seq(Range(u)) /\ Len(u) = c - 1
    <3>1. u \in Seq(Range(s)) /\ Len(u) = c - 1
      BY <1>1, <1>2
    <3> QED BY ONLY <3>1, InRange
  <2>2. Upto(u, c - 1) = u
    BY ONLY <2>1, UptoAll
  <2> QED BY ONLY <2>2 DEF Upto
<1>4. [i \in 1..(c - 1) |-> u[i]] = [i \in 1..(c - 1) |-> s[i + 1]]
  BY <1>1, <1>2
<1>5. Head(s) = s[1]
  OBVIOUS
<1> QED BY <1>2, <1>3, <1>4, <1>5

\* The replies after the first n.
RepliesAfter(K, r, m, n) == [i \in 1..(m - n) |-> ExchangeAt(K, r, n + i)]

(* One of them less.                                                        *)
LEMMA RepliesTail ==
  ASSUME NEW K, NEW r, NEW m \in Nat, NEW n \in Nat, m > n
  PROVE  /\ Tail(RepliesAfter(K, r, m, n)) = RepliesAfter(K, r, m, n + 1)
         /\ Head(RepliesAfter(K, r, m, n)) = ExchangeAt(K, r, n + 1)
<1>1. PICK c \in Nat : c = m - n /\ c >= 1
  OBVIOUS
<1> DEFINE S == {ExchangeAt(K, r, n + i) : i \in 1..c}
<1>2. PICK s : s = [i \in 1..c |-> ExchangeAt(K, r, n + i)]
  OBVIOUS
<1>3. s \in Seq(S) /\ Len(s) = c
  <2>1. \A i \in 1..c : ExchangeAt(K, r, n + i) \in S
    OBVIOUS
  <2> HIDE DEF S
  <2>2. s \in [1..c -> S]
    BY <1>2, <2>1
  <2> QED BY <2>2
<1>4. s \in Seq(Range(s))
  BY <1>3, InRange
<1>5. Tail(s) = [i \in 1..(c - 1) |-> s[i + 1]] /\ Head(s) = s[1]
  BY <1>1, <1>3, <1>4, TailIs
<1>6. \A i \in 1..(c - 1) : i + 1 \in 1..c /\ n + (i + 1) = (n + 1) + i
  BY <1>1
<1>7. \A i \in 1..(c - 1) : s[i + 1] = ExchangeAt(K, r, (n + 1) + i)
  BY <1>2, <1>6
<1>8. Tail(s) = [i \in 1..(c - 1) |-> ExchangeAt(K, r, (n + 1) + i)]
  BY <1>5, <1>7
<1>9. m - (n + 1) = c - 1 /\ 1 \in 1..c
  BY <1>1
<1> QED BY <1>1, <1>2, <1>5, <1>8, <1>9 DEF RepliesAfter

(* None is left after them all.                                             *)
LEMMA RepliesNone ==
  ASSUME NEW K, NEW r, NEW m \in Nat, NEW n \in Nat
  PROVE  RepliesAfter(K, r, m, n) = <<>> <=> m <= n
<1>1. CASE m <= n
  <2>1. 1..(m - n) = {}
    BY <1>1
  <2> QED BY <1>1, <2>1 DEF RepliesAfter
<1>2. CASE m > n
  <2>1. 1 \in 1..(m - n)
    BY <1>2
  <2>2. 1 \in DOMAIN RepliesAfter(K, r, m, n)
    BY <2>1 DEF RepliesAfter
  <2> QED BY <1>2, <2>2
<1> QED BY <1>1, <1>2

(* The reply is journaled; it is the next of the script if there is one.    *)
LEMMA ReplyPlays ==
  ASSUME NEW p, NEW K, NEW m, NEW r, NEW N, Ready(p, K, m, r, N), At(p, "model"),
         NEW J, J = Owned(driver[p]), NEW E, NEW P, NEW t, NEW q, NEW o,
         Plays(driver[p], J, K, m, r, N, E, P, t, q, o),
         NEW e, Sets(driver[p], e, {"mono", "replies", "diverged"}), ~e.diverged,
         NEW reply \in Answers, reply = Diverged => driver[p].role = "audit",
         Fed(e, K, m, r, N, o, 2, reply), Replied(p, reply, e)
  PROVE  PlaysOn(p, K, m, r, N)
<1> DEFINE d == driver[p]
           next == IF WallIsUp(e) THEN Stop(e, "wall")
                   ELSE IF reply \in {Unavailable, Diverged} THEN Stop(e, "model_unavailable")
                   ELSE [Goto(e, "budgets_2") EXCEPT !.reply = reply]
           X == {"mono", "replies", "diverged", "pc", "cause", "reply"}
<1>1. d.pc = "model" /\ Write(p, "ModelReplied", <<reply>>, next)
  BY DEF Replied, At
<1>2. DOMAIN d = DOMAIN Idle /\ d.step <= StepLimit
  BY <1>1 DEF Ready, Typed, Timely, LoopPCs
<1>3. DOMAIN e = DOMAIN Idle
  BY DEF Sets
<1>4. /\ Sets(e, next, {"pc", "cause", "reply"})
      /\ \/ next.pc = "stopping" /\ next.cause = "wall" /\ WallIsUp(e)
         \/ next.pc = "stopping" /\ next.cause = "model_unavailable" /\ reply \in {Unavailable, Diverged}
         \/ next.pc = "budgets_2" /\ next.reply = reply /\ reply \notin {Unavailable, Diverged}
  <2>1. CASE WallIsUp(e)
    BY <1>3, <2>1, StopSets DEF Sets
  <2>2. CASE ~WallIsUp(e) /\ reply \in {Unavailable, Diverged}
    BY <1>3, <2>2, StopSets DEF Sets
  <2>3. CASE ~WallIsUp(e) /\ ~(reply \in {Unavailable, Diverged})
    <3> DEFINE f == Goto(e, "budgets_2")
    <3>1. Sets(e, f, {"pc"}) /\ f.pc = "budgets_2"
      BY <1>3, GotoSets
    <3> HIDE DEF f
    <3>2. next = [f EXCEPT !.reply = reply]
      BY <2>3 DEF f
    <3>3. Sets(f, next, {"reply"}) /\ next.pc = f.pc /\ next.reply = reply
      BY <3>1, <3>2, Fields DEF Sets
    <3>4. Sets(e, next, {"pc"} \cup {"reply"})
      BY <3>1, <3>3, SetsStill
    <3>5. Sets(e, next, {"pc", "cause", "reply"})
      BY <3>4 DEF Sets
    <3> QED BY <2>3, <3>1, <3>3, <3>5
  <2> QED BY <2>1, <2>2, <2>3
<1> HIDE DEF next
<1>5. Kin(d, next, X) /\ DOMAIN next = DOMAIN Idle
  <2>1. Sets(d, next, {"mono", "replies", "diverged"} \cup {"pc", "cause", "reply"})
    BY <1>4, SetsStill
  <2>2. {"mono", "replies", "diverged"} \cup {"pc", "cause", "reply"} = X
    OBVIOUS
  <2>3. X \cap {"role", "attempt", "copy"} = {}
    OBVIOUS
  <2> HIDE DEF X
  <2> QED BY <2>1, <2>2, <2>3, SetsKin
<1>6. /\ next.replies = e.replies /\ next.results = e.results /\ next.turns = e.turns
      /\ next.step = d.step /\ ~next.diverged /\ e.turns = d.turns /\ next.role = d.role /\ e.role = d.role
  <2>1. Kin(e, next, {"pc", "cause", "reply"}) /\ Kin(d, e, {"mono", "replies", "diverged"})
    BY <1>4, SetsKin
  <2> QED BY <1>5, <2>1 DEF Kin
<1>7. t = 1 /\ d.step = Len(d.turns) + 1
  BY <1>1 DEF Plays, Where, Steady
<1>8. Fed(next, K, m, r, N, o, t + 1, reply)
  <2>1. t + 1 = 2 /\ (t + 1 >= 2 <=> 2 >= 2)
    BY <1>7
  <2> QED BY <1>6, <2>1, FedSame
<1>9. Comes("ModelReplied", next.step, <<reply>>, d.turns, t, reply, IntentOf(E, P, d.turns))
  <2>1. d.step = Len(d.turns) + 1 /\ t = 1
    BY <1>7
  <2>2. ~(t = 3) /\ ~(t = 0) /\ ~(t = 2) /\ ~(t = 4) /\ "ModelReplied" \notin Apart
    BY <2>1 DEF Apart
  <2> QED BY <1>6, <2>1, <2>2 DEF Comes, NextOf
<1>w. WallIsUp(e) => d.role # "audit"
  BY <1>6 DEF WallIsUp
<1>10. Lands(next, IntentOf(E, P, d.turns), Len(J), t + 1, reply)
  <2>1. /\ t + 1 = 2 /\ next.step = Len(next.turns) + 1
        /\ next.pc = "stopping" /\ next.cause = "wall" /\ WallIsUp(e) => next.role # "audit"
    BY <1>6, <1>7, <1>w
  <2>2. reply \notin {Unavailable, Diverged} => reply \in Replies \ {Unavailable}
    BY DEF Answers
  <2>3. CASE next.pc = "stopping" /\ next.cause = "wall" /\ WallIsUp(e)
    BY <2>1, <2>3 DEF Lands, Where, Why, Onward, LoopPCs
  <2>4. CASE next.pc = "stopping" /\ next.cause = "model_unavailable" /\ reply \in {Unavailable, Diverged}
    BY <2>1, <2>4 DEF Lands, Where, Why, Onward, LoopPCs
  <2>5. CASE next.pc = "budgets_2" /\ next.reply = reply /\ reply \notin {Unavailable, Diverged}
    BY <2>1, <2>2, <2>5 DEF Lands, Where, Onward, LoopPCs
  <2> QED BY <1>4, <2>3, <2>4, <2>5
<1>11. t < 5 /\ ~(t >= 2) /\ X \cap {"step", "turns", "above"} = {}
  BY <1>7
<1>12. d.pc \notin {"compare", "committed"}
  BY <1>1
<1>13. t = 1 /\ reply = Diverged => next.role = "audit"
  BY <1>6
<1> HIDE DEF X
<1> QED BY <1>1, <1>2, <1>5, <1>6, <1>7, <1>8, <1>9, <1>10, <1>11, <1>12, <1>13, TellsOne

(* With none left the script says nothing of the reply.                     *)
LEMMA FedNoMore ==
  ASSUME NEW d, NEW K, NEW m, NEW r, NEW N, NEW o, NEW q, Fed(d, K, m, r, N, o, 1, q), d.replies = <<>>,
         ScriptOK(K, m, r, N), Len(d.turns) \in Nat,
         NEW e, e.replies = d.replies, e.results = d.results, e.turns = d.turns, NEW q2
  PROVE  Fed(e, K, m, r, N, o, 2, q2)
<1>1. m \in Nat
  <2>1. Len(K) \in Nat
    BY DEF ScriptOK, Turns
  <2> QED BY <2>1 DEF ScriptOK
<1>2. Taken(d.turns, 1) = Len(d.turns) /\ Taken(d.turns, 2) = Len(d.turns) + 1
  BY DEF Taken
<1>3. d.replies = RepliesAfter(K, r, m, Len(d.turns))
  BY <1>2 DEF Fed, RepliesAfter
<1>4. m <= Len(d.turns)
  BY <1>1, <1>3, RepliesNone
<1>5. d.replies = RepliesAfter(K, r, m, Len(d.turns) + 1)
  <2>1. m <= Len(d.turns) + 1 /\ Len(d.turns) + 1 \in Nat
    BY <1>1, <1>4
  <2> QED BY <1>1, <2>1, RepliesNone
<1>6. Follows(d.turns, 2, q2, K, m, r)
  <2>1. ~(Len(d.turns) + 1 <= m)
    BY <1>1, <1>4
  <2>2. Follows(d.turns, 1, q, K, m, r)
    BY DEF Fed
  <2> QED BY <2>1, <2>2 DEF Follows
<1> QED BY <1>2, <1>5, <1>6 DEF Fed, RepliesAfter

(* A recorded reply is taken.                                               *)
LEMMA FedOneMore ==
  ASSUME NEW d, NEW K, NEW m, NEW r, NEW N, NEW o, NEW q, Fed(d, K, m, r, N, o, 1, q), d.replies # <<>>,
         ScriptOK(K, m, r, N), d.turns \in Seq(Range(d.turns)),
         NEW e, e.replies = Tail(d.replies), e.results = d.results, e.turns = d.turns
  PROVE  /\ Head(d.replies).request = d.turns /\ Head(d.replies).reply \in Replies
         /\ Fed(e, K, m, r, N, o, 2, Head(d.replies).reply)
<1>1. m \in Nat /\ Len(K) \in Nat /\ Len(d.turns) \in Nat /\ m <= Len(K) + 1 /\ m >= Len(K)
  <2>1. Len(K) \in Nat
    BY DEF ScriptOK, Turns
  <2> QED BY <2>1 DEF ScriptOK
<1>2. Taken(d.turns, 1) = Len(d.turns) /\ Taken(d.turns, 2) = Len(d.turns) + 1
  BY DEF Taken
<1>3. d.replies = RepliesAfter(K, r, m, Len(d.turns))
  BY <1>2 DEF Fed, RepliesAfter
<1>4. m > Len(d.turns)
  <2>1. ~(m <= Len(d.turns))
    BY <1>1, <1>3, RepliesNone
  <2> QED BY <1>1, <2>1
<1>5. /\ Tail(d.replies) = RepliesAfter(K, r, m, Len(d.turns) + 1)
      /\ Head(d.replies) = ExchangeAt(K, r, Len(d.turns) + 1)
  BY <1>1, <1>3, <1>4, RepliesTail
<1>6. Follows(d.turns, 1, q, K, m, r)
  BY DEF Fed
<1>n. PICK n \in Nat : n = Len(d.turns)
  BY <1>1
<1>7. Upto(K, n) = d.turns
  <2>1. \A s \in 1..n : s <= Len(K)
    BY <1>1, <1>4, <1>n
  <2>2. \A s \in 1..n : d.turns[s] = K[s]
    BY <1>6, <1>n, <2>1 DEF Follows
  <2>3. d.turns = Upto(d.turns, n)
    BY <1>n, UptoAll
  <2> QED BY <2>2, <2>3 DEF Upto
<1>8. Head(d.replies).request = d.turns /\ Head(d.replies).reply = ReplyAt(K, r, n + 1)
  <2>1. (n + 1) - 1 = n
    OBVIOUS
  <2> QED BY <1>5, <1>7, <1>n, <2>1 DEF ExchangeAt
<1>9. ReplyAt(K, r, n + 1) \in Replies
  <2>1. CASE n + 1 <= Len(K)
    <3>1. n + 1 \in 1..Len(K)
      BY <1>1, <2>1
    <3>2. OneTurn(K[n + 1])
      BY <3>1 DEF ScriptOK, Turns
    <3> QED BY <2>1, <3>2 DEF OneTurn, ReplyAt, Replies
  <2>2. CASE ~(n + 1 <= Len(K))
    <3>1. m > Len(K)
      BY <1>1, <1>4, <1>n, <2>2
    <3> QED BY <2>2, <3>1 DEF ScriptOK, ReplyAt
  <2> QED BY <2>1, <2>2
<1>10. Follows(d.turns, 2, ReplyAt(K, r, n + 1), K, m, r)
  BY <1>6, <1>n DEF Follows
<1> QED BY <1>2, <1>5, <1>8, <1>9, <1>10 DEF Fed, RepliesAfter

(* Every way to get a reply.                                                *)
LEMMA ModelPlays ==
  ASSUME NEW p, NEW K, NEW m, NEW r, NEW N, Ready(p, K, m, r, N),
         LiveReply(p) \/ ReplayedReply(p) \/ ReplayDiverges(p)
  PROVE  PlaysOn(p, K, m, r, N)
<1> DEFINE d == driver[p]
<1>1. At(p, "model") /\ d.pc = "model" /\ DOMAIN d = DOMAIN Idle /\ ScriptOK(K, m, r, N)
  BY DEF LiveReply, ReplayedReply, ReplayDiverges, AsksLive, At, Ready, Typed
<1>j. PICK J : J = Owned(d)
  OBVIOUS
<1>2. PICK E, P, t, q, o : Plays(d, J, K, m, r, N, E, P, t, q, o)
  BY <1>j DEF Ready, Playing
<1>3. /\ t = 1 /\ Fed(d, K, m, r, N, o, 1, q) /\ ~d.diverged
      /\ d.turns \in Seq(Range(d.turns)) /\ Len(d.turns) \in Nat
  BY <1>1, <1>2 DEF Plays, Where, Steady, Story, Turns
<1>4. \A x \in Replies : x \in Answers /\ x # Diverged
  BY LifecycleAssumption DEF Replies, Answers, Submit, Malformed, Unavailable, Diverged
<1>5. CASE LiveReply(p)
  <2>1. PICK reply \in Replies, delay \in Delays : Replied(p, reply, [d EXCEPT !.mono = @ + delay])
    BY <1>5 DEF LiveReply
  <2> DEFINE e == [d EXCEPT !.mono = @ + delay]
  <2>2. d.replies = <<>>
    BY <1>5 DEF LiveReply, AsksLive
  <2>3. /\ Sets(d, e, {"mono", "replies", "diverged"})
        /\ e.replies = d.replies /\ e.results = d.results /\ e.turns = d.turns /\ e.diverged = d.diverged
    BY <1>1, Fields DEF Sets
  <2>4. Replied(p, reply, e)
    BY <2>1
  <2> HIDE DEF e
  <2>5. Fed(e, K, m, r, N, o, 2, reply)
    BY <1>1, <1>3, <2>2, <2>3, FedNoMore
  <2> QED BY <1>j, <1>1, <1>2, <1>3, <1>4, <2>3, <2>4, <2>5, ReplyPlays
<1>6. CASE ReplayedReply(p)
  <2> DEFINE e == [d EXCEPT !.replies = Tail(@)]
  <2>1. Replied(p, Head(d.replies).reply, e) /\ d.replies # <<>>
    BY <1>6 DEF ReplayedReply, Fits
  <2>2. /\ Sets(d, e, {"mono", "replies", "diverged"})
        /\ e.replies = Tail(d.replies) /\ e.results = d.results /\ e.turns = d.turns /\ e.diverged = d.diverged
    BY <1>1, Fields DEF Sets
  <2> HIDE DEF e
  <2>3. Fed(e, K, m, r, N, o, 2, Head(d.replies).reply) /\ Head(d.replies).reply \in Replies
    BY <1>1, <1>3, <2>1, <2>2, FedOneMore
  <2> QED BY <1>j, <1>1, <1>2, <1>3, <1>4, <2>1, <2>2, <2>3, ReplyPlays
<1>7. CASE ReplayDiverges(p)
  <2> DEFINE e == [d EXCEPT !.diverged = d.role = "resume"]
  <2>1. Replied(p, Diverged, e) /\ ~Fits(d) /\ ~AsksLive(d)
    BY <1>7 DEF ReplayDiverges
  <2>2. d.replies = <<>>
    <3> SUFFICES ASSUME d.replies # <<>> PROVE FALSE
      OBVIOUS
    <3>1. PICK f : f = [replies |-> Tail(d.replies), results |-> d.results, turns |-> d.turns]
      OBVIOUS
    <3>2. f.replies = Tail(d.replies) /\ f.results = d.results /\ f.turns = d.turns
      BY ONLY <3>1
    <3>3. Head(d.replies).request = d.turns
      BY <1>1, <1>3, <3>2, FedOneMore
    <3> QED BY <2>1, <3>3 DEF Fits
  <2>3. d.role = "audit"
    BY <1>1, <2>1, <2>2 DEF AsksLive
  <2>4. /\ Sets(d, e, {"mono", "replies", "diverged"})
        /\ e.replies = d.replies /\ e.results = d.results /\ e.turns = d.turns /\ e.diverged = (d.role = "resume")
    BY <1>1, Fields DEF Sets
  <2> HIDE DEF e
  <2>5. Fed(e, K, m, r, N, o, 2, Diverged)
    BY <1>1, <1>3, <2>2, <2>4, FedNoMore
  <2>6. ~e.diverged /\ Diverged \in Answers
    BY <2>3, <2>4 DEF Answers
  <2> QED BY <1>j, <1>1, <1>2, <2>1, <2>3, <2>4, <2>5, <2>6, ReplyPlays
<1> QED BY <1>5, <1>6, <1>7


-----------------------------------------------------------------------------
(***************************************************************************)
(* The steps that end a turn: its result is the next recorded one, or none  *)
(* of the record's.                                                         *)
(***************************************************************************)
\* The results after the first o.
ResultsAfter(K, N, o) == [i \in 1..(Len(N) - o) |-> ResultAt(K, N[o + i])]

(* One of them less.                                                        *)
LEMMA ResultsTail ==
  ASSUME NEW K, NEW N, Len(N) \in Nat, NEW o \in Nat, Len(N) > o
  PROVE  /\ Tail(ResultsAfter(K, N, o)) = ResultsAfter(K, N, o + 1)
         /\ Head(ResultsAfter(K, N, o)) = ResultAt(K, N[o + 1])
<1>1. PICK c \in Nat : c = Len(N) - o /\ c >= 1
  OBVIOUS
<1> DEFINE S == {ResultAt(K, N[o + i]) : i \in 1..c}
<1>2. PICK s : s = [i \in 1..c |-> ResultAt(K, N[o + i])]
  OBVIOUS
<1>3. s \in Seq(S) /\ Len(s) = c
  <2>1. \A i \in 1..c : ResultAt(K, N[o + i]) \in S
    OBVIOUS
  <2> HIDE DEF S
  <2>2. s \in [1..c -> S]
    BY <1>2, <2>1
  <2> QED BY <2>2
<1>4. s \in Seq(Range(s))
  BY <1>3, InRange
<1>5. Tail(s) = [i \in 1..(c - 1) |-> s[i + 1]] /\ Head(s) = s[1]
  BY <1>1, <1>3, <1>4, TailIs
<1>6. \A i \in 1..(c - 1) : i + 1 \in 1..c /\ o + (i + 1) = (o + 1) + i
  BY <1>1
<1>7. \A i \in 1..(c - 1) : s[i + 1] = ResultAt(K, N[(o + 1) + i])
  BY <1>2, <1>6
<1>8. Tail(s) = [i \in 1..(c - 1) |-> ResultAt(K, N[(o + 1) + i])]
  BY <1>5, <1>7
<1>9. Len(N) - (o + 1) = c - 1 /\ 1 \in 1..c
  BY <1>1
<1> QED BY <1>1, <1>2, <1>5, <1>8, <1>9 DEF ResultsAfter

(* None is left after them all.                                             *)
LEMMA ResultsNone ==
  ASSUME NEW K, NEW N, Len(N) \in Nat, NEW o \in 0..Len(N)
  PROVE  ResultsAfter(K, N, o) = <<>> <=> o = Len(N)
<1>1. CASE o = Len(N)
  <2>1. 1..(Len(N) - o) = {}
    BY <1>1
  <2> QED BY <1>1, <2>1 DEF ResultsAfter
<1>2. CASE o # Len(N)
  <2>1. 1 \in 1..(Len(N) - o)
    BY <1>2
  <2>2. 1 \in DOMAIN ResultsAfter(K, N, o)
    BY <2>1 DEF ResultsAfter
  <2> QED BY <1>2, <2>2
<1> QED BY <1>1, <1>2

\* The turn is that of the script.
Right(K, n, q, f) == n + 1 <= Len(K) => K[n + 1] = <<q, f>>

(* When the turn and what it took are right, so is what is left.            *)
LEMMA FedTurn ==
  ASSUME NEW d, NEW K, NEW m, NEW r, NEW N, NEW o, NEW t, NEW q, Fed(d, K, m, r, N, o, t, q),
         t \in {2, 3}, Len(d.turns) \in Nat, Len(K) \in Nat,
         NEW e, NEW f, TurnsOn(d.turns, <<q, f>>, e.turns), e.replies = d.replies,
         Right(K, Len(d.turns), q, f), NEW o2, e.results = ResultsAfter(K, N, o2),
         FedUpTo(N, o2, Len(d.turns) + 1)
  PROVE  Fed(e, K, m, r, N, o2, 0, None)
<1>n. PICK n \in Nat : n = Len(d.turns)
  OBVIOUS
<1>1. /\ Len(e.turns) = n + 1 /\ e.turns[n + 1] = <<q, f>>
      /\ \A s \in 1..n : e.turns[s] = d.turns[s]
  BY <1>n DEF TurnsOn
<1>2. Taken(d.turns, t) = n + 1 /\ Taken(e.turns, 0) = n + 1
  BY <1>1, <1>n DEF Taken
<1>3. /\ \A s \in 1..n : s <= Len(K) => d.turns[s] = K[s]
      /\ \A s \in 1..n : s <= m => d.turns[s][1] = ReplyAt(K, r, s)
      /\ n + 1 <= m => q = ReplyAt(K, r, n + 1)
  BY <1>n DEF Fed, Follows
<1>4. \A s \in 1..(n + 1) : s \in 1..n \/ s = n + 1
  OBVIOUS
<1>5. e.turns[n + 1][1] = q
  BY <1>1
<1>6. \A s \in 1..(n + 1) : s <= Len(K) => e.turns[s] = K[s]
  BY <1>1, <1>3, <1>4, <1>n DEF Right
<1>7. \A s \in 1..(n + 1) : s <= m => e.turns[s][1] = ReplyAt(K, r, s)
  BY <1>1, <1>3, <1>4, <1>5
<1>8. Follows(e.turns, 0, None, K, m, r)
  BY <1>1, <1>6, <1>7 DEF Follows
<1>9. e.replies = [i \in 1..(m - Taken(e.turns, 0)) |-> ExchangeAt(K, r, Taken(e.turns, 0) + i)]
  BY <1>2 DEF Fed
<1> QED BY <1>1, <1>8, <1>9, <1>n DEF Fed, ResultsAfter

(* What the script says of the step.                                        *)
LEMMA ScriptStep ==
  ASSUME NEW d, NEW K, NEW m, NEW r, NEW N, NEW o, NEW t, NEW q, Fed(d, K, m, r, N, o, t, q),
         t \in {2, 3}, ScriptOK(K, m, r, N), NEW n \in Nat, n = Len(d.turns)
  PROVE  /\ Len(N) \in Nat /\ o \in 0..Len(N) /\ Len(K) \in Nat
         /\ \A i \in 1..Len(N) : N[i] \in 1..Len(K) /\ K[N[i]][1] # Malformed /\ (i <= o <=> N[i] <= n)
         /\ \A i, j \in 1..Len(N) : i < j => N[i] < N[j]
         /\ n + 1 <= Len(K) => K[n + 1] = <<q, K[n + 1][2]>> /\ OneTurn(K[n + 1])
         /\ n + 1 <= Len(K) /\ q # Malformed => \E i \in 1..Len(N) : N[i] = n + 1
<1>1. Len(K) \in Nat /\ m >= Len(K) /\ m \in Nat
  <2>1. Len(K) \in Nat
    BY DEF ScriptOK, Turns
  <2> QED BY <2>1 DEF ScriptOK
<1>2. Lists(N, Called(K)) /\ Len(N) \in Nat
  BY DEF ScriptOK, Lists
<1>3. o \in 0..Len(N) /\ \A i \in 1..Len(N) : i <= o <=> N[i] <= n
  BY DEF Fed, FedUpTo
<1>4. \A i \in 1..Len(N) : N[i] \in 1..Len(K) /\ K[N[i]][1] # Malformed
  BY <1>2 DEF Lists, Called
<1>5. ASSUME n + 1 <= Len(K) PROVE OneTurn(K[n + 1]) /\ q = K[n + 1][1] /\ n + 1 \in 1..Len(K)
  <2>1. n + 1 \in 1..Len(K) /\ n + 1 <= m
    BY <1>1, <1>5
  <2>2. q = ReplyAt(K, r, n + 1)
    BY <2>1 DEF Fed, Follows
  <2>3. OneTurn(K[n + 1])
    BY <2>1 DEF ScriptOK, Turns
  <2> QED BY <1>5, <2>1, <2>2, <2>3 DEF ReplyAt
<1>6. n + 1 <= Len(K) => K[n + 1] = <<q, K[n + 1][2]>>
  BY <1>5 DEF OneTurn
<1>7. n + 1 <= Len(K) /\ q # Malformed => n + 1 \in Called(K)
  BY <1>5 DEF Called
<1> QED BY <1>1, <1>2, <1>3, <1>4, <1>5, <1>6, <1>7 DEF Lists

(* A reply without an action takes no result.                               *)
LEMMA FedMalformed ==
  ASSUME NEW d, NEW K, NEW m, NEW r, NEW N, NEW o, NEW t, NEW q, Fed(d, K, m, r, N, o, t, q),
         t \in {2, 3}, ScriptOK(K, m, r, N), NEW n \in Nat, n = Len(d.turns), q = Malformed
  PROVE  Right(K, n, q, None) /\ FedUpTo(N, o, n + 1)
<1>1. /\ Len(N) \in Nat /\ o \in 0..Len(N) /\ Len(K) \in Nat
      /\ \A i \in 1..Len(N) : N[i] \in 1..Len(K) /\ K[N[i]][1] # Malformed /\ (i <= o <=> N[i] <= n)
      /\ n + 1 <= Len(K) => K[n + 1] = <<q, K[n + 1][2]>> /\ OneTurn(K[n + 1])
  <2>1. /\ Len(N) \in Nat /\ o \in 0..Len(N) /\ Len(K) \in Nat
        /\ \A i \in 1..Len(N) : N[i] \in 1..Len(K) /\ K[N[i]][1] # Malformed /\ (i <= o <=> N[i] <= n)
    BY ScriptStep
  <2>2. n + 1 <= Len(K) => K[n + 1] = <<q, K[n + 1][2]>> /\ OneTurn(K[n + 1])
    BY ScriptStep
  <2> QED BY <2>1, <2>2
<1>2. Right(K, n, q, None)
  <2>1. n + 1 <= Len(K) => K[n + 1][1] = q
    BY <1>1
  <2>2. n + 1 <= Len(K) => K[n + 1][2] = None
    BY <1>1, <2>1 DEF OneTurn
  <2> QED BY <1>1, <2>2 DEF Right
<1>3. \A i \in 1..Len(N) : N[i] # n + 1
  <2> SUFFICES ASSUME NEW i \in 1..Len(N), N[i] = n + 1 PROVE FALSE
    OBVIOUS
  <2>1. n + 1 \in 1..Len(K) /\ K[n + 1][1] # Malformed
    BY <1>1
  <2>2. n + 1 <= Len(K)
    BY <1>1, <2>1
  <2>3. K[n + 1][1] = q
    BY <1>1, <2>2
  <2> QED BY <2>1, <2>3
<1>4. \A i \in 1..Len(N) : N[i] <= n <=> N[i] <= n + 1
  BY <1>1, <1>3
<1> QED BY <1>1, <1>2, <1>4 DEF FedUpTo

(* A call when no result is left is none of the record's.                   *)
LEMMA FedNone ==
  ASSUME NEW d, NEW K, NEW m, NEW r, NEW N, NEW o, NEW t, NEW q, Fed(d, K, m, r, N, o, t, q),
         t \in {2, 3}, ScriptOK(K, m, r, N), NEW n \in Nat, n = Len(d.turns), q # Malformed,
         d.results = <<>>, NEW f
  PROVE  Right(K, n, q, f) /\ FedUpTo(N, o, n + 1)
<1>1. /\ Len(N) \in Nat /\ o \in 0..Len(N) /\ Len(K) \in Nat
      /\ \A i \in 1..Len(N) : N[i] \in 1..Len(K) /\ (i <= o <=> N[i] <= n)
      /\ n + 1 <= Len(K) /\ q # Malformed => \E i \in 1..Len(N) : N[i] = n + 1
  BY ScriptStep
<1>2. o = Len(N)
  BY <1>1, ResultsNone DEF Fed, ResultsAfter
<1>3. \A i \in 1..Len(N) : i <= o /\ N[i] <= n /\ N[i] <= n + 1
  BY <1>1, <1>2
<1>4. ~(n + 1 <= Len(K))
  BY <1>1, <1>3
<1> QED BY <1>1, <1>3, <1>4 DEF Right, FedUpTo

(* A call while results are left is the one the next of them is for.        *)
LEMMA FedNext ==
  ASSUME NEW d, NEW K, NEW m, NEW r, NEW N, NEW o, NEW t, NEW q, Fed(d, K, m, r, N, o, t, q),
         t \in {2, 3}, ScriptOK(K, m, r, N), NEW n \in Nat, n = Len(d.turns), q # Malformed,
         d.results # <<>>
  PROVE  /\ Head(d.results).call = q /\ Right(K, n, q, Head(d.results).result)
         /\ FedUpTo(N, o + 1, n + 1) /\ Tail(d.results) = ResultsAfter(K, N, o + 1)
<1>1. /\ Len(N) \in Nat /\ o \in 0..Len(N) /\ Len(K) \in Nat
      /\ \A i \in 1..Len(N) : N[i] \in 1..Len(K) /\ (i <= o <=> N[i] <= n)
      /\ \A i, j \in 1..Len(N) : i < j => N[i] < N[j]
      /\ n + 1 <= Len(K) => K[n + 1] = <<q, K[n + 1][2]>>
      /\ n + 1 <= Len(K) /\ q # Malformed => \E i \in 1..Len(N) : N[i] = n + 1
  BY ScriptStep
<1>2. d.results = ResultsAfter(K, N, o)
  BY DEF Fed, ResultsAfter
<1>3. o # Len(N)
  BY <1>1, <1>2, ResultsNone
<1>4. o + 1 \in 1..Len(N) /\ ~(o + 1 <= o) /\ Len(N) > o /\ o \in Nat
  BY <1>1, <1>3
<1>5. N[o + 1] > n /\ N[o + 1] \in 1..Len(K)
  BY <1>1, <1>4
<1>6. n + 1 <= Len(K)
  BY <1>1, <1>5
<1>7. PICK i \in 1..Len(N) : N[i] = n + 1
  BY <1>1, <1>6
<1>8. N[o + 1] = n + 1
  <2>1. ~(N[i] <= n)
    BY <1>7
  <2>2. ~(i <= o)
    BY <1>1, <2>1
  <2>3. i = o + 1 \/ o + 1 < i
    BY <1>1, <2>2
  <2>4. CASE o + 1 < i
    <3>1. N[o + 1] < n + 1
      BY <1>1, <1>4, <1>7, <2>4
    <3> QED BY <1>1, <1>5, <3>1
  <2> QED BY <1>7, <2>3, <2>4
<1>9. Tail(d.results) = ResultsAfter(K, N, o + 1) /\ Head(d.results) = ResultAt(K, n + 1)
  BY <1>1, <1>2, <1>4, <1>8, ResultsTail
<1>10. Head(d.results).call = K[n + 1][1] /\ Head(d.results).result = K[n + 1][2]
  BY <1>9 DEF ResultAt
<1>11. K[n + 1][1] = q
  BY <1>1, <1>6
<1>12. Right(K, n, q, Head(d.results).result)
  BY <1>1, <1>6, <1>10 DEF Right
<1>13. FedUpTo(N, o + 1, n + 1)
  <2>1. o + 1 \in 0..Len(N)
    BY <1>1, <1>4
  <2>2. ASSUME NEW j \in 1..Len(N) PROVE j <= o + 1 <=> N[j] <= n + 1
    <3>1. j <= o \/ j = o + 1 \/ o + 1 < j
      BY <1>1
    <3>2. CASE j <= o
      BY <1>1, <3>2
    <3>3. CASE j = o + 1
      BY <1>8, <3>3
    <3>4. CASE o + 1 < j
      <4>1. n + 1 < N[j] /\ N[j] \in Nat
        BY <1>1, <1>4, <1>8, <3>4
      <4> QED BY <1>1, <3>4, <4>1
    <3> QED BY <3>1, <3>2, <3>3, <3>4
  <2> QED BY <2>1, <2>2 DEF FedUpTo
<1> QED BY <1>9, <1>10, <1>11, <1>12, <1>13


\* The record of that kind and body ends the step.
Closes(kind, step, body, K, t, q, f, intent) ==
  \A e : Reads(e, kind, step, body) => kind \notin Apart /\ LastOf(e, K, t, q, f, intent)

\* Between two steps, or stopped by the wall there.
Rests(next) ==
  \/ next.pc \in {"begin", "budgets_3"}
  \/ next.pc = "stopping" /\ next.cause = "wall" /\ next.role # "audit"

(* A step that writes the last record of a turn plays on.                   *)
LEMMA TurnsOver ==
  ASSUME NEW p, NEW K, NEW m, NEW r, NEW N, Ready(p, K, m, r, N),
         NEW J, J = Owned(driver[p]), NEW E, NEW P, NEW t, NEW q, NEW o,
         Plays(driver[p], J, K, m, r, N, E, P, t, q, o), t \in {2, 3},
         driver[p].pc \notin {"compare", "committed"},
         NEW next, DOMAIN next = DOMAIN Idle, NEW X, Kin(driver[p], next, X),
         X \cap {"step", "above"} = {}, ~next.diverged, Rests(next),
         NEW f, TurnsOn(driver[p].turns, <<q, f>>, next.turns),
         NEW kind, NEW body, Write(p, kind, body, next),
         Closes(kind, next.step, body, driver[p].turns, t, q, f, IntentOf(E, P, driver[p].turns)),
         NEW o2, Fed(next, K, m, r, N, o2, 0, None)
  PROVE  PlaysOn(p, K, m, r, N)
<1> DEFINE d == driver[p]
<1>1. /\ next.role = d.role /\ next.attempt = d.attempt /\ next.copy = d.copy /\ next.step = d.step
      /\ next.above = d.above
  BY DEF Kin
<1>2. /\ Story(J, E, d.turns, P, t, q) /\ Steady(d, J, t, q) /\ Len(J) >= 1
  BY DEF Plays, Steady
<1>3. Len(d.turns) \in Nat /\ J \in Seq(Range(J))
  <2>1. Len(d.turns) \in Nat
    BY <1>2, StoryEnds
  <2> QED BY <1>2, <2>1 DEF Story
<1>4. PICK J2 : Adds(J2, J, kind, body, next)
  BY DEF Adds
<1>5. PICK en, E2 : Reads(en, kind, next.step, body) /\ CountsOn(J, E, en, J2, E2)
  BY <1>4, EntryCounts
<1>6. en.kind = kind /\ kind \notin Apart
  BY <1>5 DEF Reads, Closes
<1>7. LastOf(en, d.turns, t, q, f, IntentOf(E, P, d.turns))
  BY <1>5 DEF Closes
<1>8. PICK T : T = next.turns
  OBVIOUS
<1>9. TurnsOn(d.turns, <<q, f>>, T)
  BY <1>8
<1>10. PICK P2 : P2 = EndsOn(P, Len(d.turns), Len(E) + 1)
  OBVIOUS
<1>11. Story(J2, E2, T, P2, 0, None)
  <2>1. LastOf(en, d.turns, t, q, f, E[P[Len(d.turns)] + 3] - 1)
    BY <1>7 DEF IntentOf
  <2>2. en.kind \notin Apart
    BY <1>6
  <2> QED BY ONLY <1>2, <1>5, <1>9, <1>10, <2>1, <2>2, StoryTurn
<1>12. Len(J2) >= 1 /\ J2[Len(J2)] = en /\ \A i \in 1..Len(J2) : i \in 1..Len(J) \/ J2[i] = en
  BY <1>3, <1>4, <1>5, AfterLast
<1>13. \A i \in 1..Len(J) : J2[i] = J[i]
  BY <1>3, <1>4, <1>5, AfterLast
<1>14. next.step = Len(next.turns) /\ Len(next.turns) \in Nat
  <2>1. Len(next.turns) = Len(d.turns) + 1
    BY DEF TurnsOn
  <2>2. d.step = Len(d.turns) + 1
    BY <1>2 DEF Steady
  <2> QED BY <1>1, <1>3, <2>1, <2>2
<1>15. Steady(next, J2, 0, None)
  <2>1. Len(J2) >= 1 /\ ~next.diverged
    BY <1>12
  <2>2. next.role = "audit" => next.above = FALSE
    BY <1>1, <1>2 DEF Steady
  <2>3. next.role = "audit" => \A i \in 1..Len(J2) : J2[i].kind # "BudgetCharged"
    BY <1>1, <1>2, <1>6, <1>12, <1>13 DEF Steady, Apart
  <2> QED BY <1>14, <2>1, <2>2, <2>3 DEF Steady
<1>16. Where(next, IntentOf(E2, P2, next.turns), 0, None)
  BY <1>14 DEF Where, Rests, Why, Onward, LoopPCs
<1>17. Stand(next, J2)
  <2>1. ~Stopped(J2)
    BY <1>6, <1>12 DEF Stopped, Apart
  <2>2. OneStop(J2)
    <3>1. Stand(d, J)
      BY DEF Plays
    <3> QED BY <1>2, <1>3, <1>4, <1>5, <3>1, StopIsLast
  <2> QED BY <2>1, <2>2 DEF Stand, Rests
<1>18. Playing(next, J2, K, m, r, N)
  BY <1>8, <1>11, <1>15, <1>16, <1>17 DEF Plays, Playing
<1>19. next.role # "audit" => next.attempt \in DOMAIN attempts
  BY <1>1 DEF Ready
<1> QED BY <1>1, <1>4, <1>18, <1>19, WritePlays

(* The turn appended is the turn of the reply.                              *)
LEMMA PushTurns ==
  ASSUME NEW d, DOMAIN d = DOMAIN Idle, d.turns \in Seq(Range(d.turns)), NEW f
  PROVE  /\ TurnsOn(d.turns, <<d.reply, f>>, PushTurn(d, f).turns)
         /\ Sets(d, PushTurn(d, f), {"turns", "reply", "intent"})
<1>1. /\ PushTurn(d, f).turns = Append(d.turns, <<d.reply, f>>)
      /\ Sets(d, PushTurn(d, f), {"turns", "reply", "intent"})
  BY PushSets
<1>2. PICK x : x = <<d.reply, f>>
  OBVIOUS
<1>3. TurnsOn(d.turns, x, Append(d.turns, x))
  BY TurnedOn
<1> QED BY <1>1, <1>2, <1>3

(* A reply without an action.                                               *)
LEMMA ParsePlays ==
  ASSUME NEW p, NEW K, NEW m, NEW r, NEW N, Ready(p, K, m, r, N), ParseFails(p)
  PROVE  PlaysOn(p, K, m, r, N)
<1> DEFINE d == driver[p]
           e == PushTurn(d, None)
           next == Goto(e, "begin")
<1>1. d.pc = "parse" /\ d.reply = Malformed /\ Write(p, "FormatError", <<>>, next)
  BY DEF ParseFails, At
<1>2. DOMAIN d = DOMAIN Idle /\ ScriptOK(K, m, r, N)
  BY DEF Ready, Typed
<1>j. PICK J : J = Owned(d)
  OBVIOUS
<1>3. PICK E, P, t, q, o : Plays(d, J, K, m, r, N, E, P, t, q, o)
  BY <1>j DEF Ready, Playing
<1>4. /\ t = 2 /\ q = Malformed /\ d.reply = q /\ d.turns \in Seq(Range(d.turns)) /\ Len(d.turns) \in Nat
      /\ Fed(d, K, m, r, N, o, t, q) /\ ~d.diverged /\ d.step = Len(d.turns) + 1
  <2>1. t = 2 /\ d.reply = q
    BY <1>1, <1>3 DEF Plays, Where
  <2> QED BY <1>1, <1>3, <2>1 DEF Plays, Story, Turns, Steady
<1>5. TurnsOn(d.turns, <<q, None>>, e.turns) /\ Sets(d, e, {"turns", "reply", "intent"})
  BY <1>2, <1>4, PushTurns
<1> HIDE DEF e
<1>6. Sets(e, next, {"pc"}) /\ next.pc = "begin"
  BY <1>5, GotoSets DEF Sets
<1> HIDE DEF next
<1>7. Kin(d, next, {"turns", "reply", "intent", "pc"}) /\ DOMAIN next = DOMAIN Idle /\ next.turns = e.turns
  <2>1. Sets(d, next, {"turns", "reply", "intent"} \cup {"pc"})
    BY <1>5, <1>6, SetsStill
  <2>2. {"turns", "reply", "intent"} \cup {"pc"} = {"turns", "reply", "intent", "pc"}
    OBVIOUS
  <2>3. Kin(e, next, {"pc"})
    BY <1>6, SetsKin
  <2> QED BY <2>1, <2>2, <2>3, SetsKin DEF Kin
<1>8. /\ next.replies = d.replies /\ next.results = d.results /\ ~next.diverged /\ next.step = d.step
      /\ TurnsOn(d.turns, <<q, None>>, next.turns)
  BY <1>4, <1>5, <1>7 DEF Kin
<1>9. Fed(next, K, m, r, N, o, 0, None)
  <2>1. PICK n \in Nat : n = Len(d.turns)
    BY <1>4
  <2>2. Right(K, n, q, None) /\ FedUpTo(N, o, n + 1)
    BY <1>2, <1>4, <2>1, FedMalformed
  <2>3. d.results = ResultsAfter(K, N, o)
    BY <1>4 DEF Fed, ResultsAfter
  <2>4. Len(K) \in Nat
    BY <1>2 DEF ScriptOK, Turns
  <2> QED BY <1>4, <1>8, <2>1, <2>2, <2>3, <2>4, FedTurn
<1>10. Closes("FormatError", next.step, <<>>, d.turns, t, q, None, IntentOf(E, P, d.turns))
  <2>1. "FormatError" \notin Apart
    BY DEF Apart
  <2> QED BY <1>4, <1>8, <2>1 DEF Closes, LastOf
<1>11. Rests(next) /\ t \in {2, 3} /\ {"turns", "reply", "intent", "pc"} \cap {"step", "above"} = {}
  BY <1>4, <1>6 DEF Rests
<1>12. d.pc \notin {"compare", "committed"}
  BY <1>1
<1> QED BY <1>1, <1>j, <1>3, <1>7, <1>8, <1>9, <1>10, <1>11, <1>12, TurnsOver

(* The result is journaled and shown.                                       *)
LEMMA FinishedPlays ==
  ASSUME NEW p, NEW K, NEW m, NEW r, NEW N, Ready(p, K, m, r, N), At(p, "execute"),
         NEW J, J = Owned(driver[p]), NEW E, NEW P, NEW t, NEW q, NEW o,
         Plays(driver[p], J, K, m, r, N, E, P, t, q, o),
         NEW c, Sets(driver[p], c, {"mono", "results"}), NEW f, Finished(p, f, c),
         Right(K, Len(driver[p].turns), q, f), NEW o2, c.results = ResultsAfter(K, N, o2),
         FedUpTo(N, o2, Len(driver[p].turns) + 1)
  PROVE  PlaysOn(p, K, m, r, N)
<1> DEFINE d == driver[p]
           e == PushTurn(c, f)
           next == Ticked(e, "budgets_3")
           X == {"mono", "results", "turns", "reply", "intent", "pc", "cause"}
<1>1. d.pc = "execute" /\ Write(p, "ToolFinished", <<c.intent, f>>, next)
  BY DEF Finished, At
<1>2. DOMAIN d = DOMAIN Idle /\ DOMAIN c = DOMAIN Idle /\ ScriptOK(K, m, r, N)
  BY DEF Ready, Typed, Sets
<1>3. Kin(d, c, {"mono", "results"})
  BY SetsKin
<1>4. /\ t = 3 /\ q \in Calls /\ d.reply = q /\ d.intent = IntentOf(E, P, d.turns)
      /\ d.turns \in Seq(Range(d.turns)) /\ Len(d.turns) \in Nat
      /\ Fed(d, K, m, r, N, o, t, q) /\ ~d.diverged /\ d.step = Len(d.turns) + 1
  <2>1. t = 3 /\ d.reply = q /\ q \in Calls /\ d.intent = IntentOf(E, P, d.turns)
    BY <1>1 DEF Plays, Where
  <2> QED BY <1>1, <2>1 DEF Plays, Story, Turns, Steady
<1>5. c.turns = d.turns /\ c.reply = q /\ c.intent = IntentOf(E, P, d.turns) /\ c.replies = d.replies
  BY <1>3, <1>4 DEF Kin
<1>6. TurnsOn(d.turns, <<q, f>>, e.turns) /\ Sets(c, e, {"turns", "reply", "intent"})
  BY <1>2, <1>4, <1>5, PushTurns
<1> HIDE DEF e
<1>7. /\ Sets(e, next, {"pc", "cause"})
      /\ \/ next.pc = "stopping" /\ next.cause = "wall" /\ WallIsUp(e)
         \/ next.pc = "budgets_3"
  <2>1. CASE WallIsUp(e)
    BY <1>6, <2>1, StopSets DEF Sets, Ticked
  <2>2. CASE ~WallIsUp(e)
    BY <1>6, <2>2, GotoSets DEF Sets, Ticked
  <2> QED BY <2>1, <2>2
<1> HIDE DEF next
<1>8. Kin(e, next, {"pc", "cause"}) /\ Kin(c, e, {"turns", "reply", "intent"})
  BY <1>6, <1>7, SetsKin
<1>9. Kin(d, next, X) /\ DOMAIN next = DOMAIN Idle
  <2>1. Sets(d, e, {"mono", "results"} \cup {"turns", "reply", "intent"})
    BY <1>6, SetsStill
  <2>2. Sets(d, next, ({"mono", "results"} \cup {"turns", "reply", "intent"}) \cup {"pc", "cause"})
    BY <1>7, <2>1, SetsStill
  <2>3. ({"mono", "results"} \cup {"turns", "reply", "intent"}) \cup {"pc", "cause"} = X
    OBVIOUS
  <2>4. X \cap {"role", "attempt", "copy"} = {}
    OBVIOUS
  <2> HIDE DEF X
  <2> QED BY <2>2, <2>3, <2>4, SetsKin
<1>10. /\ next.replies = d.replies /\ next.results = c.results /\ ~next.diverged /\ next.step = d.step
       /\ next.turns = e.turns /\ next.role = d.role /\ e.role = d.role
  BY <1>3, <1>4, <1>8, <1>9 DEF Kin
<1>11. TurnsOn(d.turns, <<q, f>>, next.turns)
  BY <1>6, <1>10
<1>12. Fed(next, K, m, r, N, o2, 0, None)
  <2>1. Len(K) \in Nat /\ t \in {2, 3}
    BY <1>2, <1>4 DEF ScriptOK, Turns
  <2>2. next.results = ResultsAfter(K, N, o2)
    BY <1>10
  <2> QED BY <1>4, <1>10, <1>11, <2>1, <2>2, FedTurn
<1>13. Closes("ToolFinished", next.step, <<c.intent, f>>, d.turns, t, q, f, IntentOf(E, P, d.turns))
  <2>1. "ToolFinished" \notin Apart
    BY DEF Apart
  <2> QED BY <1>4, <1>5, <1>10, <2>1 DEF Closes, LastOf
<1>14. Rests(next)
  <2>1. WallIsUp(e) => next.role # "audit"
    BY <1>10 DEF WallIsUp
  <2> QED BY <1>7, <2>1 DEF Rests
<1>15. t \in {2, 3} /\ X \cap {"step", "above"} = {}
  BY <1>4
<1>16. d.pc \notin {"compare", "committed"}
  BY <1>1
<1> HIDE DEF X
<1> QED BY <1>1, <1>9, <1>10, <1>11, <1>12, <1>13, <1>14, <1>15, <1>16, TurnsOver

(* Every way to get a result.                                               *)
LEMMA ExecutePlays ==
  ASSUME NEW p, NEW K, NEW m, NEW r, NEW N, Ready(p, K, m, r, N),
         Execute(p) \/ FeedResult(p) \/ NothingToFeed(p)
  PROVE  PlaysOn(p, K, m, r, N)
<1> DEFINE d == driver[p]
<1>1. At(p, "execute") /\ d.pc = "execute" /\ DOMAIN d = DOMAIN Idle /\ ScriptOK(K, m, r, N)
  BY DEF Execute, FeedResult, NothingToFeed, At, Ready, Typed
<1>j. PICK J : J = Owned(d)
  OBVIOUS
<1>2. PICK E, P, t, q, o : Plays(d, J, K, m, r, N, E, P, t, q, o)
  BY <1>j DEF Ready, Playing
<1>3. /\ t \in {2, 3} /\ Fed(d, K, m, r, N, o, t, q) /\ Len(d.turns) \in Nat
      /\ q # Malformed /\ d.reply = q
  <2>1. t = 3 /\ d.reply = q /\ q \in Calls
    BY <1>1, <1>2 DEF Plays, Where
  <2>2. Fed(d, K, m, r, N, o, t, q) /\ Len(d.turns) \in Nat
    BY <1>2 DEF Plays, Story, Turns
  <2> QED BY <2>1, <2>2, LifecycleAssumption
<1>n. PICK n \in Nat : n = Len(d.turns)
  BY <1>3
<1>4. ASSUME d.results = <<>>, NEW f
      PROVE  Right(K, n, q, f) /\ FedUpTo(N, o, n + 1) /\ d.results = ResultsAfter(K, N, o)
  <2>1. Right(K, n, q, f) /\ FedUpTo(N, o, n + 1)
    BY <1>1, <1>3, <1>4, <1>n, FedNone
  <2> QED BY <1>3, <2>1 DEF Fed, ResultsAfter
<1>5. CASE Execute(p)
  <2>1. PICK f \in Results \cup {ProviderError}, delay \in Delays : Finished(p, f, [d EXCEPT !.mono = @ + delay])
    BY <1>5 DEF Execute
  <2> DEFINE c == [d EXCEPT !.mono = @ + delay]
  <2>2. Sets(d, c, {"mono", "results"}) /\ c.results = d.results
    BY <1>1, Fields DEF Sets
  <2>3. Finished(p, f, c) /\ d.results = <<>>
    BY <1>5, <2>1 DEF Execute
  <2> HIDE DEF c
  <2>4. Right(K, n, q, f) /\ FedUpTo(N, o, n + 1) /\ c.results = ResultsAfter(K, N, o)
    BY <1>4, <2>2, <2>3
  <2> QED BY <1>j, <1>n, <1>1, <1>2, <2>2, <2>3, <2>4, FinishedPlays
<1>6. CASE FeedResult(p)
  <2> DEFINE c == [d EXCEPT !.results = Tail(@)]
             f == IF Head(d.results).call = d.reply THEN Head(d.results).result ELSE ProviderError
  <2>1. Finished(p, f, c) /\ d.results # <<>>
    BY <1>6 DEF FeedResult
  <2>2. Sets(d, c, {"mono", "results"}) /\ c.results = Tail(d.results)
    BY <1>1, Fields DEF Sets
  <2> HIDE DEF c
  <2>3. /\ Head(d.results).call = q /\ Right(K, n, q, Head(d.results).result)
        /\ FedUpTo(N, o + 1, n + 1) /\ Tail(d.results) = ResultsAfter(K, N, o + 1)
    BY <1>1, <1>3, <1>n, <2>1, FedNext
  <2>4. f = Head(d.results).result
    BY <1>3, <2>3
  <2> HIDE DEF f
  <2>5. Right(K, n, q, f) /\ c.results = ResultsAfter(K, N, o + 1)
    BY <2>2, <2>3, <2>4
  <2> QED BY <1>j, <1>n, <1>1, <1>2, <2>1, <2>2, <2>3, <2>5, FinishedPlays
<1>7. CASE NothingToFeed(p)
  <2>1. Finished(p, ProviderError, d) /\ d.results = <<>>
    BY <1>7 DEF NothingToFeed
  <2>2. Sets(d, d, {"mono", "results"})
    BY <1>1 DEF Sets
  <2>3. Right(K, n, q, ProviderError) /\ FedUpTo(N, o, n + 1) /\ d.results = ResultsAfter(K, N, o)
    BY <1>4, <2>1
  <2> QED BY <1>j, <1>n, <1>1, <1>2, <2>1, <2>2, <2>3, FinishedPlays
<1> QED BY <1>5, <1>6, <1>7

(* Every step of the loop plays on.                                         *)
LEMMA LoopPlays ==
  ASSUME NEW p, NEW K, NEW m, NEW r, NEW N, Ready(p, K, m, r, N), Loop(p)
  PROVE  PlaysOn(p, K, m, r, N)
BY BeginPlays, ObservePlays, RequestPlays, ModelPlays, ParsePlays, IntendPlays, SubmitPlays, SubmittedPlays,
   ExecutePlays, CommitPlays DEF Loop


-----------------------------------------------------------------------------
(***************************************************************************)
(* What is kept of a journal: the steps before its last, each told whole.   *)
(***************************************************************************)
(* The steps never go back.                                                 *)
LEMMA StepsRise ==
  ASSUME NEW J, Whole(J), NEW i \in 1..Len(J), NEW j \in 1..Len(J), i <= j
  PROVE  J[i].step <= J[j].step
<1>1. Len(J) \in Nat /\ DOMAIN J = 1..Len(J) /\ StepLimit \in Nat
  BY LifecycleAssumption DEF Whole
<1>2. \A x \in 1..Len(J) : J[x].step \in Nat /\ (x > 1 => J[x].step >= J[x - 1].step)
  BY <1>1 DEF Whole, RecordOK
<1> DEFINE B == {x \in 1..Len(J) : i <= x /\ ~(J[i].step <= J[x].step)}
<1> SUFFICES ASSUME B # {} PROVE FALSE
  OBVIOUS
<1>3. B \subseteq Nat
  OBVIOUS
<1>4. PICK x \in B : \A y \in B : x <= y
  <2> HIDE DEF B
  <2> QED BY <1>3, LeastIs
<1>5. x # i
  BY <1>2, <1>4
<1>6. x > 1 /\ x - 1 \in 1..Len(J) /\ i <= x - 1 /\ x - 1 \notin B
  BY <1>1, <1>4, <1>5
<1>7. J[i].step <= J[x - 1].step /\ J[x - 1].step <= J[x].step
  BY <1>2, <1>4, <1>6
<1>8. J[i].step \in Nat /\ J[x - 1].step \in Nat /\ J[x].step \in Nat
  BY <1>2, <1>4, <1>6
<1> QED BY <1>4, <1>7, <1>8

(* So the last step is the last record's.                                   *)
LEMMA LastStepIs ==
  ASSUME NEW J, Whole(J), NEW h \in 1..Len(J)
  PROVE  LastStep(Upto(J, h)) = J[h].step
<1>1. Len(J) \in Nat /\ DOMAIN J = 1..Len(J) /\ StepLimit \in Nat
  BY LifecycleAssumption DEF Whole
<1>2. \A x \in 1..Len(J) : J[x].step \in Nat
  BY <1>1 DEF Whole, RecordOK
<1> DEFINE S == Upto(J, h)
           M == {0} \cup {S[i].step : i \in DOMAIN S}
<1>3. DOMAIN S = 1..h /\ \A i \in 1..h : S[i] = J[i] /\ i \in 1..Len(J)
  BY <1>1 DEF Upto
<1>4. \A i \in 1..h : J[i].step <= J[h].step
  BY <1>3, StepsRise
<1>5. J[h].step \in M /\ h \in 1..h
  BY <1>1, <1>3
<1>6. \A y \in M : J[h].step >= y /\ y \in Nat
  BY <1>2, <1>3, <1>4
<1>7. LastStep(S) = Max(M)
  BY DEF LastStep
<1> HIDE DEF M, S
<1>8. Max(M) = CHOOSE x \in M : \A y \in M : x >= y
  BY DEF Max
<1>9. Max(M) \in M /\ \A y \in M : Max(M) >= y
  BY <1>5, <1>6, <1>8
<1>10. Max(M) >= J[h].step /\ J[h].step >= Max(M) /\ Max(M) \in Nat /\ J[h].step \in Nat
  BY <1>5, <1>6, <1>9
<1>11. Max(M) = J[h].step
  BY <1>10
<1> QED BY <1>7, <1>11 DEF S

(* What is kept is what comes before the first record of that step.         *)
LEMMA KeptIs ==
  ASSUME NEW J, Whole(J), NEW h \in 1..Len(J)
  PROVE  \E k \in 0..(h - 1) : Kept(Upto(J, h)) = Upto(J, k) /\ (k >= 1 => J[k + 1].step > J[k].step)
<1>1. Len(J) \in Nat /\ DOMAIN J = 1..Len(J) /\ StepLimit \in Nat /\ h \in Nat
  BY LifecycleAssumption DEF Whole
<1>2. \A x \in 1..Len(J) : J[x].step \in Nat
  BY <1>1 DEF Whole, RecordOK
<1>3. PICK S : S = Upto(J, h)
  OBVIOUS
<1>4. DOMAIN S = 1..h /\ \A i \in 1..h : S[i] = J[i] /\ i \in 1..Len(J)
  BY <1>1, <1>3 DEF Upto
<1> DEFINE U == {i \in 1..h : J[i].step >= J[h].step}
<1>5. U \subseteq Nat /\ h \in U
  BY <1>1, <1>2, <1>4
<1>6. PICK s \in U : \A u \in U : s <= u
  <2> HIDE DEF U
  <2> QED BY <1>5, LeastIs
<1>7. PICK k \in 0..(h - 1) : k = s - 1
  BY <1>1, <1>6
<1>8. \A i \in 1..h : J[i].step < J[h].step <=> i \in 1..k
  <2> SUFFICES ASSUME NEW i \in 1..h PROVE J[i].step < J[h].step <=> i \in 1..k
    OBVIOUS
  <2>1. J[i].step \in Nat /\ J[h].step \in Nat /\ J[s].step \in Nat /\ s \in 1..h
    BY <1>2, <1>4, <1>6
  <2>2. CASE i < s
    <3>1. i \notin U
      BY <1>1, <1>6, <2>1, <2>2
    <3> QED BY <1>7, <2>1, <2>2, <3>1
  <2>3. CASE ~(i < s)
    <3>1. J[s].step <= J[i].step
      BY <1>4, <2>1, <2>3, StepsRise
    <3>2. J[s].step >= J[h].step
      BY <1>6
    <3> QED BY <1>7, <2>1, <2>3, <3>1, <3>2
  <2> QED BY <2>2, <2>3
<1>9. LastStep(S) = J[h].step
  BY <1>3, LastStepIs
<1>10. {i \in DOMAIN S : S[i].step < LastStep(S)} = 1..k
  BY <1>1, <1>4, <1>7, <1>8, <1>9
<1>11. Kept(S) = Chosen(S, 1..k)
  BY <1>10 DEF Kept
<1>12. PICK g : g = [i \in 1..k |-> i]
  OBVIOUS
<1>13. Lists(g, 1..k) /\ Len(g) = k
  BY <1>1, <1>12 DEF Lists
<1>14. S \in Seq(Range(J)) /\ Len(S) = h
  <2>1. \A i \in 1..h : J[i] \in Range(J)
    BY <1>1, <1>4 DEF Range
  <2> QED BY <1>1, <1>3, <2>1 DEF Upto
<1>15. Chosen(S, 1..k) = [i \in 1..k |-> S[g[i]]]
  <2>1. 1..k \subseteq 1..Len(S)
    BY <1>1, <1>7, <1>14
  <2>2. Chosen(S, 1..k) = Picked(S, g)
    BY <1>13, <1>14, <2>1, ChosenBy
  <2> QED BY <1>13, <2>2 DEF Picked
<1>16. \A i \in 1..k : S[g[i]] = J[i]
  BY <1>1, <1>4, <1>7, <1>12
<1>17. Kept(S) = Upto(J, k)
  BY <1>11, <1>15, <1>16 DEF Upto
<1>18. k >= 1 => J[k + 1].step > J[k].step
  <2>1. k >= 1 => k \in 1..h /\ k \in 1..k /\ s = k + 1
    BY <1>1, <1>7
  <2>2. J[s].step >= J[h].step /\ J[s].step \in Nat /\ J[h].step \in Nat
    BY <1>2, <1>4, <1>6
  <2>3. k >= 1 => J[k].step < J[h].step /\ J[k].step \in Nat
    BY <1>2, <1>4, <1>8, <2>1
  <2> QED BY <2>1, <2>2, <2>3
<1> QED BY <1>3, <1>7, <1>17, <1>18


-----------------------------------------------------------------------------
(***************************************************************************)
(* What a journal that tells a story recorded for a replay.                 *)
(***************************************************************************)
\* The counted record j is the k-th of step s.
Spot(K, P, t, j, s, k) ==
  /\ s \in 1..(Len(K) + 1) /\ k \in 1..5 /\ j = P[s - 1] + k
  /\ s <= Len(K) => k <= 4 /\ j <= P[s]
  /\ s = Len(K) + 1 => k <= t

(* Every counted record is one of some step.                                *)
LEMMA Located ==
  ASSUME NEW J, NEW E, NEW K, NEW P, NEW t, NEW r, Story(J, E, K, P, t, r), NEW j \in 1..Len(E)
  PROVE  \E s, k : Spot(K, P, t, j, s, k)
<1>1. PICK n \in Nat : n = Len(K)
  BY StoryEnds
<1>2. t \in 0..5 /\ Len(E) = P[n] + t /\ Len(E) \in Nat
  BY <1>1, StoryEnds
<1>3. P \in [0..n -> Nat] /\ P[0] = 0
  BY <1>1 DEF Story, Ends
<1>j. PICK x \in Nat : x = j /\ x > 0 /\ x <= Len(E)
  BY <1>2
<1>4. CASE x <= P[n]
  <2>1. PICK s \in 1..n : P[s - 1] < x /\ x <= P[s]
    BY ONLY <1>3, <1>4, <1>j, Between
  <2>2. PICK b \in Nat : b = P[s - 1] /\ P[s] \in {b + 3, b + 4} /\ P[s] \in Nat
    <3>1. s - 1 \in 0..n /\ s \in 0..n
      OBVIOUS
    <3>2. P[s] \in {P[s - 1] + 3, P[s - 1] + 4}
      BY <1>1, StoryEnds
    <3> QED BY <1>3, <3>1, <3>2
  <2>3. PICK k \in Nat : k = x - b /\ k >= 1 /\ k <= 4 /\ x = b + k
    <3>1. b < x /\ (x <= b + 3 \/ x <= b + 4)
      BY ONLY <2>1, <2>2
    <3>2. x - b \in Nat /\ x - b >= 1 /\ x - b <= 4 /\ x = b + (x - b)
      BY ONLY <3>1
    <3> QED BY ONLY <3>2
  <2>4. Spot(K, P, t, x, s, k)
    <3>1. s \in 1..(Len(K) + 1) /\ s # Len(K) + 1 /\ k \in 1..5
      BY <1>1, <2>3
    <3> QED BY <2>1, <2>2, <2>3, <3>1 DEF Spot
  <2> QED BY <1>j, <2>4
<1>5. CASE ~(x <= P[n])
  <2>1. P[n] \in Nat
    BY <1>3
  <2>2. PICK k \in Nat : k = x - P[n] /\ k >= 1 /\ k <= t /\ x = P[n] + k
    BY ONLY <1>2, <1>5, <1>j, <2>1
  <2>3. Spot(K, P, t, x, n + 1, k)
    <3>1. n + 1 \in 1..(Len(K) + 1) /\ ~(n + 1 <= Len(K)) /\ (n + 1) - 1 = n /\ k \in 1..5
      BY <1>1, <1>2, <2>2
    <3> QED BY <2>2, <3>1 DEF Spot
  <2> QED BY <1>j, <2>3
<1> QED BY <1>4, <1>5

\* Where the first two records of the steps are among those counted.
Fronts(f, P, c, n) ==
  /\ f \in [0..c -> Nat] /\ f[0] = 0
  /\ \A s \in 1..(n + 1) : 2 * s - 1 <= c => f[2 * s - 1] = P[s - 1] + 1
  /\ \A s \in 1..(n + 1) : 2 * s <= c     => f[2 * s]     = P[s - 1] + 2

(* Every number to 2n is one of a pair.                                     *)
LEMMA Halves ==
  ASSUME NEW n \in Nat, NEW j \in 1..(2 * n)
  PROVE  \E s \in 1..n : j = 2 * s - 1 \/ j = 2 * s
<1>1. j % 2 = 0 \/ j % 2 = 1
  OBVIOUS
<1>2. CASE j % 2 = 0
  <2>1. j = 2 * (j \div 2) /\ j \div 2 \in 1..n
    BY <1>2
  <2> QED BY <2>1
<1>3. CASE j % 2 = 1
  <2>1. j = 2 * ((j + 1) \div 2) - 1 /\ (j + 1) \div 2 \in 1..n
    BY <1>3
  <2> QED BY <2>1
<1> QED BY <1>1, <1>2, <1>3

(* The places of the requests and replies.                                  *)
LEMMA FrontsExist ==
  ASSUME NEW n \in Nat, NEW P \in [0..n -> Nat], NEW c \in Nat, c <= 2 * n + 2
  PROVE  \E f : Fronts(f, P, c, n)
<1> DEFINE f == [j \in 0..c |-> IF j = 0 THEN 0
                                ELSE IF j % 2 = 1 THEN P[(j - 1) \div 2] + 1 ELSE P[j \div 2 - 1] + 2]
<1>1. ASSUME NEW s \in 1..(n + 1), 2 * s - 1 <= c PROVE f[2 * s - 1] = P[s - 1] + 1
  <2>1. 2 * s - 1 \in 0..c /\ 2 * s - 1 # 0 /\ (2 * s - 1) % 2 = 1 /\ (2 * s - 1 - 1) \div 2 = s - 1
    BY <1>1
  <2> QED BY <2>1
<1>2. ASSUME NEW s \in 1..(n + 1), 2 * s <= c PROVE f[2 * s] = P[s - 1] + 2
  <2>1. 2 * s \in 0..c /\ 2 * s # 0 /\ (2 * s) % 2 = 0 /\ (2 * s) \div 2 - 1 = s - 1
    BY <1>2
  <2> QED BY <2>1
<1>3. f[0] = 0
  OBVIOUS
<1>4. \A s \in 1..(n + 1) : P[s - 1] \in Nat
  OBVIOUS
<1>5. ASSUME NEW j \in 0..c PROVE f[j] \in Nat
  <2>1. CASE j = 0
    BY <1>3, <2>1
  <2>2. CASE j # 0
    <3>1. PICK s \in 1..(n + 1) : j = 2 * s - 1 \/ j = 2 * s
      <4>1. n + 1 \in Nat /\ j \in 1..(2 * (n + 1))
        BY <2>2
      <4> QED BY <4>1, Halves
    <3>2. CASE j = 2 * s - 1
      BY <1>1, <1>4, <3>2
    <3>3. CASE j = 2 * s
      BY <1>2, <1>4, <3>3
    <3> QED BY <3>1, <3>2, <3>3
  <2> QED BY <2>1, <2>2
<1>6. f \in [0..c -> Nat]
  BY <1>5
<1> HIDE DEF f
<1> QED BY <1>1, <1>2, <1>3, <1>6 DEF Fronts

\* How many records of the model there are in the step t records are there of.
Opened(t) == IF t >= 2 THEN 2 ELSE t

(* They rise.                                                               *)
LEMMA FrontsRise ==
  ASSUME NEW J, NEW E, NEW K, NEW P, NEW t, NEW r, Story(J, E, K, P, t, r),
         NEW n \in Nat, n = Len(K), NEW c \in Nat, c = 2 * n + Opened(t), NEW f, Fronts(f, P, c, n)
  PROVE  /\ \A i, j \in 0..c : i < j => f[i] < f[j]
         /\ \A j \in 1..c : f[j] \in 1..Len(E)
<1>1. /\ \A s \in 0..n : P[s] \in Nat
      /\ \A s \in 1..n : s - 1 \in 0..n /\ P[s] \in {P[s - 1] + 3, P[s - 1] + 4} /\ P[s] <= P[n]
      /\ t \in 0..5 /\ Len(E) = P[n] + t /\ P[0] = 0
  <2>1. /\ \A s \in 0..n : P[s] \in Nat /\ P[s] <= P[n]
        /\ \A s \in 1..n : s - 1 \in 0..n /\ P[s] \in {P[s - 1] + 3, P[s - 1] + 4}
        /\ t \in 0..5 /\ Len(E) = P[n] + t
    BY StoryEnds
  <2> QED BY <2>1 DEF Story, Ends
<1>2. c <= 2 * (n + 1) /\ Opened(t) \in 0..2 /\ (t >= 1 <=> Opened(t) >= 1) /\ (t >= 2 <=> Opened(t) = 2)
  BY <1>1 DEF Opened
<1>3. ASSUME NEW j \in 1..c PROVE f[j - 1] < f[j] /\ f[j] \in 1..Len(E)
  <2>1. PICK s \in 1..(n + 1) : j = 2 * s - 1 \/ j = 2 * s
    <3>1. n + 1 \in Nat /\ j \in 1..(2 * (n + 1))
      BY <1>2
    <3> QED BY <3>1, Halves
  <2>2. PICK b \in Nat : b = P[s - 1]
    BY <1>1
  <2>3. /\ s <= n => b + 3 <= Len(E)
        /\ s = n + 1 => Len(E) = b + t
    <3>1. CASE s <= n
      <4>1. s \in 1..n /\ s # n + 1
        BY <3>1
      <4>2. P[s] \in {b + 3, b + 4} /\ P[s] <= P[n] /\ P[n] \in Nat
        BY <1>1, <2>2, <4>1
      <4>3. Len(E) = P[n] + t /\ t \in 0..5
        BY <1>1
      <4> QED BY ONLY <4>1, <4>2, <4>3, <2>2
    <3>2. CASE s = n + 1
      <4>1. b = P[n]
        BY <2>2, <3>2
      <4> QED BY <1>1, <3>2, <4>1
    <3> QED BY <3>1, <3>2
  <2>4. CASE j = 2 * s
    <3>1. f[j] = b + 2 /\ f[j - 1] = b + 1
      <4>1. 2 * s <= c /\ 2 * s - 1 <= c /\ j - 1 = 2 * s - 1
        BY <2>4
      <4> QED BY <2>2, <2>4, <4>1 DEF Fronts
    <3>2. s = n + 1 => t >= 2
      BY <1>2, <2>4
    <3>3. b + 2 <= Len(E) /\ Len(E) \in Nat
      BY <1>1, <2>3, <3>2
    <3> QED BY <3>1, <3>3
  <2>5. CASE j = 2 * s - 1
    <3>1. f[j] = b + 1
      BY <2>2, <2>5 DEF Fronts
    <3>2. s = n + 1 => t >= 1
      BY <1>2, <2>5
    <3>3. b + 1 <= Len(E) /\ Len(E) \in Nat
      BY <1>1, <2>3, <3>2
    <3>4. f[j - 1] < b + 1
      <4>1. CASE s = 1
        BY <1>1, <2>2, <2>5, <4>1 DEF Fronts
      <4>2. CASE s # 1
        <5>1. s - 1 \in 1..n /\ s - 1 \in 1..(n + 1) /\ j - 1 = 2 * (s - 1) /\ 2 * (s - 1) <= c
          BY <2>5, <4>2
        <5>2. PICK a \in Nat : a = P[(s - 1) - 1]
          BY <1>1, <5>1
        <5>3. f[j - 1] = a + 2
          BY <5>1, <5>2 DEF Fronts
        <5>4. b \in {a + 3, a + 4}
          BY <1>1, <2>2, <5>1, <5>2
        <5> QED BY <5>3, <5>4
      <4> QED BY <4>1, <4>2
    <3> QED BY <3>1, <3>3, <3>4
  <2> QED BY <2>1, <2>4, <2>5
<1>4. f \in [0..c -> Nat]
  BY DEF Fronts
<1>5. \A i, j \in 0..c : i < j => f[i] < f[j]
  BY <1>3, <1>4, Rising
<1> QED BY <1>3, <1>5


(* What the counted records say, by their place in the step.                *)
LEMMA RecordsSay ==
  ASSUME NEW J, NEW E, NEW K, NEW P, NEW t, NEW r, Story(J, E, K, P, t, r),
         NEW j, NEW s, NEW k, Spot(K, P, t, j, s, k)
  PROVE  /\ k = 1 => J[E[j]].kind = "ModelRequested" /\ J[E[j]].body = <<Upto(K, s - 1)>>
         /\ k = 2 => J[E[j]].kind = "ModelReplied" /\ J[E[j]].body = <<ReplyAt(K, r, s)>>
         /\ k = 3 => J[E[j]].kind \in {"FormatError", "ToolStarted"}
         /\ k = 4 /\ s <= Len(K) => J[E[j]].kind = "ToolFinished" /\ K[s][1] # Malformed /\ j = P[s]
         /\ k = 4 /\ s = Len(K) + 1 => J[E[j]].kind = "SubmitRequested"
         /\ k = 5 => s = Len(K) + 1 /\ J[E[j]].kind = "ToolFinished" /\ r = Submit
                     /\ J[E[j]].body = <<E[P[Len(K)] + 3] - 1, "ok">>
         /\ s <= Len(K) + 1 /\ s - 1 \in 0..Len(K)
<1>1. PICK n \in Nat : n = Len(K)
  BY StoryEnds
<1>2. s \in 1..(n + 1) /\ k \in 1..5 /\ j = P[s - 1] + k
  BY <1>1 DEF Spot
<1>3. CASE s <= n
  <2>1. s \in 1..n /\ s # n + 1 /\ s - 1 \in 0..n
    BY <1>2, <1>3
  <2>2. k <= 4 /\ j <= P[s]
    BY <1>1, <1>3 DEF Spot
  <2>3. PICK b \in Nat : b = P[s - 1]
    BY <1>1, <2>1, StoryEnds
  <2>4. StepTold(J, E, K, b, P[s], s)
    BY <1>1, <2>1, <2>3 DEF Story
  <2>5. ReplyAt(K, r, s) = K[s][1]
    BY <1>1, <1>3 DEF ReplyAt
  <2>6. k = 1 => J[E[j]].kind = "ModelRequested" /\ J[E[j]].body = <<Upto(K, s - 1)>>
    BY <1>2, <2>3, <2>4 DEF StepTold, Reads
  <2>7. k = 2 => J[E[j]].kind = "ModelReplied" /\ J[E[j]].body = <<ReplyAt(K, r, s)>>
    BY <1>2, <2>3, <2>4, <2>5 DEF StepTold, Reads
  <2>8. k = 3 => J[E[j]].kind \in {"FormatError", "ToolStarted"}
    BY <1>2, <2>3, <2>4 DEF StepTold, Reads
  <2>9. k = 4 => P[s] = b + 4
    <3>1. P[s] = b + 3 \/ P[s] = b + 4
      BY <2>4 DEF StepTold
    <3> QED BY <1>2, <2>2, <2>3, <3>1
  <2>10. k = 4 => J[E[j]].kind = "ToolFinished" /\ K[s][1] # Malformed /\ j = P[s]
    BY <1>2, <2>3, <2>4, <2>9 DEF StepTold, Reads
  <2>11. k # 5
    BY <1>2, <2>2
  <2> QED BY <1>1, <2>1, <2>6, <2>7, <2>8, <2>10, <2>11
<1>4. CASE s = n + 1
  <2>1. s - 1 = n /\ ~(s <= n) /\ n \in 0..n
    BY <1>4
  <2>2. k <= t /\ t \in 0..5
    BY <1>1, <1>4, StoryEnds DEF Spot
  <2>3. PICK b \in Nat : b = P[n] /\ j = b + k
    BY <1>1, <1>2, <2>1, StoryEnds
  <2>4. StepOpen(J, E, K, b, t, r)
    BY <1>1, <2>3 DEF Story
  <2>5. ReplyAt(K, r, s) = r
    BY <1>1, <2>1 DEF ReplyAt
  <2>6. k = 1 => J[E[j]].kind = "ModelRequested" /\ J[E[j]].body = <<Upto(K, s - 1)>>
    BY <1>1, <1>2, <2>1, <2>2, <2>3, <2>4 DEF StepOpen, Reads
  <2>7. k = 2 => J[E[j]].kind = "ModelReplied" /\ J[E[j]].body = <<ReplyAt(K, r, s)>>
    BY <1>2, <2>2, <2>3, <2>4, <2>5 DEF StepOpen, Reads
  <2>8. k = 3 => J[E[j]].kind \in {"FormatError", "ToolStarted"}
    BY <1>2, <2>2, <2>3, <2>4 DEF StepOpen, Reads
  <2>9. k = 4 => J[E[j]].kind = "SubmitRequested"
    BY <1>2, <2>2, <2>3, <2>4 DEF StepOpen, Reads
  <2>10. k = 5 => J[E[j]].kind = "ToolFinished" /\ r = Submit /\ J[E[j]].body = <<E[P[Len(K)] + 3] - 1, "ok">>
    <3> SUFFICES ASSUME k = 5
                 PROVE  J[E[j]].kind = "ToolFinished" /\ r = Submit /\ J[E[j]].body = <<E[P[Len(K)] + 3] - 1, "ok">>
      OBVIOUS
    <3>1. t = 5 /\ t >= 4 /\ t >= 5 /\ j = b + 5
      BY <2>2, <2>3
    <3>2. Reads(J[E[b + 5]], "ToolFinished", Len(K) + 1, <<E[b + 3] - 1, "ok">>) /\ r = Submit
      BY <2>4, <3>1 DEF StepOpen
    <3>3. P[Len(K)] = b
      BY <1>1, <2>3
    <3> QED BY <3>1, <3>2, <3>3 DEF Reads
  <2> QED BY <1>1, <1>4, <2>1, <2>6, <2>7, <2>8, <2>9, <2>10
<1> QED BY <1>2, <1>3, <1>4

(* The records of the model are the first two of each step.                 *)
LEMMA ModelRecordsAre ==
  ASSUME NEW J, J[1].kind = "RunStarted" \/ J = <<>>,
         NEW E, NEW K, NEW P, NEW t, NEW r, Story(J, E, K, P, t, r),
         NEW n \in Nat, n = Len(K), NEW c \in Nat, c = 2 * n + Opened(t), NEW f, Fronts(f, P, c, n)
  PROVE  ModelRecords(J) = [j \in 1..c |-> J[E[f[j]]]]
<1> DEFINE I == {i \in DOMAIN J : J[i].kind \in {"ModelRequested", "ModelReplied"}}
<1>1. PICK g : g = [j \in 1..c |-> E[f[j]]]
  OBVIOUS
<1>2. DOMAIN J = 1..Len(J) /\ Len(J) \in Nat /\ J \in Seq(Range(J)) /\ Lists(E, Counted(J))
  BY DEF Story
<1>3. /\ \A i, j \in 0..c : i < j => f[i] < f[j]
      /\ \A j \in 1..c : f[j] \in 1..Len(E)
  BY FrontsRise
<1>4. \A j \in 1..Len(E) : E[j] \in 2..Len(J) /\ E[j] \in Nat
  BY <1>2, StoryEnds
<1>5. g \in Seq(Nat) /\ Len(g) = c
  <2>1. \A j \in 1..c : E[f[j]] \in Nat
    BY <1>3, <1>4
  <2> QED BY <1>1, <2>1
<1>6. t \in 0..5
  BY StoryEnds
<1>7. ASSUME NEW j \in 1..c PROVE J[g[j]].kind \in {"ModelRequested", "ModelReplied"}
  <2>1. PICK s \in 1..(n + 1) : j = 2 * s - 1 \/ j = 2 * s
    <3>1. n + 1 \in Nat /\ j \in 1..(2 * (n + 1))
      BY <1>6 DEF Opened
    <3> QED BY <3>1, Halves
  <2>2. PICK k \in {1, 2} : (j = 2 * s - 1 => k = 1) /\ (j = 2 * s => k = 2)
    <3>1. CASE j = 2 * s - 1
      BY <3>1
    <3>2. CASE j = 2 * s
      BY <3>2
    <3> QED BY <2>1, <3>1, <3>2
  <2>3. f[j] = P[s - 1] + k
    <3>1. CASE j = 2 * s - 1
      <4>1. 2 * s - 1 <= c
        BY <3>1
      <4>2. f[2 * s - 1] = P[s - 1] + 1
        BY <4>1 DEF Fronts
      <4> QED BY <2>2, <3>1, <4>2
    <3>2. CASE j = 2 * s
      <4>1. 2 * s <= c
        BY <3>2
      <4>2. f[2 * s] = P[s - 1] + 2
        BY <4>1 DEF Fronts
      <4> QED BY <2>2, <3>2, <4>2
    <3> QED BY <2>1, <3>1, <3>2
  <2>4. Spot(K, P, t, f[j], s, k)
    <3>1. s = n + 1 => k <= t
      BY <1>6, <2>1, <2>2 DEF Opened
    <3>2. s <= n => P[s - 1] + k <= P[s]
      <4>1. ASSUME s <= n PROVE P[s - 1] + k <= P[s]
        <5>1. s \in 1..n
          BY <4>1
        <5>2. s - 1 \in 0..Len(K) /\ P[s] \in {P[s - 1] + 3, P[s - 1] + 4}
          BY <5>1, StoryEnds
        <5>3. PICK b \in Nat : b = P[s - 1]
          BY <5>2, StoryEnds
        <5>4. P[s] \in {b + 3, b + 4}
          BY <5>2, <5>3
        <5>5. k \in {1, 2}
          BY <2>2
        <5>6. b + k <= P[s]
          BY ONLY <5>3, <5>4, <5>5
        <5> QED BY <5>3, <5>6
      <4> QED BY <4>1
    <3> QED BY <2>3, <3>1, <3>2 DEF Spot
  <2>5. J[E[f[j]]].kind \in {"ModelRequested", "ModelReplied"}
    BY <2>2, <2>4, RecordsSay
  <2> QED BY <1>1, <2>5
<1>8. \A j \in 1..c : g[j] \in I
  <2>1. \A j \in 1..c : g[j] \in 2..Len(J)
    BY <1>1, <1>3, <1>4
  <2> QED BY <1>2, <1>7, <2>1
<1>9. \A i, j \in 1..c : i < j => g[i] < g[j]
  <2> SUFFICES ASSUME NEW i \in 1..c, NEW j \in 1..c, i < j PROVE g[i] < g[j]
    OBVIOUS
  <2>1. f[i] < f[j] /\ f[i] \in 1..Len(E) /\ f[j] \in 1..Len(E)
    BY <1>3
  <2>2. E[f[i]] < E[f[j]]
    BY <1>2, <2>1 DEF Lists
  <2> QED BY <1>1, <2>2
<1>10. ASSUME NEW i \in I PROVE \E j \in 1..c : g[j] = i
  <2>1. i \in Counted(J)
    <3>1. i # 1
      BY <1>2
    <3>2. J[i].kind \notin Apart /\ i \in 2..Len(J)
      BY <1>2, <3>1 DEF Apart
    <3> QED BY <3>2 DEF Counted
  <2>2. PICK x \in 1..Len(E) : E[x] = i
    BY <1>2, <2>1 DEF Lists
  <2>3. PICK s, k : Spot(K, P, t, x, s, k)
    BY Located
  <2>4. k \in 1..5 /\ s \in 1..(n + 1) /\ x = P[s - 1] + k
    BY <2>3 DEF Spot
  <2>5. k \in {1, 2}
    <3>1. J[E[x]].kind \in {"ModelRequested", "ModelReplied"}
      BY <2>2
    <3>2. k # 3 /\ k # 5
      BY <2>3, <3>1, RecordsSay
    <3>3. k # 4
      <4>1. s <= Len(K) \/ s = Len(K) + 1
        BY <2>4
      <4> QED BY <2>3, <3>1, <4>1, RecordsSay
    <3> QED BY <2>4, <3>2, <3>3
  <2>6. s = n + 1 => k <= t
    BY <2>3 DEF Spot
  <2>7. CASE k = 1
    <3>1. 2 * s - 1 \in 1..c
      BY <1>6, <2>4, <2>6, <2>7 DEF Opened
    <3>2. f[2 * s - 1] = x
      BY <2>4, <2>7, <3>1 DEF Fronts
    <3>3. g[2 * s - 1] = i
      BY <1>1, <2>2, <3>1, <3>2
    <3> QED BY <3>1, <3>3
  <2>8. CASE k = 2
    <3>1. 2 * s \in 1..c
      BY <1>6, <2>4, <2>6, <2>8 DEF Opened
    <3>2. f[2 * s] = x
      BY <2>4, <2>8, <3>1 DEF Fronts
    <3>3. g[2 * s] = i
      BY <1>1, <2>2, <3>1, <3>2
    <3> QED BY <3>1, <3>3
  <2> QED BY <2>5, <2>7, <2>8
<1>11. Lists(g, I)
  <2> HIDE DEF I
  <2> QED BY <1>5, <1>8, <1>9, <1>10 DEF Lists
<1>12. Chosen(J, I) = [j \in 1..Len(g) |-> J[g[j]]]
  <2>1. PICK I2 : I2 = I
    OBVIOUS
  <2>2. I2 \subseteq 1..Len(J)
    BY <1>2, <2>1
  <2>5. Lists(g, I2)
    BY <1>11, <2>1
  <2>6. Chosen(J, I2) = Picked(J, g)
    BY <1>2, <2>2, <2>5, Chooses
  <2> QED BY <2>1, <2>6 DEF Picked
<1>13. [j \in 1..Len(g) |-> J[g[j]]] = [j \in 1..c |-> J[E[f[j]]]]
  BY <1>1, <1>5
<1> QED BY <1>12, <1>13 DEF ModelRecords

\* How many replies.
Held(K, t) == IF t >= 2 THEN Len(K) + 1 ELSE Len(K)

(* The exchanges are those of the turns, and of the step after them.        *)
LEMMA ExchangesAre ==
  ASSUME NEW J, J[1].kind = "RunStarted" \/ J = <<>>,
         NEW E, NEW K, NEW P, NEW t, NEW r, Story(J, E, K, P, t, r)
  PROVE  /\ Paired(J) => t # 1
         /\ t # 1 => Exchanges(J) = RepliesAfter(K, r, Held(K, t), 0)
<1>1. PICK n \in Nat : n = Len(K)
  BY StoryEnds
<1>2. t \in 0..5 /\ P \in [0..n -> Nat]
  BY <1>1, StoryEnds DEF Story, Ends
<1>3. PICK c \in Nat : c = 2 * n + Opened(t) /\ c <= 2 * n + 2
  BY <1>2 DEF Opened
<1>4. PICK f : Fronts(f, P, c, n)
  BY <1>2, <1>3, FrontsExist
<1>5. PICK model : model = [j \in 1..c |-> J[E[f[j]]]]
  OBVIOUS
<1>6. ModelRecords(J) = model
  BY <1>1, <1>3, <1>4, <1>5, ModelRecordsAre
<1>7. Len(model) = c
  BY <1>5
<1>8. Paired(J) => t # 1
  <2> SUFFICES ASSUME t = 1, Paired(J) PROVE FALSE
    OBVIOUS
  <2>1. c = 2 * n + 1
    BY <1>3 DEF Opened
  <2>2. (2 * n + 1) % 2 = 1
    OBVIOUS
  <2>3. c % 2 = 0
    BY <1>6, <1>7 DEF Paired
  <2> QED BY <2>1, <2>2, <2>3
<1>9. ASSUME t # 1 PROVE Exchanges(J) = RepliesAfter(K, r, Held(K, t), 0)
  <2>1. PICK m \in Nat : m = Held(K, t) /\ c = 2 * m /\ m <= n + 1
    BY <1>1, <1>2, <1>3, <1>9 DEF Held, Opened
  <2>2. c \div 2 = m
    BY <2>1
  <2>3. ASSUME NEW i \in 1..m
        PROVE  [request |-> model[2*i - 1].body[1], reply |-> model[2*i].body[1]] = ExchangeAt(K, r, 0 + i)
    <3>1. i \in 1..(n + 1) /\ 2 * i - 1 \in 1..c /\ 2 * i \in 1..c
      BY <2>1
    <3>2. model[2*i - 1] = J[E[P[i - 1] + 1]] /\ model[2*i] = J[E[P[i - 1] + 2]]
      <4>1. f[2 * i - 1] = P[i - 1] + 1 /\ f[2 * i] = P[i - 1] + 2
        BY <1>4, <3>1 DEF Fronts
      <4> QED BY <1>5, <3>1, <4>1
    <3>3. /\ J[E[P[i - 1] + 1]].body = <<Upto(K, i - 1)>>
          /\ J[E[P[i - 1] + 2]].body = <<ReplyAt(K, r, i)>>
      <4>1. CASE i <= n
        <5>1. StepTold(J, E, K, P[i - 1], P[i], i) /\ ReplyAt(K, r, i) = K[i][1]
          BY <1>1, <3>1, <4>1 DEF Story, ReplyAt
        <5> QED BY <5>1 DEF StepTold, Reads
      <4>2. CASE ~(i <= n)
        <5>1. i - 1 = n /\ t >= 2 /\ t >= 1
          BY <1>1, <1>2, <2>1, <4>2 DEF Held
        <5>2. StepOpen(J, E, K, P[i - 1], t, r) /\ ReplyAt(K, r, i) = r
          BY <1>1, <4>2, <5>1 DEF Story, ReplyAt
        <5> QED BY <1>1, <5>1, <5>2 DEF StepOpen, Reads
      <4> QED BY <4>1, <4>2
    <3>4. 0 + i = i
      OBVIOUS
    <3>5. model[2*i - 1].body[1] = Upto(K, i - 1) /\ model[2*i].body[1] = ReplyAt(K, r, i)
      BY <3>2, <3>3
    <3> QED BY <3>4, <3>5 DEF ExchangeAt
  <2>4. Exchanges(J) = [i \in 1..(c \div 2) |-> [request |-> model[2*i - 1].body[1], reply |-> model[2*i].body[1]]]
    BY <1>6, <1>7 DEF Exchanges
  <2>5. m - 0 = m
    OBVIOUS
  <2>6. RepliesAfter(K, r, m, 0) = [i \in 1..m |-> ExchangeAt(K, r, 0 + i)]
    BY <2>5 DEF RepliesAfter
  <2> QED BY <2>1, <2>2, <2>3, <2>4, <2>6
<1> QED BY <1>8, <1>9


(* The last record of a turn that had a result.                             *)
LEMMA FinishedAt ==
  ASSUME NEW J, NEW E, NEW K, NEW P, NEW t, NEW r, Story(J, E, K, P, t, r), NEW s \in Called(K)
  PROVE  /\ P[s] \in 1..Len(E) /\ E[P[s]] \in 2..Len(J)
         /\ J[E[P[s]]].kind = "ToolFinished" /\ J[E[P[s]]].body[2] = K[s][2]
         /\ CallOf(J, J[E[P[s]]]) = K[s][1] /\ K[s][1] \in Calls /\ K[s][1] # Submit
<1>1. PICK n \in Nat : n = Len(K)
  BY StoryEnds
<1>2. s \in 1..n /\ s - 1 \in 0..n /\ s \in 0..n /\ K[s][1] # Malformed
  BY <1>1 DEF Called
<1>3. PICK b \in Nat : b = P[s - 1]
  BY <1>1, <1>2, StoryEnds
<1>4. StepTold(J, E, K, b, P[s], s)
  BY <1>1, <1>2, <1>3 DEF Story
<1>5. P[s] = b + 4 /\ Reads(J[E[b + 3]], "ToolStarted", s, <<K[s][1]>>)
                   /\ Reads(J[E[b + 4]], "ToolFinished", s, <<E[b + 3] - 1, K[s][2]>>)
  BY <1>2, <1>4 DEF StepTold
<1>6. P[s] <= P[n] /\ P[n] \in Nat /\ Len(E) = P[n] + t /\ t \in 0..5
  BY <1>1, <1>2, StoryEnds
<1>7. b + 4 \in 1..Len(E) /\ b + 3 \in 1..Len(E)
  <2>1. b + 4 <= P[n]
    BY <1>5, <1>6
  <2> QED BY ONLY <1>3, <1>6, <2>1
<1>8. E[b + 4] \in 2..Len(J) /\ E[b + 3] \in 2..Len(J)
  BY <1>7, StoryEnds
<1>9. (E[b + 3] - 1) + 1 = E[b + 3]
  BY <1>8
<1>10. CallOf(J, J[E[b + 4]]) = K[s][1]
  <2>1. J[E[b + 4]].body[1] = E[b + 3] - 1
    BY <1>5 DEF Reads
  <2>2. J[E[b + 3]].body[1] = K[s][1]
    BY <1>5 DEF Reads
  <2> QED BY <1>9, <2>1, <2>2 DEF CallOf
<1>11. K[s][1] \in Calls
  <2>1. OneTurn(K[s])
    BY <1>1, <1>2 DEF Story, Turns
  <2> QED BY <1>2, <2>1 DEF OneTurn
<1>12. K[s][1] # Submit
  BY <1>11, LifecycleAssumption
<1>13. J[E[b + 4]].kind = "ToolFinished" /\ J[E[b + 4]].body[2] = K[s][2]
  BY <1>5 DEF Reads
<1> QED BY <1>5, <1>7, <1>8, <1>10, <1>11, <1>12, <1>13

(* No other record holds the result of a call.                              *)
LEMMA OnlyTheCalled ==
  ASSUME NEW J, J[1].kind = "RunStarted" \/ J = <<>>,
         NEW E, NEW K, NEW P, NEW t, NEW r, Story(J, E, K, P, t, r),
         NEW i \in DOMAIN J, J[i].kind = "ToolFinished", CallOf(J, J[i]) # Submit
  PROVE  \E s \in Called(K) : i = E[P[s]]
<1>1. DOMAIN J = 1..Len(J) /\ Len(J) \in Nat /\ Lists(E, Counted(J))
  BY DEF Story
<1>2. i \in Counted(J)
  <2>1. i # 1
    BY <1>1
  <2>2. J[i].kind \notin Apart /\ i \in 2..Len(J)
    BY <1>1, <2>1 DEF Apart
  <2> QED BY <2>2 DEF Counted
<1>3. PICK x \in 1..Len(E) : E[x] = i
  BY <1>1, <1>2 DEF Lists
<1>4. PICK s, k : Spot(K, P, t, x, s, k)
  BY Located
<1>5. k \in 1..5 /\ s \in 1..(Len(K) + 1) /\ Len(K) \in Nat
  BY <1>4, StoryEnds DEF Spot
<1>6. k \notin {1, 2, 3} /\ ~(k = 4 /\ s = Len(K) + 1)
  <2>1. J[E[x]].kind = "ToolFinished"
    BY <1>3
  <2> QED BY <1>4, <2>1, RecordsSay
<1>7. k # 5
  <2> SUFFICES ASSUME k = 5 PROVE FALSE
    OBVIOUS
  <2>1. s = Len(K) + 1 /\ r = Submit /\ J[i].body = <<E[P[Len(K)] + 3] - 1, "ok">>
    BY <1>3, <1>4, RecordsSay
  <2>2. t \in 0..5 /\ t >= 5
    BY <1>4, <2>1, StoryEnds DEF Spot
  <2>3. PICK b \in Nat : b = P[Len(K)] /\ Len(E) = b + t
    BY <1>5, StoryEnds
  <2>4. StepOpen(J, E, K, b, t, r)
    BY <2>3 DEF Story
  <2>5. Reads(J[E[b + 3]], "ToolStarted", Len(K) + 1, <<r>>)
    BY <2>2, <2>4 DEF StepOpen
  <2>6. b + 3 \in 1..Len(E)
    BY <2>2, <2>3
  <2>7. E[b + 3] \in 2..Len(J)
    BY <2>6, StoryEnds
  <2>8. (E[b + 3] - 1) + 1 = E[b + 3]
    BY <2>7
  <2>9. CallOf(J, J[i]) = Submit
    BY <2>1, <2>3, <2>5, <2>8 DEF CallOf, Reads
  <2> QED BY <2>9
<1>8. k = 4 /\ s \in 1..Len(K)
  BY <1>5, <1>6, <1>7
<1>9. K[s][1] # Malformed /\ x = P[s]
  BY <1>4, <1>8, RecordsSay
<1> QED BY <1>3, <1>8, <1>9 DEF Called

(* The results are those of the turns that had one.                         *)
LEMMA ResultsAre ==
  ASSUME NEW J, J[1].kind = "RunStarted" \/ J = <<>>,
         NEW E, NEW K, NEW P, NEW t, NEW r, Story(J, E, K, P, t, r), NEW N, Lists(N, Called(K))
  PROVE  RecordedResults(J) = ResultsAfter(K, N, 0)
<1> DEFINE I == {i \in DOMAIN J : J[i].kind = "ToolFinished" /\ CallOf(J, J[i]) # Submit}
<1>1. PICK g : g = [i \in 1..Len(N) |-> E[P[N[i]]]]
  OBVIOUS
<1>2. DOMAIN J = 1..Len(J) /\ Len(J) \in Nat /\ J \in Seq(Range(J)) /\ Lists(E, Counted(J))
  BY DEF Story
<1>3. /\ N \in Seq(Nat) /\ Len(N) \in Nat /\ \A i \in 1..Len(N) : N[i] \in Called(K)
      /\ \A i, j \in 1..Len(N) : i < j => N[i] < N[j]
      /\ \A s \in Called(K) : \E i \in 1..Len(N) : N[i] = s
  BY DEF Lists
<1>4. /\ \A s \in Called(K) : P[s] \in 1..Len(E) /\ E[P[s]] \in 2..Len(J) /\ s \in 0..Len(K)
      /\ \A s \in Called(K) : J[E[P[s]]].kind = "ToolFinished" /\ CallOf(J, J[E[P[s]]]) # Submit
  <2>1. \A s \in Called(K) : s \in 0..Len(K)
    BY DEF Called
  <2> QED BY <2>1, FinishedAt
<1>5. \A s \in Called(K) : E[P[s]] \in I /\ E[P[s]] \in Nat
  BY <1>2, <1>4
<1>6. g \in Seq(Nat) /\ Len(g) = Len(N)
  <2>1. \A i \in 1..Len(N) : E[P[N[i]]] \in Nat
    BY <1>3, <1>5
  <2> QED BY <1>1, <1>3, <2>1
<1>7. \A i \in 1..Len(N) : g[i] \in I
  <2> HIDE DEF I
  <2> QED BY <1>1, <1>3, <1>5
<1>8. ASSUME NEW i \in 1..Len(N), NEW j \in 1..Len(N), i < j PROVE g[i] < g[j]
  <2>1. N[i] < N[j] /\ N[i] \in Called(K) /\ N[j] \in Called(K)
    BY <1>3, <1>8
  <2>2. P[N[i]] < P[N[j]]
    BY <1>4, <2>1, StoryEnds
  <2>3. E[P[N[i]]] < E[P[N[j]]]
    BY <1>2, <1>4, <2>1, <2>2 DEF Lists
  <2> QED BY <1>1, <2>3
<1>9. ASSUME NEW x \in I PROVE \E i \in 1..Len(N) : g[i] = x
  <2>1. PICK s \in Called(K) : x = E[P[s]]
    BY OnlyTheCalled
  <2>2. PICK i \in 1..Len(N) : N[i] = s
    BY <1>3
  <2>3. g[i] = x
    BY <1>1, <2>1, <2>2
  <2> QED BY <2>3
<1>10. PICK I2 : I2 = I
  OBVIOUS
<1>11. Lists(g, I2) /\ I2 \subseteq 1..Len(J)
  <2>1. I2 \subseteq 1..Len(J)
    BY <1>2, <1>10
  <2> HIDE DEF I
  <2>2. \A i, j \in 1..Len(g) : i < j => g[i] < g[j]
    BY <1>6, <1>8
  <2>3. \A x \in I2 : \E i \in 1..Len(g) : g[i] = x
    BY <1>6, <1>9, <1>10
  <2>4. \A i \in 1..Len(g) : g[i] \in I2
    BY <1>6, <1>7, <1>10
  <2>5. Lists(g, I2)
    BY <1>6, <2>2, <2>3, <2>4 DEF Lists
  <2> QED BY <2>1, <2>5
<1>13. Chosen(J, I2) = [i \in 1..Len(g) |-> J[g[i]]]
  <2>1. Chosen(J, I2) = Picked(J, g)
    BY <1>2, <1>11, Chooses
  <2> QED BY <2>1 DEF Picked
<1>14. PICK finished : finished = Chosen(J, I)
  OBVIOUS
<1>15. DOMAIN finished = 1..Len(N) /\ \A i \in 1..Len(N) : finished[i] = J[E[P[N[i]]]]
  <2> HIDE DEF I
  <2>1. finished = [i \in 1..Len(N) |-> J[g[i]]]
    BY <1>6, <1>10, <1>13, <1>14
  <2> QED BY <1>1, <2>1
<1>16. RecordedResults(J) =
         [i \in DOMAIN finished |-> [call |-> CallOf(J, finished[i]), result |-> finished[i].body[2]]]
  BY <1>14 DEF RecordedResults
<1>17. ASSUME NEW i \in 1..Len(N)
       PROVE  CallOf(J, finished[i]) = K[N[i]][1] /\ finished[i].body[2] = K[N[i]][2]
  <2>1. PICK s \in Called(K) : s = N[i]
    BY <1>3
  <2>2. J[E[P[s]]].body[2] = K[s][2] /\ CallOf(J, J[E[P[s]]]) = K[s][1]
    BY FinishedAt
  <2> QED BY <1>15, <2>1, <2>2
<1>18. RecordedResults(J) = [i \in 1..Len(N) |-> ResultAt(K, N[i])]
  <2> HIDE DEF I
  <2> QED BY <1>15, <1>16, <1>17 DEF ResultAt
<1>19. 1..(Len(N) - 0) = 1..Len(N) /\ \A i \in 1..Len(N) : 0 + i = i
  BY <1>3
<1> QED BY <1>18, <1>19 DEF ResultsAfter

-----------------------------------------------------------------------------
(***************************************************************************)
(* The invariant: what every journal tells, and what every process plays.   *)
(***************************************************************************)
\* What a process replays of the attempt it read.
Source(d) ==
  LET read == Upto(attempts[d.from], d.head)
  IN  IF d.role = "audit" THEN read ELSE IF d.from = 0 THEN <<>> ELSE Kept(read)

\* A journal S gives the script K, m, r, N; kept, it ends between two steps.
Gives(S, K, m, r, N) ==
  \E E, P, t : /\ Story(S, E, K, P, t, r) /\ t # 1 /\ (t >= 2 => r # Diverged)
               /\ m = Held(K, t) /\ ScriptOK(K, m, r, N)

GivesKept(S, K, m, r, N) ==
  \E E, P : Story(S, E, K, P, 0, r) /\ ~Stopped(S) /\ m = Len(K) /\ ScriptOK(K, m, r, N)

Starting == {"list", "mkdir", "header"}
Running  == LoopPCs \cup {"compare"}

\* A process that has the script and has done nothing.
Fresh(d, K, m, r, N) ==
  d.turns = <<>> /\ d.step = 0 /\ ~d.diverged /\ d.above = FALSE /\ Fed(d, K, m, r, N, 0, 0, None)

\* The header of the journal says what was read.
Heads(d, J) == J[1].body[1] = d.from /\ J[1].body[2] = d.head

Telling(d) ==
  d.pc \in Starting \cup Running =>
    \E K, m, r, N :
      /\ IF d.role = "audit" THEN Gives(Source(d), K, m, r, N) ELSE GivesKept(Source(d), K, m, r, N)
      /\ d.pc \in Starting => Fresh(d, K, m, r, N)
      /\ d.pc \in Running =>
           /\ Playing(d, Owned(d), K, m, r, N)
           /\ d.role # "audit" => Heads(d, Owned(d))

\* The first k records tell a story; before a later step they tell whole steps.
TellsUpto(J, k) ==
  \E E, K, P, t, r :
    /\ Story(Upto(J, k), E, K, P, t, r) /\ (t >= 2 => r # Diverged)
    /\ k \in 1..(Len(J) - 1) /\ J[k + 1].step > J[k].step => t = 0

PrefixTold(J) == \A k \in 0..Len(J) : TellsUpto(J, k)

\* The journal J goes through the turns of what was kept, S, as far as it goes.
Repeats(J, S) ==
  \E E, K, P, t, r, E2, K2, P2, r2 :
    /\ Story(J, E, K, P, t, r) /\ Story(S, E2, K2, P2, 0, r2) /\ ~Stopped(S)
    /\ Follows(K, t, r, K2, Len(K2), r2)

Resumes(n) ==
  LET header == attempts[n][1].body
  IN  header[1] # 0 => Repeats(attempts[n], Kept(Upto(attempts[header[1]], header[2])))

JournalsTold == \A n \in DOMAIN attempts : PrefixTold(attempts[n]) /\ (attempts[n] # <<>> => Resumes(n))
DriversTold  == \A p \in Processes : Telling(driver[p])

(* The empty sequence.                                                      *)
LEMMA EmptyIs ==
  /\ <<>> \in Seq(Nat) /\ <<>> \in Seq(Range(<<>>))
  /\ Len(<<>>) = 0 /\ DOMAIN <<>> = {}
OBVIOUS

(* A journal in which nothing is counted tells no turn.                     *)
LEMMA StoryNone ==
  ASSUME NEW J, J \in Seq(Range(J)), Counted(J) = {}, ~Stopped(J), NEW r
  PROVE  \E P : Story(J, <<>>, <<>>, P, 0, r)
<1>1. PICK P : P = [s \in 0..0 |-> 0]
  OBVIOUS
<1>2. PICK none : none = <<>> /\ none \in Seq(Nat) /\ none \in Seq(Range(none)) /\ Len(none) = 0 /\ DOMAIN none = {}
  BY EmptyIs
<1>3. 1..0 = {}
  OBVIOUS
<1>4. Lists(none, Counted(J))
  BY <1>2, <1>3 DEF Lists
<1>5. Turns(none) /\ Limited(none, 0)
  BY <1>2, <1>3, LifecycleAssumption DEF Turns, Limited
<1>6. Ends(none, none, P, 0)
  <2>1. P \in [0..0 -> Nat] /\ P[0] = 0 /\ 0 \in 0..5
    BY <1>1
  <2> QED BY <1>2, <2>1 DEF Ends
<1>7. StepOpen(J, none, none, P[Len(none)], 0, r)
  <2>1. ~(0 >= 1) /\ ~(0 >= 2) /\ ~(0 >= 3) /\ ~(0 >= 4) /\ ~(0 >= 5)
    OBVIOUS
  <2> QED BY <2>1 DEF StepOpen
<1>8. \A s \in 1..Len(none) : StepTold(J, none, none, P[s - 1], P[s], s)
  BY <1>2, <1>3
<1>9. Story(J, none, none, P, 0, r)
  BY <1>4, <1>5, <1>6, <1>7, <1>8 DEF Story
<1> QED BY <1>2, <1>9

(* And it gives nothing to replay.                                          *)
LEMMA NothingGiven ==
  ASSUME NEW r
  PROVE  /\ Lists(<<>>, Called(<<>>)) /\ ScriptOK(<<>>, 0, r, <<>>) /\ Held(<<>>, 0) = 0
         /\ GivesKept(<<>>, <<>>, 0, r, <<>>)
<1>1. PICK none : none = <<>> /\ none \in Seq(Nat) /\ none \in Seq(Range(none)) /\ Len(none) = 0 /\ DOMAIN none = {}
  BY EmptyIs
<1>2. 1..0 = {} /\ 2..0 = {} /\ ~(0 > 0) /\ 0 \in {0, 0 + 1} /\ ~(0 >= 2) /\ 0 # 1
  OBVIOUS
<1>3. Lists(none, Called(none))
  BY <1>1, <1>2 DEF Lists, Called
<1>4. Turns(none)
  BY <1>1, <1>2 DEF Turns
<1>5. ScriptOK(none, 0, r, none)
  BY <1>1, <1>2, <1>3, <1>4 DEF ScriptOK
<1>6. Held(none, 0) = 0
  BY <1>1, <1>2 DEF Held
<1>7. Counted(none) = {} /\ ~Stopped(none)
  BY <1>1, <1>2 DEF Counted, Stopped
<1>8. PICK P : Story(none, none, none, P, 0, r)
  BY <1>1, <1>7, StoryNone
<1>9. GivesKept(none, none, 0, r, none)
  BY <1>1, <1>5, <1>7, <1>8 DEF GivesKept
<1> QED BY <1>1, <1>3, <1>5, <1>6, <1>9

(* What was read and is kept does not change.                               *)
LEMMA ReadStays ==
  ASSUME Grown, NEW n \in DOMAIN attempts, NEW h, 1..h \subseteq DOMAIN attempts[n]
  PROVE  Upto(attempts'[n], h) = Upto(attempts[n], h)
<1>1. \A i \in 1..h : attempts'[n][i] = attempts[n][i]
  BY DEF Grown
<1> QED BY <1>1 DEF Upto

(* So neither does what a process replays.                                  *)
LEMMA SourceStays ==
  ASSUME Journals, Grown, NEW d, d.pc \in Starting \cup Running, Placed(d), d.head \in Nat, Timely(d)
  PROVE  Source(d)' = Source(d)
<1>1. CASE d.role = "audit"
  <2>1. d.pc # "idle"
    BY DEF Starting, Running, LoopPCs
  <2>2. d.from \in DOMAIN attempts /\ 1..d.head \subseteq DOMAIN attempts[d.from]
    BY <1>1, <2>1 DEF Placed
  <2>3. Upto(attempts'[d.from], d.head) = Upto(attempts[d.from], d.head)
    BY <2>2, ReadStays
  <2> QED BY <1>1, <2>3 DEF Source
<1>2. CASE d.role # "audit" /\ d.from # 0
  <2>1. d.pc \in {"list", "mkdir", "header"} \cup LoopPCs
    BY <1>2 DEF Timely, Starting, Running
  <2>2. d.from \in DOMAIN attempts /\ d.head \in DOMAIN attempts[d.from]
    BY <1>2, <2>1 DEF Placed, CarriedIs, Begun
  <2>3. 1..d.head \subseteq DOMAIN attempts[d.from]
    <3>1. attempts[d.from] \in Seq(Range(attempts[d.from]))
      BY <2>2 DEF Journals, Whole
    <3>2. DOMAIN attempts[d.from] = 1..Len(attempts[d.from]) /\ Len(attempts[d.from]) \in Nat
      BY <3>1
    <3> QED BY <2>2, <3>2
  <2>4. Upto(attempts'[d.from], d.head) = Upto(attempts[d.from], d.head)
    BY <2>2, <2>3, ReadStays
  <2> QED BY <1>2, <2>4 DEF Source
<1>3. CASE d.role # "audit" /\ d.from = 0
  BY <1>3 DEF Source
<1> QED BY <1>1, <1>2, <1>3

(* So a process goes on with what it does while its journal is left alone.  *)
LEMMA TellingStays ==
  ASSUME Journals, Grown, NEW d, Typed(d), Timely(d), Placed(d), Telling(d),
         d.role # "audit" /\ d.pc \in LoopPCs => attempts'[d.attempt] = attempts[d.attempt]
  PROVE  Telling(d)'
<1> SUFFICES ASSUME d.pc \in Starting \cup Running
             PROVE  \E K, m, r, N :
                      /\ IF d.role = "audit" THEN Gives(Source(d)', K, m, r, N)
                         ELSE GivesKept(Source(d)', K, m, r, N)
                      /\ d.pc \in Starting => Fresh(d, K, m, r, N)
                      /\ d.pc \in Running =>
                           /\ Playing(d, Owned(d)', K, m, r, N)
                           /\ d.role # "audit" => Heads(d, Owned(d)')
  BY DEF Telling
<1>1. Source(d)' = Source(d)
  BY SourceStays DEF Typed
<1>2. d.pc \in Running => Owned(d)' = Owned(d)
  BY DEF Running, Owned, Timely
<1> QED BY <1>1, <1>2 DEF Telling

-----------------------------------------------------------------------------
(***************************************************************************)
(* A process takes what was recorded as its script, and starts to play it.  *)
(***************************************************************************)
(* A story gives the script, with the replies and results to feed.          *)
LEMMA StoryGives ==
  ASSUME NEW S, S[1].kind = "RunStarted" \/ S = <<>>,
         NEW E, NEW K, NEW P, NEW t, NEW r, Story(S, E, K, P, t, r), t # 1, t >= 2 => r # Diverged
  PROVE  \E m, N : /\ Gives(S, K, m, r, N) /\ (t = 0 /\ ~Stopped(S) => GivesKept(S, K, m, r, N))
                   /\ ScriptOK(K, m, r, N)
                   /\ Exchanges(S) = RepliesAfter(K, r, m, 0) /\ RecordedResults(S) = ResultsAfter(K, N, 0)
<1>1. PICK n \in Nat : n = Len(K)
  BY StoryEnds
<1>2. PICK N : Lists(N, Called(K))
  <2>1. Called(K) \subseteq 1..n
    BY <1>1 DEF Called
  <2> QED BY <2>1, ListExists
<1>3. PICK m : m = Held(K, t)
  OBVIOUS
<1>4. ScriptOK(K, m, r, N)
  <2>1. m \in {n, n + 1} /\ (m > n => t >= 2)
    BY <1>1, <1>3 DEF Held
  <2>2. t >= 2 => r \in Answers
    <3>1. StepOpen(S, E, K, P[Len(K)], t, r)
      BY DEF Story
    <3> QED BY <3>1 DEF StepOpen
  <2>3. t >= 2 => r \in Replies
    BY <2>2 DEF Answers
  <2>4. Turns(K)
    BY DEF Story
  <2> QED BY <1>1, <1>2, <2>1, <2>3, <2>4 DEF ScriptOK
<1>5. Gives(S, K, m, r, N) /\ (t = 0 /\ ~Stopped(S) => GivesKept(S, K, m, r, N))
  <2>1. t = 0 => m = Len(K)
    BY <1>3 DEF Held
  <2> QED BY <1>3, <1>4, <2>1 DEF Gives, GivesKept
<1>6. Exchanges(S) = RepliesAfter(K, r, m, 0)
  BY <1>3, ExchangesAre
<1>7. RecordedResults(S) = ResultsAfter(K, N, 0)
  BY <1>2, ResultsAre
<1> QED BY <1>4, <1>5, <1>6, <1>7

(* A process that is given both has the script before it.                   *)
LEMMA FreshIs ==
  ASSUME NEW K, NEW m, NEW r, NEW N, ScriptOK(K, m, r, N),
         NEW d, d.turns = <<>>, d.step = 0, ~d.diverged, d.above = FALSE,
         d.replies = RepliesAfter(K, r, m, 0), d.results = ResultsAfter(K, N, 0)
  PROVE  Fresh(d, K, m, r, N)
<1>1. PICK none : none = d.turns /\ Len(none) = 0 /\ 1..Len(none) = {}
  <2>1. Len(d.turns) = 0 /\ 1..0 = {}
    BY EmptyIs
  <2> QED BY <2>1
<1>2. Taken(none, 0) = 0
  BY <1>1 DEF Taken
<1>3. d.replies = [i \in 1..(m - Taken(d.turns, 0)) |-> ExchangeAt(K, r, Taken(d.turns, 0) + i)]
  BY <1>1, <1>2 DEF RepliesAfter
<1>4. d.results = [i \in 1..(Len(N) - 0) |-> ResultAt(K, N[0 + i])]
  BY DEF ResultsAfter
<1>5. FedUpTo(N, 0, Len(d.turns))
  <2>1. Len(N) \in Nat /\ \A i \in 1..Len(N) : N[i] \in Called(K) /\ N[i] \in Nat
    BY DEF ScriptOK, Lists
  <2>2. \A i \in 1..Len(N) : ~(i <= 0) /\ ~(N[i] <= 0)
    BY <2>1 DEF Called
  <2>3. 0 \in 0..Len(N)
    BY <2>1
  <2> QED BY <1>1, <2>2, <2>3 DEF FedUpTo
<1>6. Follows(d.turns, 0, None, K, m, r)
  <2>1. ~(0 >= 2)
    OBVIOUS
  <2> QED BY <1>1, <2>1 DEF Follows
<1>7. Fed(d, K, m, r, N, 0, 0, None)
  BY <1>3, <1>4, <1>5, <1>6 DEF Fed
<1> QED BY <1>7 DEF Fresh

\* The fields of a process that its script is about.
SameScript(d, e) ==
  /\ e.turns = d.turns /\ e.step = d.step /\ e.diverged = d.diverged /\ e.above = d.above
  /\ e.replies = d.replies /\ e.results = d.results

(* It still has, when nothing of that changes.                              *)
LEMMA FreshStays ==
  ASSUME NEW K, NEW m, NEW r, NEW N, NEW d, Fresh(d, K, m, r, N), NEW e, SameScript(d, e)
  PROVE  Fresh(e, K, m, r, N)
BY DEF Fresh, Fed, SameScript

\* A journal of one record, its header.
HeaderOnly(J) == J \in Seq(Range(J)) /\ Len(J) = 1 /\ J[1].kind = "RunStarted"

(* With its header written it plays.                                        *)
LEMMA StartPlays ==
  ASSUME NEW K, NEW m, NEW r, NEW N, NEW e, Fresh(e, K, m, r, N), e.pc = "begin", NEW J, HeaderOnly(J)
  PROVE  Playing(e, J, K, m, r, N)
<1>1. PICK none : none = e.turns /\ none = <<>>
  BY DEF Fresh
<1>2. J \in Seq(Range(J)) /\ Len(J) = 1 /\ J[1].kind = "RunStarted"
  BY DEF HeaderOnly
<1>3. Counted(J) = {} /\ ~Stopped(J)
  <2>1. 2..1 = {}
    OBVIOUS
  <2>2. Counted(J) = {}
    BY <1>2, <2>1 DEF Counted
  <2>3. ~Stopped(J)
    BY <1>2 DEF Stopped
  <2> QED BY <2>2, <2>3
<1>4. PICK P : Story(J, <<>>, <<>>, P, 0, None)
  BY <1>2, <1>3, StoryNone
<1>5. Story(J, <<>>, e.turns, P, 0, None)
  BY <1>1, <1>4
<1>6. Steady(e, J, 0, None)
  <2>1. e.step = 0 /\ Len(e.turns) = 0 /\ ~e.diverged /\ e.above = FALSE
    BY <1>1, EmptyIs DEF Fresh
  <2>2. Len(J) >= 1 /\ 0 \in {0, 0 + 1} /\ ~(0 > 0) /\ ~(0 >= 2)
    BY <1>2
  <2>3. \A i \in 1..Len(J) : J[i].kind # "BudgetCharged"
    BY <1>2
  <2> QED BY <2>1, <2>2, <2>3 DEF Steady
<1>7. ASSUME NEW at PROVE Where(e, at, 0, None)
  <2>1. e.step = Len(e.turns)
    BY <1>1, EmptyIs DEF Fresh
  <2>2. "begin" \in Onward
    BY DEF Onward, LoopPCs
  <2> QED BY <2>1, <2>2 DEF Where
<1>8. Stand(e, J)
  <2>1. \A i \in 1..(Len(J) - 1) : J[i].kind # "RunStopped"
    BY <1>2
  <2> QED BY <1>2, <1>3, <2>1 DEF Stand, OneStop
<1>9. Fed(e, K, m, r, N, 0, 0, None)
  BY DEF Fresh
<1>10. Plays(e, J, K, m, r, N, <<>>, P, 0, None, 0)
  BY <1>5, <1>6, <1>7, <1>8, <1>9 DEF Plays
<1> QED BY <1>10 DEF Playing

-----------------------------------------------------------------------------
(***************************************************************************)
(* The invariant is kept.                                                   *)
(***************************************************************************)
(* A process that writes no attempt moves.                                  *)
LEMMA AsideTold ==
  ASSUME IInv, JournalsTold, DriversTold, NEW p \in Processes, NEW next, Quietly(p, next), Telling(next)
  PROVE  JournalsTold' /\ DriversTold'
<1>1. /\ attempts' = attempts /\ driver'[p] = next
      /\ \A q \in Processes \ {p} : driver'[q] = driver[q]
  BY DEF Quietly, IInv, Drivers
<1>2. JournalsTold'
  BY <1>1 DEF JournalsTold, Resumes
<1>3. \A q \in Processes : Telling(driver'[q])
  BY <1>1 DEF DriversTold
<1>4. \A q \in Processes : Telling(driver[q])'
  BY <1>1, <1>3 DEF Telling, Source, Owned
<1> QED BY <1>2, <1>4 DEF DriversTold

(* So does one that has nothing to tell.                                    *)
LEMMA OutsideTold ==
  ASSUME IInv, JournalsTold, DriversTold, NEW p \in Processes, NEW next, Quietly(p, next),
         next.pc \notin Starting \cup Running
  PROVE  JournalsTold' /\ DriversTold'
BY AsideTold DEF Telling

(* The idle process is one.                                                 *)
LEMMA IdleOutside == Idle.pc \notin Starting \cup Running
BY DEF Idle, Starting, Running, LoopPCs

(* What a resume keeps of a journal is its script.                          *)
LEMMA KeptGives ==
  ASSUME NEW J, Whole(J), J # <<>>, PrefixTold(J)
  PROVE  \E K, m, r, N : /\ GivesKept(Kept(J), K, m, r, N) /\ ScriptOK(K, m, r, N)
                         /\ Exchanges(Kept(J)) = RepliesAfter(K, r, m, 0)
                         /\ RecordedResults(Kept(J)) = ResultsAfter(K, N, 0)
<1>1. J \in Seq(Range(J)) /\ Len(J) \in Nat /\ DOMAIN J = 1..Len(J) /\ Len(J) \in 1..Len(J)
  BY DEF Whole
<1>2. Upto(J, Len(J)) = J
  BY <1>1, UptoAll
<1>3. PICK k \in 0..(Len(J) - 1) : Kept(J) = Upto(J, k) /\ (k >= 1 => J[k + 1].step > J[k].step)
  BY <1>1, <1>2, KeptIs
<1>4. k \in 0..Len(J)
  BY <1>1, <1>3
<1>5. PICK E, K, P, t, r :
        /\ Story(Upto(J, k), E, K, P, t, r) /\ (t >= 2 => r # Diverged)
        /\ k \in 1..(Len(J) - 1) /\ J[k + 1].step > J[k].step => t = 0
  BY <1>4 DEF PrefixTold, TellsUpto
<1>6. PICK S : S = Upto(J, k) /\ Len(S) = k /\ \A i \in 1..k : S[i] = J[i]
  BY <1>3, <1>1 DEF Upto
<1>7. t = 0
  <2>1. CASE k = 0
    <3>1. Len(E) = P[Len(K)] + t /\ t \in 0..5 /\ P[Len(K)] \in Nat /\ Len(E) \in Nat
      <4>1. Len(K) \in 0..Len(K)
        BY <1>5, StoryEnds
      <4> QED BY <1>5, <4>1, StoryEnds
    <3>2. Len(E) = 0
      <4>1. \A j \in 1..Len(E) : E[j] \in 2..Len(S)
        BY <1>5, <1>6, StoryEnds
      <4>2. 2..Len(S) = {}
        BY <1>6, <2>1
      <4>3. Len(E) # 0 => 1 \in 1..Len(E)
        BY <3>1
      <4> QED BY <4>1, <4>2, <4>3
    <3> QED BY <3>1, <3>2
  <2>2. CASE k # 0
    BY <1>1, <1>3, <1>5, <2>2
  <2> QED BY <2>1, <2>2
<1>8. ~Stopped(S)
  <2> SUFFICES ASSUME Stopped(S) PROVE FALSE
    OBVIOUS
  <2>1. k # 0
    BY <1>6 DEF Stopped, Upto
  <2>2. k \in 1..k /\ k \in DOMAIN J /\ k # Len(J)
    <3>1. \A n \in Nat : \A i \in 0..(n - 1) : i # 0 => i \in 1..i /\ i \in 1..n /\ i # n
      OBVIOUS
    <3> QED BY <1>1, <2>1, <3>1
  <2>3. J[k].kind = "RunStopped"
    BY <1>6, <2>2 DEF Stopped
  <2> QED BY <2>2, <2>3 DEF Whole, RecordOK
<1>9. S[1].kind = "RunStarted" \/ S = <<>>
  <2>1. CASE k = 0
    <3>1. S = <<>>
      BY <1>6, <2>1 DEF Upto
    <3> QED BY <3>1
  <2>2. CASE k # 0
    <3>1. 1 \in 1..k /\ 1 \in DOMAIN J
      BY <1>1, <1>3, <2>2
    <3> QED BY <1>6, <3>1 DEF Whole, RecordOK
  <2> QED BY <2>1, <2>2
<1>10. Story(S, E, K, P, t, r) /\ t # 1 /\ (t >= 2 => r # Diverged)
  BY <1>5, <1>6, <1>7
<1>11. PICK m, N : /\ GivesKept(S, K, m, r, N) /\ ScriptOK(K, m, r, N)
                   /\ Exchanges(S) = RepliesAfter(K, r, m, 0) /\ RecordedResults(S) = ResultsAfter(K, N, 0)
  BY <1>7, <1>8, <1>9, <1>10, StoryGives
<1> QED BY <1>3, <1>6, <1>11

(* A resume has the script of the steps it keeps.                           *)
LEMMA ResumeTells ==
  ASSUME IInv, JournalsTold, DriversTold, NEW p \in Processes, Resume(p)
  PROVE  JournalsTold' /\ DriversTold'
<1> DEFINE n       == Len(attempts)
           records == attempts[n]
           kept    == Kept(records)
           next    == [Idle EXCEPT
                         !.pc = "list", !.role = "resume",
                         !.from = n, !.head = Len(records), !.carried = Carried(records),
                         !.replies = Exchanges(kept), !.results = RecordedResults(kept)]
<1>1. n > 0 /\ records # <<>> /\ Quietly(p, next)
  BY DEF Resume
<1>2. /\ next.pc = "list" /\ next.role = "resume" /\ next.from = n /\ next.head = Len(records)
      /\ next.replies = Exchanges(kept) /\ next.results = RecordedResults(kept)
      /\ next.turns = <<>> /\ next.step = 0 /\ next.diverged = FALSE /\ next.above = FALSE
  BY Fields DEF Idle
<1>3. n \in DOMAIN attempts /\ Whole(records) /\ PrefixTold(records) /\ n # 0
  <2>1. attempts \in Seq(Range(attempts))
    BY DEF IInv, Journals
  <2>2. n \in DOMAIN attempts /\ n # 0
    BY <1>1, <2>1
  <2> QED BY <2>2 DEF IInv, Journals, JournalsTold
<1> HIDE DEF next, n
<1>4. PICK K, m, r, N : /\ GivesKept(kept, K, m, r, N) /\ ScriptOK(K, m, r, N)
                        /\ Exchanges(kept) = RepliesAfter(K, r, m, 0)
                        /\ RecordedResults(kept) = ResultsAfter(K, N, 0)
  BY <1>1, <1>3, KeptGives
<1>5. Source(next) = kept
  <2>1. Upto(records, Len(records)) = records
    BY <1>3, UptoAll DEF Whole
  <2> QED BY <1>2, <1>3, <2>1 DEF Source
<1> HIDE DEF kept, records
<1>6. Fresh(next, K, m, r, N)
  BY <1>2, <1>4, FreshIs
<1>7. next.pc \notin Running /\ next.role # "audit"
  BY <1>2 DEF Running, LoopPCs
<1>8. Telling(next)
  BY <1>4, <1>5, <1>6, <1>7 DEF Telling
<1> QED BY <1>1, <1>8, AsideTold

(* Choosing a number for the attempt changes nothing of that.               *)
LEMMA ListTells ==
  ASSUME IInv, JournalsTold, DriversTold, NEW p \in Processes, ListAttempts(p)
  PROVE  JournalsTold' /\ DriversTold'
<1> DEFINE d    == driver[p]
           next == [Goto(d, "mkdir") EXCEPT !.attempt = Len(attempts) + 1]
<1>1. d.pc = "list" /\ Quietly(p, next)
  BY DEF ListAttempts, At
<1>2. Typed(d) /\ Telling(d)
  BY DEF IInv, Drivers, DriversTold
<1>3. next.pc = "mkdir" /\ \A field \in DOMAIN d \ {"pc", "attempt"} : next[field] = d[field]
  BY <1>2, Fields DEF Typed, Goto
<1> HIDE DEF next
<1>4. next.role = d.role /\ next.from = d.from /\ next.head = d.head /\ SameScript(d, next)
  BY <1>2, <1>3, Fields DEF Typed, SameScript
<1>5. Source(next) = Source(d)
  BY <1>4 DEF Source
<1>6. PICK K, m, r, N :
        /\ IF d.role = "audit" THEN Gives(Source(d), K, m, r, N) ELSE GivesKept(Source(d), K, m, r, N)
        /\ Fresh(d, K, m, r, N)
  BY <1>1, <1>2 DEF Telling, Starting
<1>7. Fresh(next, K, m, r, N)
  BY <1>4, <1>6, FreshStays
<1>8. next.pc \notin Running
  BY <1>3 DEF Running, LoopPCs
<1>9. Telling(next)
  BY <1>4, <1>5, <1>6, <1>7, <1>8 DEF Telling
<1> QED BY <1>1, <1>9, AsideTold

(* The others go on as they did when one process writes its own attempt.    *)
LEMMA OthersTold ==
  ASSUME IInv, DriversTold, Grown, NEW p, NEW q \in Processes \ {p}, driver'[q] = driver[q],
         \A x \in Processes \ {p} : Writes(x) => attempts'[driver[x].attempt] = attempts[driver[x].attempt]
  PROVE  Telling(driver[q])'
<1>1. PICK d : d = driver[q]
  OBVIOUS
<1>2. Journals /\ Typed(d) /\ Timely(d) /\ Placed(d) /\ Telling(d)
  BY <1>1 DEF IInv, Drivers, DriversTold
<1>3. d.role # "audit" /\ d.pc \in LoopPCs => attempts'[d.attempt] = attempts[d.attempt]
  BY <1>1 DEF Writes
<1>4. Telling(d)'
  BY <1>2, <1>3, TellingStays
<1>5. driver'[q] = d
  BY <1>1
<1> QED BY <1>4, <1>5 DEF Telling, Source, Owned

(* The header of a journal says the same, and what it points at stays.      *)
LEMMA ResumesStays ==
  ASSUME Journals, Grown, NEW n \in DOMAIN attempts, attempts[n] # <<>>, attempts'[n] = attempts[n], Resumes(n)
  PROVE  Resumes(n)'
<1>1. PICK header : header = attempts[n][1].body
  OBVIOUS
<1>2. ASSUME header[1] # 0 PROVE Upto(attempts'[header[1]], header[2]) = Upto(attempts[header[1]], header[2])
  <2>1. CarriedIs(header[1], header[2], header[3])
    BY <1>1 DEF Journals, Headed
  <2>2. header[1] \in DOMAIN attempts /\ header[2] \in DOMAIN attempts[header[1]]
    BY <1>2, <2>1 DEF CarriedIs, Begun
  <2>3. attempts[header[1]] \in Seq(Range(attempts[header[1]]))
    BY <2>2 DEF Journals, Whole
  <2>4. 1..header[2] \subseteq DOMAIN attempts[header[1]]
    <3>1. PICK s : s = attempts[header[1]] /\ s \in Seq(Range(s)) /\ header[2] \in DOMAIN s
      BY <2>2, <2>3
    <3>2. 1..header[2] \subseteq DOMAIN s
      BY <3>1
    <3> QED BY <3>1, <3>2
  <2> QED BY <2>2, <2>4, ReadStays
<1> QED BY <1>1, <1>2 DEF Resumes

(* One of those who chose a number makes an attempt without a record.       *)
LEMMA MakeTells ==
  ASSUME IInv, IInv', JournalsTold, DriversTold, NEW p \in Processes, MakeAttempt(p)
  PROVE  JournalsTold' /\ DriversTold'
<1> DEFINE d == driver[p]
<1>n. PICK next : next = Goto(d, "header")
  OBVIOUS
<1>1. CASE Quietly(p, Idle)
  BY <1>1, IdleOutside, OutsideTold
<1>2. CASE ~Quietly(p, Idle)
  <2>1. /\ d.pc = "mkdir" /\ driver' = [driver EXCEPT ![p] = next] /\ attempts' = Append(attempts, <<>>)
    BY <1>2, <1>n DEF MakeAttempt, At
  <2>2. /\ driver'[p] = next /\ \A q \in Processes \ {p} : driver'[q] = driver[q]
    BY <2>1 DEF IInv, Drivers
  <2>3. Journals /\ Typed(d) /\ Timely(d) /\ Placed(d) /\ Telling(d)
    BY DEF IInv, Drivers, DriversTold
  <2>4. /\ Grown /\ DOMAIN attempts' = DOMAIN attempts \cup {Len(attempts) + 1}
        /\ attempts'[Len(attempts) + 1] = <<>>
        /\ \A n \in DOMAIN attempts : attempts'[n] = attempts[n]
    BY <2>1, <2>3, MadeGrows
  <2>5. JournalsTold'
    <3>1. PrefixTold(<<>>)
      <4>1. PICK none : none = <<>> /\ none \in Seq(Range(none)) /\ Len(none) = 0
        BY EmptyIs
      <4>2. Upto(none, 0) = none
        BY <4>1, UptoAll
      <4>3. Counted(none) = {} /\ ~Stopped(none)
        <5>1. 2..0 = {}
          OBVIOUS
        <5> QED BY <4>1, <5>1 DEF Counted, Stopped
      <4>4. PICK P : Story(none, <<>>, <<>>, P, 0, None)
        BY <4>1, <4>3, StoryNone
      <4>5. TellsUpto(none, 0)
        <5>1. ~(0 >= 2)
          OBVIOUS
        <5> QED BY <4>2, <4>4, <5>1 DEF TellsUpto
      <4>6. \A k \in 0..Len(none) : k = 0
        BY <4>1
      <4>7. PrefixTold(none)
        BY <4>5, <4>6 DEF PrefixTold
      <4> QED BY <4>1, <4>7
    <3>2. ASSUME NEW n \in DOMAIN attempts'
          PROVE  PrefixTold(attempts'[n]) /\ (attempts'[n] # <<>> => Resumes(n)')
      <4>1. CASE n \in DOMAIN attempts
        <5>1. attempts'[n] = attempts[n] /\ PrefixTold(attempts[n]) /\ (attempts[n] # <<>> => Resumes(n))
          BY <2>4, <4>1 DEF JournalsTold
        <5> QED BY <2>3, <2>4, <4>1, <5>1, ResumesStays
      <4>2. CASE n = Len(attempts) + 1
        BY <2>4, <3>1, <4>2
      <4> QED BY <2>4, <4>1, <4>2
    <3> QED BY <3>2 DEF JournalsTold
  <2>6. /\ next.pc = "header" /\ next.role = d.role /\ next.from = d.from /\ next.head = d.head /\ SameScript(d, next)
    <3>1. next.pc = "header" /\ \A field \in DOMAIN d \ {"pc"} : next[field] = d[field]
      BY <1>n, <2>3, Fields DEF Typed, Goto
    <3> QED BY <2>3, <3>1, Fields DEF Typed, SameScript
  <2>7. Telling(next)'
    <3>1. PICK dd : dd = d
      OBVIOUS
    <3>2. Source(dd)' = Source(dd)
      <4>1. dd.pc \in Starting \cup Running /\ dd.head \in Nat
        BY <2>1, <2>3, <3>1 DEF Starting, Typed
      <4>2. Placed(dd) /\ Timely(dd)
        BY <2>3, <3>1
      <4> QED BY <2>3, <2>4, <4>1, <4>2, SourceStays
    <3>3. PICK K, m, r, N :
            /\ IF dd.role = "audit" THEN Gives(Source(dd), K, m, r, N) ELSE GivesKept(Source(dd), K, m, r, N)
            /\ Fresh(dd, K, m, r, N)
      BY <2>1, <2>3, <3>1 DEF Telling, Starting
    <3>4. Fresh(next, K, m, r, N)
      BY <2>6, <3>1, <3>3, FreshStays
    <3>5. Source(next)' = Source(dd)
      BY <2>6, <3>1, <3>2 DEF Source
    <3>6. next.pc \notin Running
      BY <2>6 DEF Running, LoopPCs
    <3> QED BY <2>6, <3>1, <3>3, <3>4, <3>5, <3>6 DEF Telling
  <2>8. DriversTold'
    <3>1. \A q \in Processes \ {p} : Writes(q) => attempts'[driver[q].attempt] = attempts[driver[q].attempt]
      BY <2>4 DEF IInv, Drivers, Placed, Writes, Live
    <3>2. \A q \in Processes \ {p} : Telling(driver[q])'
      BY <2>2, <2>4, <3>1, OthersTold
    <3>3. Telling(driver[p])'
      BY <2>2, <2>7 DEF Telling, Source, Owned
    <3> QED BY <3>2, <3>3 DEF DriversTold
  <2> QED BY <2>5, <2>8
<1> QED BY <1>1, <1>2

(* A process with the script of what was kept repeats it.                   *)
LEMMA PlayRepeats ==
  ASSUME NEW S, NEW K, NEW m, NEW r, NEW N, GivesKept(S, K, m, r, N), NEW e, NEW J, Playing(e, J, K, m, r, N)
  PROVE  Repeats(J, S)
<1>1. PICK E2, P2 : Story(S, E2, K, P2, 0, r) /\ ~Stopped(S) /\ m = Len(K)
  BY DEF GivesKept
<1>2. PICK E, P, t, q, o : Plays(e, J, K, m, r, N, E, P, t, q, o)
  BY DEF Playing
<1>3. Story(J, E, e.turns, P, t, q) /\ Follows(e.turns, t, q, K, Len(K), r)
  BY <1>1, <1>2 DEF Plays, Fed
<1> QED BY <1>1, <1>3 DEF Repeats

(* A process that plays on in its own attempt, which grows by one record.   *)
LEMMA PrefixOn ==
  ASSUME NEW K, NEW m, NEW r, NEW N, NEW d, NEW J, Playing(d, J, K, m, r, N), d.role # "audit",
         NEW e, NEW J2, Playing(e, J2, K, m, r, N), e.role # "audit", PrefixTold(J),
         NEW record, J2 = Append(J, record), record.step = d.step
  PROVE  PrefixTold(J2)
<1>1. PICK E, P, t, q, o : Plays(d, J, K, m, r, N, E, P, t, q, o)
  BY DEF Playing
<1>2. Story(J, E, d.turns, P, t, q) /\ Steady(d, J, t, q)
  BY <1>1 DEF Plays
<1>3. J \in Seq(Range(J)) /\ Len(J) >= 1
  BY <1>2 DEF Story, Steady
<1>4. PICK n \in Nat : n = Len(J) /\ n >= 1 /\ Len(J2) = n + 1 /\ J2 \in Seq(Range(J2)) /\ DOMAIN J = 1..n
  <2>1. J2 \in Seq(Range(J2)) /\ Len(J2) = Len(J) + 1 /\ Len(J) \in Nat /\ DOMAIN J = 1..Len(J)
    BY <1>3, Appended
  <2> QED BY ONLY <1>3, <2>1
<1>5. J2[n + 1] = record /\ \A i \in 1..n : J2[i] = J[i]
  BY <1>3, <1>4, Appended
<1>6. \A k \in 0..n : Upto(J2, k) = Upto(J, k)
  BY <1>4, <1>5 DEF Upto
<1>7. ASSUME NEW k \in 0..(n - 1) PROVE TellsUpto(J2, k)
  <2>1. k \in 0..n /\ Upto(J2, k) = Upto(J, k)
    BY <1>4, <1>6
  <2>2. PICK E1, K1, P1, t1, r1 :
          /\ Story(Upto(J, k), E1, K1, P1, t1, r1) /\ (t1 >= 2 => r1 # Diverged)
          /\ k \in 1..(Len(J) - 1) /\ J[k + 1].step > J[k].step => t1 = 0
    BY <1>4, <2>1 DEF PrefixTold, TellsUpto
  <2>3. k \in 1..(Len(J2) - 1) => k \in 1..(Len(J) - 1) /\ J2[k + 1] = J[k + 1] /\ J2[k] = J[k]
    <3> SUFFICES ASSUME k \in 1..(Len(J2) - 1)
                 PROVE  k \in 1..(Len(J) - 1) /\ J2[k + 1] = J[k + 1] /\ J2[k] = J[k]
      OBVIOUS
    <3>1. k \in 1..(n - 1) /\ k \in 1..n /\ k + 1 \in 1..n
      BY <1>4
    <3> QED BY <1>4, <1>5, <3>1
  <2> QED BY <2>1, <2>2, <2>3 DEF TellsUpto
<1>8. TellsUpto(J2, n)
  <2>1. Upto(J2, n) = J
    BY <1>3, <1>4, <1>6, UptoAll
  <2>2. t >= 2 => q # Diverged
    BY <1>2 DEF Steady
  <2>3. J2[n + 1].step > J2[n].step => t = 0
    <3> SUFFICES ASSUME J2[n + 1].step > J2[n].step, t # 0 PROVE FALSE
      OBVIOUS
    <3>0. t # 0
      OBVIOUS
    <3>1. t > 0
      <4>1. t \in 0..5
        BY <1>2, StoryEnds
      <4> QED BY ONLY <3>0, <4>1
    <3>2. J[n].step = d.step /\ n \in 1..n /\ d.step = Len(d.turns) + 1
      BY <1>2, <1>4, <3>1 DEF Steady
    <3>3. J2[n + 1].step = d.step /\ J2[n].step = d.step /\ Len(d.turns) \in Nat
      BY <1>2, <1>5, <3>2, StoryEnds
    <3> QED BY <3>2, <3>3
  <2> QED BY <1>2, <2>1, <2>2, <2>3 DEF TellsUpto
<1>9. TellsUpto(J2, n + 1)
  <2>1. Upto(J2, n + 1) = J2
    BY <1>4, UptoAll
  <2>2. PICK E2, P2, t2, q2, o2 : Plays(e, J2, K, m, r, N, E2, P2, t2, q2, o2)
    BY DEF Playing
  <2>3. Story(J2, E2, e.turns, P2, t2, q2) /\ (t2 >= 2 => q2 # Diverged)
    BY <2>2 DEF Plays, Steady
  <2>4. n + 1 \notin 1..(Len(J2) - 1)
    BY <1>4
  <2>5. n + 1 \in 1..(Len(J2) - 1) /\ J2[(n + 1) + 1].step > J2[n + 1].step => t2 = 0
    BY <2>4
  <2> QED BY ONLY <2>1, <2>3, <2>5 DEF TellsUpto
<1>10. \A k \in 0..Len(J2) : k \in 0..(n - 1) \/ k = n \/ k = n + 1
  BY <1>4
<1> QED BY <1>7, <1>8, <1>9, <1>10 DEF PrefixTold

(* One journal has one record more.                                         *)
LEMMA JournalsOn ==
  ASSUME Journals, JournalsTold, NEW a \in DOMAIN attempts, NEW record, Appends(a, record),
         PrefixTold(attempts'[a]), Resumes(a)'
  PROVE  JournalsTold'
<1>1. /\ Grown /\ DOMAIN attempts' = DOMAIN attempts
      /\ \A n \in DOMAIN attempts : n # a => attempts'[n] = attempts[n]
  BY AppendGrows
<1>2. ASSUME NEW n \in DOMAIN attempts, n # a
      PROVE  PrefixTold(attempts'[n]) /\ (attempts'[n] # <<>> => Resumes(n)')
  <2>1. attempts'[n] = attempts[n] /\ PrefixTold(attempts[n]) /\ (attempts[n] # <<>> => Resumes(n))
    BY <1>1, <1>2 DEF JournalsTold
  <2> QED BY <1>1, <2>1, ResumesStays
<1> QED BY <1>1, <1>2 DEF JournalsTold

(* The journal a process writes repeats what its header points at.          *)
LEMMA OwnResumes ==
  ASSUME NEW d, d.role # "audit", NEW S, S = Source(d)',
         NEW a, Heads(d, attempts'[a]),
         NEW K, NEW m, NEW r, NEW N, GivesKept(S, K, m, r, N), Playing(d, attempts'[a], K, m, r, N)
  PROVE  Resumes(a)'
<1>1. PICK header : header = attempts'[a][1].body /\ header[1] = d.from /\ header[2] = d.head
  BY DEF Heads
<1>2. Repeats(attempts'[a], S)
  BY PlayRepeats
<1>3. header[1] # 0 => S = Kept(Upto(attempts'[header[1]], header[2]))
  BY <1>1 DEF Source
<1> QED BY <1>1, <1>2, <1>3 DEF Resumes

(* The first record of an attempt is its header.                            *)
LEMMA HeaderTells ==
  ASSUME IInv, JournalsTold, DriversTold, NEW p \in Processes, WriteHeader(p)
  PROVE  JournalsTold' /\ DriversTold'
<1> DEFINE d == driver[p]
<1>n. PICK next : next = Goto(d, "begin")
  OBVIOUS
<1>b. PICK body : body = <<d.from, d.head, d.carried>>
  OBVIOUS
<1>c. body[1] = d.from /\ body[2] = d.head
  BY <1>b
<1>1. d.pc = "header" /\ Write(p, "RunStarted", body, next)
  BY <1>n, <1>b DEF WriteHeader, At
<1>2. Journals /\ Typed(d) /\ Timely(d) /\ Placed(d) /\ Telling(d)
  BY DEF IInv, Drivers, DriversTold
<1>3. d.role # "audit" /\ d.attempt \in DOMAIN attempts /\ attempts[d.attempt] = <<>>
  BY <1>1, <1>2 DEF Placed
<1>4. /\ next.pc = "begin" /\ next.role = d.role /\ next.from = d.from /\ next.head = d.head
      /\ next.attempt = d.attempt /\ SameScript(d, next)
  <2>1. next.pc = "begin" /\ \A field \in DOMAIN d \ {"pc"} : next[field] = d[field]
    BY <1>n, <1>2, Fields DEF Typed, Goto
  <2> QED BY <1>2, <2>1, Fields DEF Typed, SameScript
<1>5. PICK record : record = Entry("RunStarted", body, next)
  OBVIOUS
<1>6. driver' = [driver EXCEPT ![p] = next] /\ Appends(d.attempt, record)
  BY <1>1, <1>3, <1>4, <1>5 DEF Write, Appends, Entry
<1>7. record.kind = "RunStarted" /\ record.body = body
  BY <1>5, EntryIs
<1>8. /\ driver'[p] = next /\ \A q \in Processes \ {p} : driver'[q] = driver[q]
  BY <1>6 DEF IInv, Drivers
<1>9. /\ Grown /\ attempts'[d.attempt] = Append(attempts[d.attempt], record)
      /\ \A n \in DOMAIN attempts : n # d.attempt => attempts'[n] = attempts[n]
  BY <1>2, <1>3, <1>6, AppendGrows
<1>10. PICK J : J = attempts'[d.attempt] /\ J = Append(<<>>, record)
  BY <1>3, <1>9
<1>11. HeaderOnly(J) /\ J[1] = record
  <2>1. PICK none : none = <<>> /\ none \in Seq(Range(none)) /\ Len(none) = 0
    BY EmptyIs
  <2>2. J = Append(none, record)
    BY <1>10, <2>1
  <2>3. J \in Seq(Range(J)) /\ Len(J) = Len(none) + 1 /\ J[Len(none) + 1] = record
    <3>1. none \in Seq(Range(none))
      BY <2>1
    <3>2. J \in Seq(Range(J)) /\ Len(J) = Len(none) + 1
      BY ONLY <2>2, <3>1, Appended
    <3>3. J[Len(none) + 1] = record
      BY ONLY <2>2, <3>1, Appended
    <3> QED BY <3>2, <3>3
  <2>4. Len(J) = 1 /\ J[1] = record
    BY ONLY <2>1, <2>3
  <2> QED BY <1>7, <2>3, <2>4 DEF HeaderOnly
<1>12. PICK K, m, r, N : GivesKept(Source(d), K, m, r, N) /\ Fresh(d, K, m, r, N)
  BY <1>1, <1>2, <1>3 DEF Telling, Starting
<1>13. Fresh(next, K, m, r, N)
  BY <1>4, <1>12, FreshStays
<1>14. Playing(next, J, K, m, r, N)
  BY <1>4, <1>11, <1>13, StartPlays
<1>15. Source(next)' = Source(d)
  <2>1. PICK dd : dd = d
    OBVIOUS
  <2>2. dd.pc \in Starting \cup Running /\ Placed(dd) /\ Timely(dd) /\ dd.head \in Nat
    BY <1>1, <1>2, <2>1 DEF Starting, Typed
  <2>3. Source(dd)' = Source(dd)
    BY <1>2, <1>9, <2>2, SourceStays
  <2> QED BY <1>4, <2>1, <2>3 DEF Source
<1>16. Heads(next, J)
  BY <1>4, <1>7, <1>11, <1>c DEF Heads
<1>a. PICK a \in DOMAIN attempts : a = d.attempt
  BY <1>3
<1>17. Resumes(a)'
  <2>1. Heads(next, attempts'[a]) /\ Playing(next, attempts'[a], K, m, r, N)
    BY <1>10, <1>14, <1>16, <1>a
  <2>2. PICK S : S = Source(next)' /\ GivesKept(S, K, m, r, N)
    BY <1>12, <1>15
  <2>3. next.role # "audit"
    BY <1>3, <1>4
  <2> QED BY <2>1, <2>2, <2>3, OwnResumes
<1>18. PrefixTold(J)
  <2>1. J \in Seq(Range(J)) /\ Len(J) = 1 /\ J[1].kind = "RunStarted"
    BY <1>11 DEF HeaderOnly
  <2>2. ASSUME NEW k \in {0, 1} PROVE TellsUpto(J, k)
    <3>1. PICK s : s = Upto(J, k)
      OBVIOUS
    <3>2. s \in Seq(Range(s)) /\ Len(s) = k /\ \A i \in 1..k : s[i] = J[i]
      <4>1. k \in Nat /\ \A i \in 1..k : J[i] \in Range(J)
        BY <2>1, <2>2 DEF Range
      <4>2. s \in Seq(Range(J)) /\ Len(s) = k
        BY <3>1, <4>1 DEF Upto
      <4>3. s \in Seq(Range(s))
        BY <4>2, InRange
      <4> QED BY <3>1, <4>2, <4>3 DEF Upto
    <3>3. Counted(s) = {}
      <4>1. 2..0 = {} /\ 2..1 = {}
        OBVIOUS
      <4> QED BY <3>2, <4>1 DEF Counted
    <3>4. ~Stopped(s)
      <4>1. k # 0 => s[Len(s)].kind = "RunStarted"
        BY <2>1, <3>2
      <4>2. k = 0 => s = <<>>
        BY <3>1 DEF Upto
      <4> QED BY <4>1, <4>2 DEF Stopped
    <3>5. PICK P : Story(s, <<>>, <<>>, P, 0, None)
      BY <3>2, <3>3, <3>4, StoryNone
    <3>6. ~(0 >= 2)
      OBVIOUS
    <3> QED BY <3>1, <3>5, <3>6 DEF TellsUpto
  <2>3. \A k \in 0..Len(J) : k \in {0, 1}
    BY <2>1
  <2> QED BY <2>2, <2>3 DEF PrefixTold
<1>19. JournalsTold'
  <2>1. Appends(a, record) /\ PrefixTold(attempts'[a])
    BY <1>6, <1>10, <1>18, <1>a DEF Appends
  <2> QED BY <1>2, <1>17, <2>1, JournalsOn
<1>20. Telling(next)'
  <2>1. Owned(next)' = J
    BY <1>3, <1>4, <1>10 DEF Owned
  <2>2. "begin" \notin Starting /\ next.role # "audit"
    BY <1>3, <1>4 DEF Starting
  <2>3. GivesKept(Source(next)', K, m, r, N)
    BY <1>12, <1>15
  <2> QED BY <1>4, <1>14, <1>16, <2>1, <2>2, <2>3 DEF Telling
<1>21. DriversTold'
  <2>1. \A q \in Processes \ {p} : Writes(q) => attempts'[driver[q].attempt] = attempts[driver[q].attempt]
    <3> SUFFICES ASSUME NEW q \in Processes \ {p}, Writes(q)
                 PROVE  attempts'[driver[q].attempt] = attempts[driver[q].attempt]
      OBVIOUS
    <3>1. Writes(p)
      BY <1>1, <1>3 DEF Writes
    <3>2. driver[q].attempt # d.attempt
      BY <3>1 DEF IInv, OneWriter
    <3>3. driver[q].attempt \in DOMAIN attempts
      BY DEF Writes, IInv, Drivers, Placed, Live
    <3> QED BY <1>9, <3>2, <3>3
  <2>2. \A q \in Processes \ {p} : Telling(driver[q])'
    BY <1>8, <1>9, <2>1, OthersTold
  <2>3. Telling(driver[p])'
    BY <1>8, <1>20 DEF Telling, Source, Owned
  <2> QED BY <2>2, <2>3 DEF DriversTold
<1> QED BY <1>19, <1>21

(* A step of the loop.                                                      *)
LEMMA LoopTells ==
  ASSUME IInv, JournalsTold, DriversTold, NEW p \in Processes, Loop(p)
  PROVE  JournalsTold' /\ DriversTold'
<1>1. PICK d : d = driver[p]
  OBVIOUS
<1>2. Journals /\ Typed(d) /\ Timely(d) /\ Placed(d) /\ Telling(d) /\ p \in DOMAIN driver
  BY <1>1 DEF IInv, Drivers, DriversTold
<1>3. d.pc \in LoopPCs
  BY <1>1 DEF Loop, LoopPCs, At, Begin, ObserveBudgets, Request, LiveReply, ReplayedReply, ReplayDiverges,
              AsksLive, ParseFails, Intend, SubmitRequested, SubmitFinished, Execute, FeedResult, NothingToFeed, Commit
<1>4. d.pc \in Running /\ d.pc \notin Starting
  BY <1>3 DEF Running, Starting, LoopPCs
<1>5. PICK K, m, r, N :
        /\ IF d.role = "audit" THEN Gives(Source(d), K, m, r, N) ELSE GivesKept(Source(d), K, m, r, N)
        /\ Playing(d, Owned(d), K, m, r, N) /\ (d.role # "audit" => Heads(d, Owned(d)))
  BY <1>2, <1>4 DEF Telling
<1>6. ScriptOK(K, m, r, N)
  BY <1>5 DEF Gives, GivesKept
<1>7. d.role # "audit" => d.attempt \in DOMAIN attempts
  BY <1>2, <1>3 DEF Placed, Live
<1>8. Ready(p, K, m, r, N)
  BY <1>1, <1>2, <1>5, <1>6, <1>7 DEF Ready
<1>9. PICK e, J :
        /\ driver' = [driver EXCEPT ![p] = e] /\ Owned(e)' = J /\ Playing(e, J, K, m, r, N)
        /\ \/ J = Owned(d) /\ UNCHANGED attempts
           \/ /\ \E record : J = Append(Owned(d), record) /\ record.step = d.step
              /\ \/ e.role = "audit" /\ UNCHANGED attempts
                 \/ e.role # "audit" /\ attempts' = [attempts EXCEPT ![e.attempt] = J]
  <2>1. PlaysOn(p, K, m, r, N)
    BY <1>8, LoopPlays
  <2> QED BY <1>1, <2>1 DEF PlaysOn
<1>10. driver'[p] = e /\ \A q \in Processes \ {p} : driver'[q] = driver[q]
  BY <1>2, <1>9 DEF IInv, Drivers
<1>11. Further(d, e) /\ e.pc \in Onward
  <2>1. PICK next : Continues(p, next)
    BY <1>1, <1>2, LoopContinues
  <2>2. next = e
    BY <1>2, <1>10, <2>1 DEF Continues
  <2> QED BY <1>1, <2>1, <2>2 DEF Continues
<1>12. e.role = d.role /\ e.attempt = d.attempt /\ e.from = d.from /\ e.head = d.head
  BY <1>11 DEF Further
<1>13. Source(e) = Source(d)
  BY <1>12 DEF Source
<1>14. e.pc \notin Starting
  BY <1>11 DEF Onward, LoopPCs, Starting
<1>15. CASE UNCHANGED attempts
  <2>1. Owned(e) = J
    BY <1>9, <1>15 DEF Owned
  <2>2. e.role # "audit" => Heads(e, J)
    <3> SUFFICES ASSUME e.role # "audit" PROVE Heads(e, J)
      OBVIOUS
    <3>1. J = Owned(d)
      <4>1. Owned(e) = Owned(d)
        BY <1>12 DEF Owned
      <4> QED BY <2>1, <4>1
    <3> QED BY <1>5, <1>12, <3>1 DEF Heads
  <2>3. Telling(e)
    BY <1>5, <1>9, <1>12, <1>13, <1>14, <2>1, <2>2 DEF Telling
  <2>4. Quietly(p, e)
    BY <1>9, <1>15 DEF Quietly
  <2> QED BY <2>3, <2>4, AsideTold
<1>16. CASE e.role # "audit" /\ attempts' = [attempts EXCEPT ![e.attempt] = J]
            /\ \E record : J = Append(Owned(d), record) /\ record.step = d.step
  <2>1. PICK a \in DOMAIN attempts : a = d.attempt
    BY <1>7, <1>12, <1>16
  <2>2. PICK record : J = Append(attempts[a], record) /\ record.step = d.step
    BY <1>12, <1>16, <2>1 DEF Owned
  <2>3. Appends(a, record)
    BY <1>12, <1>16, <2>1, <2>2 DEF Appends
  <2>4. /\ Grown /\ attempts'[a] = Append(attempts[a], record)
        /\ \A n \in DOMAIN attempts : n # a => attempts'[n] = attempts[n]
    BY <1>2, <2>3, AppendGrows
  <2>5. attempts'[a] = J /\ Owned(d) = attempts[a]
    BY <1>12, <1>16, <2>1, <2>2, <2>4 DEF Owned
  <2>6. PrefixTold(attempts[a]) /\ attempts[a] # <<>> /\ 1 \in DOMAIN attempts[a]
    <3>1. attempts[a] # <<>>
      BY <1>2, <1>3, <1>12, <1>16, <2>1 DEF Placed, Live, OwnOK
    <3> QED BY <1>2, <3>1, HasFirst DEF JournalsTold
  <2>7. PrefixTold(attempts'[a])
    <3>1. PICK old : old = attempts[a]
      OBVIOUS
    <3>2. Playing(d, old, K, m, r, N) /\ d.role # "audit" /\ PrefixTold(old)
      BY <1>5, <1>12, <1>16, <2>5, <2>6, <3>1
    <3>3. Playing(e, J, K, m, r, N) /\ e.role # "audit"
      BY <1>9, <1>16
    <3>4. J = Append(old, record) /\ record.step = d.step
      BY <2>2, <3>1
    <3>5. PrefixTold(J)
      BY ONLY <3>2, <3>3, <3>4, PrefixOn
    <3> QED BY <2>5, <3>5
  <2>8. Heads(e, J)
    <3>1. J[1] = attempts[a][1]
      BY <2>4, <2>5, <2>6 DEF Grown
    <3> QED BY <1>5, <1>12, <1>16, <2>5, <3>1 DEF Heads
  <2>9. Source(e)' = Source(d)
    <3>1. Source(d)' = Source(d)
      BY <1>2, <1>4, <2>4, SourceStays DEF Typed
    <3> QED BY <1>12, <3>1 DEF Source
  <2>10. GivesKept(Source(d), K, m, r, N)
    BY <1>5, <1>12, <1>16
  <2>11. Resumes(a)'
    <3>1. PICK S : S = Source(e)' /\ GivesKept(S, K, m, r, N)
      BY <2>9, <2>10
    <3>2. Heads(e, attempts'[a]) /\ Playing(e, attempts'[a], K, m, r, N)
      BY <1>9, <2>5, <2>8
    <3> QED BY <1>16, <3>1, <3>2, OwnResumes
  <2>12. JournalsTold'
    BY <1>2, <2>3, <2>7, <2>11, JournalsOn
  <2>13. Telling(e)'
    <3>1. Owned(e)' = J
      BY <1>9
    <3>2. GivesKept(Source(e)', K, m, r, N)
      BY <2>9, <2>10
    <3> QED BY <1>9, <1>14, <1>16, <2>8, <3>1, <3>2 DEF Telling
  <2>14. DriversTold'
    <3>1. \A q \in Processes \ {p} : Writes(q) => attempts'[driver[q].attempt] = attempts[driver[q].attempt]
      <4> SUFFICES ASSUME NEW q \in Processes \ {p}, Writes(q)
                   PROVE  attempts'[driver[q].attempt] = attempts[driver[q].attempt]
        OBVIOUS
      <4>1. Writes(p)
        BY <1>1, <1>3, <1>12, <1>16 DEF Writes
      <4>2. driver[q].attempt # a
        BY <1>1, <2>1, <4>1 DEF IInv, OneWriter
      <4>3. driver[q].attempt \in DOMAIN attempts
        BY DEF Writes, IInv, Drivers, Placed, Live
      <4> QED BY <2>4, <4>2, <4>3
    <3>2. \A q \in Processes \ {p} : Telling(driver[q])'
      BY <1>10, <2>4, <3>1, OthersTold
    <3>3. Telling(driver[p])'
      BY <1>10, <2>13 DEF Telling, Source, Owned
    <3> QED BY <3>2, <3>3 DEF DriversTold
  <2> QED BY <2>12, <2>14
<1> QED BY <1>9, <1>15, <1>16

(* An audit has the script of the whole journal.                            *)
LEMMA AuditTells ==
  ASSUME IInv, JournalsTold, DriversTold, NEW p \in Processes, Audit(p)
  PROVE  JournalsTold' /\ DriversTold'
<1> DEFINE e(n) == [Idle EXCEPT !.role = "audit", !.from = n, !.head = Len(attempts[n])]
           start(n) == [Goto(e(n), "begin") EXCEPT
                          !.replies = Exchanges(attempts[n]), !.results = RecordedResults(attempts[n]),
                          !.copy = <<[kind |-> "RunStarted", step |-> 0, mono |-> 0, body |-> <<0, 0, 0>>]>>]
<1>1. PICK n \in DOMAIN attempts :
        Quietly(p, IF attempts[n] = <<>> \/ ~Paired(attempts[n]) THEN Reported(e(n), "diverged", FALSE) ELSE start(n))
  BY DEF Audit
<1>2. CASE attempts[n] = <<>> \/ ~Paired(attempts[n])
  <2> DEFINE next == Reported(e(n), "diverged", FALSE)
  <2>1. Quietly(p, next)
    BY <1>1, <1>2
  <2>2. next.pc = "reported"
    BY Fields DEF Reported, Goto
  <2> HIDE DEF next
  <2>3. next.pc \notin Starting \cup Running
    BY <2>2 DEF Starting, Running, LoopPCs
  <2> QED BY <2>1, <2>3, OutsideTold
<1>3. CASE ~(attempts[n] = <<>> \/ ~Paired(attempts[n]))
  <2> DEFINE next == start(n)
             hdr == [kind |-> "RunStarted", step |-> 0, mono |-> 0, body |-> <<0, 0, 0>>]
  <2>1. Quietly(p, next)
    BY <1>1, <1>3
  <2>2. PICK J : J = attempts[n] /\ J # <<>> /\ Paired(J) /\ Whole(J) /\ PrefixTold(J)
    BY <1>3 DEF IInv, Journals, JournalsTold
  <2>3. /\ next.pc = "begin" /\ next.role = "audit" /\ next.from = n /\ next.head = Len(J)
        /\ next.replies = Exchanges(J) /\ next.results = RecordedResults(J) /\ next.copy = <<hdr>>
        /\ next.turns = <<>> /\ next.step = 0 /\ next.diverged = FALSE /\ next.above = FALSE
    BY <2>2, Fields DEF Idle, Goto
  <2>4. HeaderOnly(next.copy)
    <3>1. next.copy = <<hdr>> /\ hdr.kind = "RunStarted"
      BY <2>3
    <3> HIDE DEF hdr, next
    <3>2. <<hdr>> \in Seq({hdr}) /\ Len(<<hdr>>) = 1 /\ <<hdr>>[1] = hdr
      OBVIOUS
    <3>3. <<hdr>> \in Seq(Range(<<hdr>>))
      BY <3>2, InRange
    <3> QED BY <3>1, <3>2, <3>3 DEF HeaderOnly
  <2> HIDE DEF next
  <2>5. J \in Seq(Range(J)) /\ Len(J) \in 0..Len(J) /\ Upto(J, Len(J)) = J /\ ~(Len(J) \in 1..(Len(J) - 1))
    <3>1. J \in Seq(Range(J))
      BY <2>2 DEF Whole
    <3> QED BY <3>1, UptoAll
  <2>6. PICK E, K, P, t, r : Story(J, E, K, P, t, r) /\ (t >= 2 => r # Diverged)
    BY <2>2, <2>5 DEF PrefixTold, TellsUpto
  <2>7. J[1].kind = "RunStarted"
    <3>1. 1 \in DOMAIN J
      BY <2>2, <2>5
    <3> QED BY <2>2, <3>1 DEF Whole, RecordOK
  <2>8. t # 1
    BY <2>2, <2>6, <2>7, ExchangesAre
  <2>9. PICK m, N : /\ Gives(J, K, m, r, N) /\ ScriptOK(K, m, r, N)
                    /\ Exchanges(J) = RepliesAfter(K, r, m, 0) /\ RecordedResults(J) = ResultsAfter(K, N, 0)
    BY <2>6, <2>7, <2>8, StoryGives
  <2>10. Fresh(next, K, m, r, N)
    BY <2>3, <2>9, FreshIs
  <2>11. Playing(next, next.copy, K, m, r, N)
    BY <2>3, <2>4, <2>10, StartPlays
  <2>12. Source(next) = J
    BY <2>2, <2>3, <2>5 DEF Source
  <2>13. Owned(next) = next.copy
    BY <2>3 DEF Owned
  <2>14. next.pc \notin Starting
    BY <2>3 DEF Starting
  <2>15. Telling(next)
    BY <2>3, <2>9, <2>11, <2>12, <2>13, <2>14 DEF Telling
  <2> QED BY <2>1, <2>15, AsideTold
<1> QED BY <1>2, <1>3

(* And nothing once it has reported.                                        *)
LEMMA ReportTells ==
  ASSUME IInv, JournalsTold, DriversTold, NEW p \in Processes, Report(p)
  PROVE  JournalsTold' /\ DriversTold'
<1> DEFINE d == driver[p]
<1>1. PICK anchored \in BOOLEAN : Quietly(p, Reported(d, Compare(Snapshot(d), d.copy), anchored))
  BY DEF Report
<1> DEFINE next == Reported(d, Compare(Snapshot(d), d.copy), anchored)
<1>2. Typed(d)
  BY DEF IInv, Drivers
<1>3. next.pc = "reported"
  BY <1>2, Fields DEF Reported, Goto, Typed
<1>4. Quietly(p, next)
  BY <1>1
<1> HIDE DEF next
<1>5. next.pc \notin Starting \cup Running
  BY <1>3 DEF Starting, Running, LoopPCs
<1> QED BY <1>4, <1>5, OutsideTold

(* Every journal tells its story, every resumed one that of what was kept,  *)
(* and every process plays the script it was given.                         *)
THEOREM ToldHolds == Spec => [](IInv /\ JournalsTold /\ DriversTold)
<1>1. Init => JournalsTold /\ DriversTold
  <2> SUFFICES ASSUME Init PROVE JournalsTold /\ DriversTold
    OBVIOUS
  <2> DEFINE run == [Idle EXCEPT !.pc = "list", !.role = "run"]
  <2>1. PICK first \in Processes :
          driver = [p \in Processes |-> IF p = first THEN run ELSE Idle]
    BY DEF Init
  <2>2. JournalsTold
    <3>1. DOMAIN attempts = {}
      BY EmptyIs DEF Init
    <3> QED BY <3>1 DEF JournalsTold
  <2>3. /\ run.pc = "list" /\ run.role = "run" /\ run.from = 0
        /\ run.replies = <<>> /\ run.results = <<>>
        /\ run.turns = <<>> /\ run.step = 0 /\ run.diverged = FALSE /\ run.above = FALSE
    BY Fields DEF Idle
  <2> HIDE DEF run
  <2>4. Telling(run)
    <3>1. ScriptOK(<<>>, 0, None, <<>>) /\ GivesKept(<<>>, <<>>, 0, None, <<>>)
      BY NothingGiven
    <3>2. RepliesAfter(<<>>, None, 0, 0) = <<>>
      BY RepliesNone
    <3>3. ResultsAfter(<<>>, <<>>, 0) = <<>>
      <4>1. PICK none : none = <<>> /\ Len(none) = 0
        BY EmptyIs
      <4>2. 0 \in 0..Len(none)
        BY <4>1
      <4>3. ResultsAfter(none, none, 0) = <<>>
        BY <4>1, <4>2, ResultsNone
      <4> QED BY <4>1, <4>3
    <3>4. Fresh(run, <<>>, 0, None, <<>>)
      BY <2>3, <3>1, <3>2, <3>3, FreshIs
    <3>5. Source(run) = <<>>
      BY <2>3 DEF Source
    <3>6. run.pc \notin Running
      BY <2>3 DEF Running, LoopPCs
    <3> QED BY <2>3, <3>1, <3>4, <3>5, <3>6 DEF Telling
  <2>5. Telling(Idle)
    BY IdleOutside DEF Telling
  <2>6. DriversTold
    BY <2>1, <2>4, <2>5 DEF DriversTold
  <2> QED BY <2>2, <2>6
<1>2. IInv /\ IInv' /\ JournalsTold /\ DriversTold /\ [Next]_vars => JournalsTold' /\ DriversTold'
  <2> SUFFICES ASSUME IInv, IInv', JournalsTold, DriversTold, [Next]_vars PROVE JournalsTold' /\ DriversTold'
    OBVIOUS
  <2>1. ASSUME NEW p \in Processes, Exit(p) \/ Kill(p) PROVE JournalsTold' /\ DriversTold'
    BY <2>1, IdleOutside, OutsideTold DEF Exit, Kill
  <2>2. CASE UNCHANGED vars
    <3>1. attempts' = attempts /\ driver' = driver
      BY <2>2 DEF vars
    <3>2. JournalsTold'
      BY <3>1 DEF JournalsTold, Resumes
    <3>3. DriversTold'
      BY <3>1 DEF DriversTold, Telling, Source, Owned
    <3> QED BY <3>2, <3>3
  <2> QED BY <2>1, <2>2, ResumeTells, ListTells, MakeTells, HeaderTells, LoopTells, AuditTells, ReportTells DEF Next
<1> QED BY <1>1, <1>2, Inductive, PTL DEF Spec

-----------------------------------------------------------------------------
(***************************************************************************)
(* The two cursors of the catch-up.                                         *)
(***************************************************************************)
(* The calls in the replies left are those of the results left.             *)
LEMMA CallsAre ==
  ASSUME NEW K, NEW r, NEW N, ScriptOK(K, Len(K), r, N), NEW n \in Nat, NEW o, FedUpTo(N, o, n)
  PROVE  CallsIn(RepliesAfter(K, r, Len(K), n)) =
           [i \in DOMAIN ResultsAfter(K, N, o) |-> ResultsAfter(K, N, o)[i].call]
<1>1. /\ Turns(K) /\ Len(K) \in Nat /\ N \in Seq(Nat) /\ Len(N) \in Nat
      /\ \A i \in 1..Len(N) : N[i] \in Called(K) /\ N[i] \in Nat
      /\ \A i, j \in 1..Len(N) : i < j => N[i] < N[j]
      /\ \A s \in Called(K) : \E i \in 1..Len(N) : N[i] = s
  BY DEF ScriptOK, Turns, Lists
<1>2. o \in 0..Len(N) /\ \A i \in 1..Len(N) : i <= o <=> N[i] <= n
  BY DEF FedUpTo
<1>3. PICK a \in Nat : a = Len(K) /\ \A s \in Called(K) : s \in 1..a
  BY <1>1 DEF Called
<1>4. PICK c \in Nat : c = Len(N) - o
  <2>1. o \in 0..Len(N) /\ Len(N) \in Nat
    BY <1>1, <1>2
  <2> QED BY ONLY <2>1
<1>5. PICK replies : replies = RepliesAfter(K, r, Len(K), n)
  OBVIOUS
<1>6. DOMAIN replies = 1..(a - n) /\ \A i \in 1..(a - n) : replies[i].reply = ReplyAt(K, r, n + i)
  BY <1>3, <1>5 DEF RepliesAfter, ExchangeAt
<1>7. \A i \in 1..(a - n) : n + i \in 1..a /\ replies[i].reply = K[n + i][1]
  <2> SUFFICES ASSUME NEW i \in 1..(a - n) PROVE n + i \in 1..a /\ replies[i].reply = K[n + i][1]
    OBVIOUS
  <2>1. n + i \in 1..a
    BY <1>3
  <2> QED BY <1>3, <1>6, <2>1 DEF ReplyAt
<1>8. \A s \in 1..a : K[s][1] \in Calls \cup {Malformed}
  BY <1>1, <1>3 DEF Turns, OneTurn
<1> DEFINE I == {i \in DOMAIN replies : replies[i].reply \notin {Submit, Malformed, Unavailable, Diverged}}
<1>9. PICK I2 : I2 = I
  OBVIOUS
<1>10. \A i \in 1..(a - n) : i \in I2 <=> n + i \in Called(K)
  <2> SUFFICES ASSUME NEW i \in 1..(a - n) PROVE i \in I2 <=> n + i \in Called(K)
    OBVIOUS
  <2>1. n + i \in 1..a /\ replies[i].reply = K[n + i][1] /\ K[n + i][1] \in Calls \cup {Malformed}
    BY <1>7, <1>8
  <2>2. i \in I2 <=> K[n + i][1] # Malformed
    BY <1>6, <1>9, <2>1, LifecycleAssumption
  <2> QED BY <1>3, <2>1, <2>2 DEF Called
<1>11. I2 \subseteq 1..(a - n)
  BY <1>6, <1>9
<1> HIDE DEF I
<1>12. PICK g : g = [i \in 1..c |-> N[o + i] - n]
  OBVIOUS
<1>13. \A i \in 1..c :
         o + i \in 1..Len(N) /\ N[o + i] \in Called(K) /\ N[o + i] - n \in 1..(a - n) /\ N[o + i] \in Nat
  <2> SUFFICES ASSUME NEW i \in 1..c
               PROVE  o + i \in 1..Len(N) /\ N[o + i] \in Called(K) /\ N[o + i] - n \in 1..(a - n) /\ N[o + i] \in Nat
    OBVIOUS
  <2>1. o + i \in 1..Len(N) /\ ~(o + i <= o)
    BY <1>1, <1>2, <1>4
  <2>2. N[o + i] \in Nat /\ ~(N[o + i] <= n) /\ N[o + i] \in Called(K) /\ N[o + i] <= a
    BY <1>1, <1>2, <1>3, <2>1
  <2> QED BY <2>1, <2>2
<1>14. Len(g) = c /\ g \in Seq(Nat) /\ \A i \in 1..c : g[i] = N[o + i] - n
  <2>1. \A i \in 1..c : N[o + i] - n \in Nat
    BY <1>13
  <2> QED BY <1>12, <2>1
<1>15. Lists(g, I2)
  <2>1. \A i \in 1..c : g[i] \in I2
    <3> SUFFICES ASSUME NEW i \in 1..c PROVE g[i] \in I2
      OBVIOUS
    <3>1. g[i] \in 1..(a - n) /\ n + g[i] = N[o + i] /\ N[o + i] \in Called(K)
      BY <1>13, <1>14
    <3> QED BY <1>10, <3>1
  <2>2. ASSUME NEW i \in 1..c, NEW j \in 1..c, i < j PROVE g[i] < g[j]
    <3>0. o \in Nat
      BY <1>2
    <3>1. o + i < o + j
      BY ONLY <2>2, <3>0, i \in 1..c, j \in 1..c, c \in Nat
    <3>1a. o + i \in 1..Len(N) /\ o + j \in 1..Len(N)
      BY <1>13
    <3>2. N[o + i] < N[o + j]
      BY <1>1, <3>1, <3>1a
    <3>3. N[o + i] \in Nat /\ N[o + j] \in Nat
      BY <1>13
    <3>4. g[i] = N[o + i] - n /\ g[j] = N[o + j] - n
      BY <1>14
    <3> QED BY ONLY <3>2, <3>3, <3>4, n \in Nat
  <2>3. ASSUME NEW x \in I2 PROVE \E i \in 1..c : g[i] = x
    <3>1. x \in 1..(a - n) /\ n + x \in Called(K)
      BY <1>10, <1>11
    <3>2. PICK j \in 1..Len(N) : N[j] = n + x
      BY <1>1, <3>1
    <3>3. ~(N[j] <= n)
      BY <3>1, <3>2
    <3>4. ~(j <= o) /\ j \in Nat /\ o \in Nat
      BY <1>2, <3>3
    <3>5. j - o \in 1..c /\ o + (j - o) = j
      BY <1>1, <1>4, <3>4
    <3>6. g[j - o] = x
      BY <1>14, <3>1, <3>2, <3>5
    <3> QED BY <3>5, <3>6
  <2> QED BY <1>14, <2>1, <2>2, <2>3 DEF Lists
<1>16. replies \in Seq(Range(replies)) /\ Len(replies) = IF a >= n THEN a - n ELSE 0
  <2>1. CASE a >= n
    <3>1. PICK b \in Nat : b = a - n
      BY <2>1
    <3>2. replies = [i \in 1..b |-> ExchangeAt(K, r, n + i)]
      BY <1>3, <1>5, <3>1 DEF RepliesAfter
    <3>3. \A i \in 1..b : replies[i] \in Range(replies)
      BY <1>6, <3>1 DEF Range
    <3>4. DOMAIN replies = 1..b /\ replies = [i \in 1..b |-> replies[i]]
      BY ONLY <3>2
    <3>5. PICK R : R = Range(replies)
      OBVIOUS
    <3>6. \A i \in 1..b : replies[i] \in R
      BY <3>3, <3>5
    <3>7. replies \in Seq(R) /\ Len(replies) = b
      BY ONLY <3>4, <3>6, b \in Nat
    <3> QED BY <2>1, <3>1, <3>5, <3>7
  <2>2. CASE ~(a >= n)
    <3>1. replies = <<>>
      BY <1>3, <1>5, <2>2, RepliesNone
    <3> QED BY <2>2, <3>1, EmptyIs
  <2> QED BY <2>1, <2>2
<1>17. I2 \subseteq 1..Len(replies)
  BY <1>11, <1>16
<1>18. PICK called : called = Chosen(replies, I2)
  OBVIOUS
<1>19. called = Picked(replies, g)
  BY <1>15, <1>16, <1>17, <1>18, Chooses
<1>20. DOMAIN called = 1..c /\ \A i \in 1..c : called[i] = replies[g[i]]
  BY <1>14, <1>19 DEF Picked
<1>21. \A i \in 1..c : called[i].reply = K[N[o + i]][1]
  <2> SUFFICES ASSUME NEW i \in 1..c PROVE called[i].reply = K[N[o + i]][1]
    OBVIOUS
  <2>1. g[i] \in 1..(a - n) /\ n + g[i] = N[o + i]
    BY <1>13, <1>14
  <2> QED BY <1>7, <1>20, <2>1
<1>22. CallsIn(replies) = [i \in DOMAIN called |-> called[i].reply]
  BY <1>9, <1>18 DEF CallsIn, I
<1>23. PICK results : results = ResultsAfter(K, N, o)
  OBVIOUS
<1>24. DOMAIN results = 1..c /\ \A i \in 1..c : results[i].call = K[N[o + i]][1]
  BY <1>4, <1>23 DEF ResultsAfter, ResultAt
<1>25. [i \in DOMAIN called |-> called[i].reply] = [i \in DOMAIN results |-> results[i].call]
  BY <1>20, <1>21, <1>24
<1> QED BY <1>5, <1>22, <1>23, <1>25

(* In every step of the catch-up the results not yet fed are those of the   *)
(* calls in the replies not yet replayed, in order: no recorded call runs   *)
(* again, and none is answered with the result of another.                  *)
THEOREM CursorsAgreeHolds == Spec => []CursorsAgree
<1>1. ASSUME IInv, DriversTold PROVE CursorsAgree
  <2> SUFFICES ASSUME NEW p \in Processes, driver[p].role = "resume", driver[p].pc = "begin"
               PROVE  CallsIn(driver[p].replies) = [i \in DOMAIN driver[p].results |-> driver[p].results[i].call]
    BY DEF CursorsAgree
  <2>1. PICK d : d = driver[p]
    OBVIOUS
  <2>2. d.role # "audit" /\ d.pc \in Running /\ Telling(d)
    BY <1>1, <2>1 DEF DriversTold, Running, LoopPCs
  <2>3. PICK K, m, r, N : GivesKept(Source(d), K, m, r, N) /\ Playing(d, Owned(d), K, m, r, N)
    BY <2>2 DEF Telling
  <2>4. m = Len(K) /\ ScriptOK(K, m, r, N)
    BY <2>3 DEF GivesKept
  <2>5. PICK E, P, t, q, o : Plays(d, Owned(d), K, m, r, N, E, P, t, q, o)
    BY <2>3 DEF Playing
  <2>6. t = 0
    BY <2>1, <2>5 DEF Plays, Where
  <2>7. PICK n \in Nat : n = Len(d.turns)
    BY <2>5, StoryEnds DEF Plays
  <2>8. Fed(d, K, m, r, N, o, t, q) /\ Taken(d.turns, t) = n
    BY <2>5, <2>6, <2>7 DEF Plays, Taken
  <2>9. d.replies = RepliesAfter(K, r, Len(K), n) /\ d.results = ResultsAfter(K, N, o) /\ FedUpTo(N, o, n)
    BY <2>4, <2>7, <2>8 DEF Fed, RepliesAfter, ResultsAfter
  <2>10. CallsIn(RepliesAfter(K, r, Len(K), n)) =
           [i \in DOMAIN ResultsAfter(K, N, o) |-> ResultsAfter(K, N, o)[i].call]
    BY <2>4, <2>9, CallsAre
  <2> QED BY <2>1, <2>9, <2>10
<1> QED BY <1>1, ToldHolds, PTL

-----------------------------------------------------------------------------
(***************************************************************************)
(* Two journals that tell the same turns, as far as both go.                *)
(***************************************************************************)
Accord(K, t, r, K2, t2, r2) ==
  /\ \A s \in 1..Len(K) : s <= Len(K2) => K[s] = K2[s]
  /\ t >= 2 /\ Len(K) < Len(K2) => r = K2[Len(K) + 1][1]
  /\ t2 >= 2 /\ Len(K2) < Len(K) => r2 = K[Len(K2) + 1][1]
  /\ t >= 2 /\ t2 >= 2 /\ Len(K) = Len(K2) => r = r2

(* Neither comes first.                                                     *)
LEMMA AccordTurned ==
  ASSUME NEW K, NEW t, NEW r, NEW K2, NEW t2, NEW r2, Accord(K, t, r, K2, t2, r2),
         Len(K) \in Nat, Len(K2) \in Nat
  PROVE  Accord(K2, t2, r2, K, t, r)
<1>1. \A s \in 1..Len(K2) : s <= Len(K) => K2[s] = K[s]
  BY DEF Accord
<1> QED BY <1>1 DEF Accord

(* A process that follows a script is in accord with the journal it gives.  *)
LEMMA FollowsAccord ==
  ASSUME NEW J, NEW E, NEW K, NEW P, NEW t, NEW r, Story(J, E, K, P, t, r),
         NEW S, NEW E2, NEW K2, NEW P2, NEW t2, NEW r2, Story(S, E2, K2, P2, t2, r2),
         Follows(K, t, r, K2, Held(K2, t2), r2)
  PROVE  Accord(K, t, r, K2, t2, r2)
<1>1. PICK n \in Nat : n = Len(K)
  BY StoryEnds
<1>2. PICK n2 \in Nat : n2 = Len(K2)
  BY StoryEnds
<1>3. PICK m : m = Held(K2, t2) /\ m \in {n2, n2 + 1} /\ (t2 >= 2 => m = n2 + 1)
  BY <1>2 DEF Held
<1>4. \A s \in 1..n : s <= n2 => K[s] = K2[s]
  BY <1>1, <1>2 DEF Follows
<1>5. \A s \in 1..n : s <= m => K[s][1] = ReplyAt(K2, r2, s)
  BY <1>1, <1>3 DEF Follows
<1>6. t >= 2 /\ n + 1 <= m => r = ReplyAt(K2, r2, n + 1)
  BY <1>1, <1>3 DEF Follows
<1>7. t >= 2 /\ n < n2 => r = K2[n + 1][1]
  <2> SUFFICES ASSUME t >= 2, n < n2 PROVE r = K2[n + 1][1]
    OBVIOUS
  <2>1. n + 1 <= m /\ n + 1 <= n2
    BY <1>3
  <2> QED BY <1>2, <1>6, <2>1 DEF ReplyAt
<1>8. t2 >= 2 /\ n2 < n => r2 = K[n2 + 1][1]
  <2> SUFFICES ASSUME t2 >= 2, n2 < n PROVE r2 = K[n2 + 1][1]
    OBVIOUS
  <2>1. n2 + 1 <= m /\ n2 + 1 \in 1..n /\ ~(n2 + 1 <= n2)
    BY <1>3
  <2> QED BY <1>2, <1>5, <2>1 DEF ReplyAt
<1>9. t >= 2 /\ t2 >= 2 /\ n = n2 => r = r2
  <2> SUFFICES ASSUME t >= 2, t2 >= 2, n = n2 PROVE r = r2
    OBVIOUS
  <2>1. n + 1 <= m /\ ~(n + 1 <= n2)
    BY <1>3
  <2> QED BY <1>2, <1>6, <2>1 DEF ReplyAt
<1> QED BY <1>1, <1>2, <1>4, <1>7, <1>8, <1>9 DEF Accord

(* Their steps end at the same places.                                      *)
LEMMA SameEnds ==
  ASSUME NEW J, NEW E, NEW K, NEW P, NEW t, NEW r, Story(J, E, K, P, t, r),
         NEW S, NEW E2, NEW K2, NEW P2, NEW t2, NEW r2, Story(S, E2, K2, P2, t2, r2),
         Accord(K, t, r, K2, t2, r2)
  PROVE  \A s \in 0..Len(K) : s <= Len(K2) => P[s] = P2[s]
<1>1. PICK n \in Nat : n = Len(K)
  BY StoryEnds
<1>2. PICK n2 \in Nat : n2 = Len(K2)
  BY StoryEnds
<1> DEFINE B == {s \in 0..n : s <= n2 /\ P[s] # P2[s]}
<1> SUFFICES ASSUME B # {} PROVE FALSE
  BY <1>1, <1>2
<1>3. B \subseteq Nat
  OBVIOUS
<1>4. PICK s \in B : \A x \in B : s <= x
  <2> HIDE DEF B
  <2> QED BY <1>3, LeastIs
<1>5. s \in 0..n /\ s <= n2 /\ P[s] # P2[s]
  BY <1>4
<1>6. P[0] = 0 /\ P2[0] = 0
  BY DEF Story, Ends
<1>7. s \in 1..n /\ s \in 1..n2 /\ s - 1 \in 0..n /\ s - 1 <= n2 /\ ~(s <= s - 1)
  BY <1>5, <1>6
<1>8. s - 1 \notin B
  BY <1>4, <1>7
<1>9. P[s - 1] = P2[s - 1] /\ K[s] = K2[s]
  BY <1>1, <1>2, <1>5, <1>7, <1>8 DEF Accord
<1> HIDE DEF B
<1>10. StepTold(J, E, K, P[s - 1], P[s], s) /\ StepTold(S, E2, K2, P2[s - 1], P2[s], s)
  BY <1>1, <1>2, <1>7 DEF Story
<1>11. P[s] = IF K[s][1] = Malformed THEN P[s - 1] + 3 ELSE P[s - 1] + 4
  BY <1>10 DEF StepTold
<1>12. P2[s] = IF K2[s][1] = Malformed THEN P2[s - 1] + 3 ELSE P2[s - 1] + 4
  BY <1>10 DEF StepTold
<1> QED BY ONLY <1>5, <1>9, <1>11, <1>12

(* The one with fewer turns ends inside the other's next step.              *)
LEMMA Shorter ==
  ASSUME NEW J, NEW E, NEW K, NEW P, NEW t, NEW r, Story(J, E, K, P, t, r),
         NEW S, NEW E2, NEW K2, NEW P2, NEW t2, NEW r2, Story(S, E2, K2, P2, t2, r2),
         Accord(K, t, r, K2, t2, r2), Len(K) < Len(K2)
  PROVE  t <= 3 /\ Len(E) < P2[Len(K) + 1] /\ (t >= 2 => r \in Calls \cup {Malformed})
<1>1. PICK n \in Nat : n = Len(K)
  BY StoryEnds
<1>2. PICK n2 \in Nat : n2 = Len(K2)
  BY StoryEnds
<1>3. n < n2 /\ n + 1 \in 1..n2 /\ n \in 0..n /\ n <= n2 /\ n + 1 - 1 = n
  BY <1>1, <1>2
<1>4. t \in 0..5 /\ Len(E) = P[n] + t /\ P[n] \in Nat
  BY <1>1, <1>3, StoryEnds
<1>5. K2[n + 1][1] \in Calls \cup {Malformed}
  BY <1>2, <1>3 DEF Story, Turns, OneTurn
<1>6. t >= 2 => r = K2[n + 1][1]
  BY <1>1, <1>2, <1>3 DEF Accord
<1>7. StepOpen(J, E, K, P[n], t, r)
  BY <1>1 DEF Story
<1>8. t <= 3
  <2> SUFFICES ASSUME t >= 4 PROVE FALSE
    BY <1>4
  <2>1. r = Submit /\ t >= 2
    BY <1>4, <1>7 DEF StepOpen
  <2> QED BY <1>5, <1>6, <2>1, LifecycleAssumption DEF Submit, Malformed
<1>9. t = 3 => r \in Calls \cup {Submit}
  BY <1>7 DEF StepOpen
<1>10. t = 3 => K2[n + 1][1] # Malformed
  BY <1>6, <1>9, LifecycleAssumption DEF Submit, Malformed
<1>11. P[n] = P2[n]
  BY <1>1, <1>2, <1>3, SameEnds
<1>12. StepTold(S, E2, K2, P2[n], P2[n + 1], n + 1)
  <2>1. StepTold(S, E2, K2, P2[n + 1 - 1], P2[n + 1], n + 1)
    BY <1>2, <1>3 DEF Story
  <2> QED BY <1>3, <2>1
<1>13. P2[n + 1] = IF K2[n + 1][1] = Malformed THEN P2[n] + 3 ELSE P2[n] + 4
  BY <1>12 DEF StepTold
<1>14. P[n] + t < P2[n + 1]
  BY ONLY <1>4, <1>8, <1>10, <1>11, <1>13
<1> QED BY <1>1, <1>4, <1>5, <1>6, <1>8, <1>14

(* So a record that both have is of the same step.                          *)
LEMMA NotBefore ==
  ASSUME NEW J, NEW E, NEW K, NEW P, NEW t, NEW r, Story(J, E, K, P, t, r),
         NEW S, NEW E2, NEW K2, NEW P2, NEW t2, NEW r2, Story(S, E2, K2, P2, t2, r2),
         Accord(K, t, r, K2, t2, r2), NEW j \in 1..Len(E), NEW s, NEW k, Spot(K, P, t, j, s, k),
         NEW s2, NEW k2, Spot(K2, P2, t2, j, s2, k2)
  PROVE  ~(s < s2)
<1> SUFFICES ASSUME s < s2 PROVE FALSE
  OBVIOUS
<1>1. PICK n \in Nat : n = Len(K)
  BY StoryEnds
<1>2. PICK n2 \in Nat : n2 = Len(K2)
  BY StoryEnds
<1>3. s \in 1..(n + 1) /\ s2 \in 1..(n2 + 1) /\ k2 \in 1..5 /\ j = P2[s2 - 1] + k2
  BY <1>1, <1>2 DEF Spot
<1>4. s \in 1..n2 /\ s2 - 1 \in 0..n2 /\ s \in 0..n2 /\ s <= s2 - 1
  BY <1>3
<1>5. P2[s] \in Nat /\ P2[s2 - 1] \in Nat /\ P2[s] <= P2[s2 - 1]
  <2>1. P2[s] \in Nat /\ P2[s2 - 1] \in Nat
    BY <1>2, <1>4, StoryEnds
  <2>2. s < s2 - 1 => P2[s] < P2[s2 - 1]
    BY <1>2, <1>4, StoryEnds
  <2>3. s = s2 - 1 \/ s < s2 - 1
    BY <1>3, <1>4
  <2> QED BY <2>1, <2>2, <2>3
<1>6. j <= P2[s]
  <2>1. CASE s <= n
    <3>1. j <= P[s]
      BY <1>1, <2>1 DEF Spot
    <3>2. s \in 0..n
      BY <1>3, <2>1
    <3>3. P[s] = P2[s]
      BY <1>1, <1>2, <1>4, <3>2, SameEnds
    <3> QED BY <3>1, <3>3
  <2>2. CASE ~(s <= n)
    <3>1. s = n + 1 /\ n < n2
      BY <1>3, <1>4, <2>2
    <3>2. Len(E) < P2[n + 1]
      BY <1>1, <1>2, <3>1, Shorter
    <3>3. Len(E) \in Nat
      BY StoryEnds
    <3> QED BY <1>5, <3>1, <3>2, <3>3
  <2> QED BY <2>1, <2>2
<1> QED BY <1>3, <1>5, <1>6, j \in 1..Len(E)

(* A record both have is the same one of the same step.                     *)
LEMMA SameSpot ==
  ASSUME NEW J, NEW E, NEW K, NEW P, NEW t, NEW r, Story(J, E, K, P, t, r),
         NEW S, NEW E2, NEW K2, NEW P2, NEW t2, NEW r2, Story(S, E2, K2, P2, t2, r2),
         Accord(K, t, r, K2, t2, r2), NEW j \in 1..Len(E), j \in 1..Len(E2)
  PROVE  \E s, k : Spot(K, P, t, j, s, k) /\ Spot(K2, P2, t2, j, s, k) /\ P[s - 1] = P2[s - 1]
<1>1. PICK n \in Nat : n = Len(K)
  BY StoryEnds
<1>2. PICK n2 \in Nat : n2 = Len(K2)
  BY StoryEnds
<1>3. PICK s, k : Spot(K, P, t, j, s, k)
  BY Located
<1>4. PICK s2, k2 : Spot(K2, P2, t2, j, s2, k2)
  BY Located
<1>5. ~(s < s2)
  BY <1>3, <1>4, NotBefore
<1>6. ~(s2 < s)
  <2>1. Accord(K2, t2, r2, K, t, r)
    BY <1>1, <1>2, AccordTurned
  <2> QED BY <1>3, <1>4, <2>1, NotBefore
<1>7. s \in 1..(n + 1) /\ s2 \in 1..(n2 + 1) /\ k \in 1..5 /\ k2 \in 1..5 /\ j = P[s - 1] + k /\ j = P2[s2 - 1] + k2
  BY <1>1, <1>2, <1>3, <1>4 DEF Spot
<1>8. s = s2
  BY <1>5, <1>6, <1>7
<1>9. s - 1 \in 0..n /\ s - 1 <= n2
  BY <1>7, <1>8
<1>10. P[s - 1] = P2[s - 1] /\ P[s - 1] \in Nat
  BY <1>1, <1>2, <1>9, SameEnds, StoryEnds
<1>11. k = k2
  BY <1>7, <1>8, <1>10
<1> QED BY <1>3, <1>4, <1>8, <1>10, <1>11

\* Record k of step s, of which the reply is q and the result f, after b others.
Says(J, E, b, k, s, before, q, f) ==
  /\ k = 1 => Reads(J[E[b + 1]], "ModelRequested", s, <<before>>)
  /\ k = 2 => Reads(J[E[b + 2]], "ModelReplied", s, <<q>>)
  /\ k = 3 /\ q = Malformed => Reads(J[E[b + 3]], "FormatError", s, <<>>)
  /\ k = 3 /\ q # Malformed => Reads(J[E[b + 3]], "ToolStarted", s, <<q>>)
  /\ k >= 4 => J[E[b + 3]].kind = "ToolStarted"
  /\ k = 4 /\ q = Submit => Reads(J[E[b + 4]], "SubmitRequested", s, <<E[b + 3] - 1>>)
  /\ k = 4 /\ q # Submit => Reads(J[E[b + 4]], "ToolFinished", s, <<E[b + 3] - 1, f>>)
  /\ k = 5 => Reads(J[E[b + 5]], "ToolFinished", s, <<E[b + 3] - 1, "ok">>)

(* It follows from the turns and the reply.                                 *)
LEMMA SaysAt ==
  ASSUME NEW J, NEW E, NEW K, NEW P, NEW t, NEW r, Story(J, E, K, P, t, r),
         NEW j, NEW s, NEW k, Spot(K, P, t, j, s, k)
  PROVE  /\ Says(J, E, P[s - 1], k, s, Upto(K, s - 1), ReplyAt(K, r, s), K[s][2])
         /\ k >= 4 => s <= Len(K) \/ ReplyAt(K, r, s) = Submit
<1>1. PICK n \in Nat : n = Len(K)
  BY StoryEnds
<1>2. s \in 1..(n + 1) /\ k \in 1..5 /\ j = P[s - 1] + k
  BY <1>1 DEF Spot
<1>3. PICK q : q = ReplyAt(K, r, s)
  OBVIOUS
<1>4. CASE s <= n
  <2>1. s \in 1..n
    BY <1>2, <1>4
  <2>2. k <= 4 /\ j <= P[s]
    BY <1>1, <1>4 DEF Spot
  <2>3. PICK b \in Nat : b = P[s - 1]
    BY <1>1, <2>1, StoryEnds
  <2>4. StepTold(J, E, K, b, P[s], s)
    BY <1>1, <2>1, <2>3 DEF Story
  <2>5. q = K[s][1] /\ q \in Calls \cup {Malformed}
    BY <1>1, <1>3, <1>4, <2>1 DEF ReplyAt, Story, Turns, OneTurn
  <2>6. q # Submit
    BY <2>5, LifecycleAssumption DEF Submit, Malformed
  <2>7. k = 4 => q # Malformed
    <3>1. q = Malformed => P[s] = b + 3
      BY <2>4, <2>5 DEF StepTold
    <3> QED BY <1>2, <2>2, <2>3, <3>1
  <2>8. k = 1 => Reads(J[E[b + 1]], "ModelRequested", s, <<Upto(K, s - 1)>>)
    BY <2>4 DEF StepTold
  <2>9. k = 2 => Reads(J[E[b + 2]], "ModelReplied", s, <<q>>)
    BY <2>4, <2>5 DEF StepTold
  <2>10. q = Malformed => Reads(J[E[b + 3]], "FormatError", s, <<>>)
    BY <2>4, <2>5 DEF StepTold
  <2>11. q # Malformed => /\ Reads(J[E[b + 3]], "ToolStarted", s, <<q>>)
                          /\ Reads(J[E[b + 4]], "ToolFinished", s, <<E[b + 3] - 1, K[s][2]>>)
    BY <2>4, <2>5 DEF StepTold
  <2>12. k >= 4 => k = 4 /\ J[E[b + 3]].kind = "ToolStarted"
    BY <1>2, <2>2, <2>7, <2>11 DEF Reads
  <2>13. k # 5
    BY <2>2
  <2> QED BY <1>1, <1>3, <1>4, <2>3, <2>6, <2>7, <2>8, <2>9, <2>10, <2>11, <2>12, <2>13 DEF Says
<1>5. CASE s = n + 1
  <2>1. s - 1 = n /\ ~(s <= n) /\ n \in 0..n
    BY <1>5
  <2>2. k <= t /\ t \in 0..5
    BY <1>1, <1>5, StoryEnds DEF Spot
  <2>3. PICK b \in Nat : b = P[n]
    BY <1>1, <2>1, StoryEnds
  <2>4. StepOpen(J, E, K, b, t, r)
    BY <1>1, <2>3 DEF Story
  <2>5. q = r
    BY <1>1, <1>3, <2>1 DEF ReplyAt
  <2>6. k = 1 => Reads(J[E[b + 1]], "ModelRequested", s, <<Upto(K, s - 1)>>)
    BY <1>1, <1>2, <1>5, <2>1, <2>2, <2>4 DEF StepOpen
  <2>7. k = 2 => Reads(J[E[b + 2]], "ModelReplied", s, <<q>>)
    BY <1>1, <1>2, <1>5, <2>2, <2>4, <2>5 DEF StepOpen
  <2>8. k >= 3 => Reads(J[E[b + 3]], "ToolStarted", s, <<q>>) /\ q # Malformed
    <3> SUFFICES ASSUME k >= 3 PROVE Reads(J[E[b + 3]], "ToolStarted", s, <<q>>) /\ q # Malformed
      OBVIOUS
    <3>1. t >= 3
      BY <1>2, <2>2
    <3>2. Reads(J[E[b + 3]], "ToolStarted", s, <<r>>) /\ r \in Calls \cup {Submit}
      BY <1>1, <1>5, <2>4, <3>1 DEF StepOpen
    <3> QED BY <2>5, <3>2, LifecycleAssumption DEF Submit, Malformed
  <2>9. k >= 4 => Reads(J[E[b + 4]], "SubmitRequested", s, <<E[b + 3] - 1>>) /\ q = Submit
    BY <1>1, <1>2, <1>5, <2>2, <2>4, <2>5 DEF StepOpen
  <2>10. k = 5 => Reads(J[E[b + 5]], "ToolFinished", s, <<E[b + 3] - 1, "ok">>)
    BY <1>1, <1>2, <1>5, <2>2, <2>4 DEF StepOpen
  <2>11. k >= 4 => J[E[b + 3]].kind = "ToolStarted"
    BY <1>2, <2>8 DEF Reads
  <2>12. Says(J, E, b, k, s, Upto(K, s - 1), q, K[s][2])
    BY <1>2, <2>6, <2>7, <2>8, <2>9, <2>10, <2>11 DEF Says
  <2> QED BY <1>1, <1>3, <1>5, <2>1, <2>3, <2>9, <2>12
<1> QED BY <1>2, <1>4, <1>5

\* The j-th records of the two say the same, but for where their intents are.
SameAt(J, E, S, E2, j) ==
  LET x == J[E[j]]
      y == S[E2[j]]
  IN  /\ x.kind = y.kind /\ x.step = y.step
      /\ \/ x.body = y.body
         \/ \E i \in 1..j :
              /\ J[E[i]].kind = "ToolStarted" /\ S[E2[i]].kind = "ToolStarted"
              /\ \/ x.kind = "SubmitRequested" /\ x.body = <<E[i] - 1>> /\ y.body = <<E2[i] - 1>>
                 \/ x.kind = "ToolFinished" /\ \E f : x.body = <<E[i] - 1, f>> /\ y.body = <<E2[i] - 1, f>>

(* Records that say so are alike.                                           *)
LEMMA SaysSame ==
  ASSUME NEW J, NEW E, NEW S, NEW E2, NEW b \in Nat, NEW k \in 1..5, NEW j, j = b + k,
         NEW s, NEW before, NEW q, NEW f, NEW g,
         Says(J, E, b, k, s, before, q, f), Says(S, E2, b, k, s, before, q, g),
         k = 4 /\ q # Submit => f = g
  PROVE  SameAt(J, E, S, E2, j)
<1>1. CASE k = 1
  BY <1>1 DEF Says, Reads, SameAt
<1>2. CASE k = 2
  BY <1>2 DEF Says, Reads, SameAt
<1>3. CASE k = 3
  BY <1>3 DEF Says, Reads, SameAt
<1>4. CASE k >= 4
  <2>1. b + 3 \in 1..j
    BY <1>4
  <2>2. J[E[b + 3]].kind = "ToolStarted" /\ S[E2[b + 3]].kind = "ToolStarted"
    BY <1>4 DEF Says
  <2>3. CASE k = 4 /\ q = Submit
    BY <2>1, <2>2, <2>3 DEF Says, Reads, SameAt
  <2>4. CASE k = 4 /\ q # Submit
    BY <2>1, <2>2, <2>4 DEF Says, Reads, SameAt
  <2>5. CASE k = 5
    <3>1. /\ Reads(J[E[b + 5]], "ToolFinished", s, <<E[b + 3] - 1, "ok">>)
          /\ Reads(S[E2[b + 5]], "ToolFinished", s, <<E2[b + 3] - 1, "ok">>)
      BY <2>5 DEF Says
    <3> QED BY <2>1, <2>2, <2>5, <3>1 DEF Reads, SameAt
  <2> QED BY <1>4, <2>3, <2>4, <2>5
<1> QED BY <1>1, <1>2, <1>3, <1>4

(* As far as both go, what the two tell is recorded alike.                  *)
LEMMA SameRecords ==
  ASSUME NEW J, NEW E, NEW K, NEW P, NEW t, NEW r, Story(J, E, K, P, t, r),
         NEW S, NEW E2, NEW K2, NEW P2, NEW t2, NEW r2, Story(S, E2, K2, P2, t2, r2),
         Accord(K, t, r, K2, t2, r2), NEW j \in 1..Len(E), j \in 1..Len(E2)
  PROVE  SameAt(J, E, S, E2, j)
<1>1. PICK n \in Nat : n = Len(K)
  BY StoryEnds
<1>2. PICK n2 \in Nat : n2 = Len(K2)
  BY StoryEnds
<1>3. PICK s, k : Spot(K, P, t, j, s, k) /\ Spot(K2, P2, t2, j, s, k) /\ P[s - 1] = P2[s - 1]
  BY SameSpot
<1>4. s \in 1..(n + 1) /\ s \in 1..(n2 + 1) /\ k \in 1..5 /\ j = P[s - 1] + k
  BY <1>1, <1>2, <1>3 DEF Spot
<1>5. (s = n + 1 => k <= t) /\ (s = n2 + 1 => k <= t2)
  BY <1>1, <1>2, <1>3 DEF Spot
<1>6. PICK b \in Nat : b = P[s - 1]
  <2>1. s - 1 \in 0..n
    BY <1>4
  <2> QED BY <1>1, <2>1, StoryEnds
<1>7. PICK before : before = Upto(K, s - 1)
  OBVIOUS
<1>8. PICK q : q = ReplyAt(K, r, s)
  OBVIOUS
<1>9. Upto(K2, s - 1) = before
  <2>1. \A i \in 1..(s - 1) : K[i] = K2[i]
    <3> SUFFICES ASSUME NEW i \in 1..(s - 1) PROVE K[i] = K2[i]
      OBVIOUS
    <3>1. i \in 1..n /\ i <= n2
      BY <1>4
    <3> QED BY <1>1, <1>2, <3>1 DEF Accord
  <2> QED BY <1>7, <2>1 DEF Upto
<1>10. k >= 2 => ReplyAt(K2, r2, s) = q
  <2> SUFFICES ASSUME k >= 2 PROVE ReplyAt(K2, r2, s) = ReplyAt(K, r, s)
    BY <1>8
  <2>1. CASE s <= n /\ s <= n2
    <3>1. s \in 1..n
      BY <1>4, <2>1
    <3> QED BY <1>1, <1>2, <2>1, <3>1 DEF Accord, ReplyAt
  <2>2. CASE ~(s <= n) /\ s <= n2
    <3>1. s = n + 1 /\ n < n2 /\ t >= 2
      <4>1. t \in 0..5
        BY StoryEnds
      <4> QED BY <1>4, <1>5, <2>2, <4>1
    <3> QED BY <1>1, <1>2, <2>2, <3>1 DEF Accord, ReplyAt
  <2>3. CASE s <= n /\ ~(s <= n2)
    <3>1. s = n2 + 1 /\ n2 < n /\ t2 >= 2
      <4>1. t2 \in 0..5
        BY StoryEnds
      <4> QED BY <1>4, <1>5, <2>3, <4>1
    <3> QED BY <1>1, <1>2, <2>3, <3>1 DEF Accord, ReplyAt
  <2>4. CASE ~(s <= n) /\ ~(s <= n2)
    <3>1. n = n2 /\ t >= 2 /\ t2 >= 2
      <4>1. t \in 0..5 /\ t2 \in 0..5
        BY StoryEnds
      <4> QED BY <1>4, <1>5, <2>4, <4>1
    <3> QED BY <1>1, <1>2, <2>4, <3>1 DEF Accord, ReplyAt
  <2> QED BY <2>1, <2>2, <2>3, <2>4
<1>11. Says(J, E, b, k, s, before, q, K[s][2]) /\ (k >= 4 => s <= n \/ q = Submit)
  BY <1>1, <1>3, <1>6, <1>7, <1>8, SaysAt
<1>12. PICK q2 : q2 = ReplyAt(K2, r2, s) /\ (k >= 2 => q2 = q)
  BY <1>10
<1>13. Says(S, E2, b, k, s, before, q2, K2[s][2]) /\ (k >= 4 => s <= n2 \/ q2 = Submit)
  BY <1>2, <1>3, <1>6, <1>9, <1>12, SaysAt
<1>14. Says(S, E2, b, k, s, before, q, K2[s][2]) /\ (k >= 4 => s <= n2 \/ q = Submit)
  <2>1. CASE k >= 2
    BY <1>12, <1>13, <2>1
  <2>2. CASE k = 1
    BY <1>13, <2>2 DEF Says
  <2> QED BY <1>4, <2>1, <2>2
<1>15. k = 4 /\ q # Submit => K[s][2] = K2[s][2]
  <2> SUFFICES ASSUME k = 4, q # Submit PROVE K[s][2] = K2[s][2]
    OBVIOUS
  <2>1. s <= n /\ s <= n2
    BY <1>11, <1>14
  <2>2. s \in 1..n
    BY <1>4, <2>1
  <2> QED BY <1>1, <1>2, <2>1, <2>2 DEF Accord
<1> QED BY <1>4, <1>6, <1>11, <1>14, <1>15, SaysSame

-----------------------------------------------------------------------------
(***************************************************************************)
(* What is compared of a journal: the records counted, and its stop.        *)
(***************************************************************************)
Tally(J, E) == IF Stopped(J) THEN Len(E) + 1 ELSE Len(E)

\* The records C are those: at E, and then the last.
Compared(C, J, E) ==
  /\ C \in Seq(Range(C)) /\ Len(C) = Tally(J, E) /\ DOMAIN C = 1..Tally(J, E)
  /\ \A j \in 1..Len(E) : C[j] = J[E[j]]
  /\ Stopped(J) => C[Len(E) + 1] = J[Len(J)]

(* The comparison takes those.                                              *)
LEMMA ComparableIs ==
  ASSUME NEW J, NEW E, NEW K, NEW P, NEW t, NEW r, Story(J, E, K, P, t, r), OneStop(J), Len(J) >= 1
  PROVE  Compared(Comparable(J), J, E)
<1>1. PICK l \in Nat : l = Len(J)
  BY StoryEnds
<1>2. PICK c \in Nat : c = Len(E)
  BY StoryEnds
<1>3. PICK a \in Nat : a = Tally(J, E)
  BY <1>2 DEF Tally
<1>4. DOMAIN J = 1..l /\ J \in Seq(Range(J)) /\ l >= 1
  BY <1>1, StoryEnds DEF Story
<1>5. \A j \in 1..c : E[j] \in 2..l /\ J[E[j]].kind \notin Apart /\ E[j] \in Nat
  BY <1>1, <1>2, StoryEnds
<1>6. Lists(E, Counted(J))
  BY DEF Story
<1>7. Stopped(J) <=> J[l].kind = "RunStopped"
  <2>1. J # <<>>
    BY <1>1, <1>4
  <2> QED BY <1>1, <2>1 DEF Stopped
<1>8. J[1].kind = "RunStarted" /\ \A i \in 1..(l - 1) : J[i].kind # "RunStopped"
  BY <1>1 DEF OneStop
<1>9. Stopped(J) => l >= 2 /\ \A j \in 1..c : E[j] < l
  <2> SUFFICES ASSUME Stopped(J) PROVE l >= 2 /\ \A j \in 1..c : E[j] < l
    OBVIOUS
  <2>1. J[l].kind = "RunStopped"
    BY <1>7
  <2>2. l # 1
    BY <1>8, <2>1
  <2>3. \A j \in 1..c : E[j] # l
    BY <1>5, <2>1 DEF Apart
  <2>4. \A j \in 1..c : E[j] < l
    BY <1>5, <2>3
  <2> QED BY <1>4, <2>2, <2>4
<1> DEFINE I == {i \in DOMAIN J \ {1} : J[i].kind # "BudgetCharged"}
<1>10. PICK I2 : I2 = I
  OBVIOUS
<1>11. \A i : i \in I2 <=> i \in Counted(J) \/ (Stopped(J) /\ i = l)
  <2> SUFFICES ASSUME NEW i PROVE i \in I2 <=> i \in Counted(J) \/ (Stopped(J) /\ i = l)
    OBVIOUS
  <2>1. i \in I2 <=> i \in 2..l /\ J[i].kind # "BudgetCharged"
    <3>1. i \in 1..l /\ i # 1 <=> i \in 2..l
      BY <1>4
    <3> QED BY <1>4, <1>10, <3>1
  <2>2. i \in Counted(J) <=> i \in 2..l /\ J[i].kind # "BudgetCharged" /\ J[i].kind # "RunStopped"
    BY <1>1 DEF Counted, Apart
  <2>3. i \in 2..l /\ J[i].kind = "RunStopped" => i = l
    <3>1. i \in 2..l => i \in 1..(l - 1) \/ i = l
      BY <1>4
    <3> QED BY <1>8, <3>1
  <2>4. Stopped(J) => l \in 2..l
    BY <1>9
  <2> QED BY <1>7, <2>1, <2>2, <2>3, <2>4
<1> HIDE DEF I
<1>12. PICK g : g = [i \in 1..a |-> IF i <= c THEN E[i] ELSE l]
  OBVIOUS
<1>13. a = (IF Stopped(J) THEN c + 1 ELSE c)
  BY <1>2, <1>3 DEF Tally
<1>14. \A i \in 1..a : (i <= c => i \in 1..c) /\ (~(i <= c) => Stopped(J) /\ i = c + 1)
  BY ONLY <1>13, a \in Nat, c \in Nat
<1>15. g \in Seq(Nat) /\ Len(g) = a /\ \A i \in 1..a : g[i] = IF i <= c THEN E[i] ELSE l
  <2>1. \A i \in 1..a : (IF i <= c THEN E[i] ELSE l) \in Nat
    BY <1>5, <1>14
  <2> QED BY <1>12, <2>1
<1>16. Lists(g, I2)
  <2>1. \A i \in 1..a : g[i] \in I2
    <3> SUFFICES ASSUME NEW i \in 1..a PROVE g[i] \in I2
      OBVIOUS
    <3>1. i \in 1..c => E[i] \in Counted(J)
      BY <1>2, <1>6 DEF Lists
    <3> QED BY <1>11, <1>14, <1>15, <3>1
  <2>2. ASSUME NEW i \in 1..a, NEW j \in 1..a, i < j PROVE g[i] < g[j]
    <3>1. i <= c /\ i \in 1..c
      BY <1>13, <2>2
    <3>2. CASE j <= c
      <4>1. j \in 1..c
        BY <3>2
      <4>2. E[i] < E[j]
        BY <1>2, <1>6, <2>2, <3>1, <4>1 DEF Lists
      <4> QED BY <1>15, <3>1, <3>2, <4>2
    <3>3. CASE ~(j <= c)
      BY <1>9, <1>14, <1>15, <3>1, <3>3
    <3> QED BY <3>2, <3>3
  <2>3. ASSUME NEW x \in I2 PROVE \E i \in 1..a : g[i] = x
    <3>1. CASE x \in Counted(J)
      <4>1. PICK i \in 1..c : E[i] = x
        BY <1>2, <1>6, <3>1 DEF Lists
      <4>2. i \in 1..a /\ i <= c
        BY <1>13
      <4> QED BY <1>15, <4>1, <4>2
    <3>2. CASE Stopped(J) /\ x = l
      <4>1. c + 1 \in 1..a /\ ~(c + 1 <= c)
        BY <1>13, <3>2
      <4> QED BY <1>15, <3>2, <4>1
    <3> QED BY <1>11, <3>1, <3>2
  <2> QED BY <1>15, <2>1, <2>2, <2>3 DEF Lists
<1>17. I2 \subseteq 1..Len(J)
  BY <1>1, <1>4, <1>10 DEF I
<1>18. PICK C : C = Comparable(J)
  OBVIOUS
<1>19. C = Picked(J, g)
  <2>1. C = Chosen(J, I2)
    BY <1>10, <1>18 DEF Comparable, I
  <2> QED BY <1>4, <1>16, <1>17, <2>1, Chooses
<1>20. DOMAIN C = 1..a /\ C = [i \in 1..a |-> C[i]] /\ \A i \in 1..a : C[i] = J[g[i]]
  BY <1>15, <1>19 DEF Picked
<1>21. C \in Seq(Range(C)) /\ Len(C) = a
  <2>1. PICK R : R = Range(C)
    OBVIOUS
  <2>2. \A i \in 1..a : C[i] \in R
    BY <1>20, <2>1 DEF Range
  <2>3. C \in Seq(R) /\ Len(C) = a
    BY ONLY <1>20, <2>2, a \in Nat
  <2> QED BY <2>1, <2>3
<1>22. \A j \in 1..c : C[j] = J[E[j]]
  <2> SUFFICES ASSUME NEW j \in 1..c PROVE C[j] = J[E[j]]
    OBVIOUS
  <2>1. j \in 1..a /\ j <= c
    BY <1>13
  <2> QED BY <1>15, <1>20, <2>1
<1>23. Stopped(J) => C[c + 1] = J[l]
  <2> SUFFICES ASSUME Stopped(J) PROVE C[c + 1] = J[l]
    OBVIOUS
  <2>1. c + 1 \in 1..a /\ ~(c + 1 <= c)
    BY <1>13
  <2> QED BY <1>15, <1>20, <2>1
<1> QED BY <1>1, <1>2, <1>3, <1>18, <1>20, <1>21, <1>22, <1>23 DEF Compared

(* A journal, and what is read of it, stops at most at its end.             *)
LEMMA StopsOnce ==
  ASSUME NEW J, Whole(J), NEW k \in 1..Len(J)
  PROVE  OneStop(Upto(J, k)) /\ Len(Upto(J, k)) = k
<1>1. PICK l \in Nat : l = Len(J)
  BY DEF Whole
<1>2. DOMAIN J = 1..l /\ k \in Nat /\ k \in 1..l
  BY <1>1 DEF Whole
<1>3. PICK U : U = Upto(J, k)
  OBVIOUS
<1>4. Len(U) = k /\ \A i \in 1..k : U[i] = J[i]
  BY <1>2, <1>3 DEF Upto
<1>5. J[1].kind = "RunStarted"
  <2>1. 1 \in DOMAIN J
    BY <1>2
  <2> QED BY <2>1 DEF Whole, RecordOK
<1>6. ASSUME NEW i \in 1..(k - 1) PROVE J[i].kind # "RunStopped"
  <2>1. i \in DOMAIN J /\ i # l
    BY <1>2
  <2> QED BY <1>1, <2>1 DEF Whole, RecordOK
<1>7. 1 \in 1..k /\ \A i \in 1..(k - 1) : i \in 1..k
  BY <1>2
<1> QED BY <1>3, <1>4, <1>5, <1>6, <1>7 DEF OneStop

(* Records alike say the same when the numbers of the intents are left out. *)
LEMMA SameContent ==
  ASSUME NEW J, NEW E, NEW S, NEW E2, NEW j, SameAt(J, E, S, E2, j)
  PROVE  Content(J[E[j]]) = Content(S[E2[j]])
<1>1. PICK x : x = J[E[j]]
  OBVIOUS
<1>2. PICK y : y = S[E2[j]]
  OBVIOUS
<1>3. x.kind = y.kind /\ x.step = y.step
  BY <1>1, <1>2 DEF SameAt
<1>4. CASE x.body = y.body
  BY <1>1, <1>2, <1>3, <1>4 DEF Content
<1>5. CASE x.body # y.body
  <2>1. PICK i : \/ x.kind = "SubmitRequested"
                 \/ x.kind = "ToolFinished" /\ \E f : x.body = <<E[i] - 1, f>> /\ y.body = <<E2[i] - 1, f>>
    BY <1>1, <1>2, <1>5 DEF SameAt
  <2>2. CASE x.kind = "SubmitRequested"
    BY <1>1, <1>2, <1>3, <2>2 DEF Content
  <2>3. CASE x.kind = "ToolFinished" /\ \E f : x.body = <<E[i] - 1, f>> /\ y.body = <<E2[i] - 1, f>>
    <3>1. x.body[2] = y.body[2]
      BY <2>3
    <3> QED BY <1>1, <1>2, <1>3, <2>3, <3>1 DEF Content
  <2> QED BY <2>1, <2>2, <2>3
<1> QED BY <1>4, <1>5

(* A journal that stops before what the other tells is at its end was       *)
(* stopped by the wall.                                                     *)
LEMMA StopsByWall ==
  ASSUME NEW J, NEW E, NEW K, NEW P, NEW t, NEW r, Story(J, E, K, P, t, r), Stopped(J),
         NEW S, NEW E2, NEW K2, NEW P2, NEW t2, NEW r2, Story(S, E2, K2, P2, t2, r2),
         Accord(K, t, r, K2, t2, r2), Len(E) < Len(E2)
  PROVE  J[Len(J)].body[1] = "wall"
<1>1. PICK n \in Nat : n = Len(K)
  BY StoryEnds
<1>2. PICK n2 \in Nat : n2 = Len(K2)
  BY StoryEnds
<1>3. PICK last : last = J[Len(J)]
  OBVIOUS
<1>4. PICK cause : last.body = <<cause, NothingChecked>> /\ Why(cause, K, t, r, last.step)
  BY <1>3 DEF Story, Ending
<1>5. SUFFICES ASSUME cause # "wall" PROVE FALSE
  BY <1>3, <1>4
<1>6. \/ t = 0 /\ n = StepLimit
      \/ t = 2 /\ r \in {Unavailable, Diverged}
      \/ t = 5
  BY <1>1, <1>4, <1>5 DEF Why
<1>7. n2 <= StepLimit /\ (t2 > 0 => n2 < StepLimit) /\ StepLimit \in Nat
  BY <1>2, LifecycleAssumption DEF Story, Limited
<1>8. /\ t \in 0..5 /\ Len(E) = P[n] + t /\ P[n] \in Nat
      /\ t2 \in 0..5 /\ Len(E2) = P2[n2] + t2 /\ P2[n2] \in Nat
  <2>1. n \in 0..n /\ n2 \in 0..n2
    OBVIOUS
  <2> QED BY <1>1, <1>2, <2>1, StoryEnds
<1>9. CASE n < n2
  <2>1. t <= 3 /\ (t >= 2 => r \in Calls \cup {Malformed})
    BY <1>1, <1>2, <1>9, Shorter
  <2>2. r \in {Unavailable, Diverged} => r \notin Calls \cup {Malformed}
    BY LifecycleAssumption DEF Unavailable, Diverged, Malformed
  <2> QED BY <1>6, <1>7, <1>9, <2>1, <2>2
<1>10. CASE n = n2
  <2>1. P[n] = P2[n2]
    <3>1. n \in 0..n /\ n <= n2
      BY <1>10
    <3>2. \A s \in 0..n : s <= n2 => P[s] = P2[s]
      BY <1>1, <1>2, SameEnds
    <3> QED BY <1>10, <3>1, <3>2
  <2>2. t < t2
    BY <1>8, <2>1
  <2>3. t = 2 /\ t2 >= 3 /\ r \in {Unavailable, Diverged}
    BY <1>6, <1>7, <1>8, <1>10, <2>2
  <2>4. r2 = r
    <3>1. t >= 2 /\ t2 >= 2 /\ Len(K) = Len(K2)
      BY <1>1, <1>2, <1>8, <1>10, <2>3
    <3> QED BY <3>1 DEF Accord
  <2>5. StepOpen(S, E2, K2, P2[n2], t2, r2)
    BY <1>2 DEF Story
  <2>6. r2 \in Calls \cup {Submit}
    BY <2>3, <2>5 DEF StepOpen
  <2> QED BY <2>3, <2>4, <2>6, LifecycleAssumption DEF Unavailable, Diverged, Submit
<1>11. CASE n2 < n
  <2>1. Accord(K2, t2, r2, K, t, r)
    BY <1>1, <1>2, AccordTurned
  <2>2. Len(E2) < P[n2 + 1]
    BY <1>1, <1>2, <1>11, <2>1, Shorter
  <2>3. n2 + 1 \in 0..n
    BY <1>11
  <2>4. P[n2 + 1] \in Nat /\ P[n2 + 1] <= P[n]
    BY <1>1, <2>3, StoryEnds
  <2> QED BY <1>8, <2>2, <2>4
<1> QED BY <1>9, <1>10, <1>11

(* So a journal repeats what was kept, as far as it goes, or the wall stops *)
(* it on the way.                                                           *)
LEMMA RepeatsAlike ==
  ASSUME NEW J, OneStop(J), Len(J) >= 1, NEW S, OneStop(S), Len(S) >= 1, Repeats(J, S),
         NEW i \in DOMAIN Comparable(S) \cap DOMAIN Comparable(J)
  PROVE  \/ Content(Comparable(J)[i]) = Content(Comparable(S)[i])
         \/ Comparable(J)[i].kind = "RunStopped" /\ Comparable(J)[i].body[1] = "wall"
<1>1. PICK E, K, P, t, r, E2, K2, P2, r2 :
        /\ Story(J, E, K, P, t, r) /\ Story(S, E2, K2, P2, 0, r2) /\ ~Stopped(S)
        /\ Follows(K, t, r, K2, Len(K2), r2)
  BY DEF Repeats
<1>2. Accord(K, t, r, K2, 0, r2)
  <2>1. Held(K2, 0) = Len(K2)
    BY DEF Held
  <2> QED BY <1>1, <2>1, FollowsAccord
<1>3. PICK C : C = Comparable(J)
  OBVIOUS
<1>4. PICK C2 : C2 = Comparable(S)
  OBVIOUS
<1>5. Compared(C, J, E) /\ Compared(C2, S, E2)
  BY <1>1, <1>3, <1>4, ComparableIs
<1>6. Len(E) \in Nat /\ Len(E2) \in Nat
  BY <1>1, StoryEnds
<1>7. i \in 1..Len(E2) /\ i \in 1..Tally(J, E)
  BY <1>1, <1>3, <1>4, <1>5 DEF Compared, Tally
<1>8. CASE i \in 1..Len(E)
  <2>1. SameAt(J, E, S, E2, i)
    BY <1>1, <1>2, <1>7, <1>8, SameRecords
  <2>2. Content(J[E[i]]) = Content(S[E2[i]])
    BY <2>1, SameContent
  <2>3. C[i] = J[E[i]] /\ C2[i] = S[E2[i]]
    BY <1>5, <1>7, <1>8 DEF Compared
  <2> QED BY <1>3, <1>4, <2>2, <2>3
<1>9. CASE i \notin 1..Len(E)
  <2>1. Stopped(J) /\ i = Len(E) + 1
    BY <1>6, <1>7, <1>9 DEF Tally
  <2>2. Len(E) < Len(E2)
    BY <1>6, <1>7, <2>1
  <2>3. J[Len(J)].body[1] = "wall"
    BY <1>1, <1>2, <2>1, <2>2, StopsByWall
  <2>4. C[i] = J[Len(J)] /\ J[Len(J)].kind = "RunStopped"
    BY <1>5, <2>1 DEF Compared, Stopped
  <2> QED BY <1>3, <2>3, <2>4
<1> QED BY <1>8, <1>9

(* A resumed attempt repeats every step it kept, record for record, until   *)
(* the wall stops it, whatever happened between the two.                    *)
THEOREM RepeatsTheRecordHolds == Spec => []RepeatsTheRecord
<1>1. ASSUME IInv, JournalsTold PROVE RepeatsTheRecord
  <2> SUFFICES ASSUME NEW n \in DOMAIN attempts, Begun(n), ResumedFrom(n) # 0, Kept(Continued(n)) # <<>>,
                      NEW i \in DOMAIN Comparable(Kept(Continued(n))) \cap DOMAIN Comparable(attempts[n])
               PROVE  \/ Content(Comparable(attempts[n])[i]) = Content(Comparable(Kept(Continued(n)))[i])
                      \/ /\ Comparable(attempts[n])[i].kind = "RunStopped"
                         /\ Comparable(attempts[n])[i].body[1] = "wall"
    BY DEF RepeatsTheRecord
  <2>1. PICK J : J = attempts[n]
    OBVIOUS
  <2>2. PICK from : from = ResumedFrom(n)
    OBVIOUS
  <2>3. PICK head : head = ResumedAt(n)
    OBVIOUS
  <2>4. Headed(n) /\ Whole(J) /\ J # <<>>
    BY <1>1, <2>1 DEF IInv, Journals, Begun
  <2>5. from \in 0..(n - 1) /\ from # 0 /\ Begun(from) /\ head \in DOMAIN attempts[from]
    BY <2>2, <2>3, <2>4 DEF Headed, CarriedIs, ResumedFrom, ResumedAt
  <2>6. PICK old : old = attempts[from]
    OBVIOUS
  <2>7. from \in DOMAIN attempts /\ Whole(old) /\ head \in DOMAIN old
    BY <1>1, <2>5, <2>6 DEF IInv, Journals, Begun
  <2>8. PICK l \in Nat : l = Len(old)
    BY <2>7 DEF Whole
  <2>9. head \in 1..l /\ old \in Seq(Range(old)) /\ DOMAIN old = 1..l
    BY <2>7, <2>8 DEF Whole
  <2>10. Continued(n) = Upto(old, head)
    <3>1. SubSeq(old, 1, head) = [x \in 1..head |-> old[x]]
      BY <2>8, <2>9
    <3>2. Continued(n) = SubSeq(old, 1, head)
      BY <2>2, <2>3, <2>6 DEF Continued
    <3> QED BY <3>1, <3>2 DEF Upto
  <2>11. PICK k \in 0..(head - 1) : Kept(Upto(old, head)) = Upto(old, k)
    BY <2>7, <2>8, <2>9, KeptIs
  <2>12. PICK S : S = Upto(old, k)
    OBVIOUS
  <2>13. Kept(Continued(n)) = S /\ S # <<>>
    BY <2>10, <2>11, <2>12
  <2>14. k \in 1..l
    <3>1. k # 0
      <4> SUFFICES ASSUME k = 0 PROVE FALSE
        OBVIOUS
      <4>1. S = <<>>
        BY <2>12 DEF Upto
      <4> QED BY <2>13, <4>1
    <3> QED BY <2>9, <2>11, <3>1
  <2>15. OneStop(S) /\ Len(S) >= 1
    BY <2>7, <2>8, <2>12, <2>14, StopsOnce
  <2>16. OneStop(J) /\ Len(J) >= 1
    <3>1. PICK c \in Nat : c = Len(J) /\ c >= 1 /\ J \in Seq(Range(J))
      BY <2>4 DEF Whole
    <3>2. OneStop(Upto(J, c))
      BY <2>4, <3>1, StopsOnce
    <3>3. Upto(J, c) = J
      BY <3>1, UptoAll
    <3> QED BY <3>1, <3>2, <3>3
  <2>17. Repeats(J, S)
    <3>1. Resumes(n)
      BY <1>1, <2>1, <2>4 DEF JournalsTold
    <3>2. attempts[n][1].body[1] = from /\ attempts[n][1].body[2] = head
      BY <2>2, <2>3 DEF ResumedFrom, ResumedAt
    <3>3. Repeats(attempts[n], Kept(Upto(attempts[from], head)))
      BY <2>5, <3>1, <3>2 DEF Resumes
    <3> QED BY <2>1, <2>6, <2>11, <2>12, <3>3
  <2> QED BY <2>1, <2>13, <2>15, <2>16, <2>17, RepeatsAlike
<1> QED BY <1>1, ToldHolds, PTL

-----------------------------------------------------------------------------
(***************************************************************************)
(* The comparison of an audit.                                              *)
(***************************************************************************)
(* Where nothing is passed over, the places of the records are their own.   *)
LEMMA Straight ==
  ASSUME NEW J, Len(J) \in Nat, NEW E, Lists(E, Counted(J)), NEW j \in 1..Len(E),
         \A x \in 2..E[j] : x \in Counted(J)
  PROVE  E[j] = j + 1
<1>1. PICK c \in Nat : c = Len(E)
  BY DEF Lists
<1>2. \A i \in 1..c : E[i] \in Nat /\ E[i] >= 2 /\ E[i] \in Counted(J)
  <2> SUFFICES ASSUME NEW i \in 1..c PROVE E[i] \in Nat /\ E[i] >= 2 /\ E[i] \in Counted(J)
    OBVIOUS
  <2>1. E[i] \in Counted(J)
    BY <1>1 DEF Lists
  <2>2. E[i] \in 2..Len(J)
    BY <2>1 DEF Counted
  <2> QED BY <2>1, <2>2
<1>3. \A i, l \in 1..c : i < l => E[i] < E[l]
  BY <1>1 DEF Lists
<1>4. \A x \in 2..E[j] : \E i \in 1..c : E[i] = x
  BY <1>1 DEF Lists
<1> DEFINE B == {i \in 1..j : E[i] # i + 1}
<1>5. SUFFICES ASSUME B # {} PROVE FALSE
  BY <1>1
<1>6. B \subseteq Nat /\ j \in 1..c
  BY <1>1
<1>7. PICK i \in B : \A x \in B : i <= x
  <2> HIDE DEF B
  <2> QED BY <1>5, <1>6, LeastIs
<1>8. i \in 1..j /\ E[i] # i + 1 /\ i \in 1..c
  BY <1>6, <1>7
<1>9. \A x \in 1..(i - 1) : E[x] = x + 1
  <2> SUFFICES ASSUME NEW x \in 1..(i - 1) PROVE E[x] = x + 1
    OBVIOUS
  <2>1. x \in 1..j /\ ~(i <= x)
    BY <1>6, <1>8
  <2>2. x \notin B
    BY <1>7, <2>1
  <2> QED BY <2>1, <2>2
<1> HIDE DEF B
<1>10. E[i] > i + 1
  <2>1. CASE i = 1
    BY <1>2, <1>8, <2>1
  <2>2. CASE i # 1
    <3>1. i - 1 \in 1..(i - 1) /\ i - 1 \in 1..c /\ i - 1 < i
      BY <1>8, <2>2
    <3>2. E[i - 1] = i - 1 + 1 /\ E[i - 1] < E[i]
      BY <1>3, <1>8, <1>9, <3>1
    <3> QED BY <1>2, <1>8, <3>2
  <2> QED BY <2>1, <2>2
<1>11. E[i] <= E[j]
  <2>1. i = j \/ i < j
    BY <1>6, <1>8
  <2> QED BY <1>2, <1>3, <1>6, <1>8, <2>1
<1>12. i + 1 \in 2..E[j]
  BY <1>2, <1>6, <1>8, <1>10, <1>11
<1>13. PICK x \in 1..c : E[x] = i + 1
  BY <1>4, <1>12
<1>14. CASE x < i
  <2>1. x \in 1..(i - 1)
    BY <1>8, <1>14
  <2> QED BY <1>8, <1>9, <1>13, <2>1
<1>15. CASE x = i
  BY <1>8, <1>13, <1>15
<1>16. CASE i < x
  <2>1. E[i] < E[x]
    BY <1>3, <1>8, <1>16
  <2> QED BY <1>2, <1>8, <1>10, <1>13, <2>1
<1> QED BY <1>8, <1>14, <1>15, <1>16

\* No record that a comparison passes over comes before an intent.
Unshifted(J) ==
  \A i, j \in DOMAIN J : i < j /\ J[i].kind = "BudgetCharged" => J[j].kind # "ToolStarted"

(* So an intent has the place it is counted at.                             *)
LEMMA IntentAt ==
  ASSUME NEW J, NEW E, NEW K, NEW P, NEW t, NEW r, Story(J, E, K, P, t, r), OneStop(J), Unshifted(J),
         NEW j \in 1..Len(E), J[E[j]].kind = "ToolStarted"
  PROVE  E[j] = j + 1
<1>1. PICK l \in Nat : l = Len(J) /\ DOMAIN J = 1..l
  BY StoryEnds
<1>2. E[j] \in 2..l
  BY <1>1, StoryEnds
<1>3. ASSUME NEW x \in 2..E[j] PROVE x \in Counted(J)
  <2>1. CASE x = E[j]
    BY <2>1 DEF Story, Lists
  <2>2. CASE x # E[j]
    <3>1. x \in 1..l /\ x \in 2..l /\ E[j] \in 1..l /\ x < E[j] /\ x \in 1..(l - 1)
      BY <1>1, <1>2, <2>2
    <3>2. J[x].kind # "BudgetCharged"
      BY <1>1, <3>1 DEF Unshifted
    <3>3. J[x].kind # "RunStopped"
      BY <1>1, <3>1 DEF OneStop
    <3> QED BY <1>1, <3>1, <3>2, <3>3 DEF Counted, Apart
  <2> QED BY <2>1, <2>2
<1>4. Lists(E, Counted(J))
  BY DEF Story
<1> QED BY <1>1, <1>3, <1>4, Straight

(* Then records alike are the same but for their times.                     *)
LEMMA SameBody ==
  ASSUME NEW J, NEW E, NEW K, NEW P, NEW t, NEW r, Story(J, E, K, P, t, r), OneStop(J), Unshifted(J),
         NEW S, NEW E2, NEW K2, NEW P2, NEW t2, NEW r2, Story(S, E2, K2, P2, t2, r2), OneStop(S), Unshifted(S),
         NEW j \in 1..Len(E), j \in 1..Len(E2), SameAt(J, E, S, E2, j)
  PROVE  J[E[j]].kind = S[E2[j]].kind /\ J[E[j]].step = S[E2[j]].step /\ J[E[j]].body = S[E2[j]].body
<1>1. PICK x : x = J[E[j]]
  OBVIOUS
<1>2. PICK y : y = S[E2[j]]
  OBVIOUS
<1>3. x.kind = y.kind /\ x.step = y.step
  BY <1>1, <1>2 DEF SameAt
<1>4. CASE x.body # y.body
  <2>1. PICK i \in 1..j :
          /\ J[E[i]].kind = "ToolStarted" /\ S[E2[i]].kind = "ToolStarted"
          /\ \/ x.body = <<E[i] - 1>> /\ y.body = <<E2[i] - 1>>
             \/ \E f : x.body = <<E[i] - 1, f>> /\ y.body = <<E2[i] - 1, f>>
    BY <1>1, <1>2, <1>4 DEF SameAt
  <2>2. i \in 1..Len(E) /\ i \in 1..Len(E2)
    <3>1. Len(E) \in Nat /\ Len(E2) \in Nat
      BY StoryEnds
    <3> QED BY <3>1
  <2>3. E[i] = i + 1
    BY <2>1, <2>2, IntentAt
  <2>4. E2[i] = i + 1
    BY <2>1, <2>2, IntentAt
  <2> QED BY <1>4, <2>1, <2>3, <2>4
<1> QED BY <1>1, <1>2, <1>3, <1>4

(* Two that stop after as many records, neither by the wall, stop alike.    *)
LEMMA SameStop ==
  ASSUME NEW J, NEW E, NEW K, NEW P, NEW t, NEW r, Story(J, E, K, P, t, r), Stopped(J),
         J[Len(J)].body[1] # "wall",
         NEW S, NEW E2, NEW K2, NEW P2, NEW t2, NEW r2, Story(S, E2, K2, P2, t2, r2), Stopped(S),
         S[Len(S)].body[1] # "wall",
         Accord(K, t, r, K2, t2, r2), Len(E) = Len(E2)
  PROVE  J[Len(J)].step = S[Len(S)].step /\ J[Len(J)].body = S[Len(S)].body
<1>1. PICK n \in Nat : n = Len(K)
  BY StoryEnds
<1>2. PICK n2 \in Nat : n2 = Len(K2)
  BY StoryEnds
<1>3. PICK x : x = J[Len(J)]
  OBVIOUS
<1>4. PICK y : y = S[Len(S)]
  OBVIOUS
<1>5. PICK c : x.body = <<c, NothingChecked>> /\ Why(c, K, t, r, x.step)
  BY <1>3 DEF Story, Ending
<1>6. PICK c2 : y.body = <<c2, NothingChecked>> /\ Why(c2, K2, t2, r2, y.step)
  BY <1>4 DEF Story, Ending
<1>7. c # "wall" /\ c2 # "wall"
  BY <1>3, <1>4, <1>5, <1>6
<1>8. /\ t \in 0..5 /\ Len(E) = P[n] + t /\ P[n] \in Nat
      /\ t2 \in 0..5 /\ Len(E2) = P2[n2] + t2 /\ P2[n2] \in Nat
  <2>1. n \in 0..n /\ n2 \in 0..n2
    OBVIOUS
  <2> QED BY <1>1, <1>2, <2>1, StoryEnds
<1>8a. Len(E) = Len(E2)
  OBVIOUS
<1>9. ~(n < n2)
  <2> SUFFICES ASSUME n < n2 PROVE FALSE
    OBVIOUS
  <2>1. Len(E) < P2[n + 1]
    BY <1>1, <1>2, Shorter
  <2>2. n + 1 \in 0..n2
    OBVIOUS
  <2>3. P2[n + 1] \in Nat /\ P2[n + 1] <= P2[n2]
    BY <1>2, <2>2, StoryEnds
  <2> QED BY ONLY <1>8, <1>8a, <2>1, <2>3
<1>10. ~(n2 < n)
  <2> SUFFICES ASSUME n2 < n PROVE FALSE
    OBVIOUS
  <2>1. Accord(K2, t2, r2, K, t, r)
    BY <1>1, <1>2, AccordTurned
  <2>2. Len(E2) < P[n2 + 1]
    BY <1>1, <1>2, <2>1, Shorter
  <2>3. n2 + 1 \in 0..n
    OBVIOUS
  <2>4. P[n2 + 1] \in Nat /\ P[n2 + 1] <= P[n]
    BY <1>1, <2>3, StoryEnds
  <2> QED BY <1>8, <2>2, <2>4
<1>11. n = n2
  BY <1>9, <1>10
<1>12. P[n] = P2[n2]
  <2>1. \A s \in 0..n : s <= n2 => P[s] = P2[s]
    BY <1>1, <1>2, SameEnds
  <2>2. n \in 0..n
    OBVIOUS
  <2> QED BY <1>11, <2>1, <2>2
<1>13. t = t2
  BY ONLY <1>8, <1>8a, <1>12
<1>14. /\ \/ c = "steps" /\ t = 0 /\ x.step = StepLimit + 1
          \/ c = "model_unavailable" /\ t = 2 /\ x.step = n + 1
          \/ c = "submitted" /\ t = 5 /\ x.step = n + 1
       /\ \/ c2 = "steps" /\ t2 = 0 /\ y.step = StepLimit + 1
          \/ c2 = "model_unavailable" /\ t2 = 2 /\ y.step = n2 + 1
          \/ c2 = "submitted" /\ t2 = 5 /\ y.step = n2 + 1
  BY <1>1, <1>2, <1>5, <1>6, <1>7 DEF Why
<1>15. c = c2 /\ x.step = y.step
  BY <1>11, <1>13, <1>14
<1> QED BY <1>3, <1>4, <1>5, <1>6, <1>15

(* The audit's own journal, unless the wall stopped it, confirms the one it *)
(* replayed, as far as that can be computed again.                          *)
LEMMA CompareIs ==
  ASSUME NEW J, NEW E, NEW K, NEW P, NEW t, NEW r, Story(J, E, K, P, t, r), OneStop(J), Unshifted(J),
         Len(J) >= 1, Stopped(J), J[Len(J)].body[1] # "wall",
         NEW S, NEW E2, NEW K2, NEW P2, NEW t2, NEW r2, Story(S, E2, K2, P2, t2, r2), OneStop(S), Unshifted(S),
         Len(S) >= 1, Accord(K, t, r, K2, t2, r2)
  PROVE  Compare(S, J) = IF Stopped(S) /\ S[Len(S)].body[1] # "wall" THEN "recomputed" ELSE "not_recomputed"
<1>1. PICK C : C = Comparable(J)
  OBVIOUS
<1>2. PICK C2 : C2 = Comparable(S)
  OBVIOUS
<1>3. Compared(C, J, E) /\ Compared(C2, S, E2)
  BY <1>1, <1>2, ComparableIs
<1>4. PICK c \in Nat : c = Len(E)
  BY StoryEnds
<1>5. PICK c2 \in Nat : c2 = Len(E2)
  BY StoryEnds
<1>6. c2 <= c
  <2>1. ~(Len(E) < Len(E2))
    BY StopsByWall
  <2> QED BY <1>4, <1>5, <2>1
<1>7. Tally(J, E) = c + 1 /\ Tally(S, E2) = IF Stopped(S) THEN c2 + 1 ELSE c2
  BY <1>4, <1>5 DEF Tally
<1>8. Len(C) = c + 1 /\ DOMAIN C = 1..(c + 1) /\ \A j \in 1..c : C[j] = J[E[j]]
  BY <1>3, <1>4, <1>7 DEF Compared
<1>9. C[c + 1] = J[Len(J)]
  BY <1>3, <1>4 DEF Compared
<1>10. PICK l \in Nat : l = Len(C2) /\ l = Tally(S, E2)
  BY <1>3, <1>7 DEF Compared
<1>11. DOMAIN C2 = 1..l /\ C2 \in Seq(Range(C2)) /\ \A j \in 1..c2 : C2[j] = S[E2[j]]
  BY <1>3, <1>5, <1>10 DEF Compared
<1>12. Stopped(S) => C2[c2 + 1] = S[Len(S)] /\ l = c2 + 1
  BY <1>3, <1>5, <1>7, <1>10 DEF Compared
<1>13. \A j \in 1..c2 : Matches(C2, C, j)
  <2> SUFFICES ASSUME NEW j \in 1..c2 PROVE Matches(C2, C, j)
    OBVIOUS
  <2>1. j \in 1..Len(E) /\ j \in 1..Len(E2) /\ j \in 1..c /\ j \in 1..(c + 1)
    BY <1>4, <1>5, <1>6
  <2>2. SameAt(J, E, S, E2, j)
    BY <2>1, SameRecords
  <2>3. J[E[j]].kind = S[E2[j]].kind /\ J[E[j]].step = S[E2[j]].step /\ J[E[j]].body = S[E2[j]].body
    BY <2>1, <2>2, SameBody
  <2>4. C[j] = J[E[j]] /\ C2[j] = S[E2[j]] /\ j \in DOMAIN C
    BY <1>8, <1>11, <2>1
  <2> QED BY <2>3, <2>4 DEF Matches
<1>14. Committed(S) <=> Stopped(S)
  BY DEF Committed, Stopped, Last
<1>15. PICK body : body = IF Committed(S) THEN Front(C2) ELSE C2
  OBVIOUS
<1>16. DOMAIN body = 1..c2
  <2>1. CASE Committed(S)
    <3>1. l = c2 + 1
      BY <1>12, <1>14, <2>1
    <3>2. SubSeq(C2, 1, Len(C2) - 1) = [j \in 1..c2 |-> C2[j]]
      BY <1>10, <1>11, <3>1
    <3> QED BY <1>15, <2>1, <3>2 DEF Front
  <2>2. CASE ~Committed(S)
    BY <1>7, <1>10, <1>11, <1>14, <1>15, <2>2
  <2> QED BY <2>1, <2>2
<1>17. ~(\E j \in DOMAIN body : ~Matches(C2, C, j))
  BY <1>13, <1>16
<1>18. Compare(S, J) = IF ~Committed(S) \/ C2[l].body[1] = "wall" THEN "not_recomputed"
                       ELSE IF Len(C) = l /\ Matches(C2, C, l) THEN "recomputed" ELSE "diverged"
  BY <1>1, <1>2, <1>10, <1>15, <1>17 DEF Compare
<1>19. CASE ~Stopped(S)
  BY <1>14, <1>18, <1>19
<1>20. CASE Stopped(S) /\ S[Len(S)].body[1] = "wall"
  BY <1>12, <1>14, <1>18, <1>20
<1>21. CASE Stopped(S) /\ S[Len(S)].body[1] # "wall"
  <2>1. Accord(K2, t2, r2, K, t, r)
    <3>1. Len(K) \in Nat /\ Len(K2) \in Nat
      BY StoryEnds
    <3> QED BY <3>1, AccordTurned
  <2>2. ~(Len(E2) < Len(E))
    BY <1>21, <2>1, StopsByWall
  <2>3. c = c2
    BY <1>4, <1>5, <1>6, <2>2
  <2>4. J[Len(J)].step = S[Len(S)].step /\ J[Len(J)].body = S[Len(S)].body
    <3>1. Len(E) = Len(E2) /\ Stopped(S) /\ S[Len(S)].body[1] # "wall"
      BY <1>4, <1>5, <1>21, <2>3
    <3> QED BY ONLY <3>1, SameStop, Story(J, E, K, P, t, r), Stopped(J), J[Len(J)].body[1] # "wall",
                    Story(S, E2, K2, P2, t2, r2), Accord(K, t, r, K2, t2, r2)
  <2>5. l = c + 1 /\ C2[l] = S[Len(S)] /\ C[l] = J[Len(J)] /\ l \in DOMAIN C /\ Len(C) = l
    BY <1>8, <1>9, <1>12, <1>21, <2>3
  <2>6. J[Len(J)].kind = S[Len(S)].kind
    BY <1>21 DEF Stopped
  <2>7. Matches(C2, C, l)
    BY <2>4, <2>5, <2>6 DEF Matches
  <2>8. C2[l].body[1] # "wall"
    BY <1>21, <2>5
  <2> QED BY <1>14, <1>18, <1>21, <2>5, <2>7, <2>8
<1> QED BY <1>19, <1>20, <1>21

\* The audit that reported of the records S as AuditConfirms says.
Confirms(d, S) ==
  S # <<>> /\ Paired(S) /\ ~Shifted(S) =>
    /\ ~d.diverged
    /\ d.outcome = IF Committed(S) /\ Last(S).body[1] = "wall" /\ ~d.anchored THEN Unreadable
                   ELSE RecordedOutcome(S)

Audited ==
  \A p \in Processes :
    driver[p].pc = "reported" => driver[p].role = "audit" /\ Confirms(driver[p], Snapshot(driver[p]))

(* What an audit replays is what it read.                                   *)
LEMMA SnapshotSource ==
  ASSUME Journals, NEW d, d.role = "audit", d.from \in DOMAIN attempts, d.head \in Nat,
         1..d.head \subseteq DOMAIN attempts[d.from]
  PROVE  Snapshot(d) = Source(d) /\ Snapshot(d) = Upto(attempts[d.from], d.head)
<1>1. PICK s : s = attempts[d.from] /\ s \in Seq(Range(s))
  BY DEF Journals, Whole
<1>2. PICK l \in Nat : l = Len(s) /\ DOMAIN s = 1..l
  BY <1>1
<1>3. PICK h \in Nat : h = d.head
  OBVIOUS
<1>4. 1..h \subseteq 1..l
  BY <1>1, <1>2, <1>3
<1>5. h <= l
  <2>1. h = 0 \/ h \in 1..h
    OBVIOUS
  <2> QED BY <1>4, <2>1
<1>6. SubSeq(s, 1, h) = [i \in 1..h |-> s[i]]
  BY <1>1, <1>2, <1>5
<1>7. Snapshot(d) = Upto(s, h)
  BY <1>1, <1>3, <1>6 DEF Snapshot, Upto
<1> QED BY <1>1, <1>3, <1>7 DEF Source

(* A step lengthens the journals at most; only an audit reports.            *)
LEMMA StepMoves ==
  ASSUME IInv, NEW p \in Processes,
         \/ Resume(p) \/ ListAttempts(p) \/ MakeAttempt(p) \/ WriteHeader(p)
         \/ Loop(p) \/ Audit(p) \/ Report(p) \/ Exit(p) \/ Kill(p)
  PROVE  /\ Grown /\ \A q \in Processes \ {p} : driver'[q] = driver[q]
         /\ driver'[p].pc = "reported" => Audit(p) \/ Report(p)
<1>1. Journals /\ DOMAIN driver = Processes /\ Typed(driver[p]) /\ Timely(driver[p]) /\ Placed(driver[p])
  BY DEF IInv, Drivers
<1>2. ASSUME NEW e, Quietly(p, e)
      PROVE  Grown /\ driver'[p] = e /\ \A q \in Processes \ {p} : driver'[q] = driver[q]
  BY <1>1, <1>2 DEF Quietly, Grown
<1>3. ASSUME NEW e, Quietly(p, e), e.pc # "reported"
      PROVE  /\ Grown /\ \A q \in Processes \ {p} : driver'[q] = driver[q]
             /\ driver'[p].pc # "reported"
  BY <1>2, <1>3
<1>4. Idle.pc # "reported"
  BY Fields DEF Idle
<1>5. ASSUME NEW e, Continues(p, e)
      PROVE  /\ Grown /\ \A q \in Processes \ {p} : driver'[q] = driver[q]
             /\ driver'[p].pc # "reported"
  <2>1. driver'[p] = e /\ e.pc \in Onward /\ \A q \in Processes \ {p} : driver'[q] = driver[q]
    BY <1>1, <1>5 DEF Continues
  <2>2. e.pc # "reported"
    BY <2>1 DEF Onward, LoopPCs
  <2>3. CASE UNCHANGED attempts
    BY <2>1, <2>2, <2>3 DEF Grown
  <2>4. CASE e.role # "audit" /\ \E record : Appends(e.attempt, record)
    <3>1. PICK record : Appends(e.attempt, record)
      BY <2>4
    <3>2. e.attempt = driver[p].attempt /\ e.role = driver[p].role
      BY <1>5 DEF Continues, Further
    <3>3. driver[p].pc \in LoopPCs \cup {"header"}
      BY <1>5 DEF Continues
    <3>4. e.attempt \in DOMAIN attempts
      BY <1>1, <2>4, <3>2, <3>3 DEF Placed, Live
    <3>5. Grown
      BY <1>1, <3>1, <3>4, AppendGrows
    <3> QED BY <2>1, <2>2, <3>5
  <2> QED BY <1>5, <2>3, <2>4 DEF Continues
<1>6. CASE Resume(p)
  <2>1. PICK e : Quietly(p, e) /\ e.pc = "list"
    <3> DEFINE n == Len(attempts)
               e == [Idle EXCEPT
                      !.pc = "list", !.role = "resume",
                      !.from = n, !.head = Len(attempts[n]), !.carried = Carried(attempts[n]),
                      !.replies = Exchanges(Kept(attempts[n])), !.results = RecordedResults(Kept(attempts[n]))]
    <3>1. Quietly(p, e)
      BY <1>6 DEF Resume
    <3>2. e.pc = "list"
      BY Fields
    <3> HIDE DEF e
    <3> QED BY <3>1, <3>2
  <2> QED BY <1>3, <2>1
<1>7. CASE ListAttempts(p)
  <2>1. PICK e : e = [Goto(driver[p], "mkdir") EXCEPT !.attempt = Len(attempts) + 1]
    OBVIOUS
  <2>2. Quietly(p, e)
    BY <1>7, <2>1 DEF ListAttempts
  <2>3. e.pc = "mkdir"
    BY <1>1, <2>1, Fields DEF Goto, Typed
  <2> QED BY <1>3, <2>2, <2>3
<1>8. CASE MakeAttempt(p)
  <2>1. CASE Quietly(p, Idle)
    BY <1>3, <1>4, <2>1
  <2>2. CASE ~Quietly(p, Idle)
    <3>1. PICK e : e = Goto(driver[p], "header")
      OBVIOUS
    <3>2. driver' = [driver EXCEPT ![p] = e] /\ attempts' = Append(attempts, <<>>)
      BY <1>8, <2>2, <3>1 DEF MakeAttempt
    <3>3. e.pc = "header"
      BY <1>1, <3>1, Fields DEF Goto, Typed
    <3>4. Grown
      BY <1>1, <3>2, MadeGrows
    <3>5. driver'[p] = e /\ \A q \in Processes \ {p} : driver'[q] = driver[q]
      BY <1>1, <3>2
    <3> QED BY <3>3, <3>4, <3>5
  <2> QED BY <2>1, <2>2
<1>9. CASE WriteHeader(p)
  <2>1. PICK d : d = driver[p]
    OBVIOUS
  <2>2. PICK next : next = Goto(d, "begin")
    OBVIOUS
  <2>3. d.pc = "header" /\ Write(p, "RunStarted", <<d.from, d.head, d.carried>>, next)
    BY <1>9, <2>1, <2>2 DEF WriteHeader, At
  <2>4. Typed(d) /\ d.step <= StepLimit
    BY <1>1, <2>1, <2>3 DEF Timely
  <2>5. Typed(next) /\ Timely(next) /\ Further(d, next) /\ next.pc = "begin"
    BY <2>2, <2>4, GoesOn DEF LoopPCs, Asking
  <2>6. "begin" \in Onward /\ "RunStarted" \in Kinds
    BY DEF Onward, LoopPCs, Kinds
  <2>7. \E e : Continues(p, e)
    BY <2>1, <2>3, <2>5, <2>6, WriteContinues
  <2> QED BY <1>5, <2>7
<1>10. CASE Loop(p)
  <2>1. \E e : Continues(p, e)
    BY <1>1, <1>10, LoopContinues
  <2> QED BY <1>5, <2>1
<1>11. CASE Audit(p)
  <2>1. \E e : Quietly(p, e)
    BY <1>11 DEF Audit
  <2> QED BY <1>2, <1>11, <2>1
<1>12. CASE Report(p)
  <2>1. \E e : Quietly(p, e)
    BY <1>12 DEF Report
  <2> QED BY <1>2, <1>12, <2>1
<1>13. CASE Exit(p) \/ Kill(p)
  BY <1>3, <1>4, <1>13 DEF Exit, Kill
<1> QED BY <1>6, <1>7, <1>8, <1>9, <1>10, <1>11, <1>12, <1>13

(* The report of an audit that replayed what it read.                       *)
LEMMA ReportConfirms ==
  ASSUME IInv, DriversTold, NEW p \in Processes, Report(p)
  PROVE  driver'[p].role = "audit" /\ Confirms(driver'[p], Snapshot(driver[p])')
<1>1. PICK d : d = driver[p]
  OBVIOUS
<1>2. Journals /\ Typed(d) /\ Timely(d) /\ Placed(d) /\ Telling(d) /\ p \in DOMAIN driver
  BY <1>1 DEF IInv, Drivers, DriversTold
<1>3. d.pc = "compare"
  BY <1>1 DEF Report, At
<1>4. d.role = "audit" /\ d.pc \in Running /\ d.pc # "idle" /\ d.head \in Nat
  BY <1>2, <1>3 DEF Timely, Running, Typed
<1>5. d.from \in DOMAIN attempts /\ 1..d.head \subseteq DOMAIN attempts[d.from]
  BY <1>2, <1>4 DEF Placed
<1>6. PICK S : S = Snapshot(d)
  OBVIOUS
<1>7. S = Source(d) /\ S = Upto(attempts[d.from], d.head)
  BY <1>2, <1>4, <1>5, <1>6, SnapshotSource
<1>8. PICK J : J = d.copy
  OBVIOUS
<1>9. PICK compared : compared = Compare(S, J)
  OBVIOUS
<1>10. PICK anchored \in BOOLEAN : Quietly(p, Reported(d, compared, anchored))
  BY <1>1, <1>6, <1>8, <1>9 DEF Report
<1>11. PICK e : e = Reported(d, compared, anchored)
  OBVIOUS
<1>12. driver'[p] = e /\ UNCHANGED attempts
  BY <1>2, <1>10, <1>11 DEF Quietly
<1>13. /\ e.role = "audit" /\ e.from = d.from /\ e.head = d.head
       /\ e.diverged = (compared = "diverged") /\ e.anchored = anchored
       /\ e.outcome = IF \/ compared = "diverged"
                         \/ Committed(S) /\ compared = "not_recomputed" /\ ~anchored
                      THEN Unreadable ELSE RecordedOutcome(S)
  BY <1>2, <1>4, <1>6, <1>11, Fields DEF Reported, Goto, Typed
<1>14. Snapshot(driver[p])' = S
  <2>1. SubSeq(attempts'[e.from], 1, e.head) = S
    BY <1>6, <1>12, <1>13 DEF Snapshot
  <2>2. Snapshot(driver[p])' = SubSeq(attempts'[driver'[p].from], 1, driver'[p].head)
    BY DEF Snapshot
  <2> QED BY <1>12, <2>1, <2>2
<1>15. ASSUME S # <<>>, Paired(S), ~Shifted(S)
       PROVE  compared = IF Stopped(S) /\ S[Len(S)].body[1] # "wall" THEN "recomputed" ELSE "not_recomputed"
  <2>1. PICK K, m, r, N : Gives(S, K, m, r, N) /\ Playing(d, J, K, m, r, N)
    <3>1. Owned(d) = J
      BY <1>4, <1>8 DEF Owned
    <3> QED BY <1>2, <1>4, <1>7, <3>1 DEF Telling
  <2>2. PICK E2, P2, t2 : Story(S, E2, K, P2, t2, r) /\ m = Held(K, t2)
    BY <2>1 DEF Gives
  <2>3. PICK E, P, t, q, o : Plays(d, J, K, m, r, N, E, P, t, q, o)
    BY <2>1 DEF Playing
  <2>4. PICK T : T = d.turns
    OBVIOUS
  <2>5. Story(J, E, T, P, t, q) /\ Follows(T, t, q, K, m, r)
    BY <2>3, <2>4 DEF Plays, Fed
  <2>6. Len(J) >= 1 /\ OneStop(J) /\ Stopped(J) /\ J[Len(J)].body[1] # "wall"
    BY <1>3, <2>3 DEF Plays, Steady, Stand
  <2>7. Unshifted(J)
    <3>1. \A i \in 1..Len(J) : J[i].kind # "BudgetCharged"
      BY <1>4, <2>3 DEF Plays, Steady
    <3>2. DOMAIN J = 1..Len(J)
      BY <2>5, StoryEnds
    <3> QED BY <3>1, <3>2 DEF Unshifted
  <2>8. Accord(T, t, q, K, t2, r)
    BY <2>2, <2>5, FollowsAccord
  <2>9. OneStop(S) /\ Len(S) >= 1
    <3>1. PICK old : old = attempts[d.from] /\ Whole(old)
      BY <1>2, <1>5 DEF Journals
    <3>2. PICK l \in Nat : l = Len(old) /\ DOMAIN old = 1..l
      BY <3>1 DEF Whole
    <3>3. PICK h \in Nat : h = d.head
      BY <1>4
    <3>4. h # 0
      <4> SUFFICES ASSUME h = 0 PROVE FALSE
        OBVIOUS
      <4>1. S = <<>>
        BY <1>7, <3>3 DEF Upto
      <4> QED BY <1>15, <4>1
    <3>5. h \in 1..h
      BY <3>4
    <3>6. h \in 1..l
      BY <1>5, <3>1, <3>2, <3>3, <3>5
    <3> QED BY <1>7, <3>1, <3>2, <3>3, <3>6, StopsOnce
  <2>10. Unshifted(S)
    BY <1>15 DEF Shifted, Unshifted
  <2> QED BY <1>9, <2>2, <2>5, <2>6, <2>7, <2>8, <2>9, <2>10, CompareIs
<1>16. Committed(S) <=> Stopped(S)
  BY DEF Committed, Stopped, Last
<1>17. Confirms(e, S)
  <2> SUFFICES ASSUME S # <<>>, Paired(S), ~Shifted(S)
               PROVE  /\ ~e.diverged
                      /\ e.outcome = IF Committed(S) /\ Last(S).body[1] = "wall" /\ ~e.anchored THEN Unreadable
                                     ELSE RecordedOutcome(S)
    BY DEF Confirms
  <2>1. compared = IF Stopped(S) /\ S[Len(S)].body[1] # "wall" THEN "recomputed" ELSE "not_recomputed"
    BY <1>15
  <2>2. Last(S).body[1] = S[Len(S)].body[1]
    BY DEF Last
  <2>3. CASE Stopped(S) /\ S[Len(S)].body[1] # "wall"
    BY <1>13, <1>16, <2>1, <2>2, <2>3
  <2>4. CASE Stopped(S) /\ S[Len(S)].body[1] = "wall"
    BY <1>13, <1>16, <2>1, <2>2, <2>4
  <2>5. CASE ~Stopped(S)
    BY <1>13, <1>16, <2>1, <2>2, <2>5
  <2> QED BY <2>3, <2>4, <2>5
<1> QED BY <1>12, <1>13, <1>14, <1>17

(* A report without a replay is of records that give none.                  *)
LEMMA AuditConfirmed ==
  ASSUME IInv, NEW p \in Processes, Audit(p), driver'[p].pc = "reported"
  PROVE  driver'[p].role = "audit" /\ Confirms(driver'[p], Snapshot(driver[p])')
<1> DEFINE e(n) == [Idle EXCEPT !.role = "audit", !.from = n, !.head = Len(attempts[n])]
           start(n) == [Goto(e(n), "begin") EXCEPT
                          !.replies = Exchanges(attempts[n]), !.results = RecordedResults(attempts[n]),
                          !.copy = <<[kind |-> "RunStarted", step |-> 0, mono |-> 0, body |-> <<0, 0, 0>>]>>]
<1>1. PICK n \in DOMAIN attempts :
        Quietly(p, IF attempts[n] = <<>> \/ ~Paired(attempts[n]) THEN Reported(e(n), "diverged", FALSE) ELSE start(n))
  BY DEF Audit
<1>2. p \in DOMAIN driver
  BY DEF IInv, Drivers
<1>3. start(n).pc = "begin"
  BY Fields DEF Idle, Goto
<1>4. attempts[n] = <<>> \/ ~Paired(attempts[n])
  <2> SUFFICES ASSUME ~(attempts[n] = <<>> \/ ~Paired(attempts[n])) PROVE FALSE
    OBVIOUS
  <2>1. PICK next : next = start(n)
    OBVIOUS
  <2>2. Quietly(p, next) /\ next.pc = "begin"
    BY <1>1, <1>3, <2>1
  <2>3. driver'[p] = next
    BY <1>2, <2>2 DEF Quietly
  <2> QED BY <2>2, <2>3
<1>5. PICK next : next = Reported(e(n), "diverged", FALSE)
  OBVIOUS
<1>6. driver'[p] = next /\ UNCHANGED attempts
  BY <1>1, <1>2, <1>4, <1>5 DEF Quietly
<1>7. next.role = "audit" /\ next.from = n /\ next.head = Len(attempts[n])
  BY <1>5, Fields DEF Reported, Goto
<1> HIDE DEF e, start
<1>8. attempts[n] \in Seq(Range(attempts[n])) /\ Journals
  BY DEF IInv, Journals, Whole
<1>9. Snapshot(next) = attempts[n]
  <2>1. PICK s : s = attempts[n] /\ s \in Seq(Range(s))
    BY <1>8
  <2>2. PICK l \in Nat : l = Len(s) /\ DOMAIN s = 1..l
    BY <2>1
  <2>3. Snapshot(next) = Upto(s, l)
    BY <1>7, <1>8, <2>1, <2>2, SnapshotSource
  <2>4. Upto(s, l) = s
    BY <2>1, <2>2, UptoAll
  <2> QED BY <2>1, <2>3, <2>4
<1>10. SubSeq(attempts'[next.from], 1, next.head) = attempts[n]
  BY <1>6, <1>9 DEF Snapshot
<1>11. Snapshot(driver[p])' = attempts[n]
  <2>1. Snapshot(driver[p])' = SubSeq(attempts'[driver'[p].from], 1, driver'[p].head)
    BY DEF Snapshot
  <2> QED BY <1>6, <1>10, <2>1
<1>12. Confirms(next, attempts[n])
  BY <1>4 DEF Confirms
<1> QED BY <1>6, <1>7, <1>11, <1>12

(* It stays so.                                                             *)
LEMMA AuditedKept ==
  ASSUME IInv, DriversTold, Audited, [Next]_vars
  PROVE  Audited'
<1>1. ASSUME Grown, NEW q \in Processes, driver'[q] = driver[q], driver'[q].pc = "reported"
      PROVE  driver'[q].role = "audit" /\ Confirms(driver'[q], Snapshot(driver[q])')
  <2>1. PICK d : d = driver[q]
    OBVIOUS
  <2>2. Journals /\ Typed(d) /\ Placed(d) /\ d.role = "audit" /\ d.pc = "reported" /\ Confirms(d, Snapshot(d))
    BY <1>1, <2>1 DEF IInv, Drivers, Audited
  <2>3. d.from \in DOMAIN attempts /\ d.head \in Nat /\ 1..d.head \subseteq DOMAIN attempts[d.from]
    BY <2>2 DEF Typed, Placed
  <2>4. SubSeq(attempts'[d.from], 1, d.head) = Snapshot(d)
    <3>1. PICK s : s = attempts[d.from] /\ s \in Seq(Range(s))
      BY <2>2, <2>3 DEF Journals, Whole
    <3>2. PICK s2 : s2 = attempts'[d.from]
      OBVIOUS
    <3>3. PICK h \in Nat : h = d.head
      BY <2>3
    <3>4. \A i \in 1..h : s2[i] = s[i]
      BY <1>1, <2>3, <3>1, <3>2, <3>3 DEF Grown
    <3>5. SubSeq(s, 1, h) = SubSeq(s2, 1, h)
      BY <3>3, <3>4
    <3> QED BY <3>1, <3>2, <3>3, <3>5 DEF Snapshot
  <2>5. Snapshot(driver[q])' = Snapshot(d)
    <3>1. Snapshot(driver[q])' = SubSeq(attempts'[driver'[q].from], 1, driver'[q].head)
      BY DEF Snapshot
    <3> QED BY <1>1, <2>1, <2>4, <3>1
  <2> QED BY <1>1, <2>1, <2>2, <2>5
<1>2. CASE UNCHANGED vars
  BY <1>2 DEF vars, Audited, Snapshot
<1>3. CASE Next
  <2>1. PICK p \in Processes :
          \/ Resume(p) \/ ListAttempts(p) \/ MakeAttempt(p) \/ WriteHeader(p)
          \/ Loop(p) \/ Audit(p) \/ Report(p) \/ Exit(p) \/ Kill(p)
    BY <1>3 DEF Next
  <2>2. Grown /\ \A q \in Processes \ {p} : driver'[q] = driver[q]
    BY <2>1, StepMoves
  <2>3. driver'[p].pc = "reported" => Audit(p) \/ Report(p)
    BY <2>1, StepMoves
  <2>4. driver'[p].pc = "reported" => driver'[p].role = "audit" /\ Confirms(driver'[p], Snapshot(driver[p])')
    BY <2>3, ReportConfirms, AuditConfirmed
  <2>5. \A q \in Processes \ {p} :
          driver'[q].pc = "reported" => driver'[q].role = "audit" /\ Confirms(driver'[q], Snapshot(driver[q])')
    BY <1>1, <2>2
  <2>6. \A q \in Processes :
          driver'[q].pc = "reported" => driver'[q].role = "audit" /\ Confirms(driver'[q], Snapshot(driver[q])')
    BY <2>4, <2>5
  <2> QED BY <2>6 DEF Audited, Confirms
<1> QED BY <1>2, <1>3

(* The audit of a journal this code wrote ends as the journal did, but for  *)
(* a request without its reply, and for a wall condition before an intent.  *)
THEOREM AuditConfirmsHolds == Spec => []AuditConfirms
<1>1. Init => Audited
  <2> SUFFICES ASSUME Init PROVE Audited
    OBVIOUS
  <2> DEFINE run == [Idle EXCEPT !.pc = "list", !.role = "run"]
  <2>1. PICK first \in Processes :
          driver = [p \in Processes |-> IF p = first THEN run ELSE Idle]
    BY DEF Init
  <2>2. run.pc # "reported" /\ Idle.pc # "reported"
    BY Fields DEF Idle
  <2> HIDE DEF run
  <2> QED BY <2>1, <2>2 DEF Audited
<1>2. Audited => AuditConfirms
  BY DEF Audited, AuditConfirms, Confirms, At
<1> QED BY <1>1, <1>2, AuditedKept, ToldHolds, PTL DEF Spec

=============================================================================
