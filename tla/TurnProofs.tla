----------------------------- MODULE TurnProofs -----------------------------
(***************************************************************************)
(* Proofs about a session, for every setup, workspace, answer, delay and    *)
(* limit: what is admitted has one owner, what is allowed is safe, what is  *)
(* sent fits, a call of the server keeps its bounds and takes no reply in   *)
(* part, and no link is followed out of the workspace.                      *)
(*                                                                          *)
(* First the numbers and the lists all of it rests on; then each component  *)
(* on its own, the client, the workspace, the context, the admission, the   *)
(* plan and the decision; then the invariant of a session (TurnInv), which  *)
(* puts their invariants together.                                          *)
(***************************************************************************)
EXTENDS Turn, SequenceTheorems, FiniteSetTheorems, WellFoundedInduction, TLAPS

-----------------------------------------------------------------------------
(***************************************************************************)
(* Numbers, lists, and what Chosen keeps of one.                            *)
(***************************************************************************)
LessThan == {pair \in Nat \X Nat : pair[1] < pair[2]}

(* Every nonempty set of numbers has a least one, which Min finds.          *)
LEMMA LeastIs ==
  ASSUME NEW S, S \subseteq Nat, S # {}
  PROVE  Min(S) \in S /\ \A m \in S : Min(S) <= m
<1>1. IsWellFoundedOn(LessThan, Nat)
  <2>1. LessThan = OpToRel(<, Nat)
    BY DEF OpToRel, LessThan
  <2> QED BY <2>1, NatLessThanWellFounded
<1>2. \E n \in S : \A m \in S : ~ (<<m, n>> \in LessThan)
  BY <1>1, WFMin
<1>3. \A n, m \in Nat : ~ (<<m, n>> \in LessThan) => n <= m
  BY DEF LessThan
<1>4. \E n \in S : \A m \in S : n <= m
  BY <1>2, <1>3
<1> QED BY <1>4 DEF Min

(* A set with zero and every successor has all numbers.                     *)
LEMMA FromZero ==
  ASSUME NEW S, S \subseteq Nat, 0 \in S, \A n \in S : n + 1 \in S
  PROVE  S = Nat
<1> SUFFICES ASSUME Nat \ S # {} PROVE FALSE
  OBVIOUS
<1>1. PICK n \in Nat \ S : \A m \in Nat \ S : n <= m
  BY LeastIs
<1>2. n - 1 \in Nat /\ n - 1 \notin Nat \ S
  BY <1>1
<1>3. (n - 1) + 1 \in S
  BY <1>2
<1> QED BY <1>1, <1>3

(* A function on the first n numbers is a sequence of that length.          *)
LEMMA ListIs ==
  ASSUME NEW S, NEW n \in Nat, NEW s \in [1..n -> S]
  PROVE  s \in Seq(S) /\ Len(s) = n
<1>1. s \in Seq(S)
  BY SeqDef
<1> QED BY <1>1

\* What Chosen has chosen of the first n.
Choosing(f, s, I, n) ==
  f = [i \in 0..n |-> IF i = 0 THEN <<>>
                      ELSE IF i \in I THEN Append(f[i - 1], s[i]) ELSE f[i - 1]]

(* There is such a function for every n.                                    *)
LEMMA ChoosingExists ==
  ASSUME NEW s, NEW I, NEW length \in Nat
  PROVE  \E f : Choosing(f, s, I, length)
<1> DEFINE S == {n \in Nat : \E f : Choosing(f, s, I, n)}
<1>1. 0 \in S
  <2> DEFINE f == [i \in 0..0 |-> <<>>]
  <2>1. Choosing(f, s, I, 0)
    BY DEF Choosing
  <2> QED BY <2>1
<1>2. ASSUME NEW n \in S PROVE n + 1 \in S
  <2>1. PICK f : Choosing(f, s, I, n)
    OBVIOUS
  <2> DEFINE next == IF n + 1 \in I THEN Append(f[n], s[n + 1]) ELSE f[n]
             g == [i \in 0..(n + 1) |-> IF i = n + 1 THEN next ELSE f[i]]
  <2>2. \A i \in 0..n : f[i] = IF i = 0 THEN <<>> ELSE IF i \in I THEN Append(f[i - 1], s[i]) ELSE f[i - 1]
    BY <2>1 DEF Choosing
  <2>3. ASSUME NEW i \in 0..(n + 1)
        PROVE  g[i] = IF i = 0 THEN <<>> ELSE IF i \in I THEN Append(g[i - 1], s[i]) ELSE g[i - 1]
    <3>1. CASE i = n + 1
      <4>1. i # 0 /\ i - 1 = n /\ n \in 0..(n + 1) /\ n # n + 1
        BY <3>1
      <4>2. g[i] = next /\ g[i - 1] = f[n]
        BY <3>1, <4>1
      <4> QED BY <3>1, <4>1, <4>2
    <3>2. CASE i # n + 1
      <4>1. i \in 0..n /\ g[i] = f[i] /\ (i # 0 => i - 1 \in 0..n /\ i - 1 # n + 1)
        BY <3>2
      <4>2. i # 0 => g[i - 1] = f[i - 1]
        BY <4>1
      <4> QED BY <2>2, <4>1, <4>2
    <3> QED BY <3>1, <3>2
  <2>4. Choosing(g, s, I, n + 1)
    <3> DEFINE h == [i \in 0..(n + 1) |-> IF i = 0 THEN <<>>
                       ELSE IF i \in I THEN Append(g[i - 1], s[i]) ELSE g[i - 1]]
    <3>1. \A i \in 0..(n + 1) : g[i] = h[i]
      BY <2>3
    <3>2. g = h
      BY <3>1
    <3> QED BY <3>2 DEF Choosing
  <2> HIDE DEF g
  <2> QED BY <2>4
<1>3. S = Nat
  <2> HIDE DEF S
  <2>1. S \subseteq Nat
    BY DEF S
  <2> QED BY <1>1, <1>2, <2>1, FromZero
<1> QED BY <1>3

(* Chosen is what such a function ends with.                                *)
LEMMA ChosenIs ==
  ASSUME NEW s, NEW I, Len(s) \in Nat
  PROVE  \E f : Choosing(f, s, I, Len(s)) /\ Chosen(s, I) = f[Len(s)]
<1> DEFINE f == CHOOSE f : Choosing(f, s, I, Len(s))
<1>1. Choosing(f, s, I, Len(s))
  BY ChoosingExists
<1>2. Chosen(s, I) = f[Len(s)]
  BY DEF Chosen, Choosing
<1> QED BY <1>1, <1>2

(* What is chosen is a sequence of elements at the indices chosen.          *)
LEMMA ChosenFrom ==
  ASSUME NEW S, NEW s \in Seq(S), NEW I
  PROVE  /\ Chosen(s, I) \in Seq(S)
         /\ \A k \in DOMAIN Chosen(s, I) : \E i \in I \cap DOMAIN s : Chosen(s, I)[k] = s[i]
<1>1. PICK f : Choosing(f, s, I, Len(s)) /\ Chosen(s, I) = f[Len(s)]
  BY ChosenIs
<1> DEFINE From(n) == /\ f[n] \in Seq(S)
                      /\ \A k \in DOMAIN f[n] : \E i \in I \cap DOMAIN s : f[n][k] = s[i]
           N == {n \in Nat : n <= Len(s) => From(n)}
<1>2. \A i \in 0..Len(s) : f[i] = IF i = 0 THEN <<>> ELSE IF i \in I THEN Append(f[i - 1], s[i]) ELSE f[i - 1]
  BY <1>1 DEF Choosing
<1>3. 0 \in N
  <2>1. f[0] = <<>>
    BY <1>2
  <2>2. <<>> \in Seq(S) /\ DOMAIN <<>> = {}
    OBVIOUS
  <2>3. From(0)
    BY <2>1, <2>2
  <2> QED BY <2>3
<1>4. ASSUME NEW n \in N PROVE n + 1 \in N
  <2> SUFFICES ASSUME n + 1 <= Len(s) PROVE From(n + 1)
    OBVIOUS
  <2>1. n \in Nat /\ From(n) /\ n + 1 \in 0..Len(s) /\ n + 1 # 0 /\ (n + 1) - 1 = n /\ n + 1 \in DOMAIN s
    OBVIOUS
  <2>2. CASE n + 1 \in I
    <3>1. f[n + 1] = Append(f[n], s[n + 1])
      BY <1>2, <2>1, <2>2
    <3>2. s[n + 1] \in S
      BY <2>1
    <3>3. /\ f[n + 1] \in Seq(S) /\ DOMAIN f[n + 1] = 1..(Len(f[n]) + 1)
          /\ \A k \in 1..Len(f[n]) : f[n + 1][k] = f[n][k]
          /\ f[n + 1][Len(f[n]) + 1] = s[n + 1]
      BY <2>1, <3>1, <3>2, AppendProperties
    <3>4. DOMAIN f[n] = 1..Len(f[n]) /\ Len(f[n]) \in Nat
      BY <2>1
    <3>5. ASSUME NEW k \in DOMAIN f[n + 1]
          PROVE  \E i \in I \cap DOMAIN s : f[n + 1][k] = s[i]
      <4>1. CASE k \in 1..Len(f[n])
        BY <2>1, <3>3, <3>4, <4>1
      <4>2. CASE k = Len(f[n]) + 1
        BY <2>1, <2>2, <3>3, <4>2
      <4> QED BY <3>3, <3>4, <4>1, <4>2
    <3> QED BY <3>3, <3>5
  <2>3. CASE n + 1 \notin I
    <3>1. f[n + 1] = f[n]
      BY <1>2, <2>1, <2>3
    <3> QED BY <2>1, <3>1
  <2> QED BY <2>2, <2>3
<1>5. N = Nat
  <2> HIDE DEF N
  <2>1. N \subseteq Nat
    BY DEF N
  <2> QED BY <1>3, <1>4, <2>1, FromZero
<1>6. From(Len(s))
  <2>1. Len(s) \in Nat
    OBVIOUS
  <2> QED BY <1>5, <2>1
<1> QED BY <1>1, <1>6

(* What is chosen first is at the first index chosen.                       *)
LEMMA ChosenHead ==
  ASSUME NEW S, NEW s \in Seq(S), NEW I, Chosen(s, I) # <<>>
  PROVE  \E i \in I \cap 1..Len(s) : Chosen(s, I)[1] = s[i] /\ \A j \in I \cap 1..Len(s) : i <= j
<1>0. Len(s) \in Nat /\ DOMAIN s = 1..Len(s)
  BY LenProperties
<1>1. PICK f : Choosing(f, s, I, Len(s)) /\ Chosen(s, I) = f[Len(s)]
  BY <1>0, ChosenIs
<1>2. \A i \in 0..Len(s) : f[i] = IF i = 0 THEN <<>> ELSE IF i \in I THEN Append(f[i - 1], s[i]) ELSE f[i - 1]
  BY <1>1 DEF Choosing
<1> DEFINE First(n) == \E i \in I \cap 1..n : f[n][1] = s[i] /\ \A j \in I \cap 1..n : i <= j
           Holds(n) == (f[n] \in Seq(S) /\ f[n] = <<>> /\ I \cap 1..n = {}) \/ (f[n] \in Seq(S) /\ f[n] # <<>> /\ First(n))
           N == {n \in Nat : n <= Len(s) => Holds(n)}
<1>3. 0 \in N
  <2>1. f[0] = <<>> /\ 1..0 = {}
    BY <1>0, <1>2
  <2>2. Holds(0)
    BY <2>1
  <2> QED BY <2>2
<1>4. ASSUME NEW n \in N PROVE n + 1 \in N
  <2> SUFFICES ASSUME n + 1 <= Len(s) PROVE Holds(n + 1)
    OBVIOUS
  <2>1. n \in Nat /\ n + 1 \in 0..Len(s) /\ n + 1 # 0 /\ (n + 1) - 1 = n /\ s[n + 1] \in S
        /\ 1..n + 1 = (1..n) \cup {n + 1} /\ n + 1 \notin 1..n
    BY <1>0
  <2>2. Holds(n)
    BY <1>0
  <2> HIDE DEF Holds, N
  <2>3. f[n] \in Seq(S)
    BY <2>2 DEF Holds
  <2>4. CASE n + 1 \notin I
    <3>1. f[n + 1] = f[n] /\ I \cap (1..n + 1) = I \cap 1..n
      BY <1>2, <2>1, <2>4
    <3> QED BY <2>2, <3>1 DEF Holds
  <2>5. CASE n + 1 \in I
    <3>1. f[n + 1] = Append(f[n], s[n + 1])
      BY <1>2, <2>1, <2>5
    <3>2. f[n + 1] \in Seq(S) /\ f[n + 1] # <<>> /\ f[n + 1][1] = IF f[n] = <<>> THEN s[n + 1] ELSE f[n][1]
      <4>1. /\ f[n + 1] \in Seq(S) /\ Len(f[n + 1]) = Len(f[n]) + 1
            /\ \A k \in 1..Len(f[n]) : f[n + 1][k] = f[n][k]
            /\ f[n + 1][Len(f[n]) + 1] = s[n + 1]
        BY <2>1, <2>3, <3>1, AppendProperties
      <4>2. /\ Len(f[n]) \in Nat /\ (f[n] = <<>> => Len(f[n]) = 0) /\ (f[n] # <<>> => Len(f[n]) > 0)
        BY <2>3, EmptySeq, LenProperties
      <4>3. f[n + 1] # <<>>
        BY <4>1, <4>2, EmptySeq
      <4>4. f[n] = <<>> => f[n + 1][1] = s[n + 1]
        BY <4>1, <4>2
      <4>5. f[n] # <<>> => f[n + 1][1] = f[n][1]
        BY <4>1, <4>2
      <4> QED BY <4>1, <4>3, <4>4, <4>5
    <3>3. CASE f[n] = <<>>
      <4>1. I \cap 1..n = {}
        BY <2>2, <3>3 DEF Holds
      <4>2. I \cap (1..n + 1) = {n + 1}
        BY <2>1, <2>5, <4>1
      <4>3. f[n + 1][1] = s[n + 1]
        BY <3>2, <3>3
      <4>4. First(n + 1)
        BY <2>1, <4>2, <4>3
      <4> QED BY <3>2, <4>4 DEF Holds
    <3>4. CASE f[n] # <<>>
      <4>1. PICK i \in I \cap 1..n : f[n][1] = s[i] /\ \A j \in I \cap 1..n : i <= j
        BY <2>2, <3>4 DEF Holds
      <4>2. i <= n + 1 /\ i \in I \cap (1..n + 1) /\ f[n + 1][1] = s[i]
        BY <2>1, <3>2, <3>4, <4>1
      <4>3. \A j \in I \cap (1..n + 1) : i <= j
        BY <2>1, <4>1, <4>2
      <4>4. First(n + 1)
        BY <4>2, <4>3
      <4> QED BY <3>2, <4>4 DEF Holds
    <3> QED BY <3>3, <3>4
  <2> QED BY <2>4, <2>5
<1>5. N = Nat
  <2> HIDE DEF N
  <2>1. N \subseteq Nat
    BY DEF N
  <2> QED BY <1>3, <1>4, <2>1, FromZero
<1>6. Holds(Len(s))
  <2> HIDE DEF Holds
  <2>1. Len(s) \in N
    BY <1>0, <1>5
  <2> QED BY <1>0, <2>1
<1> QED BY <1>1, <1>6

(* What is chosen of the beginning is the beginning of what is chosen.      *)
LEMMA ChosenPrefix ==
  ASSUME NEW S, NEW s \in Seq(S), NEW t \in Seq(S), Len(t) <= Len(s),
         \A i \in 1..Len(t) : t[i] = s[i],
         NEW I, NEW J, \A i \in 1..Len(t) : i \in I <=> i \in J
  PROVE  IsPrefix(Chosen(t, I), Chosen(s, J))
<1>0. Len(s) \in Nat /\ Len(t) \in Nat
  BY LenProperties
<1>1. PICK f : Choosing(f, t, I, Len(t)) /\ Chosen(t, I) = f[Len(t)]
  BY <1>0, ChosenIs
<1>2. PICK g : Choosing(g, s, J, Len(s)) /\ Chosen(s, J) = g[Len(s)]
  BY <1>0, ChosenIs
<1>3. \A i \in 0..Len(t) : f[i] = IF i = 0 THEN <<>> ELSE IF i \in I THEN Append(f[i - 1], t[i]) ELSE f[i - 1]
  BY <1>1 DEF Choosing
<1>4. \A i \in 0..Len(s) : g[i] = IF i = 0 THEN <<>> ELSE IF i \in J THEN Append(g[i - 1], s[i]) ELSE g[i - 1]
  BY <1>2 DEF Choosing
<1> DEFINE N == {n \in Nat : n <= Len(t) => f[n] = g[n]}
<1>5. 0 \in N
  BY <1>0, <1>3, <1>4
<1>6. ASSUME NEW n \in N PROVE n + 1 \in N
  <2> SUFFICES ASSUME n + 1 <= Len(t) PROVE f[n + 1] = g[n + 1]
    OBVIOUS
  <2>1. /\ n + 1 \in 0..Len(t) /\ n + 1 \in 0..Len(s) /\ n + 1 # 0 /\ (n + 1) - 1 = n
        /\ n + 1 \in 1..Len(t) /\ f[n] = g[n]
    BY <1>0
  <2>2. t[n + 1] = s[n + 1] /\ (n + 1 \in I <=> n + 1 \in J)
    BY <2>1
  <2>3. f[n + 1] = IF n + 1 \in I THEN Append(f[n], t[n + 1]) ELSE f[n]
    BY <1>3, <2>1
  <2>4. g[n + 1] = IF n + 1 \in J THEN Append(g[n], s[n + 1]) ELSE g[n]
    BY <1>4, <2>1
  <2> QED BY <2>1, <2>2, <2>3, <2>4
<1>7. N = Nat
  <2> HIDE DEF N
  <2>1. N \subseteq Nat
    BY DEF N
  <2> QED BY <1>5, <1>6, <2>1, FromZero
<1>8. f[Len(t)] = g[Len(t)]
  BY <1>0, <1>7
<1>9. f[Len(t)] \in Seq(S)
  BY <1>1, ChosenFrom
<1> DEFINE Begins(q) == /\ q \in Seq(S) /\ Len(f[Len(t)]) <= Len(q)
                        /\ \A k \in 1..Len(f[Len(t)]) : q[k] = f[Len(t)][k]
           M == {n \in Nat : Len(t) + n <= Len(s) => Begins(g[Len(t) + n])}
<1>10. Len(f[Len(t)]) \in Nat
  BY <1>9, LenProperties
<1>11. 0 \in M
  <2>1. g[Len(t) + 0] = f[Len(t)]
    BY <1>0, <1>8
  <2> QED BY <1>9, <1>10, <2>1
<1>12. ASSUME NEW n \in M PROVE n + 1 \in M
  <2> SUFFICES ASSUME Len(t) + (n + 1) <= Len(s) PROVE Begins(g[Len(t) + (n + 1)])
    OBVIOUS
  <2> DEFINE k == Len(t) + (n + 1)
  <2>1. k \in 0..Len(s) /\ k # 0 /\ k - 1 = Len(t) + n /\ k \in 1..Len(s)
    BY <1>0
  <2>2. Begins(g[k - 1]) /\ s[k] \in S
    BY <1>0, <2>1
  <2> HIDE DEF k
  <2>3. g[k] = IF k \in J THEN Append(g[k - 1], s[k]) ELSE g[k - 1]
    BY <1>4, <2>1
  <2>4. ASSUME NEW q, q = g[k - 1], NEW e \in S
        PROVE  Begins(Append(q, e))
    <3>1. q \in Seq(S)
      BY <2>2, <2>4
    <3>2. /\ Append(q, e) \in Seq(S) /\ Len(Append(q, e)) = Len(q) + 1 /\ Len(q) \in Nat
          /\ \A j \in 1..Len(q) : Append(q, e)[j] = q[j]
      BY <3>1, AppendProperties, LenProperties
    <3> QED BY <1>10, <2>2, <2>4, <3>2
  <2>5. Begins(g[k])
    <3> HIDE DEF Begins
    <3> QED BY <2>2, <2>3, <2>4
  <2> QED BY <2>5 DEF k
<1>13. M = Nat
  <2> HIDE DEF M
  <2>1. M \subseteq Nat
    BY DEF M
  <2> QED BY <1>11, <1>12, <2>1, FromZero
<1>14. Begins(g[Len(s)])
  <2>1. Len(s) - Len(t) \in Nat /\ Len(t) + (Len(s) - Len(t)) = Len(s)
    BY <1>0
  <2>2. Len(s) - Len(t) \in M
    <3> HIDE DEF M
    <3> QED BY <1>13, <2>1
  <2> HIDE DEF Begins
  <2> QED BY <1>0, <2>1, <2>2
<1> DEFINE p == f[Len(t)]
           q == g[Len(s)]
<1>15. p \in Seq(S) /\ q \in Seq(S) /\ Len(p) <= Len(q) /\ Len(p) \in Nat /\ Len(q) \in Nat
       /\ \A k \in 1..Len(p) : q[k] = p[k]
  BY <1>9, <1>10, <1>14, LenProperties
<1> HIDE DEF p, q
<1>16. SubSeq(p, 1, Len(p)) = p
  BY <1>15, SubSeqFull
<1>17. /\ SubSeq(q, 1, Len(p)) \in Seq(S) /\ Len(SubSeq(q, 1, Len(p))) = Len(p)
       /\ \A k \in 1..Len(p) : SubSeq(q, 1, Len(p))[k] = q[k]
  <2>1. \A k \in 1..Len(p) : q[k] \in S
    BY <1>15, ElementOfSeq
  <2>2. PICK one \in Int : one = 1
    OBVIOUS
  <2>3. /\ SubSeq(q, one, Len(p)) \in Seq(S)
        /\ Len(SubSeq(q, one, Len(p))) = IF one <= Len(p) THEN Len(p) - one + 1 ELSE 0
        /\ \A k \in 1..Len(p) - one + 1 : SubSeq(q, one, Len(p))[k] = q[one + k - 1]
    <3>1. Len(p) \in Int /\ \A k \in one..Len(p) : q[k] \in S
      BY <1>15, <2>1, <2>2
    <3> QED BY ONLY <2>2, <3>1, SubSeqProperties
  <2> QED BY <1>15, <2>2, <2>3
<1>18. SubSeq(q, 1, Len(p)) = p
  BY <1>15, <1>17, SeqEqual
<1> QED BY <1>1, <1>2, <1>15, <1>16, <1>18 DEF IsPrefix, p, q

-----------------------------------------------------------------------------
(***************************************************************************)
(* Lists of checks: none refuses, or the first that does is the answer.     *)
(***************************************************************************)
Checks(list) == (\E S : list \in Seq(S)) /\ \A i \in 1..Len(list) : list[i][2] # Accepted
Passes(checks) == \A i \in 1..Len(checks) : ~checks[i][1]

(* A list of checks accepts what none of them refuses.                      *)
LEMMA FirstRefusalIs ==
  ASSUME NEW checks, Checks(checks)
  PROVE  FirstRefusal(checks) = Accepted <=> Passes(checks)
<1> DEFINE I == {i \in DOMAIN checks : checks[i][1]}
<1>1. FirstRefusal(checks) = IF I = {} THEN Accepted ELSE checks[Min(I)][2]
  BY DEF FirstRefusal
<1>2. DOMAIN checks = 1..Len(checks) /\ Len(checks) \in Nat
  BY LenProperties DEF Checks
<1>3. I = {} <=> Passes(checks)
  BY <1>2 DEF Passes
<1>4. I # {} => checks[Min(I)][2] # Accepted
  <2>1. I \subseteq Nat /\ \A i \in I : checks[i][2] # Accepted
    BY <1>2 DEF Checks
  <2> HIDE DEF I
  <2>2. I # {} => Min(I) \in I
    BY <2>1, LeastIs
  <2> QED BY <2>1, <2>2
<1> QED BY <1>1, <1>3, <1>4

(* Two lists one after the other.                                           *)
LEMMA PassesBoth ==
  ASSUME NEW a, NEW b, Checks(a), Checks(b)
  PROVE  Checks(a \o b) /\ (Passes(a \o b) <=> Passes(a) /\ Passes(b))
<1>0. PICK S : a \in Seq(S) /\ b \in Seq(S)
  <2>1. PICK S, T : a \in Seq(S) /\ b \in Seq(T)
    BY DEF Checks
  <2>2. S \subseteq S \cup T /\ T \subseteq S \cup T
    OBVIOUS
  <2>3. a \in Seq(S \cup T) /\ b \in Seq(S \cup T)
    BY <2>1, <2>2, SeqMonotonic
  <2> QED BY <2>3
<1>1. /\ a \o b \in Seq(S) /\ Len(a \o b) = Len(a) + Len(b)
      /\ \A i \in 1..Len(a) + Len(b) : (a \o b)[i] = IF i <= Len(a) THEN a[i] ELSE b[i - Len(a)]
  BY <1>0, ConcatProperties
<1>2. Len(a) \in Nat /\ Len(b) \in Nat
  BY <1>0, LenProperties
<1> DEFINE ab == a \o b
<1>3. /\ Len(ab) = Len(a) + Len(b)
      /\ \A i \in 1..Len(a) + Len(b) : ab[i] = IF i <= Len(a) THEN a[i] ELSE b[i - Len(a)]
  BY <1>1
<1> HIDE DEF ab
<1>4. ASSUME Passes(ab) PROVE Passes(a) /\ Passes(b)
  <2>1. \A i \in 1..Len(a) : ~a[i][1]
    BY <1>2, <1>3, <1>4 DEF Passes
  <2>2. ASSUME NEW i \in 1..Len(b) PROVE ~b[i][1]
    <3>1. i + Len(a) \in 1..Len(a) + Len(b) /\ ~(i + Len(a) <= Len(a)) /\ (i + Len(a)) - Len(a) = i
      BY <1>2
    <3>2. ab[i + Len(a)] = b[i]
      BY <1>3, <3>1
    <3> QED BY <1>3, <1>4, <3>1, <3>2 DEF Passes
  <2> QED BY <2>1, <2>2 DEF Passes
<1>5. ASSUME Passes(a), Passes(b) PROVE Passes(ab)
  <2>1. ASSUME NEW i \in 1..Len(a) + Len(b) PROVE ~ab[i][1]
    <3>1. CASE i <= Len(a)
      <4>1. i \in 1..Len(a) /\ ab[i] = a[i]
        BY <1>2, <1>3, <3>1
      <4> QED BY <1>5, <4>1 DEF Passes
    <3>2. CASE ~(i <= Len(a))
      <4>1. i - Len(a) \in 1..Len(b) /\ ab[i] = b[i - Len(a)]
        BY <1>2, <1>3, <3>2
      <4> QED BY <1>5, <4>1 DEF Passes
    <3> QED BY <3>1, <3>2
  <2> QED BY <1>3, <2>1 DEF Passes
<1>6. Checks(ab)
  <2>1. ab \in Seq(S)
    BY <1>1 DEF ab
  <2>2. ASSUME NEW i \in 1..Len(a) + Len(b) PROVE ab[i][2] # Accepted
    <3>1. CASE i <= Len(a)
      <4>1. i \in 1..Len(a) /\ ab[i] = a[i]
        BY <1>2, <1>3, <3>1
      <4> QED BY <4>1 DEF Checks
    <3>2. CASE ~(i <= Len(a))
      <4>1. i - Len(a) \in 1..Len(b) /\ ab[i] = b[i - Len(a)]
        BY <1>2, <1>3, <3>2
      <4> QED BY <4>1 DEF Checks
    <3> QED BY <3>1, <3>2
  <2> QED BY <1>3, <2>1, <2>2 DEF Checks
<1> QED BY <1>4, <1>5, <1>6 DEF ab

\* What FlattenSeq has flattened of the first n.
Flattening(f, seqs, n) ==
  f = [i \in 1..n |-> IF i = 1 THEN seqs[i] ELSE f[i - 1] \o seqs[i]]

(* There is such a function for every n.                                    *)
LEMMA FlatteningExists ==
  ASSUME NEW seqs, NEW length \in Nat
  PROVE  \E f : Flattening(f, seqs, length)
<1> DEFINE S == {n \in Nat : \E f : Flattening(f, seqs, n)}
<1>1. 0 \in S
  <2> DEFINE f == [i \in 1..0 |-> <<>>]
  <2>1. Flattening(f, seqs, 0)
    BY DEF Flattening
  <2> QED BY <2>1
<1>2. ASSUME NEW n \in S PROVE n + 1 \in S
  <2>1. PICK f : Flattening(f, seqs, n)
    OBVIOUS
  <2> DEFINE next == IF n = 0 THEN seqs[1] ELSE f[n] \o seqs[n + 1]
             g == [i \in 1..(n + 1) |-> IF i = n + 1 THEN next ELSE f[i]]
  <2>2. \A i \in 1..n : f[i] = IF i = 1 THEN seqs[i] ELSE f[i - 1] \o seqs[i]
    BY <2>1 DEF Flattening
  <2>3. ASSUME NEW i \in 1..(n + 1)
        PROVE  g[i] = IF i = 1 THEN seqs[i] ELSE g[i - 1] \o seqs[i]
    <3>1. CASE i = n + 1
      <4>1. g[i] = next /\ (n # 0 => i # 1 /\ i - 1 = n /\ n \in 1..(n + 1) /\ n # n + 1)
        BY <3>1
      <4>2. n # 0 => g[i - 1] = f[n]
        BY <4>1
      <4> QED BY <3>1, <4>1, <4>2
    <3>2. CASE i # n + 1
      <4>1. i \in 1..n /\ g[i] = f[i] /\ (i # 1 => i - 1 \in 1..n /\ i - 1 # n + 1)
        BY <3>2
      <4>2. i # 1 => g[i - 1] = f[i - 1]
        BY <4>1
      <4> QED BY <2>2, <4>1, <4>2
    <3> QED BY <3>1, <3>2
  <2>4. Flattening(g, seqs, n + 1)
    <3> DEFINE h == [i \in 1..(n + 1) |-> IF i = 1 THEN seqs[i] ELSE g[i - 1] \o seqs[i]]
    <3>1. \A i \in 1..(n + 1) : g[i] = h[i]
      BY <2>3
    <3>2. g = h
      BY <3>1
    <3> QED BY <3>2 DEF Flattening
  <2> HIDE DEF g
  <2> QED BY <2>4
<1>3. S = Nat
  <2> HIDE DEF S
  <2>1. S \subseteq Nat
    BY DEF S
  <2> QED BY <1>1, <1>2, <2>1, FromZero
<1> QED BY <1>3

(* A list of lists of checks passes if each of them does.                   *)
LEMMA PassesAll ==
  ASSUME NEW seqs, NEW n \in Nat, Len(seqs) = n, n = 0 => seqs = <<>>,
         \A i \in 1..n : Checks(seqs[i])
  PROVE  /\ Checks(FlattenSeq(seqs))
         /\ Passes(FlattenSeq(seqs)) <=> \A i \in 1..n : Passes(seqs[i])
<1>1. CASE n = 0
  <2>1. FlattenSeq(seqs) = <<>>
    BY <1>1 DEF FlattenSeq
  <2>2. Checks(<<>>)
    <3>1. <<>> \in Seq({}) /\ Len(<<>>) = 0
      OBVIOUS
    <3> QED BY <3>1 DEF Checks
  <2>3. Passes(<<>>)
    BY DEF Passes
  <2> QED BY <1>1, <2>1, <2>2, <2>3
<1>2. CASE n # 0
  <2> DEFINE f == CHOOSE f : Flattening(f, seqs, n)
  <2>1. Flattening(f, seqs, n)
    BY FlatteningExists
  <2>2. FlattenSeq(seqs) = f[n]
    BY <1>2 DEF FlattenSeq, Flattening
  <2> HIDE DEF f
  <2>3. \A i \in 1..n : f[i] = IF i = 1 THEN seqs[i] ELSE f[i - 1] \o seqs[i]
    BY <2>1 DEF Flattening
  <2> DEFINE Holds(k) == /\ Checks(f[k])
                         /\ Passes(f[k]) <=> \A i \in 1..k : Passes(seqs[i])
             N == {k \in Nat : k \in 1..n => Holds(k)}
  <2>4. 0 \in N
    <3>1. 0 \in Nat /\ 0 \notin 1..n
      OBVIOUS
    <3> HIDE DEF Holds
    <3> QED BY <3>1
  <2>5. ASSUME NEW k \in N PROVE k + 1 \in N
    <3> SUFFICES ASSUME k + 1 \in 1..n PROVE Holds(k + 1)
      OBVIOUS
    <3>1. CASE k = 0
      <4>1. f[k + 1] = seqs[1] /\ 1..k + 1 = {1} /\ 1 \in 1..n
        BY <2>3, <3>1
      <4> QED BY <4>1
    <3>2. CASE k # 0
      <4>1. k \in 1..n /\ Holds(k) /\ k + 1 # 1 /\ (k + 1) - 1 = k
        BY <3>2
      <4>2. f[k + 1] = f[k] \o seqs[k + 1] /\ Checks(seqs[k + 1])
        BY <2>3, <4>1
      <4>3. /\ Checks(f[k + 1])
            /\ Passes(f[k + 1]) <=> (Passes(f[k]) /\ Passes(seqs[k + 1]))
        BY <4>1, <4>2, PassesBoth
      <4>4. 1..k + 1 = (1..k) \cup {k + 1}
        <5>1. k \in Nat
          BY <4>1
        <5> QED BY ONLY <5>1
      <4> QED BY <4>1, <4>3, <4>4
    <3> QED BY <3>1, <3>2
  <2>6. N = Nat
    <3> HIDE DEF N
    <3>1. N \subseteq Nat
      BY DEF N
    <3> QED BY <2>4, <2>5, <3>1, FromZero
  <2>7. Holds(n)
    <3> HIDE DEF Holds
    <3>1. n \in 1..n
      BY <1>2
    <3>2. n \in N
      BY <2>6
    <3> QED BY <3>1, <3>2
  <2> QED BY <2>2, <2>7
<1> QED BY <1>1, <1>2

-----------------------------------------------------------------------------
(***************************************************************************)
(* One call of the model server, up to the end of its answer.               *)
(***************************************************************************)
(* What the time limits and the retry budget are.                           *)
LEMMA ConstantsAre ==
  /\ Deadline \in Nat \ {0} /\ CONNECT_TIMEOUT \in Nat \ {0} /\ READ_TIMEOUT \in Nat \ {0}
  /\ MAX_RETRIES \in Nat /\ CAP \in Nat /\ Slack \in Nat
BY ModelClientAssumption

(* The earlier of two times.                                                *)
LEMMA MinTwo ==
  ASSUME NEW a \in Int, NEW b \in Int
  PROVE  Min({a, b}) = IF a <= b THEN a ELSE b
BY DEF Min

(* The later of two times.                                                  *)
LEMMA MaxTwo ==
  ASSUME NEW a \in Int, NEW b \in Int
  PROVE  Max({a, b}) = IF a >= b THEN a ELSE b
BY DEF Max

(* The backoff of an attempt is a time.                                     *)
LEMMA BackoffIsNat ==
  ASSUME NEW attempt \in 0..MAX_RETRIES
  PROVE  HalfBackoff(attempt) \in Nat
<1>1. BASE * 2 ^ attempt \in Nat /\ CAP \in Nat
  BY ModelClientAssumption
<1>2. Min({BASE * 2 ^ attempt, CAP}) \in Nat
  BY <1>1, MinTwo
<1> QED BY <1>2 DEF HalfBackoff

-----------------------------------------------------------------------------
CallFields == {"pc", "purpose", "now", "attempt", "retried", "wt", "answer", "arrived", "outcome",
           "began", "prev", "served", "drained"}
CallPCs    == {"connect", "write", "writing", "head", "body", "retry", "done"}

CallTyped ==
  /\ call = [field \in CallFields |-> call[field]]
  /\ call.pc \in CallPCs /\ call.purpose \in {"models", "chat"}
  /\ call.now \in Nat /\ call.wt \in Nat /\ call.began \in Nat /\ call.attempt \in 0..MAX_RETRIES
  /\ call.retried \in Seq(Nat) /\ call.served \in Seq(Nat) /\ call.drained \in BOOLEAN

(* Where a call stands says how late it may be, a slow drain apart.         *)
OnTime ==
  /\ call.pc = "connect" => call.now < Deadline + Slack
  /\ call.pc = "write"   => call.now <= Deadline
  /\ call.pc = "writing" => call.drained \/ call.now + call.wt <= Deadline
  /\ call.pc \in {"head", "body", "retry"} => call.drained \/ call.now <= Deadline
  /\ EndsByItsDeadline

(* The statuses served are those retried, and the one in hand.              *)
StatusesOK ==
  /\ call.pc # "done" => Len(call.retried) = call.attempt + IF call.pc = "retry" THEN 1 ELSE 0
  /\ call.pc \notin {"body", "done"} => call.served = call.retried
  /\ call.pc = "body" => call.served = Append(call.retried, call.answer.status)
  /\ call.pc \in {"body", "retry"} => call.answer.status \in Nat /\ call.answer.after \in Nat
  /\ call.pc = "retry" => /\ call.purpose = "chat" /\ IsRetryable(call.answer.status)
  /\ StatusesAreNamed

CallInv == CallTyped /\ OnTime /\ StatusesOK /\ RetriesAreDue

-----------------------------------------------------------------------------
(* What a reply is read as names the statuses it was given, and is never    *)
(* one of the errors that end the retries.                                  *)
NamesStatuses(outcome, retried) ==
  /\ outcome.is = "completion" => outcome.retried = retried
  /\ outcome.is = "error" => outcome.why \notin {"RateLimited", "Status"}

(* An error of a reply that was read is not one of a status.               *)
LEMMA ReadReplyIs ==
  ASSUME NEW type, NEW events, NEW cut, NEW retried
  PROVE  NamesStatuses(ReadReply(type, events, cut, retried), retried)
<1>1. Finished(events) \in {"Truncated", "Empty", "Unusable", "ok"}
  BY DEF Finished
<1>2. ReadReply(type, events, cut, retried) \in
        {ModelError(why) : why \in {"Truncated", "Empty", "Unusable"}}
          \cup {Completion(ContentOf(events), Of("call", events), retried)}
  BY <1>1 DEF ReadReply
<1> QED BY <1>2 DEF NamesStatuses, ModelError, Completion

-----------------------------------------------------------------------------
(* A step within an attempt leaves what the retries are due to alone.       *)
LEMMA SameAttempt ==
  ASSUME CallInv, call'.pc \in CallPCs, call'.attempt = call.attempt, call'.purpose = call.purpose,
         call'.began = call.began, call'.prev = call.prev,
         Len(call'.served) <= 1 + MAX_RETRIES
  PROVE  RetriesAreDue'
BY ConstantsAre DEF CallInv, CallTyped, RetriesAreDue, CallPCs, Calling

(* Every call serves one status an attempt.                                 *)
LEMMA ServedIsBounded ==
  ASSUME CallInv
  PROVE  /\ Len(call.served) \in Nat /\ Len(call.served) <= 1 + MAX_RETRIES
         /\ call.pc \notin {"body", "retry", "done"} => Len(call.served) <= MAX_RETRIES
<1>1. MAX_RETRIES \in Nat /\ Len(call.served) \in Nat
  BY ConstantsAre, LenProperties DEF CallInv, CallTyped
<1>2. Len(call.served) <= 1 + MAX_RETRIES
  BY DEF CallInv, RetriesAreDue, Calling, CallTyped, CallPCs
<1> QED BY <1>1, <1>2 DEF CallInv, CallTyped, StatusesOK, CallPCs

(* What the end of a call leaves as it was.                                 *)
LEMMA DoneIs ==
  ASSUME CallInv, NEW t \in Nat, NEW outcome, Done(t, outcome)
  PROVE  /\ call' = [field \in CallFields |-> call'[field]] /\ call'.pc = "done" /\ call'.now = call.now + t
         /\ call'.outcome = outcome /\ call'.purpose = call.purpose /\ call'.attempt = call.attempt
         /\ call'.retried = call.retried /\ call'.wt = call.wt /\ call'.began = call.began
         /\ call'.prev = call.prev /\ call'.served = call.served /\ call'.drained = call.drained
BY DEF CallInv, CallTyped, Done, At, CallFields

(* The end of a call, on time or after a slow drain, with an error of its   *)
(* own.                                                                     *)
LEMMA EndsWith ==
  ASSUME CallInv, NEW t \in Nat, NEW outcome,
         outcome.is = "error", outcome.why \notin {"RateLimited", "Status"},
         call.drained \/ call.now + t <= Deadline + Slack, Done(t, outcome)
  PROVE  CallInv'
<1>1. /\ call' = [field \in CallFields |-> call'[field]] /\ call'.pc = "done" /\ call'.now = call.now + t
      /\ call'.outcome = outcome /\ call'.purpose = call.purpose /\ call'.attempt = call.attempt
      /\ call'.retried = call.retried /\ call'.wt = call.wt /\ call'.began = call.began
      /\ call'.prev = call.prev /\ call'.served = call.served /\ call'.drained = call.drained
  BY DoneIs
<1>2. CallTyped'
  BY <1>1 DEF CallInv, CallTyped, CallPCs
<1>3. RetriesAreDue'
  BY <1>1, SameAttempt, ServedIsBounded DEF CallPCs
<1>4. OnTime'
  <2>0. call.now \in Nat
    BY DEF CallInv, CallTyped
  <2>1. call'.now \in Nat /\ Deadline + Slack \in Nat
    BY <1>1, <2>0, ConstantsAre
  <2>2. call'.now > Deadline + Slack => call'.drained
    BY <1>1, <2>1
  <2> QED BY <1>1, <2>2 DEF OnTime, EndsByItsDeadline, Over
<1>5. StatusesOK'
  BY <1>1 DEF StatusesOK, StatusesAreNamed, Over
<1> QED BY <1>2, <1>3, <1>4, <1>5 DEF CallInv

(* What an expired wait costs.                                              *)
LEMMA ExpiredIs ==
  ASSUME NEW w \in Nat, NEW t \in Expired(w)
  PROVE  t \in Nat /\ w <= t /\ t <= w + Slack
BY ConstantsAre DEF Expired

(* An error of the connection or of the reply is not one of a status.       *)
LEMMA UnavailableIs ==
  ASSUME NEW how
  PROVE  /\ Unavailable(how).is = "error" /\ Unavailable(how).why \notin {"RateLimited", "Status"}
         /\ ModelError("Unusable").is = "error"
         /\ ModelError("Unusable").why \notin {"RateLimited", "Status"}
BY DEF Unavailable, ModelError

(* exchange, up to the first byte of the answer.                            *)
LEMMA RequestSteps ==
  ASSUME CallInv, PastDeadline \/ Connect \/ StartWrite \/ Written \/ WriteSome \/ WriteFails
  PROVE  CallInv'
<1> USE ConstantsAre
<1>1. /\ call = [field \in CallFields |-> call[field]] /\ call.now \in Nat /\ call.wt \in Nat
      /\ Left \in Int
  BY DEF CallInv, CallTyped, Left
<1>2. CASE PastDeadline
  <2>1. call.drained \/ call.now + 0 <= Deadline + Slack
    BY <1>1, <1>2 DEF PastDeadline, CallInv, OnTime
  <2>2. Done(0, Unavailable("Deadline"))
    BY <1>2 DEF PastDeadline
  <2> QED BY <2>1, <2>2, EndsWith, UnavailableIs
<1>3. CASE Connect
  <2> DEFINE wait == Min({CONNECT_TIMEOUT, Left})
  <2>1. call.pc = "connect" /\ Left > 0 /\ wait \in Nat /\ wait <= Left
    BY <1>1, <1>3, MinTwo DEF Connect
  <2> HIDE DEF wait
  <2>2. ASSUME NEW t \in Within(wait), call' = [At(t) EXCEPT !.pc = "write"]
        PROVE  CallInv'
    <3>1. t \in Nat /\ call.now + t <= Deadline
      BY <1>1, <2>1, <2>2 DEF Within, Left
    <3>2. /\ call' = [field \in CallFields |-> call'[field]] /\ call'.pc = "write" /\ call'.now = call.now + t
          /\ call'.purpose = call.purpose /\ call'.attempt = call.attempt
          /\ call'.retried = call.retried /\ call'.wt = call.wt /\ call'.began = call.began
          /\ call'.prev = call.prev /\ call'.served = call.served /\ call'.drained = call.drained
      BY <1>1, <2>2 DEF At, CallFields
    <3>a. call.now + t \in Nat
      BY <1>1, <3>1
    <3>3. CallTyped'
      BY <3>a, <3>2 DEF CallInv, CallTyped, CallPCs
    <3>4. RetriesAreDue'
      BY <3>2, SameAttempt, ServedIsBounded DEF CallPCs
    <3>5. OnTime'
      BY <3>1, <3>2 DEF OnTime, EndsByItsDeadline, Over
    <3>6. StatusesOK'
      BY <2>1, <3>2 DEF CallInv, StatusesOK, StatusesAreNamed, Over
    <3> QED BY <3>3, <3>4, <3>5, <3>6 DEF CallInv
  <2>3. CASE Done(0, Unavailable("Connect"))
    <3>1. call.now <= Deadline + Slack
      BY <1>1, <2>1 DEF Left
    <3> QED BY <1>1, <2>3, <3>1, EndsWith, UnavailableIs
  <2>4. ASSUME NEW t \in Expired(wait), Done(t, Unavailable(LateOr("ConnectTimeout", t)))
        PROVE  CallInv'
    <3>1. t \in Nat /\ call.now + t <= Deadline + Slack
      BY <1>1, <2>1, ExpiredIs DEF Left
    <3> QED BY <2>4, <3>1, EndsWith, UnavailableIs
  <2> QED BY <1>3, <2>2, <2>3, <2>4 DEF Connect, wait
<1>4. CASE StartWrite
  <2>1. /\ call.pc = "write" /\ Left > 0 /\ Min({READ_TIMEOUT, Left}) \in Nat
        /\ Min({READ_TIMEOUT, Left}) <= Left
    BY <1>1, <1>4, MinTwo DEF StartWrite
  <2>2. /\ call' = [field \in CallFields |-> call'[field]] /\ call'.pc = "writing" /\ call'.now = call.now
        /\ call'.purpose = call.purpose /\ call'.attempt = call.attempt
        /\ call'.retried = call.retried /\ call'.wt = Min({READ_TIMEOUT, Left})
        /\ call'.began = call.began /\ call'.prev = call.prev /\ call'.served = call.served
        /\ call'.drained = call.drained
    BY <1>1, <1>4 DEF StartWrite, CallFields
  <2>3. CallTyped'
    BY <1>1, <2>1, <2>2 DEF CallInv, CallTyped, CallPCs
  <2>4. RetriesAreDue'
    BY <2>2, SameAttempt, ServedIsBounded DEF CallPCs
  <2>5. OnTime'
    BY <1>1, <2>1, <2>2 DEF OnTime, EndsByItsDeadline, Over, Left
  <2>6. StatusesOK'
    BY <2>1, <2>2 DEF CallInv, StatusesOK, StatusesAreNamed, Over
  <2> QED BY <2>3, <2>4, <2>5, <2>6 DEF CallInv
<1>5. CASE Written
  <2>1. /\ call' = [field \in CallFields |-> call'[field]] /\ call.pc = "writing" /\ call'.pc = "head"
        /\ call'.now = call.now /\ call'.purpose = call.purpose /\ call'.attempt = call.attempt
        /\ call'.retried = call.retried /\ call'.wt = call.wt /\ call'.began = call.began
        /\ call'.prev = call.prev /\ call'.served = call.served /\ call'.drained = call.drained
    BY <1>1, <1>5 DEF Written, CallFields
  <2>2. CallTyped'
    BY <1>1, <2>1 DEF CallInv, CallTyped, CallPCs
  <2>3. RetriesAreDue'
    BY <2>1, SameAttempt, ServedIsBounded DEF CallPCs
  <2>4. OnTime'
    BY <1>1, <2>1 DEF CallInv, OnTime, EndsByItsDeadline, Over
  <2>5. StatusesOK'
    BY <2>1 DEF CallInv, StatusesOK, StatusesAreNamed, Over
  <2> QED BY <2>2, <2>3, <2>4, <2>5 DEF CallInv
<1>6. CASE WriteSome
  <2>1. PICK t \in Within(call.wt) \ {0} : call' = [At(t) EXCEPT !.drained = TRUE]
    BY <1>6 DEF WriteSome
  <2>2. /\ call' = [field \in CallFields |-> call'[field]] /\ call.pc = "writing" /\ call'.pc = "writing"
        /\ call'.now = call.now + t /\ call'.purpose = call.purpose /\ call'.attempt = call.attempt
        /\ call'.retried = call.retried /\ call'.wt = call.wt /\ call'.began = call.began
        /\ call'.prev = call.prev /\ call'.served = call.served /\ call'.drained = TRUE
    BY <1>1, <1>6, <2>1 DEF At, CallFields, WriteSome
  <2>a. call.now + t \in Nat
    BY <1>1 DEF Within
  <2>3. CallTyped'
    BY <2>2, <2>a DEF CallInv, CallTyped, CallPCs
  <2>4. RetriesAreDue'
    BY <2>2, SameAttempt, ServedIsBounded DEF CallPCs
  <2>5. OnTime'
    BY <2>2 DEF OnTime, EndsByItsDeadline, Over
  <2>6. StatusesOK'
    BY <2>2 DEF CallInv, StatusesOK, StatusesAreNamed, Over
  <2> QED BY <2>3, <2>4, <2>5, <2>6 DEF CallInv
<1>7. CASE WriteFails
  <2>1. call.drained \/ call.now + call.wt <= Deadline
    BY <1>7 DEF WriteFails, CallInv, OnTime
  <2>2. CASE Done(0, Unavailable("Connect"))
    <3>1. call.drained \/ call.now + 0 <= Deadline + Slack
      BY <1>1, <2>1
    <3> QED BY <2>2, <3>1, EndsWith, UnavailableIs
  <2>3. ASSUME NEW t \in Expired(call.wt), Done(t, Unavailable("Deadline"))
        PROVE  CallInv'
    <3>1. t \in Nat /\ (call.drained \/ call.now + t <= Deadline + Slack)
      BY <1>1, <2>1, ExpiredIs
    <3> QED BY <2>3, <3>1, EndsWith, UnavailableIs
  <2> QED BY <1>7, <2>2, <2>3 DEF WriteFails
<1> QED BY <1>2, <1>3, <1>4, <1>5, <1>6, <1>7

-----------------------------------------------------------------------------
(* A call with the head of an answer: the status it was served is in hand.  *)
InHand(c) ==
  /\ call.pc \in {"head", "body"}
  /\ c = [field \in CallFields |-> c[field]] /\ c.pc = "body"
  /\ c.now = call.now /\ c.purpose = call.purpose /\ c.attempt = call.attempt
  /\ c.retried = call.retried /\ c.wt = call.wt /\ c.began = call.began /\ c.prev = call.prev
  /\ c.drained = call.drained
  /\ c.answer.status \in Nat /\ c.answer.after \in Nat
  /\ c.served = Append(call.retried, c.answer.status)

(* A response in hand was served to the attempt in progress.                *)
LEMMA InHandServes ==
  ASSUME CallInv, NEW c, InHand(c)
  PROVE  /\ c.served \in Seq(Nat) /\ Len(c.served) <= 1 + MAX_RETRIES
         /\ Len(c.served) = Len(call.retried) + 1 /\ Len(call.retried) = call.attempt
<1>1. /\ call.retried \in Seq(Nat) /\ Len(call.retried) = call.attempt /\ call.attempt \in 0..MAX_RETRIES
  <2>1. call.retried \in Seq(Nat) /\ call.attempt \in 0..MAX_RETRIES
    BY DEF CallInv, CallTyped
  <2>2. call.pc # "done" /\ call.pc # "retry"
    BY DEF InHand
  <2>3. Len(call.retried) = call.attempt + 0
    BY <2>2 DEF CallInv, StatusesOK
  <2> QED BY <2>1, <2>3
<1>2. c.served \in Seq(Nat) /\ Len(c.served) = Len(call.retried) + 1
  <2>1. c.answer.status \in Nat /\ c.served = Append(call.retried, c.answer.status)
    BY DEF InHand
  <2> QED BY <1>1, <2>1, AppendProperties
<1> QED BY <1>1, <1>2, ConstantsAre

(* What the end of an answer becomes: a retry, or the end of the call.      *)
LEMMA ReceiveOK ==
  ASSUME CallInv, NEW c, InHand(c), NEW arrived, Receive(c, arrived)
  PROVE  CallInv'
<1>1. /\ c.served \in Seq(Nat) /\ Len(c.served) <= 1 + MAX_RETRIES
      /\ Len(c.served) = call.attempt + 1
  BY InHandServes
<1>2. call.now \in Nat /\ (call.drained \/ call.now <= Deadline)
  BY DEF CallInv, CallTyped, OnTime, InHand
<1>3. CASE call.purpose = "chat" /\ IsRetryable(c.answer.status)
  <2>1. call' = [c EXCEPT !.pc = "retry", !.retried = Append(@, c.answer.status), !.arrived = 0]
    BY <1>3 DEF Receive, InHand
  <2>2. /\ call' = [field \in CallFields |-> call'[field]] /\ call'.pc = "retry" /\ call'.now = call.now
        /\ call'.purpose = call.purpose /\ call'.attempt = call.attempt
        /\ call'.retried = c.served /\ call'.wt = call.wt /\ call'.began = call.began
        /\ call'.prev = call.prev /\ call'.served = c.served /\ call'.drained = call.drained
        /\ call'.answer = c.answer
    BY <2>1 DEF InHand, CallFields
  <2>3. CallTyped'
    BY <1>1, <2>2 DEF CallInv, CallTyped, CallPCs
  <2>4. RetriesAreDue'
    BY <1>1, <2>2, SameAttempt DEF CallPCs
  <2>5. OnTime'
    BY <1>2, <2>2 DEF OnTime, EndsByItsDeadline, Over
  <2>6. StatusesOK'
    BY <1>1, <1>3, <2>2 DEF StatusesOK, StatusesAreNamed, Over, InHand
  <2> QED BY <2>3, <2>4, <2>5, <2>6 DEF CallInv
<1>4. CASE ~(call.purpose = "chat" /\ IsRetryable(c.answer.status))
  <2> DEFINE outcome == IF c.answer.status = 200 THEN Of200(c.answer, arrived) ELSE ModelError("Unusable")
  <2>1. call' = [c EXCEPT !.pc = "done", !.arrived = arrived, !.outcome = outcome]
    BY <1>4 DEF Receive, InHand
  <2>2. /\ outcome.is = "completion" => outcome.retried = call.retried /\ c.answer.status = 200
        /\ outcome.is = "error" => outcome.why \notin {"RateLimited", "Status"}
    BY ReadReplyIs, UnavailableIs DEF Of200, NamesStatuses, Ready, ModelError
  <2> HIDE DEF outcome
  <2>3. /\ call' = [field \in CallFields |-> call'[field]] /\ call'.pc = "done" /\ call'.now = call.now
        /\ call'.purpose = call.purpose /\ call'.attempt = call.attempt
        /\ call'.retried = call.retried /\ call'.wt = call.wt /\ call'.began = call.began
        /\ call'.prev = call.prev /\ call'.served = c.served /\ call'.drained = call.drained
        /\ call'.outcome = outcome
    BY <2>1 DEF InHand, CallFields
  <2>4. CallTyped'
    BY <1>1, <2>3 DEF CallInv, CallTyped, CallPCs
  <2>5. RetriesAreDue'
    BY <1>1, <2>3, SameAttempt DEF CallPCs
  <2>6. OnTime'
    BY <1>2, <2>3, ConstantsAre DEF OnTime, EndsByItsDeadline, Over
  <2>7. StatusesOK'
    BY <2>2, <2>3 DEF StatusesOK, StatusesAreNamed, Over, InHand
  <2> QED BY <2>4, <2>5, <2>6, <2>7 DEF CallInv
<1> QED BY <1>3, <1>4

(* The last piece of a response ends the call, or makes a retry due.        *)
LEMMA TakeOK ==
  ASSUME CallInv, NEW c, InHand(c), NEW arrived, Take(c, arrived)
  PROVE  CallInv'
<1>1. CASE \E n : Receive(c, n)
  BY <1>1, ReceiveOK
<1>2. CASE call' = [c EXCEPT !.arrived = arrived]
  <2>1. /\ call' = [field \in CallFields |-> call'[field]] /\ call'.pc = "body" /\ call'.now = call.now
        /\ call'.purpose = call.purpose /\ call'.attempt = call.attempt
        /\ call'.retried = call.retried /\ call'.wt = call.wt /\ call'.began = call.began
        /\ call'.prev = call.prev /\ call'.served = c.served /\ call'.drained = call.drained
        /\ call'.answer = c.answer
    BY <1>2 DEF InHand, CallFields
  <2>2. CallTyped'
    BY <2>1, InHandServes DEF CallInv, CallTyped, CallPCs
  <2>3. RetriesAreDue'
    BY <2>1, InHandServes, SameAttempt DEF CallPCs
  <2>4. OnTime'
    BY <2>1 DEF CallInv, OnTime, EndsByItsDeadline, Over, InHand
  <2>5. StatusesOK'
    BY <2>1, InHandServes DEF CallInv, StatusesOK, StatusesAreNamed, Over, InHand, CallTyped
  <2> QED BY <2>2, <2>3, <2>4, <2>5 DEF CallInv
<1> QED BY <1>1, <1>2 DEF Take

(* The response, one read at a time.                                        *)
LEMMA ResponseSteps ==
  ASSUME CallInv, Trickle \/ ReadFails \/ HeadArrives \/ BodyArrives \/ Closes \/ ClosesInAnEvent
  PROVE  CallInv'
<1>1. /\ call = [field \in CallFields |-> call[field]] /\ call.now \in Nat /\ call.pc \in {"head", "body"}
      /\ Left \in Int /\ Left > 0 /\ ReadWait \in Nat /\ ReadWait <= Left
      /\ call.now + 0 <= Deadline + Slack
  <2>1. call.now \in Nat /\ call.pc \in {"head", "body"} /\ Left > 0
    BY DEF CallInv, CallTyped, Trickle, ReadFails, HeadArrives, BodyArrives, Closes, ClosesInAnEvent, Reading
  <2>2. Left \in Int
    BY <2>1, ConstantsAre DEF Left
  <2>3. ReadWait \in Nat /\ ReadWait <= Left
    BY <2>1, <2>2, ConstantsAre, MinTwo DEF ReadWait
  <2> QED BY <2>1, <2>2, <2>3, ConstantsAre DEF Left, CallInv, CallTyped
<1>2. ASSUME call.pc = "body"
      PROVE  InHand(call)
  BY <1>1, <1>2 DEF InHand, CallInv, StatusesOK
<1>3. ASSUME Done(0, ModelError("Unusable"))
      PROVE  CallInv'
  BY <1>1, <1>3, EndsWith, UnavailableIs
<1>4. CASE Trickle
  <2>1. PICK t \in Within(ReadWait) \ {0} : call' = At(t)
    BY <1>4 DEF Trickle
  <2>2. t \in Nat /\ call.now + t \in Nat /\ call.now + t <= Deadline
    BY <1>1, <2>1, ConstantsAre DEF Within, Left
  <2>3. /\ call' = [field \in CallFields |-> call'[field]] /\ call'.pc = call.pc /\ call'.now = call.now + t
        /\ call'.purpose = call.purpose /\ call'.attempt = call.attempt
        /\ call'.retried = call.retried /\ call'.wt = call.wt /\ call'.began = call.began
        /\ call'.prev = call.prev /\ call'.served = call.served /\ call'.drained = call.drained
        /\ call'.answer = call.answer
    BY <1>1, <2>1 DEF At, CallFields
  <2>4. CallTyped'
    BY <2>2, <2>3 DEF CallInv, CallTyped, CallPCs
  <2>5. RetriesAreDue'
    BY <1>1, <2>3, SameAttempt, ServedIsBounded DEF CallPCs
  <2>6. OnTime'
    BY <1>1, <2>2, <2>3 DEF OnTime, EndsByItsDeadline, Over
  <2>7. StatusesOK'
    BY <1>1, <2>3 DEF CallInv, StatusesOK, StatusesAreNamed, Over
  <2> QED BY <2>4, <2>5, <2>6, <2>7 DEF CallInv
<1>5. CASE ReadFails
  <2>1. CASE Done(0, Unavailable("Connect"))
    BY <1>1, <2>1, EndsWith, UnavailableIs
  <2>2. ASSUME NEW t \in Expired(ReadWait), Done(t, Unavailable(LateOr("ReadTimeout", t)))
        PROVE  CallInv'
    <3>1. t \in Nat /\ call.now + t <= Deadline + Slack
      BY <1>1, ExpiredIs, ConstantsAre DEF Left
    <3> QED BY <2>2, <3>1, EndsWith, UnavailableIs
  <2> QED BY <1>5, <2>1, <2>2 DEF ReadFails
<1>6. CASE HeadArrives
  <2>1. PICK answer \in Answers \cup Listings :
          LET c == [call EXCEPT !.pc = "body", !.answer = answer, !.arrived = 0,
                                !.served = Append(@, answer.status)]
          IN  IF answer.head # "sound" THEN Done(0, ModelError("Unusable"))
              ELSE IF answer.framing = "length" /\ Len(answer.events) > MAX_BODY
              THEN call' = [c EXCEPT !.pc = "done", !.outcome = ModelError("Unusable")]
              ELSE Take(c, 0)
    BY <1>6 DEF HeadArrives
  <2> DEFINE c == [call EXCEPT !.pc = "body", !.answer = answer, !.arrived = 0,
                               !.served = Append(@, answer.status)]
  <2>2. call.pc = "head"
    BY <1>6 DEF HeadArrives
  <2>3. answer.status \in Nat /\ answer.after \in Nat
    BY ModelClientAssumption DEF Answering
  <2>4. InHand(c)
    BY <1>1, <2>2, <2>3 DEF InHand, CallFields, CallInv, StatusesOK
  <2>5. \/ Done(0, ModelError("Unusable")) \/ Take(c, 0)
        \/ call' = [c EXCEPT !.pc = "done", !.outcome = ModelError("Unusable")]
    BY <2>1
  <2> HIDE DEF c
  <2>6. CASE call' = [c EXCEPT !.pc = "done", !.outcome = ModelError("Unusable")]
    <3>1. /\ call' = [field \in CallFields |-> call'[field]] /\ call'.pc = "done" /\ call'.now = call.now
          /\ call'.purpose = call.purpose /\ call'.attempt = call.attempt
          /\ call'.retried = call.retried /\ call'.wt = call.wt /\ call'.began = call.began
          /\ call'.prev = call.prev /\ call'.served = c.served /\ call'.drained = call.drained
          /\ call'.outcome = ModelError("Unusable")
      BY <2>4, <2>6 DEF InHand, CallFields
    <3>2. CallTyped'
      BY <2>4, <3>1, InHandServes DEF CallInv, CallTyped, CallPCs
    <3>3. RetriesAreDue'
      BY <2>4, <3>1, InHandServes, SameAttempt DEF CallPCs
    <3>4. OnTime'
      BY <1>1, <3>1, ConstantsAre DEF OnTime, EndsByItsDeadline, Over
    <3>5. StatusesOK'
      BY <3>1 DEF StatusesOK, StatusesAreNamed, Over, ModelError
    <3> QED BY <3>2, <3>3, <3>4, <3>5 DEF CallInv
  <2> QED BY <1>3, <2>4, <2>5, <2>6, TakeOK
<1>7. CASE BodyArrives
  <2>1. call.pc = "body" /\ (Done(0, ModelError("Unusable")) \/ Take(call, call.arrived + 1))
    BY <1>7 DEF BodyArrives
  <2> QED BY <1>2, <1>3, <2>1, TakeOK
<1>8. CASE Closes
  BY <1>2, <1>3, <1>8, ReceiveOK DEF Closes
<1>9. CASE ClosesInAnEvent
  BY <1>3, <1>9 DEF ClosesInAnEvent
<1> QED BY <1>4, <1>5, <1>6, <1>7, <1>8, <1>9

(* complete: give up, or sleep and begin the next attempt.                  *)
LEMMA RetryOK ==
  ASSUME CallInv, Retry
  PROVE  CallInv'
<1>1. /\ call = [field \in CallFields |-> call[field]] /\ call.pc = "retry" /\ call.now \in Nat
      /\ call.attempt \in 0..MAX_RETRIES /\ call.retried \in Seq(Nat) /\ call.served = call.retried
      /\ Len(call.retried) = call.attempt + 1 /\ call.answer.after \in Nat
      /\ call.purpose = "chat" /\ IsRetryable(call.answer.status)
      /\ call.drained \/ call.now <= Deadline
  BY DEF CallInv, CallTyped, OnTime, StatusesOK, Retry
<1>2. PICK backoff \in BackoffRange(call.attempt) :
        LET wait == WaitFor(backoff, call.answer.after)
        IN  IF call.attempt >= MAX_RETRIES \/ Left <= wait THEN Done(0, GiveUp)
            ELSE \E t \in Expired(wait) :
                   call' = [At(t) EXCEPT !.pc = "connect", !.attempt = @ + 1, !.answer = NoAnswer,
                              !.began = call.now + t, !.drained = FALSE,
                              !.prev = [status |-> call.answer.status, after |-> call.answer.after,
                                        ended |-> call.now]]
  BY DEF Retry
<1> DEFINE wait == WaitFor(backoff, call.answer.after)
<1>3. /\ HalfBackoff(call.attempt) \in Nat /\ wait \in Nat
      /\ HalfBackoff(call.attempt) <= wait /\ call.answer.after <= wait
  <2>1. HalfBackoff(call.attempt) \in Nat
    BY <1>1, BackoffIsNat
  <2>2. backoff \in Nat /\ HalfBackoff(call.attempt) <= backoff
    BY <2>1 DEF BackoffRange
  <2>3. wait = IF backoff >= call.answer.after THEN backoff ELSE call.answer.after
    <3>1. backoff \in Int /\ call.answer.after \in Int
      BY <1>1, <2>2
    <3> QED BY <3>1, MaxTwo DEF WaitFor
  <2> QED BY <1>1, <2>1, <2>2, <2>3
<1>a. \/ Done(0, GiveUp)
      \/ /\ ~(call.attempt >= MAX_RETRIES \/ Left <= wait)
         /\ \E t \in Expired(wait) :
              call' = [At(t) EXCEPT !.pc = "connect", !.attempt = @ + 1, !.answer = NoAnswer,
                         !.began = call.now + t, !.drained = FALSE,
                         !.prev = [status |-> call.answer.status, after |-> call.answer.after,
                                   ended |-> call.now]]
  BY <1>2
<1> HIDE DEF wait
<1>b. Left \in Int
  BY <1>1, ConstantsAre DEF Left
<1>4. CASE Done(0, GiveUp)
  <2>1. /\ call' = [field \in CallFields |-> call'[field]] /\ call'.pc = "done" /\ call'.now = call.now
        /\ call'.purpose = call.purpose /\ call'.attempt = call.attempt
        /\ call'.retried = call.retried /\ call'.wt = call.wt /\ call'.began = call.began
        /\ call'.prev = call.prev /\ call'.served = call.served /\ call'.drained = call.drained
        /\ call'.outcome = GiveUp
    <3>1. call.now + 0 = call.now
      BY <1>1
    <3> QED BY <1>4, <3>1, DoneIs
  <2>2. CallTyped'
    BY <2>1 DEF CallInv, CallTyped, CallPCs
  <2>3. RetriesAreDue'
    BY <2>1, SameAttempt, ServedIsBounded DEF CallPCs
  <2>4. OnTime'
    BY <1>1, <2>1, ConstantsAre DEF OnTime, EndsByItsDeadline, Over
  <2>5. GiveUp.is = "error" /\ GiveUp.statuses = call.retried
    BY DEF GiveUp, RateLimited, StatusError
  <2>6. StatusesOK'
    BY <1>1, <2>1, <2>5 DEF StatusesOK, StatusesAreNamed, Over
  <2> QED BY <2>2, <2>3, <2>4, <2>6 DEF CallInv
<1>5. ASSUME ~(call.attempt >= MAX_RETRIES \/ Left <= wait), NEW t \in Expired(wait),
             call' = [At(t) EXCEPT !.pc = "connect", !.attempt = @ + 1, !.answer = NoAnswer,
                        !.began = call.now + t, !.drained = FALSE,
                        !.prev = [status |-> call.answer.status, after |-> call.answer.after,
                                  ended |-> call.now]]
      PROVE  CallInv'
  <2>a. call.attempt < MAX_RETRIES /\ Left > wait
    BY <1>1, <1>3, <1>5, <1>b, ConstantsAre
  <2>1. t \in Nat /\ wait <= t /\ call.now + t \in Nat /\ call.now + t < Deadline + Slack
    <3>1. t \in Nat /\ wait <= t /\ t <= wait + Slack
      BY <1>3, <1>5, ExpiredIs
    <3>2. Deadline - call.now > wait
      BY <2>a DEF Left
    <3>3. call.now \in Nat
      BY <1>1
    <3> QED BY <3>1, <3>2, <3>3, <1>3, ConstantsAre
  <2>2. /\ call' = [field \in CallFields |-> call'[field]] /\ call'.pc = "connect" /\ call'.now = call.now + t
        /\ call'.purpose = call.purpose /\ call'.attempt = call.attempt + 1
        /\ call'.retried = call.retried /\ call'.wt = call.wt /\ call'.began = call.now + t
        /\ call'.served = call.served /\ call'.drained = FALSE
        /\ call'.prev.status = call.answer.status /\ call'.prev.after = call.answer.after
        /\ call'.prev.ended = call.now
    BY <1>1, <1>5 DEF At, CallFields
  <2>3. call.attempt + 1 \in 0..MAX_RETRIES
    BY <1>1, <2>a, ConstantsAre
  <2>4. CallTyped'
    BY <2>1, <2>2, <2>3 DEF CallInv, CallTyped, CallPCs
  <2>5. OnTime'
    BY <2>1, <2>2 DEF OnTime, EndsByItsDeadline, Over
  <2>6. StatusesOK'
    BY <1>1, <2>2 DEF StatusesOK, StatusesAreNamed, Over
  <2>7. RetriesAreDue'
    <3>1. call'.attempt - 1 = call.attempt
      BY <1>1, <2>2
    <3>2. /\ Max({HalfBackoff(call.attempt), call.answer.after}) <= wait
          /\ Max({HalfBackoff(call.attempt), call.answer.after}) \in Int
      <4>1. HalfBackoff(call.attempt) \in Int /\ call.answer.after \in Int
        BY <1>1, <1>3
      <4> QED BY <1>3, <4>1, MaxTwo
    <3>3. call'.began - call'.prev.ended = t
      BY <1>1, <2>1, <2>2
    <3>4. call'.began - call'.prev.ended >= Max({HalfBackoff(call'.attempt - 1), call'.prev.after})
      BY <1>3, <2>1, <2>2, <3>1, <3>2, <3>3
    <3> QED BY <1>1, <2>1, <2>2, <2>3, <3>4, ServedIsBounded DEF RetriesAreDue
  <2> QED BY <2>4, <2>5, <2>6, <2>7 DEF CallInv
<1> QED BY <1>4, <1>5, <1>a

-----------------------------------------------------------------------------
(***************************************************************************)
(* What a completion was read from, and the call in it.                     *)
(***************************************************************************)
(* What a completion says of the answer it was read from.                   *)
Whole(events, content, calls) ==
  LET ends == {i \in DOMAIN events : events[i].is = "finish"}
      end  == Min(ends)
      sent == SubSeq(events, 1, end - 1)
  IN  /\ ends # {} /\ events[end].why \in {"stop", "tool_calls"}
      /\ IsPrefix(ContentOf(sent), content)
      /\ IsPrefix(Of("call", sent), calls)
      /\ content \o calls # <<>>

(* A completion is the content and the calls of an answer that finished.    *)
LEMMA CompletionIs ==
  ASSUME NEW type, NEW events, NEW cut, NEW retried,
         ReadReply(type, events, cut, retried).is = "completion"
  PROVE  /\ ReadReply(type, events, cut, retried)
              = Completion(ContentOf(events), Of("call", events), retried)
         /\ Finished(events) = "ok"
<1>1. \/ \E why : ReadReply(type, events, cut, retried) = ModelError(why)
      \/ /\ ReadReply(type, events, cut, retried)
              = Completion(ContentOf(events), Of("call", events), retried)
         /\ Finished(events) = "ok"
  BY DEF ReadReply
<1>2. \A why : ModelError(why).is = "error"
  BY DEF ModelError
<1> QED BY <1>1, <1>2

(* It finished for a good reason, and not with nothing.                     *)
LEMMA FinishedIs ==
  ASSUME NEW events, Finished(events) = "ok"
  PROVE  /\ Of("finish", events) # <<>>
         /\ Head(Of("finish", events)).why \in {"stop", "tool_calls"}
         /\ ~(ContentOf(events) = <<>> /\ Of("call", events) = <<>>)
<1> DEFINE content == ContentOf(events)
           calls   == Of("call", events)
           finish  == Of("finish", events)
<1>1. Finished(events) =
  CASE finish # <<>> /\ Head(finish).why = "length" -> "Truncated"
        [] /\ ~(finish # <<>> /\ Head(finish).why = "length")
           /\ content = <<>> /\ calls = <<>> -> "Empty"
        [] finish = <<>> /\ ~(content = <<>> /\ calls = <<>>) -> "Truncated"
        [] /\ finish # <<>> /\ Head(finish).why \in {"stop", "tool_calls"}
           /\ ~(content = <<>> /\ calls = <<>>) -> "ok"
        [] OTHER -> "Unusable"
  BY DEF Finished
<1> HIDE DEF content, calls, finish
<1>2. finish # <<>> /\ Head(finish).why \in {"stop", "tool_calls"} /\ ~(content = <<>> /\ calls = <<>>)
  BY <1>1
<1> QED BY <1>2 DEF content, calls, finish

(* Acc::done: of the beginning of an answer, a completion has all that came *)
(* before the finish reason of the whole.                                   *)
LEMMA CompletionIsWhole ==
  ASSUME NEW S, NEW events \in Seq(S), NEW n \in 0..Len(events), NEW part, part = SubSeq(events, 1, n),
         Finished(part) = "ok"
  PROVE  Whole(events, ContentOf(part), Of("call", part))
<1>1. Len(events) \in Nat /\ n \in Nat /\ n <= Len(events) /\ DOMAIN events = 1..Len(events)
  BY LenProperties
<1>2. part \in Seq(S) /\ Len(part) = n /\ (\A i \in 1..n : part[i] = events[i]) /\ DOMAIN part = 1..n
  <2>1. part \in Seq(S) /\ Len(part) = n /\ (\A i \in 1..n : part[i] = events[i])
    BY <1>1, SubSeqProperties
  <2> QED BY <2>1, LenProperties
<1> DEFINE ends == {i \in DOMAIN events : events[i].is = "finish"}
           end  == Min(ends)
           sent == SubSeq(events, 1, end - 1)
           F(t) == {i \in DOMAIN t : t[i].is = "finish"}
<1>3. /\ Of("finish", part) # <<>> /\ Head(Of("finish", part)).why \in {"stop", "tool_calls"}
      /\ ~(ContentOf(part) = <<>> /\ Of("call", part) = <<>>)
  BY FinishedIs
<1>4. PICK e \in F(part) \cap 1..n : Of("finish", part)[1] = part[e] /\ \A j \in F(part) \cap 1..n : e <= j
  <2>1. Of("finish", part) = Chosen(part, F(part))
    BY DEF Of
  <2> HIDE DEF F
  <2>2. Chosen(part, F(part)) # <<>>
    BY <1>3, <2>1
  <2>3. \E i \in F(part) \cap 1..Len(part) : Chosen(part, F(part))[1] = part[i]
                                          /\ \A j \in F(part) \cap 1..Len(part) : i <= j
    BY ONLY <1>2, <2>2, ChosenHead
  <2> QED BY <1>2, <2>1, <2>3
<1>5. e \in ends /\ e \in 1..n /\ \A m \in ends : e <= m
  <2>1. e \in 1..n /\ e \in ends
    BY <1>1, <1>2, <1>4
  <2>2. ASSUME NEW m \in ends PROVE e <= m
    <3>1. m \in 1..Len(events) /\ events[m].is = "finish"
      BY <1>1
    <3>2. CASE m <= n
      <4>1. m \in F(part) \cap 1..n
        BY <1>2, <3>1, <3>2
      <4> QED BY <1>4, <4>1
    <3>3. CASE ~(m <= n)
      BY <1>1, <2>1, <3>1, <3>3
    <3> QED BY <3>2, <3>3
  <2> QED BY <2>1, <2>2
<1>6. end = e
  <2>1. ends \subseteq Nat /\ ends # {}
    BY <1>1, <1>5
  <2> HIDE DEF ends
  <2>2. end \in ends /\ \A m \in ends : end <= m
    BY ONLY <2>1, LeastIs DEF end
  <2> HIDE DEF end
  <2>3. end <= e /\ e <= end
    BY <1>5, <2>2
  <2> QED BY <2>1, <2>2, <2>3, <1>5
<1>7. events[end].why \in {"stop", "tool_calls"}
  <2>1. Head(Of("finish", part)) = Of("finish", part)[1]
    <3>1. Of("finish", part) \in Seq(S)
      BY <1>2, ChosenFrom DEF Of
    <3>2. PICK finish : finish = Of("finish", part)
      OBVIOUS
    <3>3. finish \in Seq(S) /\ finish # <<>>
      BY <1>3, <3>1, <3>2
    <3>4. Head(finish) = finish[1]
      BY ONLY <3>3
    <3> QED BY <3>2, <3>4
  <2> QED BY <1>2, <1>3, <1>4, <1>5, <1>6, <2>1
<1> HIDE DEF end
<1>8. /\ sent \in Seq(S) /\ Len(sent) = end - 1 /\ DOMAIN sent = 1..end - 1
      /\ \A i \in 1..end - 1 : sent[i] = events[i] /\ i \in 1..n
  <2>1. end \in 1..n
    BY <1>5, <1>6
  <2>2. end - 1 \in 0..Len(events)
    BY <1>1, <2>1
  <2>3. sent \in Seq(S) /\ Len(sent) = end - 1 /\ \A i \in 1..end - 1 : sent[i] = events[i]
    BY <1>1, <2>1, <2>2, SubSeqProperties
  <2>4. DOMAIN sent = 1..end - 1
    BY <2>3, LenProperties
  <2>5. \A i \in 1..end - 1 : i \in 1..n
    BY <1>1, <2>1
  <2> QED BY <2>3, <2>4, <2>5
<1>9. end - 1 <= n
  BY <1>1, <1>5, <1>6
<1> HIDE DEF sent
<1>10. IsPrefix(ContentOf(sent), ContentOf(part))
  <2> DEFINE I(t) == {i \in DOMAIN t : IsContent(t[i])}
  <2>1. \A i \in 1..Len(sent) : sent[i] = part[i] /\ (i \in I(sent) <=> i \in I(part))
    BY <1>2, <1>8
  <2>2. Len(sent) <= Len(part)
    BY <1>2, <1>8, <1>9
  <2>3. ContentOf(sent) = Chosen(sent, I(sent)) /\ ContentOf(part) = Chosen(part, I(part))
    BY DEF ContentOf
  <2> HIDE DEF I
  <2>4. IsPrefix(Chosen(sent, I(sent)), Chosen(part, I(part)))
    BY ONLY <1>2, <1>8, <2>1, <2>2, ChosenPrefix
  <2> QED BY <2>3, <2>4
<1>11. IsPrefix(Of("call", sent), Of("call", part))
  <2> DEFINE I(t) == {i \in DOMAIN t : t[i].is = "call"}
  <2>1. \A i \in 1..Len(sent) : sent[i] = part[i] /\ (i \in I(sent) <=> i \in I(part))
    BY <1>2, <1>8
  <2>2. Len(sent) <= Len(part)
    BY <1>2, <1>8, <1>9
  <2>3. Of("call", sent) = Chosen(sent, I(sent)) /\ Of("call", part) = Chosen(part, I(part))
    BY DEF Of
  <2> HIDE DEF I
  <2>4. IsPrefix(Chosen(sent, I(sent)), Chosen(part, I(part)))
    BY ONLY <1>2, <1>8, <2>1, <2>2, ChosenPrefix
  <2> QED BY <2>3, <2>4
<1>12. ContentOf(part) \o Of("call", part) # <<>>
  <2>1. ContentOf(part) \in Seq(S) /\ Of("call", part) \in Seq(S)
    BY <1>2, ChosenFrom DEF ContentOf, Of
  <2> DEFINE a == ContentOf(part)
             b == Of("call", part)
  <2>2. a \in Seq(S) /\ b \in Seq(S) /\ ~(a = <<>> /\ b = <<>>)
    BY <1>3, <2>1
  <2> HIDE DEF a, b
  <2>3. a \o b # <<>>
    BY ONLY <2>2, ConcatEqualIffEmpty
  <2> QED BY <2>3 DEF a, b
<1>13. ends # {}
  BY <1>5
<1> QED BY <1>7, <1>10, <1>11, <1>12, <1>13 DEF Whole, end, sent

(* What is in hand of an answer is of one that the server may give, and a   *)
(* completion was read from it.                                             *)
AnswerOK ==
  /\ call.pc = "body" =>
       /\ call.answer \in IF call.purpose = "chat" THEN Answers ELSE Listings
       /\ call.arrived \in 0..Needed(call.answer)
  /\ call.pc = "done" /\ call.outcome.is = "completion" =>
       /\ call.answer \in Answers /\ call.answer.status = 200 /\ call.arrived \in 0..Len(call.answer.events)
       /\ call.outcome = ReadReply(call.answer.type, SubSeq(call.answer.events, 1, call.arrived),
                                   Len(call.answer.events) - call.arrived, call.retried)

(* An answer with its head read, of which some has arrived.                 *)
Arriving(c) ==
  /\ call.pc \in {"head", "body"} /\ c = [field \in CallFields |-> c[field]]
  /\ c.purpose = call.purpose /\ c.retried = call.retried /\ call.purpose \in {"models", "chat"}
  /\ c.answer \in IF call.purpose = "chat" THEN Answers ELSE Listings

(* What an answer has.                                                      *)
LEMMA AnswerIs ==
  ASSUME NEW answer \in Answers \cup Listings
  PROVE  /\ answer.events \in Seq(Range(answer.events)) /\ Len(answer.events) \in Nat
         /\ Needed(answer) \in Nat /\ Len(answer.events) <= Needed(answer)
         /\ answer.framing # "chunked" => Needed(answer) = Len(answer.events)
<1>1. answer.events \in Seq(Range(answer.events))
  BY ModelClientAssumption DEF Answering
<1>2. Len(answer.events) \in Nat
  BY <1>1, LenProperties
<1>3. Needed(answer) = Len(answer.events) + (IF answer.framing = "chunked" THEN 1 ELSE 0)
  BY DEF Needed
<1>4. CASE answer.framing = "chunked"
  <2>1. Needed(answer) = Len(answer.events) + 1
    BY <1>3, <1>4
  <2> QED BY <1>1, <1>2, <1>4, <2>1
<1>5. CASE answer.framing # "chunked"
  <2>1. Needed(answer) = Len(answer.events) + 0
    BY <1>3, <1>5
  <2>2. Needed(answer) = Len(answer.events)
    BY <1>2, <2>1
  <2> QED BY <1>1, <1>2, <2>2
<1> QED BY <1>4, <1>5

(* A call that ended without a completion.                                  *)
LEMMA NoCompletion ==
  ASSUME call'.pc = "done" => call'.outcome.is # "completion", call'.pc # "body"
  PROVE  AnswerOK'
BY DEF AnswerOK

(* The end of an answer.                                                    *)
LEMMA ReceiveAnswers ==
  ASSUME NEW c, Arriving(c), NEW arrived \in 0..Len(c.answer.events), Receive(c, arrived)
  PROVE  AnswerOK'
<1>1. CASE call.purpose = "chat" /\ IsRetryable(c.answer.status)
  <2>1. call' = [c EXCEPT !.pc = "retry", !.retried = Append(@, c.answer.status), !.arrived = 0]
    BY <1>1 DEF Receive
  <2>2. call'.pc = "retry"
    BY <2>1 DEF Arriving, CallFields
  <2> QED BY <2>2, NoCompletion
<1>2. CASE ~(call.purpose = "chat" /\ IsRetryable(c.answer.status))
  <2> DEFINE outcome == IF c.answer.status = 200 THEN Of200(c.answer, arrived) ELSE ModelError("Unusable")
  <2>1. call' = [c EXCEPT !.pc = "done", !.arrived = arrived, !.outcome = outcome]
    BY <1>2 DEF Receive
  <2>2. outcome.is = "completion" =>
          /\ c.answer.status = 200 /\ call.purpose # "models"
          /\ outcome = ReadReply(c.answer.type, SubSeq(c.answer.events, 1, arrived),
                                 Len(c.answer.events) - arrived, call.retried)
    BY DEF Of200, ModelError, Ready
  <2> HIDE DEF outcome
  <2>3. /\ call'.pc = "done" /\ call'.answer = c.answer /\ call'.arrived = arrived
        /\ call'.outcome = outcome /\ call'.retried = call.retried
    BY <2>1 DEF Arriving, CallFields
  <2>4. outcome.is = "completion" => c.answer \in Answers
    BY <2>2 DEF Arriving
  <2> QED BY <2>2, <2>3, <2>4 DEF AnswerOK
<1> QED BY <1>1, <1>2

(* One more piece of an answer.                                             *)
LEMMA TakeAnswers ==
  ASSUME NEW c, Arriving(c), c.pc = "body", NEW arrived \in 0..Needed(c.answer), Take(c, arrived)
  PROVE  AnswerOK'
<1>1. /\ Len(c.answer.events) \in Nat /\ Needed(c.answer) \in Nat
      /\ Len(c.answer.events) <= Needed(c.answer)
  BY AnswerIs DEF Arriving
<1>2. CASE arrived = Needed(c.answer) /\ c.answer.framing # "close"
  <2>1. Min({arrived, Len(c.answer.events)}) \in 0..Len(c.answer.events)
    BY <1>1, MinTwo
  <2>2. Receive(c, Min({arrived, Len(c.answer.events)}))
    BY <1>2 DEF Take
  <2> QED BY <2>1, <2>2, ReceiveAnswers
<1>3. CASE ~(arrived = Needed(c.answer) /\ c.answer.framing # "close")
  <2>1. call' = [c EXCEPT !.arrived = arrived]
    BY <1>3 DEF Take
  <2>2. call'.pc = "body" /\ call'.answer = c.answer /\ call'.arrived = arrived /\ call'.purpose = call.purpose
    BY <2>1 DEF Arriving, CallFields
  <2>3. call'.answer \in IF call'.purpose = "chat" THEN Answers ELSE Listings
    BY <2>2 DEF Arriving
  <2>4. call'.arrived \in 0..Needed(call'.answer)
    BY <2>2
  <2> QED BY <2>2, <2>3, <2>4 DEF AnswerOK
<1> QED BY <1>2, <1>3

(* An answer in hand, and what has arrived of it, after any step.           *)
LEMMA AnswerSteps ==
  ASSUME CallInv, AnswerOK, ClientNext
  PROVE  AnswerOK'
<1>1. call = [field \in CallFields |-> call[field]] /\ call.purpose \in {"models", "chat"}
  BY DEF CallInv, CallTyped
<1>2. ASSUME NEW t, NEW outcome, outcome.is # "completion", Done(t, outcome)
      PROVE  AnswerOK'
  <2>1. call'.pc = "done" /\ call'.outcome = outcome
    BY <1>1, <1>2 DEF Done, At, CallFields
  <2> QED BY <1>2, <2>1, NoCompletion
<1>3. \A how : Unavailable(how).is # "completion"
  BY DEF Unavailable
<1>4. ModelError("Unusable").is # "completion" /\ GiveUp.is # "completion"
  BY DEF ModelError, GiveUp, RateLimited, StatusError
<1>5. CASE PastDeadline
  BY <1>2, <1>3, <1>5 DEF PastDeadline
<1>6. CASE Connect
  <2>1. CASE \E t : call' = [At(t) EXCEPT !.pc = "write"]
    <3>1. call'.pc = "write"
      BY <1>1, <2>1 DEF At, CallFields
    <3> QED BY <3>1, NoCompletion
  <2> QED BY <1>2, <1>3, <1>6, <2>1 DEF Connect
<1>7. CASE StartWrite
  <2>1. call'.pc = "writing"
    BY <1>1, <1>7 DEF StartWrite, CallFields
  <2> QED BY <2>1, NoCompletion
<1>8. CASE Written
  <2>1. call'.pc = "head"
    BY <1>1, <1>8 DEF Written, CallFields
  <2> QED BY <2>1, NoCompletion
<1>9. CASE WriteSome
  <2>1. call'.pc = "writing"
    BY <1>1, <1>9 DEF WriteSome, At, CallFields
  <2> QED BY <2>1, NoCompletion
<1>10. CASE WriteFails
  BY <1>2, <1>3, <1>10 DEF WriteFails
<1>11. CASE Trickle
  <2>1. PICK t : call' = At(t)
    BY <1>11 DEF Trickle
  <2>2. /\ call'.pc = call.pc /\ call.pc \in {"head", "body"} /\ call'.answer = call.answer
        /\ call'.arrived = call.arrived /\ call'.purpose = call.purpose
    BY <1>1, <1>11, <2>1 DEF Trickle, Reading, At, CallFields
  <2> QED BY <2>2 DEF AnswerOK
<1>12. CASE ReadFails
  BY <1>2, <1>3, <1>12 DEF ReadFails
<1>13. CASE HeadArrives
  <2>1. PICK answer \in IF call.purpose = "chat" THEN Answers ELSE Listings :
          LET c == [call EXCEPT !.pc = "body", !.answer = answer, !.arrived = 0,
                                !.served = Append(@, answer.status)]
          IN  IF answer.head # "sound" THEN Done(0, ModelError("Unusable"))
              ELSE IF answer.framing = "length" /\ Len(answer.events) > MAX_BODY
              THEN call' = [c EXCEPT !.pc = "done", !.outcome = ModelError("Unusable")]
              ELSE Take(c, 0)
    BY <1>13 DEF HeadArrives
  <2> DEFINE c == [call EXCEPT !.pc = "body", !.answer = answer, !.arrived = 0,
                               !.served = Append(@, answer.status)]
  <2>2. call.pc = "head"
    BY <1>13 DEF HeadArrives
  <2>3. c.pc = "body" /\ c = [field \in CallFields |-> c[field]] /\ c.answer = answer
        /\ c.purpose = call.purpose /\ c.retried = call.retried
    BY <1>1 DEF CallFields
  <2>4. \/ Done(0, ModelError("Unusable")) \/ Take(c, 0)
        \/ call' = [c EXCEPT !.pc = "done", !.outcome = ModelError("Unusable")]
    BY <2>1
  <2> HIDE DEF c
  <2>5. Arriving(c)
    BY <1>1, <2>2, <2>3 DEF Arriving
  <2>6. 0 \in 0..Needed(c.answer)
    BY <2>3, AnswerIs
  <2>7. CASE call' = [c EXCEPT !.pc = "done", !.outcome = ModelError("Unusable")]
    <3>1. call'.pc = "done" /\ call'.outcome = ModelError("Unusable")
      BY <2>3, <2>7 DEF CallFields
    <3> QED BY <1>4, <3>1, NoCompletion
  <2> QED BY <1>2, <1>4, <2>3, <2>4, <2>5, <2>6, <2>7, TakeAnswers
<1>14. call.pc = "body" => Arriving(call) /\ call.arrived \in 0..Needed(call.answer)
  BY <1>1 DEF AnswerOK, Arriving
<1>15. CASE BodyArrives
  <2>1. call.pc = "body" /\ call.arrived < Needed(call.answer)
        /\ (Done(0, ModelError("Unusable")) \/ Take(call, call.arrived + 1))
    BY <1>15 DEF BodyArrives
  <2>2. call.arrived + 1 \in 0..Needed(call.answer)
    <3>1. Needed(call.answer) \in Nat
      BY <1>14, <2>1, AnswerIs DEF Arriving
    <3> QED BY <1>14, <2>1, <3>1
  <2> QED BY <1>2, <1>4, <1>14, <2>1, <2>2, TakeAnswers
<1>16. CASE Closes
  <2>1. CASE call.pc = "body" /\ call.answer.framing = "close" /\ Receive(call, call.arrived)
    <3>1. Needed(call.answer) = Len(call.answer.events)
      BY <1>14, <2>1, AnswerIs DEF Arriving
    <3>2. call.arrived \in 0..Len(call.answer.events)
      BY <1>14, <2>1, <3>1
    <3> QED BY <1>14, <2>1, <3>2, ReceiveAnswers
  <2> QED BY <1>2, <1>4, <1>16, <2>1 DEF Closes
<1>17. CASE ClosesInAnEvent
  BY <1>2, <1>4, <1>17 DEF ClosesInAnEvent
<1>18. CASE Retry
  <2>1. CASE \E t, p :
               call' = [At(t) EXCEPT !.pc = "connect", !.attempt = @ + 1, !.answer = NoAnswer,
                          !.began = call.now + t, !.drained = FALSE, !.prev = p]
    <3>1. call'.pc = "connect"
      BY <1>1, <2>1 DEF At, CallFields
    <3> QED BY <3>1, NoCompletion
  <2>2. PICK backoff \in BackoffRange(call.attempt) :
        LET wait == WaitFor(backoff, call.answer.after)
        IN  IF call.attempt >= MAX_RETRIES \/ Left <= wait THEN Done(0, GiveUp)
            ELSE \E t \in Expired(wait) :
                   call' = [At(t) EXCEPT !.pc = "connect", !.attempt = @ + 1, !.answer = NoAnswer,
                              !.began = call.now + t, !.drained = FALSE,
                              !.prev = [status |-> call.answer.status, after |-> call.answer.after,
                                        ended |-> call.now]]
    BY <1>18 DEF Retry
  <2>3. Done(0, GiveUp) \/ \E t, p :
               call' = [At(t) EXCEPT !.pc = "connect", !.attempt = @ + 1, !.answer = NoAnswer,
                          !.began = call.now + t, !.drained = FALSE, !.prev = p]
    BY <2>2
  <2> QED BY <1>2, <1>4, <2>1, <2>3
<1> QED BY <1>5, <1>6, <1>7, <1>8, <1>9, <1>10, <1>11, <1>12, <1>13, <1>15, <1>16, <1>17, <1>18
        DEF ClientNext

(* What the invariant says of a completion.                                 *)
LEMMA AnswerWhole ==
  ASSUME AnswerOK
  PROVE  NeverAPartialReply
<1> SUFFICES ASSUME call.pc = "done", call.outcome.is = "completion"
             PROVE  call.answer.status = 200
                    /\ Whole(call.answer.events, call.outcome.content, call.outcome.calls)
  BY DEF NeverAPartialReply, Over, Whole
<1>1. PICK part : part = SubSeq(call.answer.events, 1, call.arrived)
  OBVIOUS
<1>2. /\ call.answer \in Answers /\ call.answer.status = 200 /\ call.arrived \in 0..Len(call.answer.events)
      /\ call.outcome = ReadReply(call.answer.type, part, Len(call.answer.events) - call.arrived, call.retried)
  BY <1>1 DEF AnswerOK
<1>3. /\ call.outcome = Completion(ContentOf(part), Of("call", part), call.retried)
      /\ Finished(part) = "ok"
  BY <1>2, CompletionIs
<1>4. call.answer.events \in Seq(Range(call.answer.events))
  BY <1>2, AnswerIs
<1>5. Whole(call.answer.events, ContentOf(part), Of("call", part))
  BY <1>1, <1>2, <1>3, <1>4, CompletionIsWhole
<1>6. call.outcome.content = ContentOf(part) /\ call.outcome.calls = Of("call", part)
  BY <1>3 DEF Completion
<1> QED BY <1>2, <1>5, <1>6

(* The pieces of a completion are pieces of the answer.                     *)
LEMMA PiecesAre ==
  ASSUME AnswerOK, call.pc = "done", call.outcome.is = "completion"
  PROVE  /\ call.answer \in Answers
         /\ call.outcome.content \in Seq(Range(call.answer.events))
         /\ call.outcome.calls \in Seq(Range(call.answer.events))
         /\ \A k \in DOMAIN call.outcome.calls : call.outcome.calls[k].is = "call"
<1>1. PICK part : part = SubSeq(call.answer.events, 1, call.arrived)
  OBVIOUS
<1>2. /\ call.answer \in Answers /\ call.arrived \in 0..Len(call.answer.events)
      /\ call.outcome = ReadReply(call.answer.type, part, Len(call.answer.events) - call.arrived, call.retried)
  BY <1>1 DEF AnswerOK
<1>3. call.outcome = Completion(ContentOf(part), Of("call", part), call.retried)
  BY <1>2, CompletionIs
<1>4. call.answer.events \in Seq(Range(call.answer.events)) /\ Len(call.answer.events) \in Nat
  BY <1>2, AnswerIs
<1>5. part \in Seq(Range(call.answer.events))
  BY <1>1, <1>2, <1>4, SubSeqProperties
<1>6. ContentOf(part) \in Seq(Range(call.answer.events))
  BY <1>5, ChosenFrom DEF ContentOf
<1>7. /\ Of("call", part) \in Seq(Range(call.answer.events))
      /\ \A k \in DOMAIN Of("call", part) : Of("call", part)[k].is = "call"
  <2> DEFINE I == {i \in DOMAIN part : part[i].is = "call"}
  <2>1. \A i \in I : part[i].is = "call"
    OBVIOUS
  <2>2. Of("call", part) = Chosen(part, I)
    BY DEF Of
  <2> HIDE DEF I
  <2>3. /\ Chosen(part, I) \in Seq(Range(call.answer.events))
        /\ \A k \in DOMAIN Chosen(part, I) : \E i \in I \cap DOMAIN part : Chosen(part, I)[k] = part[i]
    BY ONLY <1>5, ChosenFrom
  <2> QED BY <2>1, <2>2, <2>3
<1>8. call.outcome.content = ContentOf(part) /\ call.outcome.calls = Of("call", part)
  BY <1>3 DEF Completion
<1> QED BY <1>2, <1>6, <1>7, <1>8

(* A call in a piece of an answer is one that the server may make.          *)
LEMMA CallsAreWellFormed ==
  ASSUME NEW answer \in Answers, NEW event \in Range(answer.events)
  PROVE  /\ event.is = "json" => WellFormed(event.call)
         /\ event.is = "call" => WellFormed(event)
         /\ event.is \in {"json", "call"} => event.form \in JsonForms
BY TurnAssumption

(* An action block is one piece of the content.                             *)
LEMMA TextActionIs ==
  ASSUME NEW S, NEW content \in Seq(S), NEW calls, NEW tools,
         ParseText(content, calls, tools).is = "action",
         \A event \in S : event.is = "json" => event.form \in JsonForms
  PROVE  \E event \in S : event.is = "json" /\ ParseText(content, calls, tools).call = event.call
<1> DEFINE opens  == {i \in DOMAIN content : content[i] = OPEN}
           closes == {i \in DOMAIN content : content[i] = CLOSE}
           start  == CHOOSE i \in opens : TRUE
           end    == CHOOSE i \in closes : TRUE
           inner  == SubSeq(content, start + 1, end - 1)
           text   == IF end < start THEN FormatError("Unbalanced")
                     ELSE IF Len(inner) = 1 /\ inner[1].is = "json" THEN StrictCall(inner[1], tools)
                     ELSE FormatError("BadJson")
<1>1. \A why : FormatError(why).is = "format-error"
  BY DEF FormatError
<1>2. DOMAIN content = 1..Len(content) /\ Len(content) \in Nat
  BY LenProperties
<1>3. /\ IsFiniteSet(opens) /\ IsFiniteSet(closes)
      /\ Cardinality(opens) \in Nat /\ Cardinality(closes) \in Nat
      /\ (opens = {} <=> Cardinality(opens) = 0) /\ (closes = {} <=> Cardinality(closes) = 0)
  <2>1. IsFiniteSet(1..Len(content))
    BY <1>2, FS_Interval
  <2>2. opens \subseteq 1..Len(content) /\ closes \subseteq 1..Len(content)
    BY <1>2
  <2> HIDE DEF opens, closes
  <2>3. IsFiniteSet(opens) /\ IsFiniteSet(closes)
    BY ONLY <2>1, <2>2, FS_Subset
  <2> QED BY ONLY <2>3, FS_CardinalityType, FS_EmptySet
<1>4. ParseText(content, calls, tools) =
       CASE calls # <<>> -> FormatError("ToolCallsInTextMode")
        [] calls = <<>> /\ (Cardinality(opens) > 1 \/ Cardinality(closes) > 1) ->
             FormatError("SeveralActions")
        [] calls = <<>> /\ opens = {} /\ closes = {} -> FormatError("NoAction")
        [] calls = <<>> /\ Cardinality(opens) + Cardinality(closes) = 1 -> FormatError("Unbalanced")
        [] calls = <<>> /\ Cardinality(opens) = 1 /\ Cardinality(closes) = 1 -> text
  BY DEF ParseText
<1> HIDE DEF text
<1>5. ParseText(content, calls, tools) = text /\ Cardinality(opens) = 1 /\ Cardinality(closes) = 1
  <2> HIDE DEF opens, closes
  <2>1. calls = <<>>
    BY <1>1, <1>4
  <2>2. ~(Cardinality(opens) > 1 \/ Cardinality(closes) > 1) /\ ~(opens = {} /\ closes = {})
        /\ Cardinality(opens) + Cardinality(closes) # 1
    <3>1. PICK a \in Nat, b \in Nat : a = Cardinality(opens) /\ b = Cardinality(closes)
      BY <1>3
    <3>2. ~(a > 1 \/ b > 1)
      BY <1>1, <1>4, <2>1, <3>1
    <3>3. ~(opens = {} /\ closes = {})
      <4> SUFFICES ASSUME opens = {}, closes = {} PROVE FALSE
        OBVIOUS
      <4>1. Cardinality(opens) = 0 /\ Cardinality(closes) = 0
        BY <1>3
      <4>2. ~(calls = <<>> /\ (Cardinality(opens) > 1 \/ Cardinality(closes) > 1))
            /\ ~(calls # <<>>) /\ Cardinality(opens) + Cardinality(closes) # 1
            /\ ~(Cardinality(opens) = 1 /\ Cardinality(closes) = 1)
        BY <2>1, <4>1
      <4>3. ParseText(content, calls, tools) = FormatError("NoAction")
        BY <1>4, <2>1, <4>2
      <4> QED BY <1>1, <4>3
    <3>4. a + b # 1
      BY <1>1, <1>4, <2>1, <3>1, <3>2, <3>3
    <3> QED BY <3>1, <3>2, <3>3, <3>4
  <2>3. Cardinality(opens) = 1 /\ Cardinality(closes) = 1
    BY <1>3, <2>2
  <2> QED BY <1>4, <2>1, <2>2, <2>3
<1>6. start \in opens /\ end \in closes
  <2> HIDE DEF opens, closes
  <2>1. opens # {} /\ closes # {}
    BY <1>3, <1>5
  <2> QED BY <2>1
<1>7. start \in 1..Len(content) /\ end \in 1..Len(content)
  BY <1>2, <1>6
<1> HIDE DEF start, end, opens, closes
<1>8. Len(inner) = 1 /\ inner[1].is = "json" /\ text = StrictCall(inner[1], tools)
  BY <1>1, <1>5 DEF text
<1>9. inner[1] \in S
  <2>1. /\ start + 1 \in Int /\ end - 1 \in Int
        /\ \A i \in start + 1..end - 1 : content[i] \in S
    BY <1>2, <1>7
  <2>2. inner \in Seq(S)
    BY ONLY <2>1, SubSeqProperties
  <2> HIDE DEF inner
  <2>3. 1 \in 1..Len(inner)
    BY <1>8
  <2> QED BY ONLY <2>2, <2>3, ElementOfSeq
<1> HIDE DEF inner
<1>10. StrictCall(inner[1], tools) = Action(inner[1].call)
  <2>1. StrictCall(inner[1], tools).is = "action"
    BY <1>5, <1>8
  <2>2. PICK json \in S : json = inner[1] /\ json.form \in JsonForms
    BY <1>8, <1>9
  <2>3. \/ StrictCall(json, tools) = Action(json.call)
        \/ \E why : StrictCall(json, tools) = FormatError(why)
    BY DEF StrictCall, StrictError
  <2> QED BY <1>1, <2>1, <2>2, <2>3
<1> QED BY <1>5, <1>8, <1>9, <1>10 DEF Action

(* parse_reply: the action of a completion is in a piece of the answer.     *)
LEMMA ParsedIsWellFormed ==
  ASSUME AnswerOK, call.pc = "done", call.outcome.is = "completion", NEW protocol, NEW tools,
         ParseReply(call.outcome, protocol, tools).is = "action"
  PROVE  WellFormed(ParseReply(call.outcome, protocol, tools).call)
<1>1. /\ call.answer \in Answers
      /\ call.outcome.content \in Seq(Range(call.answer.events))
      /\ call.outcome.calls \in Seq(Range(call.answer.events))
      /\ \A k \in DOMAIN call.outcome.calls : call.outcome.calls[k].is = "call"
  BY PiecesAre
<1>2. CASE protocol = "text"
  <2>1. ParseReply(call.outcome, protocol, tools) = ParseText(call.outcome.content, call.outcome.calls, tools)
    BY <1>2 DEF ParseReply
  <2>2. PICK event \in Range(call.answer.events) :
          event.is = "json" /\ ParseText(call.outcome.content, call.outcome.calls, tools).call = event.call
    BY <1>1, <2>1, TextActionIs, CallsAreWellFormed
  <2> QED BY <1>1, <2>1, <2>2, CallsAreWellFormed
<1>3. CASE protocol # "text"
  <2>1. PICK calls : calls = call.outcome.calls
    OBVIOUS
  <2>2. ParseReply(call.outcome, protocol, tools) = ParseNative(calls, tools)
    BY <1>3, <2>1 DEF ParseReply
  <2>3. Len(calls) \in Nat /\ calls \in Seq(Range(call.answer.events))
    BY <1>1, <2>1, LenProperties
  <2>4. \A why : FormatError(why).is = "format-error"
    BY DEF FormatError
  <2>5. Len(calls) = 1 /\ \E id : ParseNative(calls, tools)
                                   = Action([capability |-> id, args |-> Head(calls).args])
    <3>1. PICK n \in Nat : n = Len(calls)
      BY <2>3
    <3>2. ParseNative(calls, tools).is = "action"
      BY <2>2
    <3>3. n # 0
      BY <2>4, <3>1, <3>2 DEF ParseNative
    <3>4. ~(n > 1)
      BY <2>4, <3>1, <3>2, <3>3 DEF ParseNative
    <3>5. n = 1
      BY <3>3, <3>4
    <3>6. ParseNative(calls, tools) = NativeCall(Head(calls), tools)
      BY <3>1, <3>5 DEF ParseNative
    <3>7. PICK one : one = Head(calls)
      OBVIOUS
    <3>8. \/ \E id : NativeCall(one, tools) = Action([capability |-> id, args |-> one.args])
          \/ \E why : NativeCall(one, tools) = FormatError(why)
      BY DEF NativeCall, StrictError, FormatError
    <3> QED BY <2>4, <3>1, <3>2, <3>5, <3>6, <3>7, <3>8
  <2>6. Head(calls) = calls[1] /\ 1 \in 1..Len(calls) /\ DOMAIN calls = 1..Len(calls)
    <3>1. calls # <<>>
      <4> SUFFICES ASSUME calls = <<>> PROVE FALSE
        OBVIOUS
      <4>1. Len(calls) = 0
        OBVIOUS
      <4> QED BY <2>5, <4>1
    <3>2. calls \in Seq(Range(call.answer.events)) /\ calls # <<>>
      BY <2>3, <3>1
    <3>3. Head(calls) = calls[1]
      BY ONLY <3>2
    <3> QED BY <2>3, <2>5, <3>3, LenProperties
  <2>7. calls[1] \in Range(call.answer.events) /\ calls[1].is = "call"
    BY <1>1, <2>1, <2>3, <2>6, ElementOfSeq
  <2>8. PICK one, id : one = calls[1] /\ ParseNative(calls, tools) = Action([capability |-> id, args |-> one.args])
    BY <2>5, <2>6
  <2>9. ParseReply(call.outcome, protocol, tools).call = [capability |-> id, args |-> one.args]
    BY <2>2, <2>8 DEF Action
  <2>10. WellFormed(one)
    BY <1>1, <2>7, <2>8, CallsAreWellFormed
  <2> QED BY <2>9, <2>10 DEF WellFormed
<1> QED BY <1>2, <1>3

-----------------------------------------------------------------------------
ClientInv == CallInv /\ AnswerOK

\* A call that begins.
CallBegins == \E purpose \in {"models", "chat"} : call = Call(purpose)

(* Nothing was sent, and nothing answered.                                  *)
LEMMA CallBeginsOK == CallBegins => ClientInv
<1> SUFFICES ASSUME NEW purpose \in {"models", "chat"}, call = Call(purpose)
             PROVE  ClientInv
  BY DEF CallBegins
<1>1. CallTyped
  BY ConstantsAre DEF Call, CallTyped, CallFields, CallPCs
<1>2. OnTime
  BY ConstantsAre DEF Call, OnTime, EndsByItsDeadline, Over
<1>3. StatusesOK
  BY DEF Call, StatusesOK, StatusesAreNamed, Over
<1>4. RetriesAreDue
  BY ConstantsAre DEF Call, RetriesAreDue
<1>5. AnswerOK
  BY DEF Call, AnswerOK
<1> QED BY <1>1, <1>2, <1>3, <1>4, <1>5 DEF ClientInv, CallInv

(* So is it after a step that begins one.                                   *)
LEMMA CallBeginsNext == CallBegins' => ClientInv'
BY CallBeginsOK, PTL

(* What a step makes of a call, alone or in a turn.                         *)
LEMMA CallSteps ==
  ASSUME ClientInv, ClientNext
  PROVE  ClientInv'
<1>1. CallInv'
  BY RequestSteps, ResponseSteps, RetryOK DEF ClientNext, ClientInv
<1> QED BY <1>1, AnswerSteps DEF ClientInv

(* A call that is left alone.                                               *)
LEMMA CallStays ==
  ASSUME ClientInv, call' = call
  PROVE  ClientInv'
<1>1. CallTyped' /\ OnTime'
  BY DEF ClientInv, CallInv, CallTyped, OnTime, EndsByItsDeadline, Over
<1>2. StatusesOK'
  BY DEF ClientInv, CallInv, StatusesOK, StatusesAreNamed, Over
<1>3. RetriesAreDue'
  BY DEF ClientInv, CallInv, RetriesAreDue, Calling
<1>4. AnswerOK'
  BY DEF ClientInv, AnswerOK
<1> QED BY <1>1, <1>2, <1>3, <1>4 DEF ClientInv, CallInv

(* The invariant behind the theorems: where a call stands, how late it may   *)
(* be there, what it was served so far, and of which answer.                 *)
THEOREM ClientInductive == ClientSpec => []ClientInv
<1>1. ClientInit => CallBegins
  BY DEF ClientInit, CallBegins
<1>2. ClientInv /\ [ClientNext]_call => ClientInv'
  BY CallSteps, CallStays
<1> QED BY CallBeginsOK, <1>1, <1>2, PTL DEF ClientSpec

(* The bounds of a call and the wholeness of its reply follow.              *)
LEMMA ClientKeeps == ClientInv => CallKeepsItsBounds /\ NeverAPartialReply
<1> SUFFICES ASSUME ClientInv PROVE CallKeepsItsBounds /\ NeverAPartialReply
  OBVIOUS
<1>1. CallKeepsItsBounds
  BY DEF ClientInv, CallInv, OnTime, StatusesOK, CallKeepsItsBounds
<1> QED BY <1>1, AnswerWhole DEF ClientInv
(* A call retries within its budget and no sooner than it was asked to,     *)
(* ends by its deadline unless the server drained its request slowly, and   *)
(* names the statuses it went through on a completion and a refusal to go   *)
(* on (client.rs complete, http.rs exchange).                               *)
THEOREM CallKeepsItsBoundsHolds == ClientSpec => []CallKeepsItsBounds
<1> QED BY ClientInductive, ClientKeeps, PTL

(* A completion is all of a reply that the server said was finished         *)
(* (wire.rs Acc::done, INV-3).                                              *)
THEOREM NeverAPartialReplyHolds == ClientSpec => []NeverAPartialReply
<1> QED BY ClientInductive, ClientKeeps, PTL

-----------------------------------------------------------------------------
(***************************************************************************)
(* The read tools: no link that was there when its path was looked at is    *)
(* followed.                                                                *)
(***************************************************************************)
\* The paths that an operation may be asked for, in the workspace or not.
Places == Seq(Range(Names))

(* The paths of the workspace are such, and none is the root.               *)
LEMMA PathsAre ==
  /\ Paths \subseteq Places /\ <<>> \notin Paths /\ <<>> \in Places
  /\ \A p \in Places : p \in Seq(Range(Names)) /\ Len(p) \in Nat /\ (p # <<>> => Len(p) > 0)
<1>1. Paths \subseteq Places /\ <<>> \notin Paths /\ <<>> \in Places
  BY WorkspaceAssumption DEF Places
<1> QED BY <1>1, LenProperties, EmptySeq DEF Places

(* A prefix of a path, and the prefixes of one.                             *)
LEMMA PrefixIs ==
  ASSUME NEW S, NEW p \in Seq(S), NEW n \in 0..Len(p)
  PROVE  /\ SubSeq(p, 1, n) \in Seq(S) /\ Len(SubSeq(p, 1, n)) = n
         /\ \A i \in 1..n : SubSeq(p, 1, n)[i] = p[i]
BY SubSeqProperties

(* A prefix of a prefix is one of the path.                                 *)
LEMMA PrefixOfPrefix ==
  ASSUME NEW S, NEW p \in Seq(S), NEW n \in 0..Len(p), NEW m \in 0..n
  PROVE  SubSeq(SubSeq(p, 1, n), 1, m) = SubSeq(p, 1, m)
<1> DEFINE q == SubSeq(p, 1, n)
<1>1. q \in Seq(S) /\ Len(q) = n /\ (\A i \in 1..n : q[i] = p[i]) /\ Len(p) \in Nat /\ n \in Nat
  BY PrefixIs, LenProperties
<1> HIDE DEF q
<1>2. /\ SubSeq(q, 1, m) \in Seq(S) /\ Len(SubSeq(q, 1, m)) = m
      /\ \A i \in 1..m : SubSeq(q, 1, m)[i] = q[i]
  BY <1>1, PrefixIs
<1>3. /\ SubSeq(p, 1, m) \in Seq(S) /\ Len(SubSeq(p, 1, m)) = m
      /\ \A i \in 1..m : SubSeq(p, 1, m)[i] = p[i]
  BY <1>1, PrefixIs
<1>4. \A i \in 1..m : SubSeq(q, 1, m)[i] = SubSeq(p, 1, m)[i]
  BY <1>1, <1>2, <1>3
<1> QED BY <1>2, <1>3, <1>4, SeqEqual DEF q

(* The ancestors of a prefix are the shorter ones.                          *)
LEMMA AncestorsOfPrefix ==
  ASSUME NEW S, NEW p \in Seq(S), NEW n \in 0..Len(p)
  PROVE  Ancestors(SubSeq(p, 1, n)) = {SubSeq(p, 1, m) : m \in 1..n - 1}
<1>1. Len(SubSeq(p, 1, n)) = n /\ Len(p) \in Nat
  BY PrefixIs, LenProperties
<1>2. \A m \in 1..n - 1 : SubSeq(SubSeq(p, 1, n), 1, m) = SubSeq(p, 1, m)
  BY <1>1, PrefixOfPrefix
<1> QED BY <1>1, <1>2 DEF Ancestors

(* The ancestors of an ancestor are ancestors.                              *)
LEMMA AncestorsAreClosed ==
  ASSUME NEW p \in Places, NEW a \in Ancestors(p)
  PROVE  Ancestors(a) \subseteq Ancestors(p)
<1>1. PICK n \in 1..Len(p) - 1 : a = SubSeq(p, 1, n)
  BY DEF Ancestors
<1>2. p \in Seq(Range(Names)) /\ Len(p) \in Nat
  BY PathsAre
<1>3. Ancestors(a) = {SubSeq(p, 1, m) : m \in 1..n - 1}
  BY <1>1, <1>2, AncestorsOfPrefix
<1> QED BY <1>1, <1>2, <1>3 DEF Ancestors

(* What is on the way to an entry of a directory, and to the next component *)
(* of a path.                                                               *)
LEMMA AncestorsOfKid ==
  ASSUME NEW p \in Paths
  PROVE  Ancestors(p) \subseteq {Parent(p)} \cup Ancestors(Parent(p))
<1>1. p \in Seq(Range(Names)) /\ Len(p) \in Nat /\ Len(p) > 0
  BY PathsAre
<1>2. Parent(p) = SubSeq(p, 1, Len(p) - 1)
  BY DEF Parent, Front
<1>3. Ancestors(Parent(p)) = {SubSeq(p, 1, m) : m \in 1..(Len(p) - 1) - 1}
  BY <1>1, <1>2, AncestorsOfPrefix
<1> QED BY <1>1, <1>2, <1>3 DEF Ancestors

(* The next component has the last one and its ancestors above it.          *)
LEMMA AncestorsOfNext ==
  ASSUME NEW p \in Places, NEW n \in 0..Len(p) - 1
  PROVE  Ancestors(SubSeq(p, 1, n + 1)) \subseteq
           (IF n = 0 THEN {} ELSE {SubSeq(p, 1, n)}) \cup Ancestors(SubSeq(p, 1, n))
<1>1. p \in Seq(Range(Names)) /\ Len(p) \in Nat
  BY PathsAre
<1>2. /\ Ancestors(SubSeq(p, 1, n)) = {SubSeq(p, 1, m) : m \in 1..n - 1}
      /\ Ancestors(SubSeq(p, 1, n + 1)) = {SubSeq(p, 1, m) : m \in 1..(n + 1) - 1}
  BY <1>1, AncestorsOfPrefix
<1> QED BY <1>1, <1>2

-----------------------------------------------------------------------------
OpFields == {"pc", "does", "at", "depth", "late", "meta", "stack", "entry", "names", "kids", "visited",
           "symlinks", "unreadable", "stopped", "skipped", "more", "found", "status", "base", "changed",
           "cleared", "taken"}

(* The node whose change to a link is to blame for what is read at `path`.   *)
Blamed(path) == ({path} \cup Ancestors(path)) \cap op.changed \cap op.cleared

(* What was seen to be no link is closed under the way to it, and is one    *)
(* now only if it changed, or something on the way to it.                   *)
ClearedOK ==
  /\ <<>> \in op.cleared /\ op.cleared \subseteq Places
  /\ \A path \in op.cleared : Ancestors(path) \subseteq op.cleared
  /\ \A path \in op.cleared : NodeOf(tree, path) = "link" => Blamed(path) # {}

(* What is in hand was seen to be no link, or is known to be one.           *)
Known(entry) == entry.path \in Places /\ (entry.meta # "link" => entry.path \in op.cleared)

InHandOK ==
  /\ op.pc = "resolve" => /\ op.entry \in op.cleared
                          /\ \E n \in 0..Len(op.at) : op.entry = SubSeq(op.at, 1, n)
  /\ op.pc = "open" => op.at \in op.cleared
  /\ op.pc \in {"list", "visit"} => Known(op.entry)
  /\ op.pc = "list" => op.entry.path \in op.cleared /\ op.names \subseteq Kids(op.entry.path)
  /\ op.pc \in {"walk", "list", "visit"} =>
       /\ op.stack \in Seq(Range(op.stack)) /\ \A i \in DOMAIN op.stack : Known(op.stack[i])
  /\ IsFiniteSet(op.kids) /\ \A entry \in op.kids : Known(entry)

OpInv ==
  /\ op = [field \in OpFields |-> op[field]]
  /\ op.pc \in {"resolve", "open", "walk", "list", "visit", "done"}
  /\ op.at \in Places /\ tree \in [Paths -> Nodes]
  /\ ClearedOK /\ InHandOK
  /\ \A path \in op.taken : Blamed(path) # {}

-----------------------------------------------------------------------------
(* What is read from outside at a cleared path has something to blame.      *)
LEMMA OutsideIsBlamed ==
  ASSUME OpInv, NEW path \in op.cleared, IsOutside(tree, path)
  PROVE  Blamed(path) # {}
<1>1. path \in Places /\ Ancestors(path) \subseteq op.cleared
  BY DEF OpInv, ClearedOK
<1>2. CASE NodeOf(tree, path) = "link"
  BY <1>2 DEF OpInv, ClearedOK
<1>3. CASE Leaves(tree, path)
  <2>1. PICK a \in Ancestors(path) : NodeOf(tree, a) = "link"
    BY <1>3 DEF Leaves
  <2>2. Blamed(a) # {}
    BY <1>1, <2>1 DEF OpInv, ClearedOK
  <2>3. Ancestors(a) \subseteq Ancestors(path)
    BY <1>1, <2>1, AncestorsAreClosed
  <2> QED BY <2>1, <2>2, <2>3 DEF Blamed
<1> QED BY <1>2, <1>3 DEF IsOutside

(* A path that is looked at and is no link joins the cleared ones.          *)
LEMMA ClearedGrows ==
  ASSUME OpInv, NEW path \in Places, Ancestors(path) \subseteq op.cleared,
         Lstat(tree, path) \notin {"link", "absent"},
         op'.changed = op.changed, op'.cleared = op.cleared \cup {path}, tree' = tree
  PROVE  ClearedOK'
<1>1. NodeOf(tree, path) = "link" => Blamed(path) # {}
  <2>1. CASE Leaves(tree, path)
    <3>1. PICK a \in Ancestors(path) : NodeOf(tree, a) = "link"
      BY <2>1 DEF Leaves
    <3>2. Blamed(a) # {}
      BY <3>1 DEF OpInv, ClearedOK
    <3>3. Ancestors(a) \subseteq Ancestors(path)
      BY <3>1, AncestorsAreClosed
    <3> QED BY <3>1, <3>2, <3>3 DEF Blamed
  <2>2. CASE ~Leaves(tree, path) /\ \A a \in Ancestors(path) : IsDir(NodeOf(tree, a))
    BY <2>2 DEF Lstat
  <2>3. CASE ~Leaves(tree, path) /\ ~ \A a \in Ancestors(path) : IsDir(NodeOf(tree, a))
    BY <2>3 DEF Lstat
  <2> QED BY <2>1, <2>2, <2>3
<1>2. \A p : Blamed(p) # {} => Blamed(p)' # {}
  BY DEF Blamed
<1>3. \A p \in op'.cleared : NodeOf(tree, p) = "link" => Blamed(p)' # {}
  BY <1>1, <1>2 DEF OpInv, ClearedOK
<1>4. <<>> \in op'.cleared /\ op'.cleared \subseteq Places
  BY DEF OpInv, ClearedOK
<1>5. \A p \in op'.cleared : Ancestors(p) \subseteq op'.cleared
  BY DEF OpInv, ClearedOK
<1> QED BY <1>3, <1>4, <1>5 DEF ClearedOK

(* What a step of the operation owes the invariant, apart from its own part. *)
LEMMA StepKeeps ==
  ASSUME OpInv, tree' = tree, op' = [field \in OpFields |-> op'[field]],
         op'.pc \in {"resolve", "open", "walk", "list", "visit", "done"},
         op'.at = op.at, op'.changed = op.changed, op.cleared \subseteq op'.cleared,
         op'.taken \subseteq op.taken \cup {p \in op.cleared : IsOutside(tree, p)},
         ClearedOK', InHandOK'
  PROVE  OpInv'
<1>1. \A p \in op'.taken : Blamed(p) # {}
  BY OutsideIsBlamed DEF OpInv
<1>2. \A p \in op'.taken : Blamed(p)' # {}
  BY <1>1 DEF Blamed
<1> QED BY <1>2 DEF OpInv

(* A step of a walk that looks at nothing.                                  *)
LEMMA WalkKeeps ==
  ASSUME OpInv, tree' = tree, op' = [field \in OpFields |-> op'[field]],
         op'.pc \in {"walk", "done"}, op.pc \in {"walk", "visit", "list"} \/ op'.pc = "done",
         op'.at = op.at, op'.changed = op.changed, op'.cleared = op.cleared, op'.kids = op.kids,
         op'.stack \in {op.stack, <<>>},
         op'.taken \subseteq op.taken \cup {p \in op.cleared : IsOutside(tree, p)}
  PROVE  OpInv'
<1>1. ClearedOK'
  BY DEF OpInv, ClearedOK, Blamed
<1>2. \A entry : Known(entry) => Known(entry)'
  BY DEF Known
<1>3. IsFiniteSet(op.kids)' /\ (\A entry \in op.kids : Known(entry))'
  BY <1>2 DEF OpInv, InHandOK
<1>4. op'.pc = "walk" => (op.stack \in Seq(Range(op.stack)) /\ \A i \in DOMAIN op.stack : Known(op.stack[i]))'
  <2>1. CASE op'.stack = <<>>
    BY <2>1, EmptySeq
  <2>2. CASE op'.stack = op.stack
    BY <1>2, <2>2 DEF OpInv, InHandOK
  <2> QED BY <2>1, <2>2
<1>5. InHandOK'
  BY <1>3, <1>4 DEF InHandOK
<1> QED BY <1>1, <1>5, StepKeeps

-----------------------------------------------------------------------------
(* fs.read of the file the path resolved to.                                *)
LEMMA ReadOK ==
  ASSUME OpInv, Read
  PROVE  OpInv'
<1>1. op.pc = "open" /\ tree' = tree /\ op.at \in op.cleared
  BY DEF Read, OpInv, InHandOK
<1>2. CASE \E status : Ends(status)
  BY <1>1, <1>2, WalkKeeps DEF Ends, OpInv, OpFields
<1>3. CASE op' = [op EXCEPT !.pc = "done", !.status = "ok", !.found = <<Content(op.at)>>, !.taken = Taken(op.at)]
  <2>1. op'.taken \subseteq op.taken \cup {p \in op.cleared : IsOutside(tree, p)}
    BY <1>1, <1>3 DEF Taken, OpInv, OpFields
  <2> QED BY <1>1, <1>3, <2>1, WalkKeeps DEF OpInv, OpFields
<1> QED BY <1>1, <1>2, <1>3 DEF Read

(* A walk that is done or was stopped takes nothing more.                   *)
LEMMA WalkEndsOK ==
  ASSUME OpInv, WalkEnds
  PROVE  OpInv'
BY WalkKeeps DEF WalkEnds, Ends, OpInv, OpFields

(* So does an operation that is past its deadline.                          *)
LEMMA LateOK ==
  ASSUME OpInv, Late
  PROVE  OpInv'
<1>1. op' = [op EXCEPT !.late = TRUE] /\ tree' = tree
  BY DEF Late
<1>2. ClearedOK'
  BY <1>1 DEF OpInv, ClearedOK, Blamed, OpFields
<1>3. InHandOK'
  BY <1>1 DEF OpInv, InHandOK, Known, OpFields
<1> QED BY <1>1, <1>2, <1>3, StepKeeps DEF OpInv, OpFields

(* A visit reads a file, or stacks a directory, that was looked at.         *)
LEMMA VisitOK ==
  ASSUME OpInv, Visit
  PROVE  OpInv'
<1>1. op.pc = "visit" /\ tree' = tree /\ Known(op.entry)
  BY DEF Visit, OpInv, InHandOK
<1>2. CASE \E status : Ends(status)
  BY <1>1, <1>2, WalkKeeps DEF Ends, OpInv, OpFields
<1>3. CASE Onwards \/ (\E line : Show(line)) \/ op' = [op EXCEPT !.pc = "walk", !.skipped = @ + 1]
  <2>1. CASE Onwards
    BY <1>1, <2>1, WalkKeeps DEF Onwards, OpInv, OpFields
  <2>2. CASE \E line : Show(line)
    BY <1>1, <2>2, WalkKeeps DEF Show, OpInv, OpFields
  <2>3. CASE op' = [op EXCEPT !.pc = "walk", !.skipped = @ + 1]
    BY <1>1, <2>3, WalkKeeps DEF OpInv, OpFields
  <2> QED BY <1>3, <2>1, <2>2, <2>3
<1>4. CASE op' = [op EXCEPT !.pc = "walk", !.more = TRUE, !.stack = <<>>]
  BY <1>1, <1>4, WalkKeeps DEF OpInv, OpFields
<1>5. CASE /\ IsFile(op.entry.meta)
           /\ \E line : op' = [op EXCEPT !.pc = "walk", !.found = Append(@, line),
                                         !.taken = Taken(op.entry.path)]
  <2>1. op.entry.path \in op.cleared
    BY <1>1, <1>5 DEF Known, IsFile
  <2>2. op'.taken \subseteq op.taken \cup {p \in op.cleared : IsOutside(tree, p)}
    BY <2>1, <1>5 DEF Taken, OpInv, OpFields
  <2> QED BY <1>1, <1>5, <2>2, WalkKeeps DEF OpInv, OpFields
<1>6. CASE Search(op.entry.meta)
  BY <1>3, <1>4, <1>5, <1>6 DEF Search
<1>7. CASE List(op.entry.meta)
  BY <1>3, <1>4, <1>7 DEF List
<1>8. CASE Measure(op.entry.meta)
  BY <1>2, <1>3, <1>5, <1>8 DEF Measure
<1> QED BY <1>2, <1>3, <1>6, <1>7, <1>8 DEF Visit

(* Another process's change is remembered, so a link it makes is blamed on  *)
(* it.                                                                      *)
LEMMA ChangeOK ==
  ASSUME OpInv, Change
  PROVE  OpInv'
<1>1. PICK path \in Paths, node \in ChangeTo :
        /\ tree' = [tree EXCEPT ![path] = node]
        /\ op' = [op EXCEPT !.changed = @ \cup {path}]
  BY DEF Change
<1>2. tree' \in [Paths -> Nodes]
  BY <1>1, WorkspaceAssumption DEF OpInv
<1>3. /\ op'.changed = op.changed \cup {path} /\ op'.cleared = op.cleared /\ op'.taken = op.taken
      /\ op'.pc = op.pc /\ op'.at = op.at /\ op' = [field \in OpFields |-> op'[field]]
      /\ op'.entry = op.entry /\ op'.names = op.names /\ op'.stack = op.stack /\ op'.kids = op.kids
  BY <1>1 DEF OpInv, OpFields
<1>4. \A p : Blamed(p) # {} => Blamed(p)' # {}
  BY <1>3 DEF Blamed
<1>5. \A p \in op.cleared : p = path => Blamed(p)' # {}
  BY <1>3 DEF Blamed
<1>6. \A p : p # path => NodeOf(tree', p) = NodeOf(tree, p)
  BY <1>1 DEF NodeOf, OpInv
<1>7. \A p \in op.cleared : NodeOf(tree', p) = "link" => Blamed(p)' # {}
  BY <1>4, <1>5, <1>6 DEF OpInv, ClearedOK
<1>8. ClearedOK'
  BY <1>3, <1>7 DEF OpInv, ClearedOK
<1>9. InHandOK'
  BY <1>1 DEF OpInv, InHandOK, Known, OpFields
<1> QED BY <1>2, <1>3, <1>4, <1>8, <1>9 DEF OpInv

-----------------------------------------------------------------------------
(* What was resolved is a prefix of the path.                               *)
LEMMA ResolvedSoFar ==
  ASSUME OpInv, op.pc = "resolve"
  PROVE  \E n \in 0..Len(op.at) : op.entry = SubSeq(op.at, 1, n) /\ Len(op.entry) = n
<1>1. op.at \in Seq(Range(Names))
  BY PathsAre DEF OpInv
<1>2. PICK n \in 0..Len(op.at) : op.entry = SubSeq(op.at, 1, n)
  BY DEF OpInv, InHandOK
<1>3. Len(SubSeq(op.at, 1, n)) = n
  BY <1>1, PrefixIs
<1> QED BY <1>2, <1>3

(* The component a resolve looks at next is in the workspace, and all that   *)
(* is on the way to it was looked at.                                       *)
LEMMA NextIs ==
  ASSUME OpInv, op.pc = "resolve", NextComponent(op.at, Len(op.entry)) # <<>>
  PROVE  LET next == NextComponent(op.at, Len(op.entry))
         IN  /\ next \in Places /\ Ancestors(next) \subseteq op.cleared
             /\ \E n \in 0..Len(op.at) : next = SubSeq(op.at, 1, n)
<1>1. op.at \in Places /\ op.at \in Seq(Range(Names)) /\ Len(op.at) \in Nat
  BY PathsAre DEF OpInv
<1>2. PICK n \in 0..Len(op.at) : op.entry = SubSeq(op.at, 1, n) /\ Len(op.entry) = n
  BY <1>1, ResolvedSoFar
<1>3. n < Len(op.at) /\ NextComponent(op.at, Len(op.entry)) = SubSeq(op.at, 1, n + 1)
  BY <1>1, <1>2 DEF NextComponent
<1>5. SubSeq(op.at, 1, n + 1) \in Places
  <2>1. n + 1 \in 0..Len(op.at)
    BY <1>1, <1>2, <1>3
  <2> QED BY <1>1, <2>1, PrefixIs DEF Places
<1>6. Ancestors(SubSeq(op.at, 1, n + 1)) \subseteq op.cleared
  <2>1. op.entry \in op.cleared /\ Ancestors(op.entry) \subseteq op.cleared
    BY DEF OpInv, InHandOK, ClearedOK
  <2>2. n \in 0..Len(op.at) - 1
    BY <1>1, <1>2, <1>3
  <2> QED BY <1>1, <1>2, <2>1, <2>2, AncestorsOfNext
<1>7. n + 1 \in 0..Len(op.at)
  BY <1>1, <1>2, <1>3
<1> QED BY <1>3, <1>5, <1>6, <1>7

(* A component that is looked at is cleared unless it is a link.            *)
LEMMA LookAtOK ==
  ASSUME OpInv, LookAt
  PROVE  OpInv'
<1> DEFINE next == NextComponent(op.at, Len(op.entry))
           seen == Lstat(tree, next)
<1>1. op.pc = "resolve" /\ next # <<>> /\ tree' = tree
  BY DEF LookAt
<1>2. /\ next \in Places /\ Ancestors(next) \subseteq op.cleared
      /\ \E n \in 0..Len(op.at) : next = SubSeq(op.at, 1, n)
  BY <1>1, NextIs
<1>3. \/ \E status : op' = [op EXCEPT !.pc = "done", !.status = status]
      \/ /\ seen \notin {"absent", "link"}
         /\ op' = [op EXCEPT !.entry = next, !.meta = seen, !.cleared = @ \cup {next}]
  <2> HIDE DEF next
  <2> QED BY DEF LookAt, next
<1> HIDE DEF next, seen
<1>4. CASE \E status : op' = [op EXCEPT !.pc = "done", !.status = status]
  BY <1>1, <1>4, WalkKeeps DEF OpInv, OpFields
<1>5. CASE /\ seen \notin {"absent", "link"}
           /\ op' = [op EXCEPT !.entry = next, !.meta = seen, !.cleared = @ \cup {next}]
  <2>1. /\ op'.pc = "resolve" /\ op'.at = op.at /\ op'.changed = op.changed /\ op'.taken = op.taken
        /\ op'.kids = op.kids /\ op'.entry = next /\ op'.cleared = op.cleared \cup {next}
        /\ op' = [field \in OpFields |-> op'[field]]
    BY <1>1, <1>5 DEF OpInv, OpFields
  <2>2. ClearedOK'
    BY <1>1, <1>2, <1>5, <2>1, ClearedGrows DEF seen
  <2>3. \A entry : Known(entry) => Known(entry)'
    BY <2>1 DEF Known
  <2>4. IsFiniteSet(op.kids)' /\ (\A entry \in op.kids : Known(entry))'
    BY <2>1, <2>3 DEF OpInv, InHandOK
  <2>5. InHandOK'
    BY <1>2, <2>1, <2>4 DEF InHandOK
  <2> QED BY <1>1, <2>1, <2>2, <2>5, StepKeeps
<1> QED BY <1>3, <1>4, <1>5

(* A path all of whose components are cleared is opened or walked.          *)
LEMMA ResolvedOK ==
  ASSUME OpInv, Resolved
  PROVE  OpInv'
<1>1. op.pc = "resolve" /\ NextComponent(op.at, Len(op.entry)) = <<>> /\ tree' = tree
  BY DEF Resolved
<1>2. op.at \in Places /\ op.at \in Seq(Range(Names)) /\ Len(op.at) \in Nat
  BY PathsAre DEF OpInv
<1>3. op.at \in op.cleared
  <2>1. PICK n \in 0..Len(op.at) : op.entry = SubSeq(op.at, 1, n) /\ Len(op.entry) = n
    BY <1>1, ResolvedSoFar
  <2>2. n = Len(op.at)
    <3>1. SUFFICES ASSUME n < Len(op.at) PROVE FALSE
      BY <1>2, <2>1
    <3>2. n + 1 \in 0..Len(op.at) /\ SubSeq(op.at, 1, n + 1) = <<>>
      BY <1>1, <1>2, <2>1, <3>1 DEF NextComponent
    <3>3. Len(SubSeq(op.at, 1, n + 1)) = n + 1
      BY <1>2, <3>2, PrefixIs
    <3> QED BY <2>1, <3>2, <3>3, EmptySeq
  <2>3. op.entry = op.at
    BY <1>2, <2>1, <2>2, SubSeqFull
  <2> QED BY <1>1, <2>3 DEF OpInv, InHandOK
<1>4. \/ \E status : Ends(status)
      \/ op' = [op EXCEPT !.pc = "open"]
      \/ \E meta : op' = [op EXCEPT !.pc = "walk", !.entry = <<>>, !.stack = <<Entry(op.at, meta)>>]
  BY DEF Resolved
<1>5. CASE \E status : Ends(status)
  BY <1>1, <1>5, WalkKeeps DEF Ends, OpInv, OpFields
<1>6. CASE \/ op' = [op EXCEPT !.pc = "open"]
           \/ \E meta : op' = [op EXCEPT !.pc = "walk", !.entry = <<>>, !.stack = <<Entry(op.at, meta)>>]
  <2>1. /\ op'.at = op.at /\ op'.changed = op.changed /\ op'.taken = op.taken
        /\ op'.kids = op.kids /\ op'.cleared = op.cleared
        /\ op' = [field \in OpFields |-> op'[field]]
        /\ op'.pc = "open" \/ (op'.pc = "walk" /\ \E meta : op'.stack = <<Entry(op.at, meta)>>)
    <3>1. CASE op' = [op EXCEPT !.pc = "open"]
      BY <3>1 DEF OpInv, OpFields
    <3>2. ASSUME NEW meta, op' = [op EXCEPT !.pc = "walk", !.entry = <<>>, !.stack = <<Entry(op.at, meta)>>]
          PROVE  /\ op'.at = op.at /\ op'.changed = op.changed /\ op'.taken = op.taken
                 /\ op'.kids = op.kids /\ op'.cleared = op.cleared
                 /\ op' = [field \in OpFields |-> op'[field]]
                 /\ op'.pc = "walk" /\ op'.stack = <<Entry(op.at, meta)>>
      BY <3>2 DEF OpInv, OpFields
    <3> QED BY <1>6, <3>1, <3>2
  <2>2. ClearedOK'
    BY <1>1, <2>1 DEF OpInv, ClearedOK, Blamed
  <2>3. IsFiniteSet(op.kids)' /\ (\A entry \in op.kids : Known(entry))'
    BY <2>1 DEF OpInv, InHandOK, Known
  <2>4. op'.pc = "walk" => (op.stack \in Seq(Range(op.stack)) /\ \A i \in DOMAIN op.stack : Known(op.stack[i]))'
    <3>1. SUFFICES ASSUME NEW meta, op'.stack = <<Entry(op.at, meta)>>
                   PROVE  (op.stack \in Seq(Range(op.stack)) /\ \A i \in DOMAIN op.stack : Known(op.stack[i]))'
      BY <2>1
    <3>3. /\ op'.stack \in Seq({Entry(op.at, meta)}) /\ DOMAIN op'.stack = {1}
          /\ op'.stack[1] = Entry(op.at, meta)
      BY <3>1
    <3>4. op'.stack \in Seq(Range(op'.stack))
      BY <3>3, SeqOfRange
    <3>5. \A i \in DOMAIN op'.stack : op'.stack[i] = Entry(op.at, meta)
      BY <3>3
    <3>6. \A e : e = Entry(op.at, meta) => Known(e)'
      BY <1>2, <1>3, <2>1 DEF Known, Entry
    <3> HIDE DEF Known
    <3>7. (\A i \in DOMAIN op.stack : Known(op.stack[i]))'
      BY <3>5, <3>6
    <3> QED BY <3>4, <3>7
  <2>5. InHandOK'
    BY <1>3, <2>1, <2>3, <2>4 DEF InHandOK
  <2> QED BY <1>1, <2>1, <2>2, <2>5, StepKeeps
<1> QED BY <1>4, <1>5, <1>6

-----------------------------------------------------------------------------
(* What the stack holds, after its top is taken and with a listing on top.  *)
Stacked(s) == s \in Seq(Range(s)) /\ \A i \in DOMAIN s : Known(s[i])

(* Directories that are known make a stack that is.                         *)
LEMMA StackedOf ==
  ASSUME NEW S, NEW s \in Seq(S), \A e \in S : Known(e)
  PROVE  Stacked(s)
BY SeqOfRange DEF Stacked

(* The top of a stack is known, and so is the rest of it.                   *)
LEMMA StackIs ==
  ASSUME NEW s, Stacked(s)
  PROVE  /\ s \in Seq({e \in Range(s) : Known(e)})
         /\ s # <<>> => Known(Last(s)) /\ Stacked(Front(s))
<1>1. s \in Seq({e \in Range(s) : Known(e)})
  <2>1. \A i \in 1..Len(s) : s[i] \in {e \in Range(s) : Known(e)}
    BY DEF Stacked, Range
  <2> QED BY <2>1 DEF Stacked
<1>2. ASSUME s # <<>> PROVE Known(Last(s)) /\ Stacked(Front(s))
  <2>1. Len(s) \in Nat /\ Len(s) > 0 /\ DOMAIN s = 1..Len(s)
    BY <1>1, <1>2, EmptySeq, LenProperties
  <2>2. Known(s[Len(s)])
    BY <2>1 DEF Stacked
  <2>3. SubSeq(s, 1, Len(s) - 1) \in Seq({e \in Range(s) : Known(e)})
    BY <1>1, <2>1, SubSeqProperties
  <2>4. \A e \in {x \in Range(s) : Known(x)} : Known(e)
    OBVIOUS
  <2>5. Stacked(SubSeq(s, 1, Len(s) - 1))
    BY <2>3, <2>4, StackedOf
  <2> QED BY <2>2, <2>5 DEF Last, Front
<1> QED BY <1>1, <1>2

(* Known directories may be put on a stack.                                 *)
LEMMA StackedOn ==
  ASSUME NEW s, Stacked(s), NEW S, NEW t \in Seq(S), \A e \in S : Known(e)
  PROVE  Stacked(s \o t)
<1> DEFINE R == {e \in Range(s) : Known(e)} \cup S
<1>1. s \in Seq({e \in Range(s) : Known(e)})
  BY StackIs
<1>2. s \in Seq(R) /\ t \in Seq(R)
  BY <1>1
<1>3. s \o t \in Seq(R)
  BY <1>2, ConcatProperties
<1>4. \A e \in R : Known(e)
  OBVIOUS
<1> QED BY <1>3, <1>4, StackedOf

(* The next directory of a walk.                                            *)
LEMMA PopOK ==
  ASSUME OpInv, Pop
  PROVE  OpInv'
<1> DEFINE e == Last(op.stack)
           c == [op EXCEPT !.stack = Front(@), !.entry = e, !.visited = @ + 1]
<1>1. op.pc = "walk" /\ op.stack # <<>> /\ tree' = tree
  BY DEF Pop
<1>2. Known(e) /\ Stacked(Front(op.stack))
  BY <1>1, StackIs DEF OpInv, InHandOK, Stacked
<1>3. \/ op' = [c EXCEPT !.stopped = TRUE, !.stack = <<>>]
      \/ /\ IsDir(e.meta)
         /\ op' = [c EXCEPT !.pc = "list", !.names = NamesIn(tree, e.path), !.kids = {}]
      \/ \E n : op' = [c EXCEPT !.pc = "visit", !.unreadable = n]
      \/ op' = [c EXCEPT !.pc = "visit"]
  BY DEF Pop
<1> HIDE DEF e
<1>4. CASE op' = [c EXCEPT !.stopped = TRUE, !.stack = <<>>]
  BY <1>1, <1>4, WalkKeeps DEF OpInv, OpFields
<1>5. CASE \/ /\ IsDir(e.meta)
              /\ op' = [c EXCEPT !.pc = "list", !.names = NamesIn(tree, e.path), !.kids = {}]
           \/ \E n : op' = [c EXCEPT !.pc = "visit", !.unreadable = n]
           \/ op' = [c EXCEPT !.pc = "visit"]
  <2> DEFINE Same == /\ op'.at = op.at /\ op'.changed = op.changed /\ op'.taken = op.taken
                     /\ op'.cleared = op.cleared /\ op'.entry = e /\ op'.stack = Front(op.stack)
                     /\ op' = [field \in OpFields |-> op'[field]]
             Lists == op'.pc = "list" /\ IsDir(e.meta) /\ op'.names = NamesIn(tree, e.path) /\ op'.kids = {}
             Visits == op'.pc = "visit" /\ op'.kids = op.kids
  <2>0. Same /\ (Lists \/ Visits)
    <3>1. CASE /\ IsDir(e.meta)
               /\ op' = [c EXCEPT !.pc = "list", !.names = NamesIn(tree, e.path), !.kids = {}]
      <4>1. Same /\ Lists
        BY <3>1 DEF OpInv, OpFields
      <4> QED BY <4>1
    <3>2. ASSUME NEW n, op' = [c EXCEPT !.pc = "visit", !.unreadable = n]
          PROVE  Same /\ Visits
      BY <3>2 DEF OpInv, OpFields
    <3>3. CASE op' = [c EXCEPT !.pc = "visit"]
      <4>1. Same /\ Visits
        BY <3>3 DEF OpInv, OpFields
      <4> QED BY <4>1
    <3> QED BY <1>5, <3>1, <3>2, <3>3
  <2>1. Same
    BY <2>0
  <2>2. Lists \/ Visits
    BY <2>0
  <2>3. \A entry : Known(entry) => Known(entry)'
    BY <2>1 DEF Known
  <2>4. IsFiniteSet(op.kids)' /\ (\A entry \in op.kids : Known(entry))'
    BY <2>2, <2>3, FS_EmptySet DEF OpInv, InHandOK
  <2>5. Known(op.entry)'
    BY <1>2, <2>1, <2>3
  <2>6. (op.stack \in Seq(Range(op.stack)) /\ \A i \in DOMAIN op.stack : Known(op.stack[i]))'
    BY <1>2, <2>1, <2>3 DEF Stacked
  <2>7. op'.pc = "list" => op'.entry.path \in op'.cleared /\ op'.names \subseteq Kids(op'.entry.path)
    <3>1. NamesIn(tree, e.path) \subseteq Kids(e.path)
      BY DEF NamesIn
    <3>2. IsDir(e.meta) => e.path \in op.cleared
      BY <1>2 DEF Known, IsDir
    <3> QED BY <2>1, <2>2, <3>1, <3>2
  <2>8. ClearedOK'
    BY <1>1, <2>1 DEF OpInv, ClearedOK, Blamed
  <2>9. InHandOK'
    BY <2>2, <2>4, <2>5, <2>6, <2>7 DEF InHandOK
  <2> QED BY <1>1, <2>1, <2>2, <2>8, <2>9, StepKeeps
<1> QED BY <1>3, <1>4, <1>5

(* A directory's entries are listed below it.                               *)
LEMMA ListingOK ==
  ASSUME OpInv, Listing
  PROVE  OpInv'
<1>1. op.pc = "list" /\ tree' = tree
  BY DEF Listing
<1>2. PICK listed \in InOrder(op.kids) :
        op' = [op EXCEPT !.pc = "visit", !.stack = @ \o listed, !.kids = {}]
  BY DEF Listing
<1>3. listed \in Seq(op.kids)
  <2>1. IsFiniteSet(op.kids)
    BY DEF OpInv, InHandOK
  <2>2. Cardinality(op.kids) \in Nat
    BY <2>1, FS_CardinalityType
  <2> QED BY <2>2 DEF InOrder
<1>4. Stacked(op.stack \o listed)
  <2>1. Stacked(op.stack) /\ \A entry \in op.kids : Known(entry)
    BY <1>1 DEF OpInv, InHandOK, Stacked
  <2> QED BY <1>3, <2>1, StackedOn
<1>5. /\ op'.pc = "visit" /\ op'.at = op.at /\ op'.changed = op.changed /\ op'.taken = op.taken
      /\ op'.cleared = op.cleared /\ op'.entry = op.entry /\ op'.stack = op.stack \o listed
      /\ op'.kids = {} /\ op' = [field \in OpFields |-> op'[field]]
  BY <1>2 DEF OpInv, OpFields
<1>6. \A entry : Known(entry) => Known(entry)'
  BY <1>5 DEF Known
<1>7. (op.stack \in Seq(Range(op.stack)) /\ \A i \in DOMAIN op.stack : Known(op.stack[i]))'
  BY <1>4, <1>5, <1>6 DEF Stacked
<1>8. Known(op.entry)' /\ IsFiniteSet(op.kids)' /\ (\A entry \in op.kids : Known(entry))'
  BY <1>1, <1>5, <1>6, FS_EmptySet DEF OpInv, InHandOK
<1>9. ClearedOK'
  BY <1>1, <1>5 DEF OpInv, ClearedOK, Blamed
<1>10. InHandOK'
  BY <1>5, <1>7, <1>8 DEF InHandOK
<1> QED BY <1>1, <1>5, <1>9, <1>10, StepKeeps

(* An entry is looked at before anything is read of it.                     *)
LEMMA StatOK ==
  ASSUME OpInv, Stat
  PROVE  OpInv'
<1>1. op.pc = "list" /\ tree' = tree
  BY DEF Stat
<1>2. PICK path \in op.names :
        LET seen == Seen(path)
            c == [op EXCEPT !.names = @ \ {path}]
        IN  \/ op' = [op EXCEPT !.pc = "done", !.status = "timeout"]
            \/ op' = [op EXCEPT !.stopped = TRUE, !.names = {}]
            \/ op' = [c EXCEPT !.unreadable = @ + 1]
            \/ seen = "link" /\ op' = [c EXCEPT !.kids = @ \cup {Entry(path, seen)}, !.symlinks = @ + 1]
            \/ /\ seen \notin {"link", "absent"}
               /\ op' = [c EXCEPT !.kids = @ \cup {Entry(path, seen)}, !.cleared = @ \cup {path}]
  BY DEF Stat
<1> DEFINE seen == Seen(path)
           c == [op EXCEPT !.names = @ \ {path}]
           Same == /\ op'.pc = "list" /\ op'.at = op.at /\ op'.changed = op.changed
                   /\ op'.taken = op.taken /\ op'.entry = op.entry /\ op'.stack = op.stack
                   /\ op'.names \subseteq op.names /\ op' = [field \in OpFields |-> op'[field]]
           Takes == op'.kids = op.kids \cup {Entry(path, seen)}
<1> HIDE DEF seen
<1>3. CASE op' = [op EXCEPT !.pc = "done", !.status = "timeout"]
  BY <1>1, <1>3, WalkKeeps DEF OpInv, OpFields
<1>4. ASSUME Same,
             \/ op'.kids = op.kids /\ op'.cleared = op.cleared
             \/ Takes /\ seen = "link" /\ op'.cleared = op.cleared
             \/ Takes /\ seen \notin {"link", "absent"} /\ op'.cleared = op.cleared \cup {path}
      PROVE  OpInv'
  <2>1. op.names \subseteq Kids(op.entry.path) /\ op.entry.path \in op.cleared
    BY <1>1 DEF OpInv, InHandOK
  <2>2. path \in Paths /\ Parent(path) = op.entry.path
    BY <2>1 DEF Kids
  <2>3. Ancestors(path) \subseteq op.cleared
    <3>1. Ancestors(op.entry.path) \subseteq op.cleared
      BY <2>1 DEF OpInv, ClearedOK
    <3> QED BY <2>1, <2>2, <3>1, AncestorsOfKid
  <2>4. ClearedOK'
    <3>1. CASE op'.cleared = op.cleared
      BY <1>1, <1>4, <3>1 DEF OpInv, ClearedOK, Blamed
    <3>2. CASE seen \notin {"link", "absent"} /\ op'.cleared = op.cleared \cup {path}
      <4>1. Lstat(tree, path) \notin {"link", "absent"}
        BY <3>2 DEF seen, Seen
      <4> QED BY <1>1, <1>4, <2>2, <2>3, <3>2, <4>1, ClearedGrows, PathsAre
    <3> QED BY <1>4, <3>1, <3>2
  <2>5. op.cleared \subseteq op'.cleared
    BY <1>4
  <2>6. \A entry : Known(entry) => Known(entry)'
    BY <2>5 DEF Known
  <2>7. IsFiniteSet(op.kids) /\ \A entry \in op.kids : Known(entry)
    BY DEF OpInv, InHandOK
  <2>8. IsFiniteSet(op'.kids)
    BY <1>4, <2>7, FS_AddElement
  <2>9. (\A entry \in op.kids : Known(entry))'
    <3>1. CASE op'.kids = op.kids
      BY <2>6, <2>7, <3>1
    <3>2. CASE Takes /\ (seen # "link" => path \in op'.cleared)
      <4>1. Entry(path, seen).path = path /\ Entry(path, seen).meta = seen
        BY DEF Entry
      <4>2. \A entry : entry = Entry(path, seen) => Known(entry)'
        BY <2>2, <3>2, <4>1, PathsAre DEF Known
      <4> HIDE DEF Known
      <4> QED BY <2>6, <2>7, <3>2, <4>2
    <3> QED BY <1>4, <3>1, <3>2
  <2>10. (op.stack \in Seq(Range(op.stack)) /\ \A i \in DOMAIN op.stack : Known(op.stack[i]))'
    BY <1>1, <1>4, <2>6 DEF OpInv, InHandOK
  <2>11. Known(op.entry)' /\ op'.entry.path \in op'.cleared /\ op'.names \subseteq Kids(op'.entry.path)
    BY <1>1, <1>4, <2>1, <2>5, <2>6 DEF OpInv, InHandOK
  <2>12. InHandOK'
    BY <1>4, <2>8, <2>9, <2>10, <2>11 DEF InHandOK
  <2> QED BY <1>1, <1>4, <2>4, <2>5, <2>12, StepKeeps
<1>5. CASE op' = [op EXCEPT !.stopped = TRUE, !.names = {}]
  <2>1. Same /\ op'.kids = op.kids /\ op'.cleared = op.cleared
    BY <1>1, <1>5 DEF OpInv, OpFields
  <2> QED BY <1>4, <2>1
<1>6. CASE op' = [c EXCEPT !.unreadable = @ + 1]
  <2>1. Same /\ op'.kids = op.kids /\ op'.cleared = op.cleared
    BY <1>1, <1>6 DEF OpInv, OpFields
  <2> QED BY <1>4, <2>1
<1>7. CASE /\ seen = "link"
           /\ op' = [c EXCEPT !.kids = @ \cup {Entry(path, seen)}, !.symlinks = @ + 1]
  <2>1. Same /\ Takes /\ op'.cleared = op.cleared
    BY <1>1, <1>7 DEF OpInv, OpFields
  <2> QED BY <1>4, <1>7, <2>1
<1>8. CASE /\ seen \notin {"link", "absent"}
           /\ op' = [c EXCEPT !.kids = @ \cup {Entry(path, seen)}, !.cleared = @ \cup {path}]
  <2>1. Same /\ Takes /\ op'.cleared = op.cleared \cup {path}
    BY <1>1, <1>8 DEF OpInv, OpFields
  <2> QED BY <1>4, <1>8, <2>1
<1> QED BY <1>2, <1>3, <1>5, <1>6, <1>7, <1>8 DEF seen

-----------------------------------------------------------------------------
\* An operation that begins.
OpBegins ==
  /\ tree \in Trees
  /\ \E at \in Places, does \in Operations : \E depth :
       /\ does = "facts" => at = <<>>
       /\ does = "list" => depth \in Nat
       /\ op = Op(does, at, depth, tree)

(* Nothing was looked at, and nothing taken.                                *)
LEMMA OpBeginsOK == OpBegins => OpInv
<1> SUFFICES ASSUME OpBegins PROVE OpInv
  OBVIOUS
<1>1. tree \in [Paths -> Nodes]
  BY WorkspaceAssumption DEF OpBegins
<1>2a. PICK at \in Places, does \in Operations : \E depth : op = Op(does, at, depth, tree)
  BY DEF OpBegins
<1>2. PICK depth : op = Op(does, at, depth, tree)
  BY <1>2a
<1>3. /\ op.pc = "resolve" /\ op.at = at /\ op.entry = <<>> /\ op.kids = {} /\ op.cleared = {<<>>}
      /\ op.taken = {} /\ op = [field \in OpFields |-> op[field]]
  BY <1>2 DEF Op, OpFields
<1>4. at \in Seq(Range(Names)) /\ Len(at) \in Nat
  BY PathsAre
<1>5. Ancestors(<<>>) = {}
  BY DEF Ancestors
<1>6. ClearedOK
  BY <1>3, <1>5, PathsAre DEF ClearedOK, NodeOf
<1>7. SubSeq(at, 1, 0) = <<>>
  <2>1. SubSeq(at, 1, 0) \in Seq(Range(Names)) /\ Len(SubSeq(at, 1, 0)) = 0
    BY <1>4, PrefixIs
  <2> QED BY <2>1, EmptySeq
<1>8. InHandOK
  BY <1>3, <1>4, <1>7, FS_EmptySet DEF InHandOK
<1> QED BY <1>1, <1>2, <1>3, <1>6, <1>8 DEF OpInv

(* So is it after a step that begins one.                                   *)
LEMMA OpBeginsNext == OpBegins' => OpInv'
BY OpBeginsOK, PTL

(* What a step makes of an operation, alone or in a turn.                   *)
LEMMA OpSteps ==
  ASSUME OpInv, WorkspaceNext
  PROVE  OpInv'
BY LookAtOK, ResolvedOK, ReadOK, PopOK, StatOK, ListingOK, VisitOK, WalkEndsOK, LateOK, ChangeOK
   DEF WorkspaceNext

(* It depends on the tree and the operation alone.                          *)
LEMMA OpStays ==
  ASSUME OpInv, UNCHANGED <<tree, op>>
  PROVE  OpInv'
BY DEF OpInv, ClearedOK, Blamed, InHandOK, Known

(* An operation on its own begins like one in a turn.                       *)
LEMMA InitBegins == WorkspaceInit => OpBegins
<1> SUFFICES ASSUME WorkspaceInit PROVE OpBegins
  OBVIOUS
<1>1. PICK does \in Operations, at \in Paths \cup {<<>>}, depth \in 0..LIST_MAX_DEPTH :
        /\ does = "facts" => at = <<>>
        /\ op = Op(does, at, depth, tree)
  BY DEF WorkspaceInit
<1>2. at \in Places /\ depth \in Nat
  BY PathsAre
<1> QED BY <1>1, <1>2 DEF WorkspaceInit, OpBegins

(* OpInv is inductive.                                                       *)
THEOREM WorkspaceInductive == WorkspaceSpec => []OpInv
<1>1. WorkspaceInit => OpBegins
  BY InitBegins
<1>2. OpInv /\ [WorkspaceNext]_<<tree, op>> => OpInv'
  BY OpSteps, OpStays
<1> QED BY OpBeginsOK, <1>1, <1>2, PTL DEF WorkspaceSpec

(* Whatever the tree, the limits and the changes made under an operation,   *)
(* what it takes from outside the workspace it takes through a path that     *)
(* became a link after it was looked at (builtin.rs:18-24, INV-30).          *)
THEOREM LinksAreNotFollowedHolds == WorkspaceSpec => []LinksAreNotFollowed
<1>1. OpInv => LinksAreNotFollowed
  BY DEF OpInv, Blamed, LinksAreNotFollowed
<1> QED BY <1>1, WorkspaceInductive, PTL

-----------------------------------------------------------------------------
(***************************************************************************)
(* What a walk accounts for.  First the paths: what is above one, and what  *)
(* is known of it while nobody changed it.                                  *)
(***************************************************************************)
\* `a` is on the way down to `p`, the root included.
Above(a, p) == \E n \in 0..Len(p) - 1 : a = SubSeq(p, 1, n)

(* What is above a path is shorter, and is the root or an ancestor.         *)
LEMMA AboveIs ==
  ASSUME NEW p \in Places, NEW a, Above(a, p)
  PROVE  /\ a \in Places /\ Len(a) \in Nat /\ Len(a) < Len(p) /\ a # p
         /\ a = SubSeq(p, 1, Len(a))
         /\ a = <<>> \/ a \in Ancestors(p)
<1>1. p \in Seq(Range(Names)) /\ Len(p) \in Nat
  BY PathsAre
<1>2. PICK n \in 0..Len(p) - 1 : a = SubSeq(p, 1, n)
  BY DEF Above
<1>3. n \in Nat /\ n < Len(p) /\ n \in 0..Len(p)
  BY <1>1, <1>2
<1>4. a \in Seq(Range(Names)) /\ Len(a) = n
  BY <1>1, <1>2, <1>3, PrefixIs
<1>5. CASE n = 0
  BY <1>2, <1>3, <1>4, <1>5, EmptySeq DEF Places
<1>6. CASE n \in 1..Len(p) - 1
  BY <1>2, <1>3, <1>4, <1>6 DEF Places, Ancestors
<1> QED BY <1>1, <1>2, <1>5, <1>6

(* A prefix of a path that is shorter is above it.                          *)
LEMMA ShorterIsAbove ==
  ASSUME NEW p \in Places, NEW n \in Nat, n < Len(p)
  PROVE  Above(SubSeq(p, 1, n), p)
<1>1. n \in 0..Len(p) - 1
  BY PathsAre
<1> QED BY <1>1 DEF Above

(* What is above something above a path is above the path.                  *)
LEMMA AboveFurther ==
  ASSUME NEW p \in Places, NEW a, NEW b, Above(a, b), Above(b, p)
  PROVE  Above(a, p)
<1>1. p \in Seq(Range(Names)) /\ Len(p) \in Nat
  BY PathsAre
<1>2. b \in Places /\ Len(b) \in Nat /\ Len(b) < Len(p) /\ b = SubSeq(p, 1, Len(b))
  BY AboveIs
<1>3. PICK n \in 0..Len(b) - 1 : a = SubSeq(b, 1, n)
  BY DEF Above
<1>4. Len(b) \in 0..Len(p) /\ n \in 0..Len(b) /\ n \in 0..Len(p) - 1
  BY <1>1, <1>2, <1>3
<1>5. PICK m \in Nat : m = Len(b)
  BY <1>2
<1>6. SubSeq(SubSeq(p, 1, m), 1, n) = SubSeq(p, 1, n)
  BY <1>1, <1>4, <1>5, PrefixOfPrefix
<1> QED BY <1>2, <1>3, <1>4, <1>5, <1>6 DEF Above

(* An entry of a directory has the directory right above it.                *)
LEMMA KidIs ==
  ASSUME NEW p \in Paths
  PROVE  /\ Parent(p) \in Places /\ Len(Parent(p)) \in Nat /\ Len(p) = Len(Parent(p)) + 1
         /\ Above(Parent(p), p)
         /\ \A a : Above(a, p) => a = Parent(p) \/ Above(a, Parent(p))
<1>1. p \in Places /\ p \in Seq(Range(Names)) /\ Len(p) \in Nat /\ Len(p) > 0
  BY PathsAre
<1>2. PICK n \in Nat : Len(p) = n + 1
  <2>1. Len(p) - 1 \in Nat /\ Len(p) = (Len(p) - 1) + 1
    BY <1>1
  <2> QED BY <2>1
<1>3. Parent(p) = SubSeq(p, 1, n)
  BY <1>2 DEF Parent, Front
<1>4. n \in 0..Len(p) /\ n \in 0..Len(p) - 1
  BY ONLY <1>2
<1>5. Len(SubSeq(p, 1, n)) = n /\ SubSeq(p, 1, n) \in Places
  BY <1>1, <1>4, PrefixIs DEF Places
<1>6. ASSUME NEW a, Above(a, p) PROVE a = SubSeq(p, 1, n) \/ Above(a, SubSeq(p, 1, n))
  <2>1. PICK m \in 0..Len(p) - 1 : a = SubSeq(p, 1, m)
    BY <1>6 DEF Above
  <2>2. CASE m = n
    BY <2>1, <2>2
  <2>3. CASE m # n
    <3>1. m \in 0..n /\ m \in 0..n - 1
      BY <1>2, <2>1, <2>3
    <3>2. SubSeq(SubSeq(p, 1, n), 1, m) = SubSeq(p, 1, m)
      BY <1>1, <1>4, <3>1, PrefixOfPrefix
    <3>3. \E k \in 0..Len(SubSeq(p, 1, n)) - 1 : a = SubSeq(SubSeq(p, 1, n), 1, k)
      BY <1>5, <2>1, <3>1, <3>2
    <3> QED BY <3>3 DEF Above
  <2> QED BY <2>2, <2>3
<1> QED BY <1>2, <1>3, <1>4, <1>5, <1>6 DEF Above

(* Below a directory a path goes on with one of the directory's entries.    *)
LEMMA StepDown ==
  ASSUME NEW p \in Paths, NEW h, Above(h, p)
  PROVE  \E c \in Kids(h) : c \in Paths /\ (c = p \/ Above(c, p))
<1>1. p \in Places /\ p \in Seq(Range(Names)) /\ Len(p) \in Nat
  BY PathsAre
<1>2. h \in Places /\ Len(h) \in Nat /\ Len(h) < Len(p) /\ h = SubSeq(p, 1, Len(h))
  BY <1>1, AboveIs
<1>3. PICK n : n = Len(h)
  OBVIOUS
<1>3a. n \in Nat /\ n < Len(p) /\ Len(p) \in Nat
  BY ONLY <1>1, <1>2, <1>3
<1>4. n + 1 \in 0..Len(p) /\ n \in 0..n + 1 /\ n + 1 \in Nat
  BY ONLY <1>3a
<1>5. PICK c : c = SubSeq(p, 1, n + 1)
  OBVIOUS
<1>6. Len(c) = n + 1 /\ c \in Seq(Range(Names))
  BY <1>1, <1>4, <1>5, PrefixIs
<1>7. Parent(c) = h
  <2>1. Parent(c) = SubSeq(c, 1, n)
    BY <1>3, <1>6 DEF Parent, Front
  <2>2. SubSeq(c, 1, n) = SubSeq(p, 1, n)
    BY <1>1, <1>4, <1>5, PrefixOfPrefix
  <2> QED BY <1>2, <1>3, <2>1, <2>2
<1>8. CASE n + 1 = Len(p)
  <2>1. c = p
    BY <1>1, <1>5, <1>8, SubSeqFull
  <2> QED BY <1>7, <2>1 DEF Kids
<1>9. CASE n + 1 < Len(p)
  <2>1. Above(c, p)
    BY <1>1, <1>4, <1>5, <1>9, ShorterIsAbove
  <2>2. c # <<>>
    BY <1>4, <1>6, EmptySeq
  <2>3. c \in Paths
    BY <1>1, <2>1, <2>2, AboveIs, WorkspaceAssumption
  <2> QED BY <1>7, <2>1, <2>3 DEF Kids
<1> QED BY <1>1, <1>4, <1>8, <1>9

(* A path that starts with another, longer, has it above.                   *)
LEMMA PrefixIsAbove ==
  ASSUME NEW p \in Places, NEW a \in Places
  PROVE  IsStrictPrefix(a, p) <=> Above(a, p)
<1>1. p \in Seq(Range(Names)) /\ Len(p) \in Nat /\ a \in Seq(Range(Names)) /\ Len(a) \in Nat
  BY PathsAre
<1>2. SubSeq(a, 1, Len(a)) = a /\ SubSeq(p, 1, Len(p)) = p
  BY <1>1, SubSeqFull
<1>3. ASSUME IsStrictPrefix(a, p) PROVE Above(a, p)
  <2>1. Len(a) <= Len(p) /\ a = SubSeq(p, 1, Len(a)) /\ a # p
    BY <1>2, <1>3 DEF IsStrictPrefix, IsPrefix
  <2>2. Len(a) # Len(p)
    BY <1>2, <2>1
  <2>3. Len(a) < Len(p)
    BY ONLY <1>1, <2>1, <2>2
  <2>4. Above(SubSeq(p, 1, Len(a)), p)
    BY <1>1, <2>3, ShorterIsAbove
  <2> QED BY <2>1, <2>4
<1>4. ASSUME Above(a, p) PROVE IsStrictPrefix(a, p)
  <2>1. Len(a) < Len(p) /\ a # p /\ a = SubSeq(p, 1, Len(a))
    BY <1>4, AboveIs
  <2> QED BY <1>1, <1>2, <2>1 DEF IsStrictPrefix, IsPrefix
<1> QED BY <1>3, <1>4

(* A path lies no deeper than there are paths.                              *)
LEMMA DepthIsBounded ==
  ASSUME NEW p \in Paths
  PROVE  Len(p) <= Cardinality(Paths) /\ Cardinality(Paths) \in Nat
<1>1. p \in Places /\ p \in Seq(Range(Names)) /\ Len(p) \in Nat
  BY PathsAre
<1>2. PICK n \in Nat : n = Len(p)
  BY <1>1
<1> DEFINE f == [m \in 1..n |-> SubSeq(p, 1, m)]
<1>3. ASSUME NEW m \in 1..n PROVE SubSeq(p, 1, m) \in Paths /\ Len(SubSeq(p, 1, m)) = m
  <2>1. m \in 0..Len(p) /\ m \in Nat /\ m > 0
    BY <1>2
  <2>2. Len(SubSeq(p, 1, m)) = m
    BY <1>1, <2>1, PrefixIs
  <2>3. CASE m = n
    <3>1. SubSeq(p, 1, m) = p
      BY <1>1, <1>2, <2>3, SubSeqFull
    <3> QED BY <2>2, <3>1
  <2>4. CASE m # n
    <3>1. m < Len(p)
      BY <1>2, <2>4
    <3>2. Above(SubSeq(p, 1, m), p)
      BY <1>1, <2>1, <3>1, ShorterIsAbove
    <3>3. SubSeq(p, 1, m) # <<>>
      BY <2>1, <2>2, EmptySeq
    <3>4. SubSeq(p, 1, m) \in Ancestors(p)
      BY <1>1, <3>2, <3>3, AboveIs
    <3> QED BY <2>2, <3>4, WorkspaceAssumption
  <2> QED BY <2>3, <2>4
<1>4. f \in [1..n -> Paths] /\ \A i, j \in 1..n : f[i] = f[j] => i = j
  BY <1>3
<1> HIDE DEF f
<1>5. f \in Injection(1..n, Paths)
  BY <1>4 DEF Injection, IsInjective
<1>6. IsFiniteSet(Paths)
  BY WorkspaceAssumption
<1>7. Cardinality(1..n) <= Cardinality(Paths)
  BY <1>5, <1>6, FS_Injection
<1>8. Cardinality(1..n) = n
  BY FS_Interval
<1>9. Cardinality(Paths) \in Nat
  BY <1>6, FS_CardinalityType
<1> QED BY <1>2, <1>7, <1>8, <1>9

-----------------------------------------------------------------------------
\* The base is the tree, but for what changed since.
TreeKept ==
  /\ op.base \in [Paths -> Nodes] /\ op.changed \subseteq Paths
  /\ \A p \in Paths \ op.changed : tree[p] = op.base[p]

(* What is above a path that nobody touched was not touched.                *)
LEMMA StableAbove ==
  ASSUME op.changed \subseteq Paths, NEW p \in Places, Stable(p), NEW a, Above(a, p)
  PROVE  Stable(a)
<1>1. a = <<>> \/ a \in Ancestors(p)
  BY AboveIs
<1>2. CASE a = <<>>
  <2>1. Ancestors(<<>>) = {}
    BY DEF Ancestors
  <2> QED BY <1>2, <2>1, PathsAre DEF Stable
<1>3. CASE a \in Ancestors(p)
  <2>1. Ancestors(a) \subseteq Ancestors(p)
    BY <1>3, AncestorsAreClosed
  <2> QED BY <1>3, <2>1 DEF Stable
<1> QED BY <1>1, <1>2, <1>3

(* What there was, and what was above it.                                   *)
LEMMA ThereIs ==
  ASSUME NEW p \in Places, There(p)
  PROVE  /\ Lstat(op.base, p) = NodeOf(op.base, p) /\ NodeOf(op.base, p) # "absent"
         /\ \A a \in Ancestors(p) : IsDir(NodeOf(op.base, a))
         /\ \A a : Above(a, p) => There(a) /\ IsDir(NodeOf(op.base, a))
<1>1. Lstat(op.base, p) # "absent" /\ ~Leaves(op.base, p)
  BY DEF There
<1>2. Lstat(op.base, p) = NodeOf(op.base, p) /\ \A a \in Ancestors(p) : IsDir(NodeOf(op.base, a))
  BY <1>1 DEF Lstat
<1>3. ASSUME NEW a, Above(a, p)
      PROVE  There(a) /\ IsDir(NodeOf(op.base, a))
  <2>1. a = <<>> \/ a \in Ancestors(p)
    BY <1>3, AboveIs
  <2>2. IsDir(NodeOf(op.base, a))
    BY <1>2, <2>1 DEF NodeOf, IsDir
  <2>3. Ancestors(a) \subseteq Ancestors(p)
    <3>1. Ancestors(<<>>) = {}
      BY DEF Ancestors
    <3> QED BY <2>1, <3>1, AncestorsAreClosed
  <2>4. ~Leaves(op.base, a)
    BY <1>1, <2>3 DEF Leaves
  <2>5. Lstat(op.base, a) = NodeOf(op.base, a)
    BY <1>2, <2>3, <2>4 DEF Lstat
  <2> QED BY <2>2, <2>4, <2>5 DEF There, IsDir
<1> QED BY <1>1, <1>2, <1>3

(* What nobody touched is seen as it was.                                   *)
LEMMA StableSees ==
  ASSUME TreeKept, NEW p \in Places, Stable(p)
  PROVE  /\ NodeOf(tree, p) = NodeOf(op.base, p) /\ Leaves(tree, p) = Leaves(op.base, p)
         /\ Lstat(tree, p) = Lstat(op.base, p) /\ Opened(tree, p) = Opened(op.base, p)
         /\ IsOutside(tree, p) = IsOutside(op.base, p)
<1>1. \A a \in {p} \cup Ancestors(p) : NodeOf(tree, a) = NodeOf(op.base, a)
  BY DEF Stable, TreeKept, NodeOf
<1>2. Leaves(tree, p) = Leaves(op.base, p)
  BY <1>1 DEF Leaves
<1>3. Lstat(tree, p) = Lstat(op.base, p)
  BY <1>1, <1>2 DEF Lstat
<1>4. IsOutside(tree, p) = IsOutside(op.base, p)
  BY <1>1, <1>2 DEF IsOutside
<1> QED BY <1>1, <1>2, <1>3, <1>4 DEF Opened

(* What nobody touched and was there is read as it was.                     *)
LEMMA StableReads ==
  ASSUME TreeKept, NEW p \in Places, Stable(p), There(p), NodeOf(op.base, p) # "link"
  PROVE  Opened(tree, p) = NodeOf(op.base, p) /\ ~IsOutside(tree, p)
<1>1. ~IsOutside(op.base, p)
  BY DEF There, IsOutside
<1>2. Opened(op.base, p) = NodeOf(op.base, p)
  BY <1>1, ThereIs DEF Opened
<1> QED BY <1>1, <1>2, StableSees

-----------------------------------------------------------------------------
\* Two entries that a walk comes to one after the other.
Before(a, b) ==
  /\ a # b
  /\ a \in Paths /\ b \in Paths /\ Parent(a) = Parent(b) => ByName(a, b)

(* Names are in one order.                                                  *)
LEMMA OneOrder ==
  ASSUME NEW a \in Paths, NEW b \in Paths, ByName(a, b)
  PROVE  ~ByName(b, a) /\ a # b
<1>1. ASSUME NEW p \in Paths PROVE Position(Last(p)) \in Nat
  <2>1. p \in Seq(Range(Names)) /\ Len(p) \in Nat /\ Len(p) > 0
    BY <1>1, PathsAre
  <2>2. Last(p) \in Range(Names)
    BY <2>1, ElementOfSeq DEF Last
  <2>3. \E i \in DOMAIN Names : Names[i] = Last(p)
    BY <2>2 DEF Range
  <2>4. Position(Last(p)) \in DOMAIN Names
    BY <2>3 DEF Position
  <2>5. DOMAIN Names \subseteq Nat
    BY WorkspaceAssumption, LenProperties
  <2> QED BY <2>4, <2>5
<1>2. Position(Last(a)) \in Nat /\ Position(Last(b)) \in Nat
  BY <1>1
<1> QED BY <1>2 DEF ByName

(* A listing is put on the stack whole, in reverse name order.              *)
LEMMA ListingIs ==
  ASSUME NEW kids, IsFiniteSet(kids), \A kid \in kids : kid.path \in Paths, NEW listed \in InOrder(kids)
  PROVE  /\ listed \in Seq(kids) /\ Len(listed) = Cardinality(kids) /\ Cardinality(kids) \in Nat
         /\ \A kid \in kids : \E i \in DOMAIN listed : listed[i] = kid
         /\ \A i, j \in DOMAIN listed : i < j => ByName(listed[j].path, listed[i].path)
<1>1. PICK n \in Nat : n = Cardinality(kids)
  BY FS_CardinalityType
<1>2. listed \in [1..n -> kids] /\ \A i, j \in 1..n : i < j => ByName(listed[j].path, listed[i].path)
  BY <1>1 DEF InOrder
<1>3. ASSUME NEW i \in 1..n, NEW j \in 1..n, listed[i] = listed[j], i # j
      PROVE  FALSE
  <2>1. listed[i] \in kids /\ listed[i].path \in Paths
    BY <1>2
  <2>2. ByName(listed[i].path, listed[i].path)
    <3>1. i < j \/ j < i
      BY <1>3
    <3> QED BY <1>2, <1>3, <3>1
  <2> QED BY <2>1, <2>2, OneOrder
<1>4. listed \in Injection(1..n, kids)
  BY <1>2, <1>3 DEF Injection, IsInjective
<1>5. Cardinality(1..n) = Cardinality(kids)
  BY <1>1, FS_Interval
<1>6. listed \in Surjection(1..n, kids)
  BY <1>4, <1>5, FS_Injection
<1>7. \A kid \in kids : \E i \in 1..n : listed[i] = kid
  BY <1>6 DEF Surjection
<1>8. listed \in Seq(kids) /\ Len(listed) = n /\ DOMAIN listed = 1..n
  BY <1>2
<1> QED BY <1>1, <1>2, <1>7, <1>8

-----------------------------------------------------------------------------
(***************************************************************************)
(* What a walk knows and owes at every moment.                              *)
(***************************************************************************)
OnStack  == {op.stack[i].path : i \in DOMAIN op.stack}
KidPaths == {kid.path : kid \in op.kids}
Waiting  == OnStack \cup op.names \cup KidPaths
Walking  == op.pc \in {"walk", "list", "visit"}
AtHand   == IF op.pc \in {"list", "visit"} THEN {op.entry.path} ELSE {}
FoundAlready == {op.found[i].path : i \in DOMAIN op.found}

\* What was seen at a path that nobody touched is what was there.
Genuine(path, meta) == Stable(path) => There(path) /\ meta = NodeOf(op.base, path)

\* Nothing was shown or counted yet.
Fresh ==
  /\ op.names = {} /\ op.kids = {} /\ op.found = <<>> /\ op.stopped = FALSE /\ op.more = FALSE
  /\ op.visited = 0 /\ op.symlinks = 0 /\ op.unreadable = 0 /\ op.skipped = 0

\* While the path is resolved: what was looked at is no link.
LookedAt ==
  /\ Fresh
  /\ \A n \in 1..Len(op.entry) : LET p == SubSeq(op.at, 1, n) IN Stable(p) => NodeOf(op.base, p) # "link"
  /\ op.entry # <<>> /\ Stable(op.entry) => op.meta = Lstat(op.base, op.entry) /\ op.meta # "absent"

WalkTyped ==
  /\ op.does \in {"search", "list", "facts"} /\ (op.does = "facts" => ~op.more)
  /\ op.visited \in Nat /\ op.symlinks \in Nat /\ op.unreadable \in Nat /\ op.skipped \in Nat
  /\ op.stopped \in BOOLEAN /\ op.more \in BOOLEAN
  /\ op.found \in Seq(Range(op.found))
  /\ OnStack \cup AtHand \cup FoundAlready \subseteq Paths \cup {op.at}
  /\ op.does = "facts" => FoundAlready \subseteq Paths
  /\ op.pc # "list" => op.names = {} /\ op.kids = {}
  /\ op.pc = "list" => KidPaths \subseteq Kids(op.entry.path)

EntriesGenuine ==
  /\ \A i \in DOMAIN op.stack : Genuine(op.stack[i].path, op.stack[i].meta)
  /\ \A kid \in op.kids : Genuine(kid.path, kid.meta)
  /\ AtHand # {} => Genuine(op.entry.path, op.entry.meta)
  /\ \A p \in op.names : Stable(p) => ~Leaves(op.base, p)

\* Every entry comes once, after its directory and in the order of names.
InTurn ==
  /\ \A i, j \in DOMAIN op.stack : i < j => Before(op.stack[j].path, op.stack[i].path)
  /\ \A i, j \in DOMAIN op.found : i < j => Before(op.found[i].path, op.found[j].path)
  /\ \A h \in AtHand : \A s \in OnStack : Before(h, s)
  /\ \A f \in FoundAlready : \A s \in OnStack \cup AtHand : Before(f, s)
  /\ \A s \in OnStack : \A p \in OnStack \cup AtHand \cup FoundAlready : ~Above(s, p)
  /\ op.pc = "list" => \A p \in OnStack \cup FoundAlready : ~Above(op.entry.path, p)

\* What a walk owes an answer about, while nothing was left out.
Due(p) ==
  /\ Above(op.at, p) /\ Stable(p) /\ There(p) /\ Len(p) - Len(op.at) <= MaxDepth
  /\ op.unreadable = 0 \/ \A a \in Ancestors(p) : op.base[a] = "dir"
  /\ ~op.stopped /\ ~op.more

\* It is still to come, or has still to be looked at.
Pending(p)  == \E w \in Waiting : w = p \/ Above(w, p)
Unlooked(p) == p \in op.names \/ \E w \in Waiting : Above(w, p)

Told(p) ==
  /\ op.does = "facts" =>
       \E i \in DOMAIN op.found : op.found[i].path = p /\
         <<op.found[i].kind, op.found[i].content>> = FactsOf(op.base[p])
  /\ op.does = "list" =>
       \E i \in DOMAIN op.found : op.found[i].path = p /\ op.found[i].kind = KindOf(op.base[p])
  /\ op.does = "search" /\ op.base[p] = "match" => p \in FoundAlready

Covered == \A p \in Paths : Due(p) => Pending(p) \/ p \in AtHand \/ Told(p)

\* What is shown was there.
ShownWasThere ==
  \A p \in FoundAlready : Stable(p) =>
    /\ op.does = "facts"  => There(p)
    /\ op.does = "search" => NodeOf(op.base, p) = "match"

\* What a search passed over, and the links that were seen.
Unreadables == {"big", "binary", "locked"}
PassedOver == {p \in Paths : Due(p) /\ op.base[p] \in Unreadables /\ ~Pending(p) /\ p \notin AtHand}
SeenLinks  == {p \in Paths : Due(p) /\ op.base[p] = "link" /\ ~Unlooked(p)}
Counts ==
  /\ op.does = "search" => op.skipped >= Cardinality(PassedOver)
  /\ op.symlinks >= Cardinality(SeenLinks)

\* A list shows all but its root, and does not stop before it has more to show.
Handled == IF op.pc = "walk" THEN op.visited ELSE op.visited - 1
ListShows ==
  op.does = "list" =>
    /\ op.depth \in Nat /\ Len(op.found) <= LIST_MAX_ENTRIES
    /\ AtHand # {} => op.visited > 0
    /\ ~op.more => Len(op.found) = IF Handled = 0 THEN 0 ELSE Handled - 1
    /\ op.pc = "walk" /\ op.visited = 0 => Len(op.stack) = 1 /\ \A s \in OnStack : Len(s) = Len(op.at)
    /\ AtHand # {} => IF op.visited = 1 THEN Len(op.entry.path) = Len(op.at)
                                        ELSE Len(op.entry.path) > Len(op.at)
    /\ op.visited > 0 => \A s \in OnStack : Len(s) > Len(op.at)
    /\ op.stopped /\ ~op.more =>
         op.visited + Len(op.stack) + Cardinality(op.kids) >= LIST_MAX_ENTRIES + 2

WalkParts ==
  WalkTyped /\ EntriesGenuine /\ InTurn /\ Covered /\ ShownWasThere /\ Counts /\ ListShows

WalkInv ==
  /\ TreeKept /\ op.does \in Operations /\ (op.does = "facts" => op.at = <<>>)
  /\ op.does = "list" => op.depth \in Nat
  /\ op.pc = "resolve" => LookedAt
  /\ op.pc = "open" => op.does = "read"
  /\ Walking => WalkParts
  /\ WalksAccountForAll

-----------------------------------------------------------------------------
\* What a step leaves of an operation, whatever it does.
Held ==
  /\ op'.does = op.does /\ op'.at = op.at /\ op'.depth = op.depth /\ op'.base = op.base
  /\ op.changed \subseteq op'.changed

(* What was there stays so, and fewer paths are untouched.                  *)
LEMMA HeldKeeps ==
  ASSUME Held
  PROVE  /\ \A p : Stable(p)' => Stable(p)
         /\ \A p : There(p)' <=> There(p)
         /\ MaxDepth' = MaxDepth /\ Limit' = Limit
         /\ \A p, m : Genuine(p, m) => Genuine(p, m)'
<1>1. \A p : Stable(p)' => Stable(p)
  BY DEF Held, Stable
<1>2. \A p : There(p)' <=> There(p)
  BY DEF Held, There
<1>3. MaxDepth' = MaxDepth /\ Limit' = Limit
  BY DEF Held, MaxDepth, Limit
<1>4. \A p, m : Genuine(p, m) => Genuine(p, m)'
  BY <1>1, <1>2 DEF Held, Genuine
<1> QED BY <1>1, <1>2, <1>3, <1>4

\* A step of a walk shows more, and leaves out more.
Grows ==
  /\ Held
  /\ op'.unreadable = 0 => op.unreadable = 0
  /\ op.stopped => op'.stopped
  /\ op.more => op'.more
  /\ \A i \in DOMAIN op.found : i \in DOMAIN op'.found /\ op'.found[i] = op.found[i]

(* What is due was due, and what was told is told.                          *)
LEMMA GrowsKeeps ==
  ASSUME Grows
  PROVE  /\ \A p : Due(p)' => Due(p)
         /\ \A p : Told(p) => Told(p)'
         /\ FoundAlready \subseteq FoundAlready'
<1>1. Held
  BY DEF Grows
<1>2. /\ \A p : Stable(p)' => Stable(p)
      /\ \A p : There(p)' <=> There(p)
      /\ MaxDepth' = MaxDepth
  BY <1>1, HeldKeeps
<1>3. \A p : Due(p)' => Due(p)
  BY <1>1, <1>2 DEF Grows, Held, Due
<1>4. FoundAlready \subseteq FoundAlready'
  BY DEF Grows, FoundAlready
<1>5. \A p : Told(p) => Told(p)'
  BY <1>4 DEF Grows, Held, Told
<1> QED BY <1>3, <1>4, <1>5

(* A set that grows by one at most is counted by one more.                  *)
LEMMA CountsOne ==
  ASSUME NEW S, IsFiniteSet(S), NEW T, NEW h, T \subseteq S \cup {h}, NEW n \in Nat, NEW m \in Nat,
         n >= Cardinality(S), m = n + 1 \/ (m = n /\ T \subseteq S)
  PROVE  m >= Cardinality(T)
<1>1. Cardinality(S) \in Nat
  BY FS_CardinalityType
<1>2. CASE T \subseteq S
  <2>1. Cardinality(T) <= Cardinality(S) /\ IsFiniteSet(T)
    BY <1>2, FS_Subset
  <2>2. Cardinality(T) \in Nat
    BY <2>1, FS_CardinalityType
  <2> QED BY <1>1, <2>1, <2>2
<1>3. CASE ~(T \subseteq S)
  <2>1. /\ IsFiniteSet(S \cup {h})
        /\ Cardinality(S \cup {h}) = IF h \in S THEN Cardinality(S) ELSE Cardinality(S) + 1
    BY FS_AddElement
  <2>2. Cardinality(T) <= Cardinality(S \cup {h}) /\ IsFiniteSet(T)
    BY <2>1, FS_Subset
  <2>3. Cardinality(T) \in Nat /\ Cardinality(S \cup {h}) \in Nat
    BY <2>1, <2>2, FS_CardinalityType
  <2> QED BY <1>1, <1>3, <2>1, <2>2, <2>3
<1> QED BY <1>2, <1>3

\* All that was to come is, but for `h`, which was told; all that was to be
\* looked at is, but for the link `l`, which was counted.
LeavesOne(h) ==
  /\ op'.skipped \in {op.skipped, op.skipped + 1}
  /\ \A p \in Paths : Due(p)' /\ (Pending(p) \/ p \in AtHand) =>
       \/ Pending(p)' \/ p \in AtHand'
       \/ /\ p = h /\ Told(p)'
          /\ op.does = "search" /\ op.base[p] \in Unreadables => op'.skipped = op.skipped + 1
LooksAtOne(l) ==
  /\ op'.symlinks \in {op.symlinks, op.symlinks + 1}
  /\ \A p \in Paths : Due(p)' /\ op.base[p] = "link" /\ Unlooked(p) =>
       Unlooked(p)' \/ (p = l /\ op'.symlinks = op.symlinks + 1)

(* Such a step keeps the accounts.                                          *)
LEMMA AccountsKept ==
  ASSUME Grows, WalkTyped, Covered, Counts, NEW h, NEW l, LeavesOne(h), LooksAtOne(l)
  PROVE  Covered' /\ Counts'
<1>1. /\ \A p : Due(p)' => Due(p)
      /\ \A p : Told(p) => Told(p)'
  BY GrowsKeeps
<1>2. op'.does = op.does /\ op'.base = op.base /\ op.skipped \in Nat /\ op.symlinks \in Nat
  BY DEF Grows, Held, WalkTyped
<1>3. Covered'
  <2> SUFFICES ASSUME NEW p \in Paths, Due(p)'
               PROVE  Pending(p)' \/ p \in AtHand' \/ Told(p)'
    BY DEF Covered
  <2>1. Pending(p) \/ p \in AtHand \/ Told(p)
    BY <1>1 DEF Covered
  <2> QED BY <1>1, <2>1 DEF LeavesOne
<1>4. IsFiniteSet(PassedOver) /\ IsFiniteSet(SeenLinks)
  BY WorkspaceAssumption, FS_Subset DEF PassedOver, SeenLinks
<1>5. ASSUME op.does = "search" PROVE op'.skipped >= Cardinality(PassedOver')
  <2>1. ASSUME NEW p \in PassedOver', p \notin PassedOver
        PROVE  p = h /\ op'.skipped = op.skipped + 1
    <3>1. p \in Paths /\ Due(p)' /\ op.base[p] \in Unreadables /\ ~Pending(p)' /\ p \notin AtHand'
      BY <1>2, <2>1 DEF PassedOver
    <3>2. Pending(p) \/ p \in AtHand
      BY <1>1, <2>1, <3>1 DEF PassedOver
    <3> QED BY <1>5, <3>1, <3>2 DEF LeavesOne
  <2>2. PassedOver' \subseteq PassedOver \cup {h}
    BY <2>1
  <2>3. op'.skipped = op.skipped + 1 \/ (op'.skipped = op.skipped /\ PassedOver' \subseteq PassedOver)
    BY <2>1 DEF LeavesOne
  <2>4. op.skipped >= Cardinality(PassedOver) /\ op'.skipped \in Nat
    BY <1>2, <1>5 DEF Counts, LeavesOne
  <2> QED BY ONLY <1>2, <1>4, <2>2, <2>3, <2>4, CountsOne
<1>6. op'.symlinks >= Cardinality(SeenLinks')
  <2>1. ASSUME NEW p \in SeenLinks', p \notin SeenLinks
        PROVE  p = l /\ op'.symlinks = op.symlinks + 1
    <3>1. p \in Paths /\ Due(p)' /\ op.base[p] = "link" /\ ~Unlooked(p)'
      BY <1>2, <2>1 DEF SeenLinks
    <3>2. Unlooked(p)
      BY <1>1, <2>1, <3>1 DEF SeenLinks
    <3> QED BY <3>1, <3>2 DEF LooksAtOne
  <2>2. SeenLinks' \subseteq SeenLinks \cup {l}
    BY <2>1
  <2>3. op'.symlinks = op.symlinks + 1 \/ (op'.symlinks = op.symlinks /\ SeenLinks' \subseteq SeenLinks)
    BY <2>1 DEF LooksAtOne
  <2>4. op.symlinks >= Cardinality(SeenLinks) /\ op'.symlinks \in Nat
    BY <1>2 DEF Counts, LooksAtOne
  <2> QED BY ONLY <1>2, <1>4, <2>2, <2>3, <2>4, CountsOne
<1> QED BY <1>2, <1>3, <1>5, <1>6 DEF Counts

-----------------------------------------------------------------------------
(* A step that does not answer answers for nothing.                         *)
LEMMA NothingAnswered ==
  ASSUME op'.pc # "done" \/ op'.status # "ok" \/ op'.does = "read"
  PROVE  WalksAccountForAll'
BY DEF WalksAccountForAll, Answered

(* An operation that ends without an answer.                                *)
LEMMA EndsWalks ==
  ASSUME OpInv, WalkInv, tree' = tree, NEW status, status # "ok", Ends(status)
  PROVE  WalkInv'
<1>1. /\ op'.pc = "done" /\ op'.status = status /\ op'.does = op.does /\ op'.at = op.at
      /\ op'.depth = op.depth /\ op'.base = op.base /\ op'.changed = op.changed
  BY DEF Ends, OpInv, OpFields
<1>2. WalksAccountForAll'
  BY <1>1, NothingAnswered
<1> QED BY <1>1, <1>2 DEF WalkInv, TreeKept, Walking

\* All that a walk knows stays as it was.
Resting ==
  /\ Held
  /\ op'.pc = op.pc /\ op'.entry = op.entry /\ op'.meta = op.meta /\ op'.stack = op.stack
  /\ op'.names = op.names /\ op'.kids = op.kids /\ op'.visited = op.visited
  /\ op'.symlinks = op.symlinks /\ op'.unreadable = op.unreadable /\ op'.stopped = op.stopped
  /\ op'.skipped = op.skipped /\ op'.more = op.more /\ op'.found = op.found

(* Then what it owes is kept, whatever becomes of the tree.                 *)
LEMMA RestingWalks ==
  ASSUME WalkInv, Resting, TreeKept', op.pc # "done"
  PROVE  WalkInv'
<1>1. Held /\ Grows
  BY DEF Resting, Grows
<1>2. /\ \A p : Stable(p)' => Stable(p)
      /\ \A p : There(p)' <=> There(p)
      /\ \A p, m : Genuine(p, m) => Genuine(p, m)'
  BY <1>1, HeldKeeps
<1>3. /\ OnStack' = OnStack /\ KidPaths' = KidPaths /\ Waiting' = Waiting /\ AtHand' = AtHand
      /\ FoundAlready' = FoundAlready /\ (Walking' <=> Walking) /\ Handled' = Handled
  BY DEF Resting, OnStack, KidPaths, Waiting, AtHand, FoundAlready, Walking, Handled
<1>4. op.pc = "resolve" => LookedAt'
  BY <1>2 DEF WalkInv, LookedAt, Fresh, Resting, Held
<1>5. ASSUME Walking PROVE WalkParts'
  <2>1. WalkTyped /\ EntriesGenuine /\ InTurn /\ Covered /\ ShownWasThere /\ Counts /\ ListShows
    BY <1>5 DEF WalkInv, WalkParts
  <2>2. WalkTyped'
    BY <1>3, <2>1 DEF WalkTyped, Resting, Held
  <2>3. EntriesGenuine'
    BY <1>2, <1>3, <2>1 DEF EntriesGenuine, Resting, Held
  <2>4. InTurn'
    BY <1>3, <2>1 DEF InTurn, Resting
  <2>5. \A p : (Pending(p)' <=> Pending(p)) /\ (Unlooked(p)' <=> Unlooked(p))
    BY <1>3 DEF Pending, Unlooked, Resting
  <2>6. LeavesOne(0) /\ LooksAtOne(0)
    BY <1>3, <2>5 DEF LeavesOne, LooksAtOne, Resting
  <2>7. Covered' /\ Counts'
    BY <1>1, <2>1, <2>6, AccountsKept
  <2>8. ShownWasThere'
    BY <1>2, <1>3, <2>1 DEF ShownWasThere, Resting, Held
  <2>9. ListShows'
    BY <1>3, <2>1 DEF ListShows, Resting, Held
  <2> QED BY <2>2, <2>3, <2>4, <2>7, <2>8, <2>9 DEF WalkParts
<1>6. WalksAccountForAll'
  BY NothingAnswered DEF Resting
<1> QED BY <1>3, <1>4, <1>5, <1>6 DEF WalkInv, Resting, Held

(* Time passes.                                                             *)
LEMMA LateWalks ==
  ASSUME OpInv, WalkInv, Late
  PROVE  WalkInv'
<1>1. op' = [op EXCEPT !.late = TRUE] /\ tree' = tree /\ op.pc # "done"
  BY DEF Late, Running
<1>2. Resting
  BY <1>1 DEF Resting, Held, OpInv, OpFields
<1>3. TreeKept'
  BY <1>1, <1>2 DEF WalkInv, TreeKept, OpInv, OpFields
<1> QED BY <1>1, <1>2, <1>3, RestingWalks

(* Another process changes the tree.                                        *)
LEMMA ChangeWalks ==
  ASSUME OpInv, WalkInv, Change
  PROVE  WalkInv'
<1>1. op.pc # "done"
  BY DEF Change, Running
<1>2. PICK path \in Paths, node \in ChangeTo :
        /\ tree' = [tree EXCEPT ![path] = node]
        /\ op' = [op EXCEPT !.changed = @ \cup {path}]
  BY DEF Change
<1>3. op'.changed = op.changed \cup {path}
  BY <1>2 DEF OpInv, OpFields
<1>4. Resting
  BY <1>2, <1>3 DEF Resting, Held, OpInv, OpFields
<1>5. \A p \in Paths : p # path => tree'[p] = tree[p]
  BY <1>2 DEF OpInv
<1>6. TreeKept'
  BY <1>3, <1>4, <1>5 DEF WalkInv, TreeKept, Resting, Held
<1> QED BY <1>1, <1>4, <1>6, RestingWalks

(* A file is read.                                                          *)
LEMMA ReadWalks ==
  ASSUME OpInv, WalkInv, Read
  PROVE  WalkInv'
<1>1. op.pc = "open" /\ op.does = "read" /\ tree' = tree
  BY DEF Read, WalkInv
<1>2. CASE \E status \in {"NOT_FOUND", "TOO_LARGE", "NOT_TEXT", "IO"} : Ends(status)
  BY <1>1, <1>2, EndsWalks
<1>3. CASE op' = [op EXCEPT !.pc = "done", !.status = "ok", !.found = <<Content(op.at)>>, !.taken = Taken(op.at)]
  <2>1. /\ op'.pc = "done" /\ op'.does = op.does /\ op'.at = op.at
        /\ op'.depth = op.depth /\ op'.base = op.base /\ op'.changed = op.changed
    BY <1>3 DEF OpInv, OpFields
  <2>2. WalksAccountForAll'
    BY <1>1, <2>1, NothingAnswered
  <2> QED BY <1>1, <2>1, <2>2 DEF WalkInv, TreeKept, Walking
<1>4. IoOut(op.at) \in {"NOT_FOUND", "IO"}
  BY DEF IoOut
<1> QED BY <1>1, <1>2, <1>3, <1>4 DEF Read

-----------------------------------------------------------------------------
(* No link leads to a component that comes next, if nobody touched it.      *)
LEMMA NoLinkBefore ==
  ASSUME OpInv, TreeKept, LookedAt, NEW n \in 0..Len(op.at), n <= Len(op.entry) + 1,
         Len(op.entry) \in Nat, Stable(SubSeq(op.at, 1, n))
  PROVE  ~Leaves(op.base, SubSeq(op.at, 1, n))
<1>1. op.at \in Places /\ op.at \in Seq(Range(Names)) /\ Len(op.at) \in Nat
  BY PathsAre DEF OpInv
<1>2. Ancestors(SubSeq(op.at, 1, n)) = {SubSeq(op.at, 1, m) : m \in 1..n - 1}
  BY <1>1, AncestorsOfPrefix
<1>3. SUFFICES ASSUME NEW a \in Ancestors(SubSeq(op.at, 1, n)), NodeOf(op.base, a) = "link"
               PROVE  FALSE
  BY DEF Leaves
<1>4. PICK m \in 1..n - 1 : a = SubSeq(op.at, 1, m)
  BY <1>2
<1>5. m \in 1..Len(op.entry)
  BY <1>4
<1>6. Ancestors(a) \subseteq Ancestors(SubSeq(op.at, 1, n))
  <2>1. SubSeq(op.at, 1, n) \in Places
    BY <1>1, PrefixIs DEF Places
  <2> QED BY <2>1, AncestorsAreClosed
<1>7. Stable(a)
  BY <1>6 DEF Stable
<1> QED BY <1>3, <1>4, <1>5, <1>7 DEF LookedAt

(* A component of the path is looked at.                                    *)
LEMMA LookAtWalks ==
  ASSUME OpInv, WalkInv, LookAt
  PROVE  WalkInv'
<1> DEFINE next == NextComponent(op.at, Len(op.entry))
           seen == Lstat(tree, next)
<1>1. op.pc = "resolve" /\ next # <<>> /\ tree' = tree /\ LookedAt /\ TreeKept
  BY DEF LookAt, WalkInv
<1>2. op.at \in Places /\ op.at \in Seq(Range(Names)) /\ Len(op.at) \in Nat
  BY PathsAre DEF OpInv
<1>3. PICK n \in 0..Len(op.at) : op.entry = SubSeq(op.at, 1, n) /\ Len(op.entry) = n
  BY <1>1, ResolvedSoFar
<1>4. n < Len(op.at) /\ next = SubSeq(op.at, 1, n + 1)
  BY <1>1, <1>2, <1>3 DEF NextComponent
<1>5. n + 1 \in 0..Len(op.at) /\ n \in Nat
  BY <1>2, <1>4
<1>6. next \in Places /\ Len(next) = n + 1
  BY <1>2, <1>4, <1>5, PrefixIs DEF Places
<1>7. \/ op' = [op EXCEPT !.pc = "done", !.status = IoOut(next)]
      \/ op' = [op EXCEPT !.pc = "done", !.status = "SYMLINK"]
      \/ /\ seen \notin {"absent", "link"}
         /\ op' = [op EXCEPT !.entry = next, !.meta = seen, !.cleared = @ \cup {next}]
  <2> HIDE DEF next
  <2> QED BY DEF LookAt, next
<1> HIDE DEF next, seen
<1>8. CASE \/ op' = [op EXCEPT !.pc = "done", !.status = IoOut(next)]
           \/ op' = [op EXCEPT !.pc = "done", !.status = "SYMLINK"]
  <2>1. Ends("NOT_FOUND") \/ Ends("IO") \/ Ends("SYMLINK")
    BY <1>8 DEF Ends, IoOut
  <2> QED BY <1>1, <2>1, EndsWalks
<1>9. CASE /\ seen \notin {"absent", "link"}
           /\ op' = [op EXCEPT !.entry = next, !.meta = seen, !.cleared = @ \cup {next}]
  <2>1. op'.pc = "resolve" /\ op'.entry = next /\ op'.meta = seen
    BY <1>1, <1>9 DEF OpInv, OpFields
  <2>2. /\ op'.does = op.does /\ op'.at = op.at /\ op'.depth = op.depth /\ op'.base = op.base
        /\ op'.changed = op.changed
        /\ Fresh => Fresh'
    BY <1>9 DEF OpInv, OpFields, Fresh
  <2>3. \A p : Stable(p)' <=> Stable(p)
    BY <2>2 DEF Stable
  <2>4. ASSUME Stable(next)
        PROVE  /\ NodeOf(op.base, next) # "link"
               /\ seen = Lstat(op.base, next) /\ seen # "absent"
    <3>1. Lstat(tree, next) = Lstat(op.base, next)
      BY <1>1, <1>6, <2>4, StableSees
    <3>2. ~Leaves(op.base, next)
      BY <1>1, <1>3, <1>4, <1>5, <2>4, NoLinkBefore
    <3>3. Lstat(op.base, next) \in {NodeOf(op.base, next), "absent"}
      BY <3>2 DEF Lstat
    <3> QED BY <1>9, <3>1, <3>3 DEF seen
  <2>5. ASSUME NEW m \in 1..Len(next), Stable(SubSeq(op.at, 1, m))
        PROVE  NodeOf(op.base, SubSeq(op.at, 1, m)) # "link"
    <3>1. CASE m = n + 1
      BY <1>4, <2>4, <2>5, <3>1
    <3>2. CASE m # n + 1
      <4>1. m \in 1..Len(op.entry)
        BY <1>3, <1>5, <1>6, <3>2
      <4> QED BY <1>1, <2>5, <4>1 DEF LookedAt
    <3> QED BY <3>1, <3>2
  <2>6. LookedAt'
    BY <1>1, <2>1, <2>2, <2>3, <2>4, <2>5 DEF LookedAt
  <2>7. WalksAccountForAll'
    BY <2>1, NothingAnswered
  <2> QED BY <1>1, <2>1, <2>2, <2>6, <2>7 DEF WalkInv, TreeKept, Walking
<1> QED BY <1>7, <1>8, <1>9

(* What was resolved is as it was, unless it was touched.                   *)
LEMMA ResolvedIsGenuine ==
  ASSUME OpInv, TreeKept, LookedAt, op.pc = "resolve", NextComponent(op.at, Len(op.entry)) = <<>>
  PROVE  Genuine(op.at, IF op.at = <<>> THEN "dir" ELSE op.meta)
<1>1. op.at \in Places /\ op.at \in Seq(Range(Names)) /\ Len(op.at) \in Nat
  BY PathsAre DEF OpInv
<1>2. CASE op.at = <<>>
  <2>1. Ancestors(op.at) = {}
    BY <1>2 DEF Ancestors
  <2>2. ~Leaves(op.base, op.at)
    BY <2>1 DEF Leaves
  <2>3. NodeOf(op.base, op.at) = "dir" /\ Lstat(op.base, op.at) = "dir"
    BY <1>2, <2>1, <2>2 DEF Lstat, NodeOf
  <2> QED BY <1>2, <2>2, <2>3 DEF Genuine, There
<1>3. CASE op.at # <<>>
  <2>1. PICK n \in 0..Len(op.at) : op.entry = SubSeq(op.at, 1, n) /\ Len(op.entry) = n
    BY ResolvedSoFar
  <2>2. n = Len(op.at)
    <3>1. SUFFICES ASSUME n < Len(op.at) PROVE FALSE
      BY <1>1, <2>1
    <3>2. n + 1 \in 0..Len(op.at) /\ SubSeq(op.at, 1, n + 1) = <<>>
      BY <1>1, <2>1, <3>1 DEF NextComponent
    <3>3. Len(SubSeq(op.at, 1, n + 1)) = n + 1
      BY <1>1, <3>2, PrefixIs
    <3> QED BY <2>1, <3>2, <3>3, EmptySeq
  <2>3. op.entry = op.at /\ SubSeq(op.at, 1, n) = op.at
    BY <1>1, <2>1, <2>2, SubSeqFull
  <2>4. SUFFICES ASSUME Stable(op.at) PROVE There(op.at) /\ op.meta = NodeOf(op.base, op.at)
    BY <1>3 DEF Genuine
  <2>5. op.meta = Lstat(op.base, op.at) /\ op.meta # "absent"
    BY <1>3, <2>3, <2>4 DEF LookedAt
  <2>6. ~Leaves(op.base, op.at)
    <3>1. /\ Len(op.entry) \in Nat /\ n <= Len(op.entry) + 1
          /\ Stable(SubSeq(op.at, 1, n))
      <4>1. n \in Nat /\ n <= n + 1
        BY <1>1
      <4> QED BY <2>1, <2>3, <2>4, <4>1
    <3> QED BY <2>3, <3>1, NoLinkBefore
  <2>7. There(op.at)
    BY <2>5, <2>6 DEF There
  <2> QED BY <1>1, <2>5, <2>7, ThereIs
<1> QED BY <1>2, <1>3

-----------------------------------------------------------------------------
(* A walk starts at the path, with nothing shown and nothing counted.       *)
LEMMA WalkStarts ==
  ASSUME OpInv, WalkInv, op.pc = "resolve", NEW meta, Genuine(op.at, meta), Held,
         op'.changed = op.changed, op'.pc = "walk", op'.stack = <<Entry(op.at, meta)>>, Fresh',
         op.does \in {"search", "list", "facts"}
  PROVE  WalkParts'
<1>1. op.at \in Places /\ Len(op.at) \in Nat
  BY PathsAre DEF OpInv
<1>2. op'.does = op.does /\ op'.at = op.at /\ op'.depth = op.depth /\ op'.base = op.base
  BY DEF Held
<1>3. /\ DOMAIN op'.stack = {1} /\ op'.stack[1].path = op.at /\ op'.stack[1].meta = meta
      /\ Len(op'.stack) = 1
  BY DEF Entry
<1>4. /\ op'.names = {} /\ op'.kids = {} /\ op'.found = <<>> /\ op'.stopped = FALSE
      /\ op'.more = FALSE /\ op'.visited = 0 /\ op'.symlinks = 0 /\ op'.unreadable = 0
      /\ op'.skipped = 0
  BY DEF Fresh
<1>5. OnStack' = {op.at} /\ AtHand' = {} /\ FoundAlready' = {} /\ KidPaths' = {} /\ op.at \in Waiting'
  BY <1>3, <1>4 DEF OnStack, AtHand, FoundAlready, KidPaths, Waiting
<1>6. WalkTyped'
  <2>1. op'.found \in Seq(Range(op'.found))
    BY <1>4
  <2>2. op'.does \in {"search", "list", "facts"} /\ (op'.does = "facts" => ~op'.more)
    BY <1>2, <1>4
  <2>3. op'.stopped \in BOOLEAN /\ op'.more \in BOOLEAN
    BY <1>4
  <2>4. /\ OnStack' \cup AtHand' \cup FoundAlready' \subseteq Paths \cup {op'.at}
        /\ FoundAlready' \subseteq Paths
    BY <1>2, <1>5
  <2> QED BY <1>4, <2>1, <2>2, <2>3, <2>4 DEF WalkTyped
<1>7. EntriesGenuine'
  <2>1. \A p : p = op.at => Genuine(p, meta)'
    BY HeldKeeps
  <2>2. \A i \in DOMAIN op'.stack : Genuine(op.stack[i].path, op.stack[i].meta)'
    <3> HIDE DEF Genuine
    <3> QED BY <1>3, <2>1
  <2> QED BY <1>4, <1>5, <2>2 DEF EntriesGenuine
<1>8. InTurn'
  <2>1. ~Above(op.at, op.at)
    BY <1>1, AboveIs
  <2>2. \A i, j \in {1} : ~(i < j)
    OBVIOUS
  <2>3. DOMAIN op'.found = {}
    BY <1>4
  <2> QED BY <1>3, <1>5, <2>1, <2>2, <2>3 DEF InTurn
<1>9. \A p : Due(p)' => Pending(p)' /\ Unlooked(p)'
  BY <1>2, <1>5 DEF Due, Pending, Unlooked
<1>10. Covered'
  BY <1>9 DEF Covered
<1>11. Counts'
  <2>1. PassedOver' = {} /\ SeenLinks' = {}
    BY <1>9 DEF PassedOver, SeenLinks
  <2> QED BY <1>4, <2>1, FS_EmptySet DEF Counts
<1>12. ShownWasThere'
  BY <1>5 DEF ShownWasThere
<1>13. ListShows'
  <2>1. Handled' = 0 /\ Len(op'.found) = 0
    BY <1>4 DEF Handled
  <2>2. LIST_MAX_ENTRIES \in Nat
    BY WorkspaceAssumption
  <2>3. op.does = "list" => op.depth \in Nat
    BY DEF WalkInv
  <2> QED BY <1>1, <1>2, <1>4, <1>5, <2>1, <2>2, <2>3 DEF ListShows
<1> QED BY <1>6, <1>7, <1>8, <1>10, <1>11, <1>12, <1>13 DEF WalkParts

(* The path was looked at, and the operation begins.                        *)
LEMMA ResolvedWalks ==
  ASSUME OpInv, WalkInv, Resolved
  PROVE  WalkInv'
<1> DEFINE meta == IF op.at = <<>> THEN "dir" ELSE op.meta
<1>1. op.pc = "resolve" /\ NextComponent(op.at, Len(op.entry)) = <<>> /\ tree' = tree
  BY DEF Resolved
<1>2. LookedAt /\ TreeKept /\ op.does \in Operations
  BY <1>1 DEF WalkInv
<1>3. Genuine(op.at, meta)
  BY <1>1, <1>2, ResolvedIsGenuine
<1>4. \/ Ends("NOT_A_FILE") \/ Ends("TOO_LARGE") \/ Ends("NOT_A_DIR")
      \/ op.does = "read" /\ op' = [op EXCEPT !.pc = "open"]
      \/ /\ op.does # "read"
         /\ op' = [op EXCEPT !.pc = "walk", !.entry = <<>>, !.stack = <<Entry(op.at, meta)>>]
  BY DEF Resolved
<1> HIDE DEF meta
<1>5. CASE Ends("NOT_A_FILE") \/ Ends("TOO_LARGE") \/ Ends("NOT_A_DIR")
  BY <1>1, <1>5, EndsWalks
<1>6. CASE op.does = "read" /\ op' = [op EXCEPT !.pc = "open"]
  <2>1. /\ op'.pc = "open" /\ op'.does = op.does /\ op'.at = op.at /\ op'.depth = op.depth
        /\ op'.base = op.base /\ op'.changed = op.changed
    BY <1>6 DEF OpInv, OpFields
  <2>2. WalksAccountForAll'
    BY <2>1, NothingAnswered
  <2> QED BY <1>1, <1>6, <2>1, <2>2 DEF WalkInv, TreeKept, Walking
<1>7. CASE /\ op.does # "read"
           /\ op' = [op EXCEPT !.pc = "walk", !.entry = <<>>, !.stack = <<Entry(op.at, meta)>>]
  <2>1. /\ op'.pc = "walk" /\ op'.stack = <<Entry(op.at, meta)>> /\ op'.changed = op.changed
        /\ Held /\ (Fresh => Fresh')
    BY <1>7 DEF OpInv, OpFields, Held, Fresh
  <2>2. op.does \in {"search", "list", "facts"} /\ Fresh'
    BY <1>2, <1>7, <2>1 DEF Operations, LookedAt
  <2>3. WalkParts'
    BY <1>1, <1>3, <2>1, <2>2, WalkStarts
  <2>4. WalksAccountForAll'
    BY <2>1, NothingAnswered
  <2> QED BY <1>1, <2>1, <2>3, <2>4 DEF WalkInv, TreeKept, Held
<1> QED BY <1>4, <1>5, <1>6, <1>7

-----------------------------------------------------------------------------
(* The top of a stack, and the rest of it.                                  *)
LEMMA TopIs ==
  ASSUME NEW s, s \in Seq(Range(s)), s # <<>>
  PROVE  /\ Len(s) \in Nat /\ Len(s) > 0 /\ DOMAIN s = 1..Len(s) /\ Last(s) = s[Len(s)]
         /\ Len(Front(s)) = Len(s) - 1 /\ DOMAIN Front(s) = 1..(Len(s) - 1)
         /\ \A i \in 1..(Len(s) - 1) : Front(s)[i] = s[i]
<1>1. Len(s) \in Nat /\ Len(s) > 0 /\ DOMAIN s = 1..Len(s)
  BY EmptySeq, LenProperties
<1>2. Len(s) - 1 \in 0..Len(s)
  BY <1>1
<1>3. /\ SubSeq(s, 1, Len(s) - 1) \in Seq(Range(s)) /\ Len(SubSeq(s, 1, Len(s) - 1)) = Len(s) - 1
      /\ \A i \in 1..(Len(s) - 1) : SubSeq(s, 1, Len(s) - 1)[i] = s[i]
  BY <1>2, PrefixIs
<1>4. DOMAIN SubSeq(s, 1, Len(s) - 1) = 1..(Len(s) - 1)
  BY <1>3, LenProperties
<1> QED BY <1>1, <1>3, <1>4 DEF Last, Front

\* The top of the stack is taken; if it is a directory that can be listed its
\* names are what the walk goes on with.
Top == Last(op.stack)
Taking ==
  /\ op.pc = "walk" /\ op.stack # <<>> /\ tree' = tree /\ Held /\ op'.changed = op.changed
  /\ op'.symlinks = op.symlinks /\ op'.skipped = op.skipped
  /\ op'.more = op.more /\ op'.found = op.found /\ op'.visited = op.visited + 1
  /\ op'.unreadable \in {op.unreadable, op.unreadable + 1}
  /\ op'.entry = Top /\ op'.kids = {}
TakesTop ==
  /\ Taking /\ op'.stopped = op.stopped /\ op'.stack = Front(op.stack)
  /\ \/ op'.pc = "visit" /\ op'.names = {}
     \/ op'.pc = "list" /\ IsDir(Top.meta) /\ op'.names = NamesIn(tree, Top.path)

(* What is known of the top.                                                *)
LEMMA TopKnown ==
  ASSUME OpInv, WalkParts, op.pc = "walk", op.stack # <<>>
  PROVE  /\ Top.path \in Places /\ Len(Top.path) \in Nat /\ Genuine(Top.path, Top.meta)
         /\ Top.path \in OnStack /\ Top.path \in Paths \cup {op.at}
         /\ op.names = {} /\ op.kids = {} /\ AtHand = {} /\ KidPaths = {} /\ Waiting = OnStack
<1>1. op.stack \in Seq(Range(op.stack)) /\ \A i \in DOMAIN op.stack : Known(op.stack[i])
  BY DEF OpInv, InHandOK
<1>2. Len(op.stack) \in DOMAIN op.stack /\ Top = op.stack[Len(op.stack)]
  BY <1>1, TopIs DEF Top
<1>3. WalkTyped /\ EntriesGenuine
  BY DEF WalkParts
<1>4. Top.path \in Places /\ Genuine(Top.path, Top.meta)
  BY <1>1, <1>2, <1>3 DEF Known, EntriesGenuine
<1>5. op.names = {} /\ op.kids = {} /\ AtHand = {} /\ KidPaths = {} /\ Waiting = OnStack
  BY <1>3 DEF WalkTyped, AtHand, KidPaths, Waiting
<1>6. Top.path \in OnStack /\ Top.path \in Paths \cup {op.at}
  BY <1>2, <1>3 DEF OnStack, WalkTyped
<1> QED BY <1>4, <1>5, <1>6, PathsAre

(* What is left on the stack, and what is in hand.                          *)
LEMMA TopTaken ==
  ASSUME OpInv, WalkParts, TakesTop
  PROVE  /\ OnStack = OnStack' \cup {Top.path} /\ AtHand' = {Top.path} /\ KidPaths' = {}
         /\ FoundAlready' = FoundAlready
         /\ DOMAIN op'.stack \subseteq DOMAIN op.stack
         /\ Len(op.stack) \in DOMAIN op.stack /\ Top = op.stack[Len(op.stack)]
         /\ \A i \in DOMAIN op'.stack : op'.stack[i] = op.stack[i] /\ i \in Nat /\ i < Len(op.stack)
         /\ Len(op'.stack) = Len(op.stack) - 1 /\ Len(op.stack) \in Nat
<1>1. op.pc = "walk" /\ op.stack # <<>> /\ op'.stack = Front(op.stack) /\ op'.entry = Top
  BY DEF TakesTop, Taking
<1>2. op.stack \in Seq(Range(op.stack))
  BY <1>1 DEF OpInv, InHandOK
<1>3. /\ Len(op.stack) \in Nat /\ Len(op.stack) > 0 /\ DOMAIN op.stack = 1..Len(op.stack)
      /\ Top = op.stack[Len(op.stack)]
      /\ Len(op'.stack) = Len(op.stack) - 1 /\ DOMAIN op'.stack = 1..(Len(op.stack) - 1)
      /\ \A i \in 1..(Len(op.stack) - 1) : op'.stack[i] = op.stack[i]
  BY <1>1, <1>2, TopIs DEF Top
<1>4. /\ DOMAIN op'.stack \subseteq DOMAIN op.stack /\ Len(op.stack) \in DOMAIN op.stack
      /\ \A i \in DOMAIN op'.stack : op'.stack[i] = op.stack[i] /\ i \in Nat /\ i < Len(op.stack)
      /\ \A i \in DOMAIN op.stack : i \in DOMAIN op'.stack \/ i = Len(op.stack)
  BY <1>3
<1>5. OnStack = OnStack' \cup {Top.path}
  BY <1>3, <1>4 DEF OnStack
<1>6. AtHand' = {Top.path} /\ KidPaths' = {} /\ FoundAlready' = FoundAlready
  BY <1>1 DEF TakesTop, Taking, AtHand, KidPaths, FoundAlready
<1> QED BY <1>3, <1>4, <1>5, <1>6

(* The top is put in hand: its names, if it is a directory to be listed,    *)
(* stand for all that lies below it.                                        *)
LEMMA TakesTopWalks ==
  ASSUME OpInv, TreeKept, WalkParts, TakesTop,
         \A p \in Paths : Due(p)' /\ Above(Top.path, p) => op'.pc = "list"
  PROVE  WalkParts'
<1>1. op.pc = "walk" /\ op.stack # <<>> /\ tree' = tree /\ Held /\ Grows
  BY DEF TakesTop, Taking, Grows, WalkParts, WalkTyped
<1>2. WalkTyped /\ EntriesGenuine /\ InTurn /\ Covered /\ ShownWasThere /\ Counts /\ ListShows
  BY DEF WalkParts
<1>3. PICK h \in Places : h = Top.path
  BY <1>1, TopKnown
<1>4. /\ Len(h) \in Nat /\ Genuine(h, Top.meta) /\ h \in OnStack /\ h \in Paths \cup {op.at}
      /\ op.names = {} /\ op.kids = {} /\ AtHand = {} /\ KidPaths = {} /\ Waiting = OnStack
  BY <1>1, <1>3, TopKnown
<1>5. /\ OnStack = OnStack' \cup {h} /\ AtHand' = {h} /\ KidPaths' = {}
      /\ FoundAlready' = FoundAlready
  BY <1>3, TopTaken
<1>6. /\ DOMAIN op'.stack \subseteq DOMAIN op.stack
      /\ Len(op.stack) \in DOMAIN op.stack /\ op.stack[Len(op.stack)].path = h
      /\ \A i \in DOMAIN op'.stack : op'.stack[i] = op.stack[i] /\ i \in Nat /\ i < Len(op.stack)
  BY <1>3, TopTaken
<1>7. /\ op'.does = op.does /\ op'.at = op.at /\ op'.base = op.base /\ op'.depth = op.depth
      /\ op'.found = op.found /\ op'.more = op.more /\ op'.entry = Top /\ op'.kids = {}
      /\ op'.visited = op.visited + 1 /\ op'.symlinks = op.symlinks /\ op'.skipped = op.skipped
      /\ op'.stopped = op.stopped /\ op'.unreadable \in {op.unreadable, op.unreadable + 1}
      /\ op'.pc \in {"visit", "list"} /\ (op'.pc # "list" => op'.names = {})
  BY DEF TakesTop, Taking, Held
<1>8. op'.pc = "list" => IsDir(Top.meta) /\ op'.names = NamesIn(tree, h)
  BY <1>3 DEF TakesTop
<1>9. WalkTyped'
  <2>1. KidPaths' \subseteq Kids(op'.entry.path)
    BY <1>5
  <2>2. op'.visited \in Nat /\ op'.unreadable \in Nat
    BY <1>2, <1>7 DEF WalkTyped
  <2>3. OnStack' \cup AtHand' \cup FoundAlready' \subseteq Paths \cup {op'.at}
    BY <1>2, <1>4, <1>5, <1>7 DEF WalkTyped
  <2>4. op'.found \in Seq(Range(op'.found))
    BY <1>2, <1>7 DEF WalkTyped
  <2>5. op'.does = "facts" => FoundAlready' \subseteq Paths
    BY <1>2, <1>5, <1>7 DEF WalkTyped
  <2> QED BY <1>2, <1>7, <2>1, <2>2, <2>3, <2>4, <2>5 DEF WalkTyped
<1>10. EntriesGenuine'
  <2>1. \A p, m : Genuine(p, m) => Genuine(p, m)'
    BY <1>1, HeldKeeps
  <2>2. \A p : Stable(p)' => Stable(p)
    BY <1>1, HeldKeeps
  <2>3. \A i \in DOMAIN op'.stack : Genuine(op.stack[i].path, op.stack[i].meta)'
    BY <1>2, <1>6, <2>1 DEF EntriesGenuine
  <2>4. Genuine(op.entry.path, op.entry.meta)'
    BY <1>3, <1>4, <1>7, <2>1
  <2>5. ASSUME NEW p \in op'.names, Stable(p)' PROVE ~Leaves(op.base, p)
    <3>1. IsDir(Top.meta) /\ p \in Kids(h)
      BY <1>7, <1>8, <2>5 DEF NamesIn
    <3>2. p \in Paths /\ Parent(p) = h
      BY <3>1 DEF Kids
    <3>3. Above(h, p) /\ Stable(p) /\ p \in Places
      BY <2>2, <2>5, <3>2, KidIs, PathsAre
    <3>4. Stable(h)
      <4>1. op.changed \subseteq Paths
        BY DEF TreeKept
      <4> QED BY <3>3, <4>1, StableAbove
    <3>5. There(h) /\ Top.meta = NodeOf(op.base, h)
      BY <1>4, <3>4 DEF Genuine
    <3>6. ~Leaves(op.base, h) /\ NodeOf(op.base, h) # "link"
      BY <3>1, <3>5 DEF There, IsDir
    <3>7. Ancestors(p) \subseteq Ancestors(h) \cup {h}
      BY <3>2, <3>3, AncestorsOfKid
    <3> QED BY <3>6, <3>7 DEF Leaves
  <2> QED BY <1>7, <2>3, <2>4, <2>5 DEF EntriesGenuine
<1>11. InTurn'
  <2>1. \A i, j \in DOMAIN op'.stack : i < j => Before(op'.stack[j].path, op'.stack[i].path)
    BY <1>2, <1>6 DEF InTurn
  <2>2. \A s \in OnStack' : Before(h, s)
    <3> SUFFICES ASSUME NEW i \in DOMAIN op'.stack PROVE Before(h, op'.stack[i].path)
      BY DEF OnStack
    <3> QED BY <1>2, <1>6 DEF InTurn
  <2>3. \A f \in FoundAlready : \A s \in OnStack' \cup {h} : Before(f, s)
    BY <1>2, <1>4, <1>5 DEF InTurn
  <2>4. \A s \in OnStack' : \A p \in OnStack' \cup {h} \cup FoundAlready : ~Above(s, p)
    BY <1>2, <1>4, <1>5 DEF InTurn
  <2>5. \A p \in OnStack' \cup FoundAlready : ~Above(h, p)
    BY <1>2, <1>4, <1>5 DEF InTurn
  <2>6. \A i, j \in DOMAIN op'.found : i < j => Before(op'.found[i].path, op'.found[j].path)
    BY <1>2, <1>7 DEF InTurn
  <2> QED BY <1>3, <1>5, <1>7, <2>1, <2>2, <2>3, <2>4, <2>5, <2>6 DEF InTurn
<1>12. ASSUME NEW p \in Paths, Due(p)', Above(h, p)
       PROVE  \E c \in op'.names : c = p \/ Above(c, p)
  <2>1. op'.pc = "list" /\ op'.names = NamesIn(tree, h)
    BY <1>3, <1>8, <1>12
  <2>2. PICK c \in Kids(h) : c \in Paths /\ (c = p \/ Above(c, p))
    BY <1>12, StepDown
  <2>3. Stable(p) /\ There(p) /\ p \in Places
    <3>1. Due(p)
      BY <1>1, <1>12, GrowsKeeps
    <3> QED BY <3>1, PathsAre DEF Due
  <2>4. Stable(c) /\ There(c)
    <3>1. op.changed \subseteq Paths
      BY DEF TreeKept
    <3> QED BY <2>2, <2>3, <3>1, StableAbove, ThereIs
  <2>5. tree[c] # "absent"
    <3>1. c \in Places
      BY <2>2, PathsAre
    <3>2. NodeOf(tree, c) # "absent"
      BY <2>4, <3>1, StableSees, ThereIs
    <3> QED BY <2>2, <3>2, PathsAre DEF NodeOf
  <2> QED BY <2>1, <2>2, <2>5 DEF NamesIn
<1>13. Waiting' = OnStack' \cup op'.names
  BY <1>5 DEF Waiting
<1>14. Covered' /\ Counts'
  <2>1. \A p \in Paths : Due(p)' /\ (Pending(p) \/ p \in AtHand) => Pending(p)' \/ p \in AtHand'
    <3> SUFFICES ASSUME NEW p \in Paths, Due(p)', NEW w \in OnStack, w = p \/ Above(w, p)
                 PROVE  Pending(p)' \/ p \in AtHand'
      BY <1>4 DEF Pending
    <3>1. CASE w \in OnStack'
      BY <1>13, <3>1 DEF Pending
    <3>2. CASE w = h
      BY <1>5, <1>12, <1>13, <3>2 DEF Pending
    <3> QED BY <1>5, <3>1, <3>2
  <2>2. \A p \in Paths : Due(p)' /\ op.base[p] = "link" /\ Unlooked(p) => Unlooked(p)'
    <3> SUFFICES ASSUME NEW p \in Paths, Due(p)', NEW w \in OnStack, Above(w, p)
                 PROVE  Unlooked(p)'
      BY <1>4 DEF Unlooked
    <3>1. CASE w \in OnStack'
      BY <1>13, <3>1 DEF Unlooked
    <3>2. CASE w = h
      BY <1>12, <1>13, <3>2 DEF Unlooked
    <3> QED BY <1>5, <3>1, <3>2
  <2>3. LeavesOne(0) /\ LooksAtOne(0)
    BY <1>7, <2>1, <2>2 DEF LeavesOne, LooksAtOne
  <2> QED BY <1>1, <1>2, <2>3, AccountsKept
<1>15. ShownWasThere'
  <2>1. (\A p : Stable(p)' => Stable(p)) /\ (\A p : There(p)' <=> There(p))
    BY <1>1, HeldKeeps
  <2> QED BY <1>2, <1>5, <1>7, <2>1 DEF ShownWasThere
<1>16. ListShows'
  <2> SUFFICES ASSUME op.does = "list" PROVE ListShows'
    BY <1>7 DEF ListShows
  <2>1. /\ op.depth \in Nat /\ Len(op.found) <= LIST_MAX_ENTRIES /\ op.visited \in Nat
        /\ ~op.more => Len(op.found) = IF op.visited = 0 THEN 0 ELSE op.visited - 1
        /\ op.visited = 0 => Len(op.stack) = 1 /\ \A s \in OnStack : Len(s) = Len(op.at)
        /\ op.visited > 0 => \A s \in OnStack : Len(s) > Len(op.at)
        /\ op.stopped /\ ~op.more =>
             op.visited + Len(op.stack) + Cardinality(op.kids) >= LIST_MAX_ENTRIES + 2
    BY <1>1, <1>2 DEF ListShows, WalkTyped, Handled
  <2>2. Handled' = op.visited /\ op'.visited > 0 /\ (op'.visited = 1 <=> op.visited = 0) /\ op'.pc # "walk"
    BY <1>7, <2>1 DEF Handled
  <2>3. IF op.visited = 0 THEN Len(h) = Len(op.at) ELSE Len(h) > Len(op.at)
    BY <1>4, <2>1
  <2>4. \A s \in OnStack' : Len(s) > Len(op.at)
    <3>1. CASE op.visited = 0
      <4>1. DOMAIN op'.stack = {}
        <5>1. \A i \in DOMAIN op'.stack : i \in Nat /\ i < 1 /\ i \in DOMAIN op.stack
          BY <1>6, <2>1, <3>1
        <5>2. DOMAIN op.stack = 1..Len(op.stack)
          BY <1>1, TopIs DEF OpInv, InHandOK
        <5> QED BY <5>1, <5>2
      <4> QED BY <4>1 DEF OnStack
    <3>2. CASE op.visited # 0
      BY <1>5, <2>1, <3>2
    <3> QED BY <3>1, <3>2
  <2>5. op.stopped /\ ~op.more =>
          op'.visited + Len(op'.stack) + Cardinality(op'.kids) >= LIST_MAX_ENTRIES + 2
    <3>1. Cardinality(op.kids) = 0 /\ Cardinality(op'.kids) = 0
      BY <1>4, <1>7, FS_EmptySet
    <3>2. Len(op'.stack) = Len(op.stack) - 1 /\ Len(op.stack) \in Nat
      BY TopTaken
    <3> QED BY <1>7, <2>1, <3>1, <3>2
  <2> QED BY <1>3, <1>7, <2>1, <2>2, <2>3, <2>4, <2>5 DEF ListShows
<1> QED BY <1>9, <1>10, <1>11, <1>14, <1>15, <1>16 DEF WalkParts

(* A walk that reaches its limit drops what is left, and owes nothing more. *)
LEMMA StopsWalks ==
  ASSUME OpInv, WalkParts, Taking, op'.pc = "walk", op'.stopped = TRUE, op'.stack = <<>>, op'.names = {},
         op.does = "list" => op.more
  PROVE  WalkParts'
<1>1. WalkTyped /\ EntriesGenuine /\ InTurn /\ Covered /\ ShownWasThere /\ Counts /\ ListShows
  BY DEF WalkParts
<1>2. /\ op'.does = op.does /\ op'.at = op.at /\ op'.base = op.base /\ op'.depth = op.depth
      /\ op'.found = op.found /\ op'.more = op.more /\ op'.kids = {}
      /\ op'.visited = op.visited + 1 /\ op'.symlinks = op.symlinks /\ op'.skipped = op.skipped
      /\ op'.unreadable \in {op.unreadable, op.unreadable + 1} /\ Held
  BY DEF Taking, Held
<1>3. /\ OnStack' = {} /\ AtHand' = {} /\ FoundAlready' = FoundAlready /\ DOMAIN op'.stack = {}
  BY <1>2 DEF OnStack, AtHand, FoundAlready
<1>4. WalkTyped'
  <2>1. op'.visited \in Nat /\ op'.unreadable \in Nat
    BY <1>1, <1>2 DEF WalkTyped
  <2>2. op'.found \in Seq(Range(op'.found))
    BY <1>1, <1>2 DEF WalkTyped
  <2> QED BY <1>1, <1>2, <1>3, <2>1, <2>2 DEF WalkTyped
<1>5. EntriesGenuine'
  BY <1>2, <1>3 DEF EntriesGenuine
<1>6. InTurn'
  BY <1>1, <1>2, <1>3 DEF InTurn
<1>7. Covered' /\ Counts'
  <2>1. Grows
    BY <1>1, <1>2 DEF Grows, WalkTyped
  <2>2. \A p : ~Due(p)'
    BY DEF Due
  <2>3. LeavesOne(0) /\ LooksAtOne(0)
    BY <1>2, <2>2 DEF LeavesOne, LooksAtOne
  <2> QED BY <1>1, <2>1, <2>3, AccountsKept
<1>8. ShownWasThere'
  <2>1. (\A p : Stable(p)' => Stable(p)) /\ (\A p : There(p)' <=> There(p))
    BY <1>2, HeldKeeps
  <2> QED BY <1>1, <1>2, <1>3, <2>1 DEF ShownWasThere
<1>9. ListShows'
  <2>1. op'.visited # 0 /\ op.visited \in Nat
    BY <1>1, <1>2 DEF WalkTyped
  <2> QED BY <1>1, <1>2, <1>3, <2>1 DEF ListShows
<1> QED BY <1>4, <1>5, <1>6, <1>7, <1>8, <1>9 DEF WalkParts

(* The limit of a walk lets a list show all it may before it is reached.    *)
LEMMA ListIsWhole ==
  ASSUME WalkParts, op.pc = "walk", op.does = "list", op.visited + 1 > Limit
  PROVE  op.more
<1>1. /\ Len(op.found) <= LIST_MAX_ENTRIES /\ op.visited \in Nat
      /\ ~op.more => Len(op.found) = IF op.visited = 0 THEN 0 ELSE op.visited - 1
  BY DEF WalkParts, WalkTyped, ListShows, Handled
<1>2. /\ Limit = WALK_MAX_ENTRIES /\ WALK_MAX_ENTRIES \in Nat /\ LIST_MAX_ENTRIES \in Nat
      /\ LIST_MAX_ENTRIES + 2 <= WALK_MAX_ENTRIES
  BY WorkspaceAssumption DEF Limit
<1>3. SUFFICES ASSUME ~op.more PROVE FALSE
  OBVIOUS
<1>4. op.visited + 1 > WALK_MAX_ENTRIES
  BY <1>2
<1>5. op.visited - 1 <= LIST_MAX_ENTRIES
  <2>1. op.visited # 0 /\ Len(op.found) = op.visited - 1
    BY <1>1, <1>2, <1>3, <1>4
  <2> QED BY <1>1, <2>1
<1> QED BY ONLY <1>1, <1>2, <1>4, <1>5

(* How deep a walk goes is a number.                                        *)
LEMMA MaxDepthIs ==
  ASSUME WalkParts
  PROVE  MaxDepth \in Nat
<1>1. op.does \in {"search", "list", "facts"} /\ (op.does = "list" => op.depth \in Nat)
  BY DEF WalkParts, WalkTyped, ListShows
<1>2. WALK_MAX_DEPTH \in Nat /\ Cardinality(Paths) \in Nat
  BY WorkspaceAssumption, FS_CardinalityType
<1> QED BY <1>1, <1>2 DEF MaxDepth

(* An entry that is no directory, or lies too deep, has nothing below that  *)
(* is due; nor has one that cannot be listed, once that is counted.         *)
LEMMA NothingBelow ==
  ASSUME OpInv, TreeKept, WalkParts, Grows, tree' = tree, op.pc = "walk", op.stack # <<>>,
         \/ ~IsDir(Top.meta) \/ Len(Top.path) - Len(op.at) >= MaxDepth
         \/ ~Listable(tree, Top.path) /\ op'.unreadable # 0,
         NEW p \in Paths, Due(p)', Above(Top.path, p)
  PROVE  FALSE
<1>1. PICK h \in Places : h = Top.path
  BY TopKnown
<1>2. Len(h) \in Nat /\ Genuine(h, Top.meta)
  BY <1>1, TopKnown
<1>3. Due(p) /\ p \in Places /\ Above(h, p)
  BY <1>1, GrowsKeeps, PathsAre
<1>4. Len(h) < Len(p) /\ (h = <<>> \/ h \in Ancestors(p)) /\ Len(p) \in Nat
  BY <1>3, AboveIs, PathsAre
<1>5. Stable(p) /\ There(p) /\ Len(p) - Len(op.at) <= MaxDepth
  BY <1>3 DEF Due
<1>6. Stable(h)
  BY <1>3, <1>5, StableAbove DEF TreeKept
<1>7. There(h) /\ IsDir(NodeOf(op.base, h)) /\ Top.meta = NodeOf(op.base, h)
  BY <1>2, <1>3, <1>5, <1>6, ThereIs DEF Genuine
<1>8. CASE ~IsDir(Top.meta)
  BY <1>7, <1>8
<1>9. CASE Len(h) - Len(op.at) >= MaxDepth
  <2>1. MaxDepth \in Nat /\ Len(op.at) \in Nat
    BY MaxDepthIs, PathsAre DEF OpInv
  <2> QED BY ONLY <1>2, <1>4, <1>5, <1>9, <2>1
<1>10. CASE ~Listable(tree, h) /\ op'.unreadable # 0
  <2>1. \A a \in Ancestors(p) : op'.base[a] = "dir"
    BY <1>10 DEF Due
  <2>2. NodeOf(op.base, h) = "dir"
    <3>1. CASE h = <<>>
      BY <3>1 DEF NodeOf
    <3>2. CASE h # <<>>
      <4>1. h \in Ancestors(p) /\ h \in Paths
        BY <1>4, <3>2, WorkspaceAssumption
      <4>2. op.base[h] = "dir"
        BY <2>1, <4>1 DEF Grows, Held
      <4> QED BY <3>2, <4>1, <4>2 DEF NodeOf
    <3> QED BY <3>1, <3>2
  <2>3. Lstat(tree, h) = "dir"
    BY <1>6, <1>7, <2>2, StableSees, ThereIs
  <2> QED BY <1>10, <2>3 DEF Listable
<1> QED BY <1>1, <1>8, <1>9, <1>10

(* The next entry of a walk.                                                *)
LEMMA PopWalks ==
  ASSUME OpInv, WalkInv, Pop
  PROVE  WalkInv'
<1> DEFINE c == [op EXCEPT !.stack = Front(@), !.entry = Top, !.visited = @ + 1]
<1>1. op.pc = "walk" /\ op.stack # <<>> /\ tree' = tree
  BY DEF Pop
<1>2. WalkParts /\ TreeKept
  BY <1>1 DEF WalkInv, Walking
<1>3. WalkTyped
  BY <1>2 DEF WalkParts
<1>4. op.names = {} /\ op.kids = {}
  BY <1>1, <1>3 DEF WalkTyped
<1>5. \/ op.visited + 1 > Limit /\ op' = [c EXCEPT !.stopped = TRUE, !.stack = <<>>]
      \/ /\ ~IsDir(Top.meta) \/ Len(Top.path) - Len(op.at) >= MaxDepth
         /\ op' = [c EXCEPT !.pc = "visit"]
      \/ /\ IsDir(Top.meta)
         /\ op' = [c EXCEPT !.pc = "list", !.names = NamesIn(tree, Top.path), !.kids = {}]
      \/ /\ ~Listable(tree, Top.path)
         /\ op' = [c EXCEPT !.pc = "visit", !.unreadable = @ + 1]
  BY DEF Pop, Top
<1>6. Taking /\ op'.pc # "done" /\ WalkParts' => WalkInv'
  <2> SUFFICES ASSUME Taking, op'.pc \in {"walk", "visit", "list"}, WalkParts'
               PROVE  WalkInv'
    <3>1. op'.pc \in {"walk", "visit", "list"}
      BY <1>1, <1>5 DEF OpInv, OpFields
    <3> QED BY <3>1
  <2>1. WalksAccountForAll'
    BY NothingAnswered
  <2> QED BY <1>1, <2>1 DEF WalkInv, Taking, Held, TreeKept
<1>7. CASE op.visited + 1 > Limit /\ op' = [c EXCEPT !.stopped = TRUE, !.stack = <<>>]
  <2>1. Taking /\ op'.pc = "walk" /\ op'.stopped = TRUE /\ op'.stack = <<>> /\ op'.names = {}
    BY <1>1, <1>4, <1>7 DEF OpInv, OpFields, Taking, Held
  <2>2. op.does = "list" => op.more
    BY <1>1, <1>2, <1>7, ListIsWhole
  <2>3. WalkParts'
    BY <1>2, <2>1, <2>2, StopsWalks
  <2> QED BY <1>6, <2>1, <2>3
<1>8. ASSUME TakesTop, op'.pc # "done",
             \A p \in Paths : Due(p)' /\ Above(Top.path, p) => op'.pc = "list"
      PROVE  WalkInv'
  <2>1. WalkParts'
    BY <1>2, <1>8, TakesTopWalks
  <2> QED BY <1>6, <1>8, <2>1 DEF TakesTop
<1>9. CASE /\ ~IsDir(Top.meta) \/ Len(Top.path) - Len(op.at) >= MaxDepth
           /\ op' = [c EXCEPT !.pc = "visit"]
  <2>1. TakesTop /\ op'.pc = "visit"
    BY <1>1, <1>4, <1>9 DEF OpInv, OpFields, TakesTop, Taking, Held
  <2>2. Grows
    BY <1>3, <1>9, <2>1 DEF OpInv, OpFields, Grows, TakesTop, Taking
  <2> QED BY <1>1, <1>2, <1>8, <1>9, <2>1, <2>2, NothingBelow
<1>10. CASE /\ IsDir(Top.meta)
            /\ op' = [c EXCEPT !.pc = "list", !.names = NamesIn(tree, Top.path), !.kids = {}]
  <2>1. TakesTop /\ op'.pc = "list"
    BY <1>1, <1>4, <1>10 DEF OpInv, OpFields, TakesTop, Taking, Held
  <2> QED BY <1>8, <2>1
<1>11. CASE /\ ~Listable(tree, Top.path)
            /\ op' = [c EXCEPT !.pc = "visit", !.unreadable = @ + 1]
  <2>1. TakesTop /\ op'.pc = "visit" /\ op'.unreadable = op.unreadable + 1
    BY <1>1, <1>4, <1>11 DEF OpInv, OpFields, TakesTop, Taking, Held
  <2>2. Grows /\ op'.unreadable # 0
    BY <1>3, <1>11, <2>1 DEF OpInv, OpFields, Grows, TakesTop, Taking, WalkTyped
  <2> QED BY <1>1, <1>2, <1>8, <1>11, <2>1, <2>2, NothingBelow
<1> QED BY <1>5, <1>7, <1>9, <1>10, <1>11

-----------------------------------------------------------------------------
\* A name of the directory in hand is looked at, or none is any more.
Looking(path) ==
  /\ Grows /\ op.pc = "list" /\ path \in op.names /\ tree' = tree
  /\ op'.changed = op.changed /\ op'.pc = op.pc /\ op'.entry = op.entry /\ op'.stack = op.stack
  /\ op'.found = op.found /\ op'.more = op.more /\ op'.visited = op.visited
  /\ op'.skipped = op.skipped /\ op'.unreadable \in {op.unreadable, op.unreadable + 1}
  /\ op'.symlinks \in {op.symlinks, op.symlinks + 1} /\ op'.stopped \in {op.stopped, TRUE}
  /\ op'.names \subseteq op.names
  /\ \/ op'.kids = op.kids
     \/ op'.kids = op.kids \cup {Entry(path, Lstat(tree, path))} /\ Lstat(tree, path) # "absent"
  /\ op'.stopped = op.stopped \/ op.visited + Len(op.stack) + Cardinality(op.kids) >= Limit

(* What is known of a name that is looked at.                               *)
LEMMA NameIs ==
  ASSUME OpInv, WalkParts, op.pc = "list", NEW path \in op.names
  PROVE  path \in Paths /\ path \in Places /\ path \in Kids(op.entry.path)
BY PathsAre DEF OpInv, InHandOK, Kids

(* What was seen of it is what was there, if nobody touched it.             *)
LEMMA NameIsGenuine ==
  ASSUME OpInv, TreeKept, WalkParts, op.pc = "list", NEW path \in op.names
  PROVE  /\ Lstat(tree, path) # "absent" => Genuine(path, Lstat(tree, path))
         /\ Stable(path) /\ There(path) =>
              Lstat(tree, path) = NodeOf(op.base, path) /\ Lstat(tree, path) # "absent"
<1>1. path \in Places
  BY NameIs
<1>2. Stable(path) => ~Leaves(op.base, path) /\ Lstat(tree, path) = Lstat(op.base, path)
  BY <1>1, StableSees DEF WalkParts, EntriesGenuine
<1>3. There(path) => Lstat(op.base, path) = NodeOf(op.base, path) /\ Lstat(op.base, path) # "absent"
  BY <1>1, ThereIs DEF There
<1>4. Stable(path) /\ Lstat(tree, path) # "absent" => There(path)
  BY <1>2 DEF There
<1> QED BY <1>2, <1>3, <1>4 DEF Genuine

(* A walk that has looked at one more name, and still owes what it owed.    *)
LEMMA LookingWalks ==
  ASSUME OpInv, TreeKept, WalkParts, NEW path, Looking(path), LeavesOne(0), LooksAtOne(path)
  PROVE  WalkParts'
<1>1. WalkTyped /\ EntriesGenuine /\ InTurn /\ Covered /\ ShownWasThere /\ Counts /\ ListShows
  BY DEF WalkParts
<1>2. /\ op'.does = op.does /\ op'.at = op.at /\ op'.base = op.base /\ op'.depth = op.depth
      /\ op'.found = op.found /\ op'.more = op.more /\ op'.entry = op.entry /\ op'.stack = op.stack
      /\ op'.visited = op.visited /\ op'.skipped = op.skipped /\ op'.pc = op.pc /\ op.pc = "list"
      /\ op'.symlinks \in {op.symlinks, op.symlinks + 1} /\ op'.stopped \in {op.stopped, TRUE}
      /\ op'.unreadable \in {op.unreadable, op.unreadable + 1} /\ Held /\ Grows
      /\ op'.names \subseteq op.names
  BY DEF Looking, Grows, Held
<1>3. /\ OnStack' = OnStack /\ AtHand' = AtHand /\ FoundAlready' = FoundAlready
      /\ Handled' = Handled
  BY <1>2 DEF OnStack, AtHand, FoundAlready, Handled
<1>4. path \in Paths /\ path \in Kids(op.entry.path)
  BY NameIs DEF Looking
<1>5. \A kid \in op'.kids : kid \in op.kids \/
        (kid = Entry(path, Lstat(tree, path)) /\ Lstat(tree, path) # "absent")
  BY DEF Looking
<1>6. WalkTyped'
  <2>1. op'.unreadable \in Nat /\ op'.symlinks \in Nat /\ op'.stopped \in BOOLEAN
    <3>1. op.unreadable \in Nat /\ op.symlinks \in Nat /\ op.stopped \in BOOLEAN
      BY <1>1 DEF WalkTyped
    <3>2. op'.unreadable \in Nat /\ op'.symlinks \in Nat
      BY <1>2, <3>1
    <3>3. op'.stopped \in BOOLEAN
      BY <1>2, <3>1, Zenon
    <3> QED BY <3>2, <3>3
  <2>2. KidPaths' \subseteq Kids(op.entry.path)
    <3> SUFFICES ASSUME NEW kid \in op'.kids PROVE kid.path \in Kids(op.entry.path)
      BY DEF KidPaths
    <3>1. CASE kid \in op.kids
      BY <1>1, <1>2, <3>1 DEF WalkTyped, KidPaths
    <3>2. CASE kid = Entry(path, Lstat(tree, path))
      BY <1>4, <3>2 DEF Entry
    <3> QED BY <1>5, <3>1, <3>2
  <2> QED BY <1>1, <1>2, <1>3, <2>1, <2>2 DEF WalkTyped
<1>7. EntriesGenuine'
  <2>1. \A p, m : Genuine(p, m) => Genuine(p, m)'
    BY <1>2, HeldKeeps
  <2>2. \A p : Stable(p)' => Stable(p)
    BY <1>2, HeldKeeps
  <2>3. ASSUME NEW kid \in op'.kids PROVE Genuine(kid.path, kid.meta)
    <3>1. CASE kid \in op.kids
      BY <1>1, <3>1 DEF EntriesGenuine
    <3>2. CASE kid = Entry(path, Lstat(tree, path)) /\ Lstat(tree, path) # "absent"
      <4>1. Genuine(path, Lstat(tree, path))
        BY <3>2, NameIsGenuine DEF Looking
      <4>2. kid.path = path /\ kid.meta = Lstat(tree, path)
        BY <3>2 DEF Entry
      <4> QED BY <4>1, <4>2
    <3> QED BY <1>5, <3>1, <3>2
  <2>4. \A kid \in op'.kids : Genuine(kid.path, kid.meta)'
    BY <2>1, <2>3
  <2>5. \A i \in DOMAIN op'.stack : Genuine(op.stack[i].path, op.stack[i].meta)'
    BY <1>1, <1>2, <2>1 DEF EntriesGenuine
  <2>6. AtHand # {} => Genuine(op.entry.path, op.entry.meta)'
    BY <1>1, <1>2, <2>1 DEF EntriesGenuine
  <2>7. \A p \in op'.names : Stable(p)' => ~Leaves(op.base, p)
    BY <1>1, <1>2, <2>2 DEF EntriesGenuine
  <2> QED BY <1>2, <1>3, <2>4, <2>5, <2>6, <2>7 DEF EntriesGenuine
<1>8. InTurn'
  BY <1>1, <1>2, <1>3 DEF InTurn
<1>9. Covered' /\ Counts'
  BY <1>1, <1>2, AccountsKept
<1>10. ShownWasThere'
  <2>1. (\A p : Stable(p)' => Stable(p)) /\ (\A p : There(p)' <=> There(p))
    BY <1>2, HeldKeeps
  <2> QED BY <1>1, <1>2, <1>3, <2>1 DEF ShownWasThere
<1>11. ListShows'
  <2> SUFFICES ASSUME op.does = "list" PROVE ListShows'
    BY <1>2 DEF ListShows
  <2>1. IsFiniteSet(op.kids) /\ IsFiniteSet(op'.kids) /\ op.kids \subseteq op'.kids
    <3>1. IsFiniteSet(op.kids)
      BY DEF OpInv, InHandOK
    <3>2. op'.kids = op.kids \/ \E e : op'.kids = op.kids \cup {e}
      BY DEF Looking
    <3> QED BY <3>1, <3>2, FS_AddElement
  <2>2. /\ Cardinality(op.kids) <= Cardinality(op'.kids)
        /\ Cardinality(op.kids) \in Nat /\ Cardinality(op'.kids) \in Nat
    BY <2>1, FS_Subset, FS_CardinalityType
  <2>3. Len(op.stack) \in Nat /\ op.visited \in Nat
    BY <1>1, <1>2, LenProperties DEF OpInv, InHandOK, WalkTyped
  <2>4. Limit \in Nat /\ Limit >= LIST_MAX_ENTRIES + 2 /\ LIST_MAX_ENTRIES \in Nat
    BY WorkspaceAssumption DEF Limit
  <2>5. op'.stopped /\ ~op.more => op.visited + Len(op.stack) + Cardinality(op.kids) >= LIST_MAX_ENTRIES + 2
    <3>1. CASE op'.stopped = op.stopped
      BY <1>1, <3>1 DEF ListShows
    <3>2. CASE op.visited + Len(op.stack) + Cardinality(op.kids) >= Limit
      BY <2>2, <2>3, <2>4, <3>2
    <3> QED BY <3>1, <3>2 DEF Looking
  <2>6. op'.stopped /\ ~op.more => op.visited + Len(op.stack) + Cardinality(op'.kids) >= LIST_MAX_ENTRIES + 2
    BY <2>2, <2>3, <2>4, <2>5
  <2> QED BY <1>1, <1>2, <1>3, <2>6 DEF ListShows
<1> QED BY <1>6, <1>7, <1>8, <1>9, <1>10, <1>11 DEF WalkParts

(* A path that is due, or lies on the way to one that is, is seen.          *)
LEMMA DueIsSeen ==
  ASSUME OpInv, TreeKept, WalkParts, Grows, op.pc = "list", NEW path \in op.names,
         NEW p \in Paths, Due(p)', path = p \/ Above(path, p)
  PROVE  Lstat(tree, path) = NodeOf(op.base, path) /\ Lstat(tree, path) # "absent"
<1>1. Due(p) /\ p \in Places
  BY GrowsKeeps, PathsAre
<1>2. Stable(p) /\ There(p)
  BY <1>1 DEF Due
<1>3. Stable(path) /\ There(path)
  BY <1>1, <1>2, StableAbove, ThereIs DEF TreeKept
<1> QED BY <1>3, NameIsGenuine

(* An entry of a directory is looked at.                                    *)
LEMMA StatWalks ==
  ASSUME OpInv, WalkInv, Stat
  PROVE  WalkInv'
<1>1. op.pc = "list" /\ tree' = tree
  BY Zenon DEF Stat
<1>2. WalkParts /\ TreeKept
  BY <1>1 DEF WalkInv, Walking
<1>3. WalkTyped
  BY <1>2 DEF WalkParts
<1>4. PICK path \in op.names :
        LET seen == Seen(path)
            c == [op EXCEPT !.names = @ \ {path}]
        IN  \/ op.late /\ op' = [op EXCEPT !.pc = "done", !.status = "timeout"]
            \/ ~op.late /\ AtLimit /\ op' = [op EXCEPT !.stopped = TRUE, !.names = {}]
            \/ ~op.late /\ ~AtLimit /\ seen = "absent" /\ op' = [c EXCEPT !.unreadable = @ + 1]
            \/ /\ ~op.late /\ ~AtLimit /\ seen = "link"
               /\ op' = [c EXCEPT !.kids = @ \cup {Entry(path, seen)}, !.symlinks = @ + 1]
            \/ /\ ~op.late /\ ~AtLimit /\ seen \notin {"link", "absent"}
               /\ op' = [c EXCEPT !.kids = @ \cup {Entry(path, seen)}, !.cleared = @ \cup {path}]
  BY Zenon DEF Stat
<1> DEFINE seen == Seen(path)
           c == [op EXCEPT !.names = @ \ {path}]
           Adds == op'.kids = op.kids \cup {Entry(path, seen)}
<1> HIDE DEF seen
<1>5. ASSUME Looking(path), LeavesOne(0), LooksAtOne(path) PROVE WalkInv'
  <2>1. WalkParts'
    BY <1>2, <1>5, LookingWalks
  <2>2. op'.pc = "list"
    BY <1>5 DEF Looking
  <2>3. WalksAccountForAll'
    BY <2>2, NothingAnswered
  <2> QED BY <1>1, <1>5, <2>1, <2>2, <2>3 DEF WalkInv, Looking, Grows, Held, TreeKept
<1>6. CASE op' = [op EXCEPT !.pc = "done", !.status = "timeout"]
  <2>1. Ends("timeout")
    BY <1>6 DEF Ends
  <2> QED BY <1>1, <2>1, EndsWalks
<1>7. CASE AtLimit /\ op' = [op EXCEPT !.stopped = TRUE, !.names = {}]
  <2>1. Looking(path) /\ op'.stopped = TRUE /\ op'.skipped = op.skipped /\ op'.symlinks = op.symlinks
    BY <1>1, <1>3, <1>7 DEF OpInv, OpFields, Looking, Grows, Held, AtLimit, WalkTyped
  <2>2. \A p : ~Due(p)'
    BY <2>1 DEF Due
  <2> QED BY <1>5, <2>1, <2>2 DEF LeavesOne, LooksAtOne
<1>8. CASE seen = "absent" /\ op' = [c EXCEPT !.unreadable = @ + 1]
  <2>1. /\ Looking(path) /\ Grows /\ op'.names = op.names \ {path} /\ op'.kids = op.kids
        /\ op'.skipped = op.skipped /\ op'.symlinks = op.symlinks /\ op'.stack = op.stack
    BY <1>1, <1>3, <1>8 DEF OpInv, OpFields, Looking, Grows, Held, WalkTyped
  <2>2. \A p \in Paths : Due(p)' => path # p /\ ~Above(path, p)
    BY <1>1, <1>2, <1>8, <2>1, DueIsSeen DEF seen, Seen
  <2>3. Waiting' = OnStack \cup (op.names \ {path}) \cup KidPaths
    BY <2>1 DEF Waiting, OnStack, KidPaths
  <2>4. AtHand' = AtHand
    BY <2>1 DEF Looking, AtHand
  <2>5. \A p \in Paths : Due(p)' /\ Pending(p) => Pending(p)'
    BY <2>2, <2>3 DEF Pending, Waiting
  <2>6. \A p \in Paths : Due(p)' /\ Unlooked(p) => Unlooked(p)'
    BY <2>1, <2>2, <2>3 DEF Unlooked, Waiting
  <2>7. LeavesOne(0) /\ LooksAtOne(path)
    BY <2>1, <2>4, <2>5, <2>6 DEF LeavesOne, LooksAtOne
  <2> QED BY <1>5, <2>1, <2>7
<1>9. ASSUME Looking(path), Adds, op'.names = op.names \ {path}, op'.skipped = op.skipped,
             op'.stack = op.stack, op'.symlinks \in {op.symlinks, op.symlinks + 1},
             seen = "link" => op'.symlinks = op.symlinks + 1
      PROVE  WalkInv'
  <2>1. Entry(path, seen).path = path
    BY DEF Entry
  <2>2. Waiting \subseteq Waiting'
    <3>1. path \in KidPaths' /\ KidPaths \subseteq KidPaths'
      BY <1>9, <2>1 DEF KidPaths
    <3>2. OnStack' = OnStack
      BY <1>9 DEF OnStack
    <3> QED BY <1>9, <3>1, <3>2 DEF Waiting
  <2>3. AtHand' = AtHand
    BY <1>9 DEF Looking, AtHand
  <2>4. \A p : Pending(p) => Pending(p)'
    BY <2>2 DEF Pending
  <2>5. ASSUME NEW p \in Paths, Due(p)', op.base[p] = "link", Unlooked(p)
        PROVE  Unlooked(p)' \/ (p = path /\ op'.symlinks = op.symlinks + 1)
    <3>1. CASE p = path /\ p \in op.names
      <4>1. seen = NodeOf(op.base, p)
        BY <1>1, <1>2, <1>9, <2>5, <3>1, DueIsSeen DEF seen, Seen, Looking
      <4>2. seen = "link"
        BY <2>5, <4>1, PathsAre DEF NodeOf
      <4> QED BY <1>9, <3>1, <4>2
    <3>2. CASE p # path /\ p \in op.names
      BY <1>9, <3>2 DEF Unlooked
    <3>3. CASE \E w \in Waiting : Above(w, p)
      BY <2>2, <3>3 DEF Unlooked
    <3> QED BY <2>5, <3>1, <3>2, <3>3 DEF Unlooked
  <2>6. LeavesOne(0) /\ LooksAtOne(path)
    BY <1>9, <2>3, <2>4, <2>5 DEF LeavesOne, LooksAtOne
  <2> QED BY <1>5, <1>9, <2>6
<1>10. CASE /\ seen = "link"
            /\ op' = [c EXCEPT !.kids = @ \cup {Entry(path, seen)}, !.symlinks = @ + 1]
  <2>1. /\ Adds /\ op'.names = op.names \ {path} /\ op'.skipped = op.skipped
        /\ op'.stack = op.stack /\ op'.symlinks = op.symlinks + 1
    BY <1>10 DEF OpInv, OpFields
  <2>2. Looking(path)
    BY <1>1, <1>3, <1>10, <2>1 DEF OpInv, OpFields, Looking, Grows, Held, WalkTyped, seen, Seen
  <2> QED BY <1>9, <2>1, <2>2
<1>11. CASE /\ seen \notin {"link", "absent"}
            /\ op' = [c EXCEPT !.kids = @ \cup {Entry(path, seen)}, !.cleared = @ \cup {path}]
  <2>1. /\ Adds /\ op'.names = op.names \ {path} /\ op'.skipped = op.skipped
        /\ op'.stack = op.stack /\ op'.symlinks = op.symlinks
    BY <1>11 DEF OpInv, OpFields
  <2>2. Looking(path)
    BY <1>1, <1>3, <1>11, <2>1 DEF OpInv, OpFields, Looking, Grows, Held, WalkTyped, seen, Seen
  <2> QED BY <1>9, <1>11, <2>1, <2>2
<1> QED BY <1>4, <1>6, <1>7, <1>8, <1>10, <1>11 DEF seen

-----------------------------------------------------------------------------
\* A stack that holds what the stack held, and what was listed on top of it.
ListedOn(stack) ==
  /\ \E n \in Nat, m \in Nat :
        /\ n = Len(op.stack) /\ m = Cardinality(op.kids) /\ Len(stack) = n + m
        /\ DOMAIN op.stack = 1..n /\ DOMAIN stack = 1..n + m
        /\ \A i \in 1..n : stack[i] = op.stack[i] /\ stack[i].path \in OnStack
        /\ \A i \in n + 1..n + m : stack[i] \in op.kids /\ stack[i].path \in KidPaths
        /\ \A i, j \in n + 1..n + m : i < j => ByName(stack[j].path, stack[i].path)
  /\ {stack[i].path : i \in DOMAIN stack} = OnStack \cup KidPaths

(* The stack with a listing on top of it.                                   *)
LEMMA StackedListing ==
  ASSUME OpInv, WalkParts, op.pc = "list", NEW listed \in InOrder(op.kids),
         NEW stack, stack = op.stack \o listed
  PROVE  ListedOn(stack)
<1>1. op.stack \in Seq(Range(op.stack)) /\ IsFiniteSet(op.kids)
  BY DEF OpInv, InHandOK
<1>2. \A kid \in op.kids : kid.path \in Paths
  BY DEF WalkParts, WalkTyped, KidPaths, Kids
<1>3. PICK n \in Nat : n = Len(op.stack)
  BY <1>1, LenProperties
<1>4. PICK m \in Nat : m = Cardinality(op.kids)
  BY <1>1, FS_CardinalityType
<1>5. /\ listed \in Seq(op.kids) /\ Len(listed) = m
      /\ \A kid \in op.kids : \E i \in DOMAIN listed : listed[i] = kid
      /\ \A i, j \in DOMAIN listed : i < j => ByName(listed[j].path, listed[i].path)
  BY <1>1, <1>2, <1>4, ListingIs
<1>6. DOMAIN op.stack = 1..n /\ DOMAIN listed = 1..m
  BY <1>1, <1>3, <1>5, LenProperties
<1>7. /\ Len(stack) = n + m
      /\ \A i \in 1..n + m : stack[i] = IF i <= n THEN op.stack[i] ELSE listed[i - n]
      /\ DOMAIN stack = 1..n + m
  <2> DEFINE S == Range(op.stack) \cup op.kids
  <2>1. op.stack \in Seq(S) /\ listed \in Seq(S)
    BY <1>1, <1>5
  <2> HIDE DEF S
  <2>2. /\ stack \in Seq(S) /\ Len(stack) = Len(op.stack) + Len(listed)
        /\ \A i \in 1..Len(op.stack) + Len(listed) :
             stack[i] = IF i <= Len(op.stack) THEN op.stack[i] ELSE listed[i - Len(op.stack)]
    BY <2>1, ConcatProperties
  <2>3. DOMAIN stack = 1..Len(stack)
    BY <2>2, LenProperties
  <2> QED BY <1>3, <1>5, <2>2, <2>3
<1>8. \A i \in 1..n : i \in 1..n + m /\ i <= n
  BY ONLY <1>3, <1>4
<1>9. \A i \in n + 1..n + m : i \in 1..n + m /\ ~(i <= n) /\ i - n \in 1..m
  BY ONLY <1>3, <1>4
<1>10. \A i \in 1..n : stack[i] = op.stack[i] /\ stack[i].path \in OnStack
  BY <1>6, <1>7, <1>8 DEF OnStack
<1>11. \A i \in n + 1..n + m : stack[i] = listed[i - n] /\ i - n \in DOMAIN listed
  BY <1>6, <1>7, <1>9
<1>12. \A i \in DOMAIN listed : listed[i] \in op.kids
  BY <1>5
<1>13. \A i \in n + 1..n + m : stack[i] \in op.kids /\ stack[i].path \in KidPaths
  BY <1>11, <1>12 DEF KidPaths
<1>14. ASSUME NEW i \in n + 1..n + m, NEW j \in n + 1..n + m, i < j
       PROVE  ByName(stack[j].path, stack[i].path)
  <2>1. i - n < j - n
    BY <1>3, <1>4, <1>14
  <2> QED BY <1>5, <1>11, <2>1
<1>15. {stack[i].path : i \in DOMAIN stack} = OnStack \cup KidPaths
  <2>1. ASSUME NEW i \in DOMAIN stack PROVE stack[i].path \in OnStack \cup KidPaths
    <3>1. i \in 1..n \/ i \in n + 1..n + m
      BY <1>3, <1>4, <1>7
    <3> QED BY <1>10, <1>13, <3>1
  <2>2. ASSUME NEW i \in DOMAIN op.stack
        PROVE  \E k \in DOMAIN stack : stack[k].path = op.stack[i].path
    BY <1>6, <1>7, <1>8, <1>10
  <2>3. ASSUME NEW kid \in op.kids PROVE \E k \in DOMAIN stack : stack[k].path = kid.path
    <3>1. PICK i \in 1..m : listed[i] = kid
      BY <1>5, <1>6
    <3>2. n + i \in n + 1..n + m /\ (n + i) - n = i /\ n + i \in 1..n + m
      BY <1>3, <1>4
    <3>3. stack[n + i] = kid
      BY <1>11, <3>1, <3>2
    <3> QED BY <1>7, <3>2, <3>3
  <2>4. OnStack \subseteq {stack[i].path : i \in DOMAIN stack}
    <3> SUFFICES ASSUME NEW i \in DOMAIN op.stack
                 PROVE  op.stack[i].path \in {stack[k].path : k \in DOMAIN stack}
      BY DEF OnStack
    <3>1. PICK k \in DOMAIN stack : stack[k].path = op.stack[i].path
      BY <2>2
    <3> QED BY <3>1
  <2>5. KidPaths \subseteq {stack[i].path : i \in DOMAIN stack}
    BY <2>3 DEF KidPaths
  <2>6. {stack[i].path : i \in DOMAIN stack} \subseteq OnStack \cup KidPaths
    BY <2>1
  <2> QED BY <2>4, <2>5, <2>6
<1> QED BY <1>3, <1>4, <1>6, <1>7, <1>10, <1>13, <1>14, <1>15 DEF ListedOn

(* A directory's entries come before all that waits below it on the stack,  *)
(* and after all that was found.                                            *)
LEMMA KidsInTurn ==
  ASSUME OpInv, WalkParts, op.pc = "list", NEW h \in Places, h = op.entry.path, NEW kid \in KidPaths
  PROVE  /\ kid \in Paths /\ kid \in Places /\ Parent(kid) = h /\ Above(h, kid)
         /\ \A s \in OnStack : Before(kid, s) /\ ~Above(s, kid) /\ ~Above(kid, s)
         /\ Before(h, kid) /\ ~Above(kid, h)
         /\ \A f \in FoundAlready : Before(f, kid) /\ ~Above(kid, f)
         /\ \A k \in KidPaths : ~Above(kid, k)
<1>1. \A k \in KidPaths : k \in Paths /\ k \in Places /\ Parent(k) = h
  BY PathsAre DEF WalkParts, WalkTyped, Kids
<1>2. \A k \in KidPaths : Len(h) \in Nat /\ Len(k) = Len(h) + 1 /\ Above(h, k)
  BY <1>1, KidIs
<1>3. /\ \A s \in OnStack : Before(h, s) /\ ~Above(h, s) /\ ~Above(s, h)
      /\ \A f \in FoundAlready : ~Above(h, f)
  BY DEF WalkParts, InTurn, AtHand
<1>4. \A p \in Paths : Parent(p) = h => Above(h, p)
  BY KidIs
<1>5. \A s \in OnStack : Before(kid, s) /\ ~Above(s, kid) /\ ~Above(kid, s)
  <2> SUFFICES ASSUME NEW s \in OnStack PROVE Before(kid, s) /\ ~Above(s, kid) /\ ~Above(kid, s)
    OBVIOUS
  <2>1. Before(kid, s)
    BY <1>1, <1>3, <1>4 DEF Before
  <2>2. ~Above(s, kid)
    <3>1. s # h
      BY <1>3 DEF Before
    <3> QED BY <1>1, <1>3, <3>1, KidIs
  <2>3. s \in Places
    BY PathsAre DEF WalkParts, WalkTyped, OpInv
  <2>4. ~Above(kid, s)
    BY <1>2, <1>3, <2>3, AboveFurther
  <2> QED BY <2>1, <2>2, <2>4
<1>6. Before(h, kid) /\ ~Above(kid, h)
  <2>1. h # kid
    BY <1>2
  <2>2. h \in Paths => Parent(h) # h
    <3> SUFFICES ASSUME h \in Paths, Parent(h) = h PROVE FALSE
      OBVIOUS
    <3>1. Len(h) = Len(h) + 1 /\ Len(h) \in Nat
      BY <1>2, KidIs
    <3> QED BY <3>1
  <2>3. ~Above(kid, h)
    <3> SUFFICES ASSUME Above(kid, h) PROVE FALSE
      OBVIOUS
    <3>1. Len(kid) < Len(h)
      BY AboveIs
    <3> QED BY <1>2, <3>1
  <2> QED BY <1>1, <2>1, <2>2, <2>3 DEF Before
<1>7. ASSUME NEW f \in FoundAlready PROVE Before(f, kid) /\ ~Above(kid, f)
  <2>1. Before(f, kid)
    BY <1>1, <1>3, <1>4 DEF Before
  <2>2. f \in Places
    BY PathsAre DEF WalkParts, WalkTyped, OpInv
  <2> QED BY <1>2, <1>3, <2>1, <2>2, AboveFurther
<1>8. ASSUME NEW k \in KidPaths, Above(kid, k) PROVE FALSE
  <2>1. Len(kid) < Len(k)
    BY <1>1, <1>8, AboveIs
  <2> QED BY <1>2, <2>1
<1> QED BY <1>1, <1>2, <1>5, <1>6, <1>7, <1>8

(* The directory's entries are stacked, and its own entry is visited.       *)
LEMMA ListingWalks ==
  ASSUME OpInv, WalkInv, Listing
  PROVE  WalkInv'
<1>1. op.pc = "list" /\ op.names = {} /\ tree' = tree
  BY DEF Listing
<1>2. WalkParts /\ TreeKept
  BY <1>1 DEF WalkInv, Walking
<1>3. WalkTyped /\ EntriesGenuine /\ InTurn /\ Covered /\ ShownWasThere /\ Counts /\ ListShows
  BY <1>2 DEF WalkParts
<1>4. PICK listed \in InOrder(op.kids) :
        op' = [op EXCEPT !.pc = "visit", !.stack = @ \o listed, !.kids = {}]
  BY Zenon DEF Listing
<1>5. /\ op'.pc = "visit" /\ op'.stack = op.stack \o listed /\ op'.kids = {} /\ op'.names = {}
      /\ op'.entry = op.entry /\ op'.found = op.found /\ op'.more = op.more
      /\ op'.visited = op.visited /\ op'.symlinks = op.symlinks /\ op'.skipped = op.skipped
      /\ op'.unreadable = op.unreadable /\ op'.stopped = op.stopped /\ op'.changed = op.changed
      /\ op'.does = op.does /\ op'.at = op.at /\ op'.base = op.base /\ op'.depth = op.depth
  BY <1>1, <1>4 DEF OpInv, OpFields
<1>6. Held /\ Grows
  BY <1>5 DEF Held, Grows
<1>7. \A stack : stack = op'.stack => ListedOn(stack)
  <2> SUFFICES ASSUME NEW stack, stack = op.stack \o listed PROVE ListedOn(stack)
    BY <1>5
  <2> QED BY <1>1, <1>2, <1>4, StackedListing
<1>8. PICK n \in Nat, m \in Nat :
           /\ n = Len(op.stack) /\ m = Cardinality(op.kids) /\ Len(op'.stack) = n + m
           /\ DOMAIN op.stack = 1..n /\ DOMAIN op'.stack = 1..n + m
           /\ \A i \in 1..n : op'.stack[i] = op.stack[i] /\ op'.stack[i].path \in OnStack
           /\ \A i \in n + 1..n + m : op'.stack[i] \in op.kids /\ op'.stack[i].path \in KidPaths
           /\ \A i, j \in n + 1..n + m : i < j => ByName(op'.stack[j].path, op'.stack[i].path)
  BY <1>7 DEF ListedOn
<1>9. PICK h \in Places : h = op.entry.path
  BY <1>1 DEF OpInv, InHandOK, Known
<1>10. /\ OnStack' = OnStack \cup KidPaths /\ KidPaths' = {} /\ Waiting' = Waiting
       /\ AtHand' = {h} /\ AtHand = {h} /\ FoundAlready' = FoundAlready
  <2>1. OnStack' = OnStack \cup KidPaths
    BY <1>7 DEF ListedOn, OnStack
  <2> QED BY <1>1, <1>5, <1>9, <2>1 DEF KidPaths, Waiting, AtHand, FoundAlready
<1>11. \A kid \in KidPaths :
         /\ kid \in Paths /\ Parent(kid) = h /\ Above(h, kid)
         /\ \A s \in OnStack : Before(kid, s) /\ ~Above(s, kid) /\ ~Above(kid, s)
         /\ Before(h, kid) /\ ~Above(kid, h)
         /\ \A f \in FoundAlready : Before(f, kid) /\ ~Above(kid, f)
         /\ \A k \in KidPaths : ~Above(kid, k)
  BY <1>1, <1>2, <1>9, KidsInTurn
<1>12. WalkTyped'
  BY <1>3, <1>5, <1>10, <1>11 DEF WalkTyped
<1>13. \A i \in 1..n + m : i \in 1..n \/ i \in n + 1..n + m
  OBVIOUS
<1>14. EntriesGenuine'
  <2>1. \A p, k : Genuine(p, k) => Genuine(p, k)'
    BY <1>6, HeldKeeps
  <2>2. \A i \in DOMAIN op'.stack : Genuine(op'.stack[i].path, op'.stack[i].meta)
    <3> SUFFICES ASSUME NEW i \in 1..n + m PROVE Genuine(op'.stack[i].path, op'.stack[i].meta)
      BY <1>8
    <3>1. CASE i \in 1..n
      BY <1>3, <1>8, <3>1 DEF EntriesGenuine
    <3>2. CASE i \in n + 1..n + m
      BY <1>3, <1>8, <3>2 DEF EntriesGenuine
    <3> QED BY <1>13, <3>1, <3>2
  <2>3. Genuine(op.entry.path, op.entry.meta)
    BY <1>3, <1>10 DEF EntriesGenuine
  <2> QED BY <1>5, <2>1, <2>2, <2>3 DEF EntriesGenuine
<1>15. InTurn'
  <2>1. ASSUME NEW i \in DOMAIN op'.stack, NEW j \in DOMAIN op'.stack, i < j
        PROVE  Before(op'.stack[j].path, op'.stack[i].path)
    <3>1. CASE i \in 1..n /\ j \in 1..n
      BY <1>3, <1>8, <2>1, <3>1 DEF InTurn
    <3>2. CASE i \in 1..n /\ j \in n + 1..n + m
      BY <1>8, <1>11, <3>2
    <3>3. CASE i \in n + 1..n + m /\ j \in n + 1..n + m
      <4>1. ByName(op'.stack[j].path, op'.stack[i].path)
        BY <1>8, <2>1, <3>3
      <4>2. op'.stack[i].path \in Paths /\ op'.stack[j].path \in Paths
        BY <1>8, <1>11, <3>3
      <4> QED BY <4>1, <4>2, OneOrder DEF Before
    <3>4. ~(i \in n + 1..n + m /\ j \in 1..n)
      BY <2>1
    <3> QED BY <1>8, <1>13, <3>1, <3>2, <3>3, <3>4
  <2>2. \A i, j \in DOMAIN op'.found : i < j => Before(op'.found[i].path, op'.found[j].path)
    BY <1>3, <1>5 DEF InTurn
  <2>3. \A s \in OnStack \cup KidPaths : Before(h, s)
    BY <1>3, <1>10, <1>11 DEF InTurn
  <2>4. \A f \in FoundAlready : \A s \in OnStack \cup KidPaths \cup {h} : Before(f, s)
    BY <1>3, <1>10, <1>11 DEF InTurn
  <2>5. \A s \in OnStack \cup KidPaths : \A p \in OnStack \cup KidPaths \cup {h} \cup FoundAlready :
          ~Above(s, p)
    BY <1>3, <1>10, <1>11 DEF InTurn
  <2> QED BY <1>5, <1>10, <2>1, <2>2, <2>3, <2>4, <2>5 DEF InTurn
<1>16. Covered' /\ Counts'
  <2>1. \A p : (Pending(p)' <=> Pending(p)) /\ (Unlooked(p)' <=> Unlooked(p))
    BY <1>1, <1>5, <1>10 DEF Pending, Unlooked
  <2>2. op.skipped \in Nat /\ op.symlinks \in Nat
    BY <1>3 DEF WalkTyped
  <2>3. LeavesOne(0) /\ LooksAtOne(0)
    BY <1>5, <1>10, <2>1 DEF LeavesOne, LooksAtOne
  <2> QED BY <1>3, <1>6, <2>3, AccountsKept
<1>17. ShownWasThere'
  <2>1. (\A p : Stable(p)' => Stable(p)) /\ (\A p : There(p)' <=> There(p))
    BY <1>6, HeldKeeps
  <2> QED BY <1>3, <1>5, <1>10, <2>1 DEF ShownWasThere
<1>18. ListShows'
  <2> SUFFICES ASSUME op.does = "list" PROVE ListShows'
    BY <1>5 DEF ListShows
  <2>1. /\ op.depth \in Nat /\ Len(op.found) <= LIST_MAX_ENTRIES /\ op.visited > 0
        /\ ~op.more => Len(op.found) = IF op.visited - 1 = 0 THEN 0 ELSE op.visited - 1 - 1
        /\ IF op.visited = 1 THEN Len(h) = Len(op.at) ELSE Len(h) > Len(op.at)
        /\ \A s \in OnStack : Len(s) > Len(op.at)
        /\ op.stopped /\ ~op.more =>
             op.visited + Len(op.stack) + Cardinality(op.kids) >= LIST_MAX_ENTRIES + 2
    BY <1>1, <1>3, <1>9, <1>10 DEF ListShows, Handled
  <2>2. op.visited \in Nat /\ Len(h) \in Nat /\ Len(op.at) \in Nat
    BY <1>3, <1>9, PathsAre DEF WalkTyped, OpInv
  <2>3. \A s \in KidPaths : Len(s) > Len(op.at)
    <3> SUFFICES ASSUME NEW s \in KidPaths PROVE Len(s) > Len(op.at)
      OBVIOUS
    <3>1. Len(s) = Len(h) + 1
      BY <1>11, KidIs
    <3> QED BY <2>1, <2>2, <3>1
  <2>4. op.stopped /\ ~op.more =>
          op.visited + Len(op'.stack) + Cardinality(op'.kids) >= LIST_MAX_ENTRIES + 2
    <3>1. Cardinality(op'.kids) = 0
      BY <1>5, FS_EmptySet
    <3>2. n = Len(op.stack) /\ m = Cardinality(op.kids) /\ Len(op'.stack) = n + m
      BY <1>8
    <3> QED BY <1>5, <2>1, <2>2, <3>1, <3>2
  <2>5. Handled' = op.visited - 1
    BY <1>5 DEF Handled
  <2> QED BY <1>5, <1>9, <1>10, <2>1, <2>3, <2>4, <2>5 DEF ListShows
<1>19. WalkParts' /\ WalksAccountForAll'
  BY <1>5, <1>12, <1>14, <1>15, <1>16, <1>17, <1>18, NothingAnswered DEF WalkParts
<1> QED BY <1>1, <1>5, <1>19 DEF WalkInv, TreeKept

-----------------------------------------------------------------------------
\* `t` is `s` with `e` at its end.
OneLonger(s, e, t) ==
  /\ Len(s) \in Nat /\ Len(t) = Len(s) + 1 /\ DOMAIN s = 1..Len(s) /\ DOMAIN t = 1..Len(s) + 1
  /\ \A i \in 1..Len(s) : t[i] = s[i]
  /\ t[Len(s) + 1] = e /\ t \in Seq(Range(t))

(* A line is put at the end of what was found.                              *)
LEMMA AppendIs ==
  ASSUME NEW s, s \in Seq(Range(s)), NEW e
  PROVE  OneLonger(s, e, Append(s, e))
<1> DEFINE S == Range(s) \cup {e}
           t == Append(s, e)
<1>1. s \in Seq(S) /\ e \in S
  OBVIOUS
<1> HIDE DEF S
<1>2. /\ t \in Seq(S) /\ Len(t) = Len(s) + 1 /\ \A i \in 1..Len(s) : t[i] = s[i]
      /\ t[Len(s) + 1] = e
  BY <1>1, AppendProperties
<1> HIDE DEF t
<1>3. t \in Seq(Range(t)) /\ DOMAIN t = 1..Len(t)
  BY <1>2, SeqOfRange, LenProperties
<1>4. Len(s) \in Nat /\ DOMAIN s = 1..Len(s)
  BY <1>1, LenProperties
<1>5. OneLonger(s, e, t)
  BY <1>2, <1>3, <1>4 DEF OneLonger
<1> QED BY <1>5 DEF t

\* The entry in hand is made something of: a line is shown for it, or not,
\* and the walk goes on, or drops the rest as more than it may show.
Showing(line) == OneLonger(op.found, line, op'.found) /\ line.path = op.entry.path
Handling(shown) ==
  /\ op.pc = "visit" /\ op'.pc = "walk" /\ tree' = tree /\ Held /\ op'.changed = op.changed
  /\ op'.names = op.names /\ op'.kids = op.kids /\ op'.visited = op.visited
  /\ op'.symlinks = op.symlinks /\ op'.unreadable = op.unreadable /\ op'.stopped = op.stopped
  /\ op'.skipped \in {op.skipped, op.skipped + 1}
  /\ (op'.stack = op.stack /\ op'.more = op.more) \/ (op'.stack = <<>> /\ op'.more = TRUE)
  /\ IF shown THEN \E line : Showing(line) ELSE op'.found = op.found

(* What was found and what is left, after the entry in hand.                *)
LEMMA HandledIs ==
  ASSUME OpInv, WalkParts, NEW shown \in BOOLEAN, Handling(shown), NEW h, h = op.entry.path
  PROVE  /\ h \in Places /\ Genuine(h, op.entry.meta) /\ h \in Paths \cup {op.at} /\ AtHand = {h}
         /\ op.names = {} /\ op.kids = {} /\ KidPaths = {} /\ KidPaths' = {} /\ AtHand' = {}
         /\ op'.found \in Seq(Range(op'.found)) /\ Len(op.found) \in Nat
         /\ Len(op'.found) = IF shown THEN Len(op.found) + 1 ELSE Len(op.found)
         /\ FoundAlready' = FoundAlready \cup (IF shown THEN {h} ELSE {})
         /\ \A i, j \in DOMAIN op'.found : i < j =>
              /\ i \in DOMAIN op.found /\ op'.found[i] = op.found[i]
              /\ (j \in DOMAIN op.found /\ op'.found[j] = op.found[j]) \/ op'.found[j].path = h
         /\ \A i \in DOMAIN op.found : i \in DOMAIN op'.found /\ op'.found[i] = op.found[i]
<1>1. WalkTyped /\ EntriesGenuine /\ op.pc = "visit"
  BY DEF WalkParts, Handling
<1>2. h \in Places /\ AtHand = {h}
  BY <1>1 DEF OpInv, InHandOK, Known, AtHand
<1>3. Genuine(h, op.entry.meta) /\ h \in Paths \cup {op.at}
  BY <1>1, <1>2 DEF EntriesGenuine, WalkTyped
<1>4. op.names = {} /\ op.kids = {} /\ KidPaths = {} /\ KidPaths' = {} /\ AtHand' = {}
  BY <1>1 DEF WalkTyped, Handling, KidPaths, AtHand
<1>5. op.found \in Seq(Range(op.found)) /\ Len(op.found) \in Nat /\ DOMAIN op.found = 1..Len(op.found)
  BY <1>1, LenProperties DEF WalkTyped
<1>6. CASE shown
  <2>1. PICK line : Showing(line)
    BY <1>6 DEF Handling
  <2>2. /\ Len(op'.found) = Len(op.found) + 1 /\ DOMAIN op'.found = 1..Len(op.found) + 1
        /\ \A i \in 1..Len(op.found) : op'.found[i] = op.found[i]
        /\ op'.found[Len(op.found) + 1].path = h /\ op'.found \in Seq(Range(op'.found))
    BY <2>1 DEF Showing, OneLonger
  <2>3. \A i \in 1..Len(op.found) + 1 : i \in 1..Len(op.found) \/ i = Len(op.found) + 1
    BY <1>5
  <2>4. \A i \in 1..Len(op.found) : i \in 1..Len(op.found) + 1
    BY <1>5
  <2>5. Len(op.found) + 1 \in 1..Len(op.found) + 1
    BY <1>5
  <2>6. FoundAlready' = FoundAlready \cup {h}
    <3>1. FoundAlready' \subseteq FoundAlready \cup {h}
      BY <1>5, <2>2, <2>3 DEF FoundAlready
    <3>2. FoundAlready \cup {h} \subseteq FoundAlready'
      BY <1>5, <2>2, <2>4, <2>5 DEF FoundAlready
    <3> QED BY <3>1, <3>2
  <2>7. \A i, j \in DOMAIN op'.found : i < j =>
              /\ i \in DOMAIN op.found /\ op'.found[i] = op.found[i]
              /\ (j \in DOMAIN op.found /\ op'.found[j] = op.found[j]) \/ op'.found[j].path = h
    <3> SUFFICES ASSUME NEW i \in DOMAIN op'.found, NEW j \in DOMAIN op'.found, i < j
                 PROVE  /\ i \in DOMAIN op.found /\ op'.found[i] = op.found[i]
                        /\ (j \in DOMAIN op.found /\ op'.found[j] = op.found[j]) \/ op'.found[j].path = h
      OBVIOUS
    <3>1. i \in 1..Len(op.found)
      BY <1>5, <2>2
    <3> QED BY <1>5, <2>2, <2>3, <3>1
  <2>8. \A i \in DOMAIN op.found : i \in DOMAIN op'.found /\ op'.found[i] = op.found[i]
    BY <1>5, <2>2, <2>4
  <2> QED BY <1>2, <1>3, <1>4, <1>5, <1>6, <2>2, <2>6, <2>7, <2>8
<1>7. CASE ~shown
  <2>1. op'.found = op.found
    BY <1>7 DEF Handling
  <2>2. FoundAlready' = FoundAlready
    BY <2>1 DEF FoundAlready
  <2>3. \A i, j \in DOMAIN op'.found : i < j =>
              /\ i \in DOMAIN op.found /\ op'.found[i] = op.found[i]
              /\ j \in DOMAIN op.found /\ op'.found[j] = op.found[j]
    BY <2>1
  <2> QED BY <1>2, <1>3, <1>4, <1>5, <1>7, <2>1, <2>2, <2>3
<1> QED BY <1>6, <1>7

\* What is made of an entry accounts for it.
Accounted(h, shown) ==
  /\ h \in Paths /\ Due(h)' =>
       Told(h)' /\ (op.does = "search" /\ op.base[h] \in Unreadables => op'.skipped = op.skipped + 1)
  /\ shown /\ Stable(h) => (op.does = "facts" => There(h)) /\
                           (op.does = "search" => NodeOf(op.base, h) = "match")
  /\ op.does = "facts" => ~op'.more /\ (shown => h \in Paths)
  /\ op.does = "list" /\ shown => Len(op.found) < LIST_MAX_ENTRIES
  /\ op.does = "list" /\ ~op'.more => (shown <=> Len(h) # Len(op.at))

(* So the walk goes on, and owes what it owed but for that entry.           *)
LEMMA HandlingWalks ==
  ASSUME OpInv, TreeKept, WalkParts, NEW shown \in BOOLEAN, Handling(shown),
         NEW h, h = op.entry.path, Accounted(h, shown)
  PROVE  WalkParts'
<1>1. WalkTyped /\ EntriesGenuine /\ InTurn /\ Covered /\ ShownWasThere /\ Counts /\ ListShows
  BY DEF WalkParts
<1>2. h = op.entry.path
  OBVIOUS
<1>3. /\ h \in Places /\ h \in Paths \cup {op.at} /\ AtHand = {h} /\ Accounted(h, shown)
      /\ op.names = {} /\ op.kids = {} /\ KidPaths = {} /\ KidPaths' = {} /\ AtHand' = {}
  BY <1>2, HandledIs
<1>4. /\ op'.found \in Seq(Range(op'.found)) /\ Len(op.found) \in Nat
      /\ Len(op'.found) = IF shown THEN Len(op.found) + 1 ELSE Len(op.found)
      /\ FoundAlready' = FoundAlready \cup (IF shown THEN {h} ELSE {})
  BY <1>2, HandledIs
<1>5. /\ \A i, j \in DOMAIN op'.found : i < j =>
           /\ i \in DOMAIN op.found /\ op'.found[i] = op.found[i]
           /\ (j \in DOMAIN op.found /\ op'.found[j] = op.found[j]) \/ op'.found[j].path = h
      /\ \A i \in DOMAIN op.found : i \in DOMAIN op'.found /\ op'.found[i] = op.found[i]
  BY <1>2, HandledIs
<1>6. /\ op.pc = "visit" /\ op'.pc = "walk" /\ Held
      /\ op'.names = op.names /\ op'.kids = op.kids /\ op'.visited = op.visited
      /\ op'.symlinks = op.symlinks /\ op'.unreadable = op.unreadable /\ op'.stopped = op.stopped
      /\ op'.skipped \in {op.skipped, op.skipped + 1}
      /\ (op'.stack = op.stack /\ op'.more = op.more) \/ (op'.stack = <<>> /\ op'.more = TRUE)
  BY DEF Handling
<1>7. op'.does = op.does /\ op'.at = op.at /\ op'.base = op.base /\ op'.depth = op.depth
  BY <1>6 DEF Held
<1>8. DOMAIN op'.stack \subseteq DOMAIN op.stack /\ \A i \in DOMAIN op'.stack : op'.stack[i] = op.stack[i]
  BY <1>6
<1>9. OnStack' \subseteq OnStack /\ (~op'.more => OnStack' = OnStack)
  BY <1>6, <1>8 DEF OnStack
<1>10. WalkTyped'
  <2>1. op'.skipped \in Nat
    BY <1>1, <1>6 DEF WalkTyped
  <2>2. op'.more \in BOOLEAN
    BY <1>1, <1>6 DEF WalkTyped
  <2>3. OnStack' \cup AtHand' \cup FoundAlready' \subseteq Paths \cup {op'.at}
    BY <1>1, <1>3, <1>4, <1>7, <1>9 DEF WalkTyped
  <2>4. op'.does = "facts" => ~op'.more /\ FoundAlready' \subseteq Paths
    BY <1>1, <1>3, <1>4, <1>7 DEF WalkTyped, Accounted
  <2> QED BY <1>1, <1>3, <1>4, <1>6, <1>7, <2>1, <2>2, <2>3, <2>4 DEF WalkTyped
<1>11. EntriesGenuine'
  <2>1. \A p, k : Genuine(p, k) => Genuine(p, k)'
    BY <1>6, HeldKeeps
  <2>2. \A i \in DOMAIN op'.stack : Genuine(op.stack[i].path, op.stack[i].meta)'
    BY <1>1, <1>8, <2>1 DEF EntriesGenuine
  <2> QED BY <1>3, <1>6, <2>2 DEF EntriesGenuine
<1>12. InTurn'
  <2>1. \A i, j \in DOMAIN op'.stack : i < j => Before(op'.stack[j].path, op'.stack[i].path)
    BY <1>1, <1>8 DEF InTurn
  <2>2. ASSUME NEW i \in DOMAIN op'.found, NEW j \in DOMAIN op'.found, i < j
        PROVE  Before(op'.found[i].path, op'.found[j].path)
    <3>1. i \in DOMAIN op.found /\ op'.found[i] = op.found[i]
      BY <1>5, <2>2
    <3>2. CASE j \in DOMAIN op.found /\ op'.found[j] = op.found[j]
      BY <1>1, <2>2, <3>1, <3>2 DEF InTurn
    <3>3. CASE op'.found[j].path = h
      <4>1. op.found[i].path \in FoundAlready
        BY <3>1 DEF FoundAlready
      <4>2. Before(op.found[i].path, h)
        BY <1>1, <1>3, <4>1 DEF InTurn
      <4> QED BY <3>1, <3>3, <4>2
    <3> QED BY <1>5, <2>2, <3>2, <3>3
  <2>3. \A f \in FoundAlready \cup {h} : \A s \in OnStack' : Before(f, s)
    BY <1>1, <1>3, <1>9 DEF InTurn
  <2>4. \A s \in OnStack' : \A p \in OnStack' \cup FoundAlready \cup {h} : ~Above(s, p)
    BY <1>1, <1>3, <1>9 DEF InTurn
  <2> QED BY <1>3, <1>4, <1>6, <2>1, <2>2, <2>3, <2>4 DEF InTurn
<1>13. Covered' /\ Counts'
  <2>1. Grows
    BY <1>5, <1>6 DEF Grows
  <2>2. ASSUME NEW p \in Paths, Due(p)'
        PROVE  (Pending(p)' <=> Pending(p)) /\ (Unlooked(p)' <=> Unlooked(p))
    <3>1. Waiting' = Waiting
      <4>1. ~op'.more
        BY <2>2 DEF Due
      <4> QED BY <1>3, <1>6, <1>9, <4>1 DEF Waiting
    <3> QED BY <1>6, <3>1 DEF Pending, Unlooked
  <2>3. LeavesOne(h) /\ LooksAtOne(0)
    BY <1>3, <1>6, <2>2 DEF LeavesOne, LooksAtOne, Accounted
  <2> QED BY <1>1, <2>1, <2>3, AccountsKept
<1>14. ShownWasThere'
  <2>1. (\A p : Stable(p)' => Stable(p)) /\ (\A p : There(p)' <=> There(p))
    BY <1>6, HeldKeeps
  <2> QED BY <1>1, <1>3, <1>4, <1>7, <2>1 DEF ShownWasThere, Accounted
<1>15. ListShows'
  <2> SUFFICES ASSUME op.does = "list" PROVE ListShows'
    BY <1>7 DEF ListShows
  <2>1. /\ op.depth \in Nat /\ Len(op.found) <= LIST_MAX_ENTRIES /\ op.visited > 0
        /\ ~op.more => Len(op.found) = IF op.visited - 1 = 0 THEN 0 ELSE op.visited - 1 - 1
        /\ op.visited = 1 <=> Len(h) = Len(op.at)
        /\ \A s \in OnStack : Len(s) > Len(op.at)
        /\ op.stopped /\ ~op.more =>
             op.visited + Len(op.stack) + Cardinality(op.kids) >= LIST_MAX_ENTRIES + 2
    <3>1. Len(h) \in Nat /\ Len(op.at) \in Nat
      BY <1>3, PathsAre DEF OpInv
    <3> QED BY <1>1, <1>2, <1>3, <1>6, <3>1 DEF ListShows, Handled
  <2>2. op.visited \in Nat /\ Handled' = op.visited /\ LIST_MAX_ENTRIES \in Nat
    BY <1>1, <1>6, WorkspaceAssumption DEF Handled, WalkTyped
  <2>3. Len(op'.found) <= LIST_MAX_ENTRIES
    <3>1. shown => Len(op.found) < LIST_MAX_ENTRIES
      BY <1>3 DEF Accounted
    <3> QED BY <1>4, <2>1, <2>2, <3>1
  <2>4. ~op'.more => op'.stack = op.stack /\ op'.more = op.more /\ (shown <=> op.visited # 1)
    BY <1>3, <1>6, <2>1 DEF Accounted
  <2>5. ~op'.more => Len(op'.found) = IF op.visited = 0 THEN 0 ELSE op.visited - 1
    <3> SUFFICES ASSUME ~op'.more
                 PROVE  Len(op'.found) = IF op.visited = 0 THEN 0 ELSE op.visited - 1
      OBVIOUS
    <3>1. /\ Len(op.found) = IF op.visited - 1 = 0 THEN 0 ELSE op.visited - 1 - 1
          /\ op.visited \in Nat /\ op.visited > 0 /\ (shown <=> op.visited # 1)
      BY <2>1, <2>2, <2>4
    <3>2. CASE shown
      <4>1. Len(op'.found) = Len(op.found) + 1 /\ op.visited # 1
        BY <1>4, <3>1, <3>2
      <4> QED BY ONLY <3>1, <4>1
    <3>3. CASE ~shown
      <4>1. Len(op'.found) = Len(op.found) /\ op.visited = 1
        BY <1>4, <3>1, <3>3
      <4> QED BY ONLY <3>1, <4>1
    <3> QED BY <3>2, <3>3
  <2>6. op'.stopped /\ ~op'.more =>
          op'.visited + Len(op'.stack) + Cardinality(op'.kids) >= LIST_MAX_ENTRIES + 2
    BY <1>6, <2>1, <2>4
  <2> QED BY <1>3, <1>6, <1>7, <1>9, <2>1, <2>2, <2>3, <2>5, <2>6 DEF ListShows
<1> QED BY <1>10, <1>11, <1>12, <1>13, <1>14, <1>15 DEF WalkParts

\* A line is shown, or the entry is passed over, or it is one too many.
PutsLine(line) ==
  \/ op' = [op EXCEPT !.pc = "walk", !.found = Append(@, line)]
  \/ op' = [op EXCEPT !.pc = "walk", !.found = Append(@, line), !.taken = Taken(op.entry.path)]
PassesOver == op' = [op EXCEPT !.pc = "walk"]
SkipsFile  == op' = [op EXCEPT !.pc = "walk", !.skipped = @ + 1]
HasEnough  == op' = [op EXCEPT !.pc = "walk", !.more = TRUE, !.stack = <<>>]

(* An entry that is passed over, or one too many, puts nothing on the list.  *)
LEMMA PassesIs ==
  ASSUME OpInv, op.pc = "visit", tree' = tree, PassesOver \/ SkipsFile \/ HasEnough
  PROVE  /\ Handling(FALSE) /\ op'.changed = op.changed
         /\ PassesOver => op'.more = op.more
         /\ SkipsFile => op'.more = op.more /\ op'.skipped = op.skipped + 1
         /\ HasEnough => op'.more = TRUE
<1>1. ASSUME PassesOver PROVE Handling(FALSE) /\ op'.changed = op.changed /\ op'.more = op.more
  BY <1>1 DEF PassesOver, OpInv, OpFields, Handling, Held
<1>2. ASSUME SkipsFile
      PROVE  /\ Handling(FALSE) /\ op'.changed = op.changed /\ op'.more = op.more
             /\ op'.skipped = op.skipped + 1
  BY <1>2 DEF SkipsFile, OpInv, OpFields, Handling, Held
<1>3. ASSUME HasEnough PROVE Handling(FALSE) /\ op'.changed = op.changed /\ op'.more = TRUE
  BY <1>3 DEF HasEnough, OpInv, OpFields, Handling, Held
<1> QED BY <1>1, <1>2, <1>3

(* An entry that is shown puts its line at the end.                         *)
LEMMA PutsLineIs ==
  ASSUME OpInv, WalkParts, op.pc = "visit", tree' = tree, NEW line, line.path = op.entry.path,
         PutsLine(line)
  PROVE  /\ Handling(TRUE) /\ op'.more = op.more /\ op'.changed = op.changed
         /\ \E i \in DOMAIN op'.found : op'.found[i] = line
         /\ op.entry.path \in FoundAlready'
<1>1. /\ op'.pc = "walk" /\ Held /\ op'.changed = op.changed
      /\ op'.names = op.names /\ op'.kids = op.kids /\ op'.visited = op.visited
      /\ op'.symlinks = op.symlinks /\ op'.unreadable = op.unreadable /\ op'.stopped = op.stopped
      /\ op'.skipped = op.skipped /\ op'.stack = op.stack /\ op'.more = op.more
  <2>1. CASE op' = [op EXCEPT !.pc = "walk", !.found = Append(@, line)]
    BY <2>1 DEF OpInv, OpFields, Held
  <2>2. CASE op' = [op EXCEPT !.pc = "walk", !.found = Append(@, line), !.taken = Taken(op.entry.path)]
    BY <2>2 DEF OpInv, OpFields, Held
  <2> QED BY <2>1, <2>2 DEF PutsLine
<1>2. OneLonger(op.found, line, op'.found)
  <2>1. op.found \in Seq(Range(op.found))
    BY DEF WalkParts, WalkTyped
  <2>2. PICK longer : longer = Append(op.found, line)
    OBVIOUS
  <2>3. OneLonger(op.found, line, longer)
    BY <2>1, <2>2, AppendIs
  <2>4. op'.found = longer
    <3>1. CASE op' = [op EXCEPT !.pc = "walk", !.found = Append(@, line)]
      BY <2>2, <3>1 DEF OpInv, OpFields
    <3>2. CASE op' = [op EXCEPT !.pc = "walk", !.found = Append(@, line), !.taken = Taken(op.entry.path)]
      BY <2>2, <3>2 DEF OpInv, OpFields
    <3> QED BY <3>1, <3>2 DEF PutsLine
  <2> QED BY <2>3, <2>4
<1>3. Handling(TRUE)
  BY <1>1, <1>2 DEF Handling, Showing
<1>4. \E i \in DOMAIN op'.found : op'.found[i] = line
  BY <1>2 DEF OneLonger
<1> QED BY <1>1, <1>3, <1>4 DEF FoundAlready

(* What is known of the entry in hand, if nobody touched it.                *)
LEMMA EntryIs ==
  ASSUME OpInv, TreeKept, WalkParts, op.pc = "visit", Stable(op.entry.path)
  PROVE  /\ There(op.entry.path) /\ NodeOf(op.base, op.entry.path) = op.entry.meta
         /\ op.entry.path \in Paths => op.base[op.entry.path] = op.entry.meta
         /\ IsFile(op.entry.meta) => Opened(tree, op.entry.path) = op.entry.meta
<1>1. PICK h \in Places : h = op.entry.path
  BY DEF OpInv, InHandOK, Known
<1>2. Genuine(h, op.entry.meta)
  BY <1>1 DEF WalkParts, EntriesGenuine, AtHand
<1>3. There(h) /\ NodeOf(op.base, h) = op.entry.meta
  BY <1>1, <1>2 DEF Genuine
<1>4. h \in Paths => op.base[h] = op.entry.meta
  BY <1>3, PathsAre DEF NodeOf
<1>5. ASSUME IsFile(op.entry.meta) PROVE Opened(tree, h) = op.entry.meta
  <2>1. NodeOf(op.base, h) # "link"
    BY <1>3, <1>5 DEF IsFile
  <2> QED BY <1>1, <1>3, <2>1, StableReads
<1> QED BY <1>1, <1>3, <1>4, <1>5

(* What is due is below the path the walk began at.                         *)
LEMMA DueIsBelow ==
  ASSUME Held, op'.changed = op.changed, op.at \in Places, NEW h \in Paths, Due(h)'
  PROVE  Stable(h) /\ Len(h) # Len(op.at) /\ ~op'.more
<1>1. Above(op.at, h) /\ Stable(h) /\ ~op'.more
  BY HeldKeeps DEF Due, Held
<1>2. Len(op.at) < Len(h) /\ Len(op.at) \in Nat /\ Len(h) \in Nat
  BY <1>1, AboveIs, PathsAre
<1> QED BY <1>1, <1>2

(* A search accounts for the entry in hand.                                 *)
LEMMA SearchAccountsFor ==
  ASSUME OpInv, TreeKept, WalkParts, op.pc = "visit", tree' = tree, op.does = "search",
         Search(op.entry.meta), NEW h, h = op.entry.path
  PROVE  \E shown \in BOOLEAN : Handling(shown) /\ Accounted(h, shown)
<1> DEFINE meta == op.entry.meta
           text == Opened(tree, op.entry.path)
           line == Line("f", text)
<1>1. \/ ~IsFile(meta) /\ PassesOver
      \/ IsFile(meta) /\ (meta = "big" \/ text \notin {"match", "plain"}) /\ SkipsFile
      \/ IsFile(meta) /\ text = "plain" /\ PassesOver
      \/ HasEnough
      \/ IsFile(meta) /\ text = "match" /\ PutsLine(line)
  BY DEF Search, PassesOver, SkipsFile, HasEnough, PutsLine, Onwards
<1>2. Stable(h) => /\ NodeOf(op.base, h) = meta /\ (h \in Paths => op.base[h] = meta)
                   /\ IsFile(meta) => text = meta
  BY EntryIs
<1>3. line.path = h
  BY DEF Line
<1> HIDE DEF meta, text, line
<1>4. op.at \in Places
  BY DEF OpInv
<1>5. ASSUME Handling(FALSE), op'.changed = op.changed, ~op'.more,
             Stable(h) /\ h \in Paths => op.base[h] # "match",
             Stable(h) /\ h \in Paths /\ op.base[h] \in Unreadables => op'.skipped = op.skipped + 1
      PROVE  Accounted(h, FALSE)
  <2>1. Held
    BY <1>5 DEF Handling
  <2>2. ASSUME h \in Paths, Due(h)'
        PROVE  Told(h)' /\ (op.base[h] \in Unreadables => op'.skipped = op.skipped + 1)
    <3>1. Stable(h)
      BY <1>4, <1>5, <2>1, <2>2, DueIsBelow
    <3>2. op'.does = "search" /\ op'.base = op.base
      BY <2>1 DEF Held
    <3> QED BY <1>5, <2>2, <3>1, <3>2 DEF Told
  <2> QED BY <2>2 DEF Accounted
<1>6. ASSUME Handling(FALSE), op'.changed = op.changed, op'.more PROVE Accounted(h, FALSE)
  <2>1. ~Due(h)'
    BY <1>6 DEF Due
  <2> QED BY <1>6, <2>1 DEF Accounted
<1>7. CASE PassesOver /\ (~IsFile(meta) \/ (IsFile(meta) /\ text = "plain"))
  <2>1. Handling(FALSE) /\ op'.changed = op.changed
    BY <1>7, PassesIs
  <2>2. Stable(h) /\ h \in Paths => op.base[h] # "match" /\ op.base[h] \notin Unreadables
    BY <1>2, <1>7 DEF IsFile, Unreadables
  <2> QED BY <1>5, <1>6, <2>1, <2>2
<1>8. CASE IsFile(meta) /\ (meta = "big" \/ text \notin {"match", "plain"}) /\ SkipsFile
  <2>1. Handling(FALSE) /\ op'.changed = op.changed /\ op'.skipped = op.skipped + 1
    BY <1>8, PassesIs
  <2>2. Stable(h) /\ h \in Paths => op.base[h] # "match"
    BY <1>2, <1>8
  <2> QED BY <1>5, <1>6, <2>1, <2>2
<1>9. CASE HasEnough
  <2>1. Handling(FALSE) /\ op'.changed = op.changed /\ op'.more
    BY <1>9, PassesIs
  <2> QED BY <1>6, <2>1
<1>10. CASE IsFile(meta) /\ text = "match" /\ PutsLine(line)
  <2>1. Handling(TRUE) /\ op'.changed = op.changed /\ h \in FoundAlready'
    BY <1>3, <1>10, PutsLineIs
  <2>2. Held
    BY <2>1 DEF Handling
  <2>3. ASSUME h \in Paths, Due(h)' PROVE Told(h)' /\ op.base[h] \notin Unreadables
    <3>1. Stable(h)
      BY <1>4, <2>1, <2>2, <2>3, DueIsBelow
    <3>2. op.base[h] = "match"
      BY <1>2, <1>10, <2>3, <3>1
    <3>3. op'.does = "search"
      BY <2>2 DEF Held
    <3> QED BY <2>1, <3>2, <3>3 DEF Told, Unreadables
  <2>4. Stable(h) => NodeOf(op.base, h) = "match"
    BY <1>2, <1>10
  <2>5. Accounted(h, TRUE)
    BY <2>3, <2>4 DEF Accounted
  <2> QED BY <2>1, <2>5
<1> QED BY <1>1, <1>7, <1>8, <1>9, <1>10

(* A list accounts for it.                                                  *)
LEMMA ListAccountsFor ==
  ASSUME OpInv, TreeKept, WalkParts, op.pc = "visit", tree' = tree, op.does = "list",
         List(op.entry.meta), NEW h, h = op.entry.path, Len(h) # Len(op.at)
  PROVE  \E shown \in BOOLEAN : Handling(shown) /\ Accounted(h, shown)
<1> DEFINE line == Line(KindOf(op.entry.meta), "none")
<1>1. HasEnough \/ (Len(op.found) # LIST_MAX_ENTRIES /\ PutsLine(line))
  BY DEF List, Show, HasEnough, PutsLine
<1>2. Stable(h) /\ h \in Paths => op.base[h] = op.entry.meta
  BY EntryIs
<1>3. line.path = h /\ line.kind = KindOf(op.entry.meta)
  BY DEF Line
<1> HIDE DEF line
<1>4. op.at \in Places
  BY DEF OpInv
<1>5. CASE HasEnough
  <2>1. Handling(FALSE) /\ op'.more
    BY <1>5, PassesIs
  <2>2. ~Due(h)'
    BY <2>1 DEF Due
  <2>3. Accounted(h, FALSE)
    BY <2>1, <2>2 DEF Accounted
  <2> QED BY <2>1, <2>3
<1>6. CASE Len(op.found) # LIST_MAX_ENTRIES /\ PutsLine(line)
  <2>1. /\ Handling(TRUE) /\ op'.changed = op.changed
        /\ \E i \in DOMAIN op'.found : op'.found[i] = line
    BY <1>3, <1>6, PutsLineIs
  <2>2. Held
    BY <2>1 DEF Handling
  <2>3. ASSUME h \in Paths, Due(h)' PROVE Told(h)'
    <3>1. Stable(h)
      BY <1>4, <2>1, <2>2, <2>3, DueIsBelow
    <3>2. line.path = h /\ line.kind = KindOf(op.base[h])
      BY <1>2, <1>3, <2>3, <3>1
    <3>3. op'.does = "list" /\ op'.base = op.base
      BY <2>2 DEF Held
    <3> QED BY <2>1, <3>2, <3>3 DEF Told
  <2>4. Len(op.found) < LIST_MAX_ENTRIES
    <3>1. Len(op.found) <= LIST_MAX_ENTRIES /\ op.found \in Seq(Range(op.found))
      BY DEF WalkParts, ListShows, WalkTyped
    <3>2. LIST_MAX_ENTRIES \in Nat /\ Len(op.found) \in Nat
      BY <3>1, WorkspaceAssumption, LenProperties
    <3> QED BY <1>6, <3>1, <3>2
  <2>5. Accounted(h, TRUE)
    BY <2>3, <2>4 DEF Accounted
  <2> QED BY <2>1, <2>5
<1> QED BY <1>1, <1>5, <1>6

(* So do the facts, unless a file cannot be read.                           *)
LEMMA MeasureAccountsFor ==
  ASSUME OpInv, TreeKept, WalkParts, op.pc = "visit", tree' = tree, op.does = "facts",
         Measure(op.entry.meta), NEW h, h = op.entry.path, Len(h) # Len(op.at)
  PROVE  Ends("IO") \/ \E shown \in BOOLEAN : Handling(shown) /\ Accounted(h, shown)
<1> DEFINE meta == op.entry.meta
           text == Opened(tree, op.entry.path)
           one == Line(KindOf(meta), "none")
           two == Line("F", meta)
           three == Line("f", text)
<1>1. \/ Ends("IO")
      \/ ~IsFile(meta) /\ PutsLine(one)
      \/ IsFile(meta) /\ text = "big" /\ PutsLine(two)
      \/ IsFile(meta) /\ text # "big" /\ PutsLine(three)
  BY DEF Measure, Show, PutsLine
<1>2. Stable(h) => /\ There(h) /\ (h \in Paths => op.base[h] = meta)
                   /\ IsFile(meta) => text = meta
  BY EntryIs
<1>3. /\ one.path = h /\ one.kind = KindOf(meta) /\ one.content = "none"
      /\ two.path = h /\ two.kind = "F" /\ two.content = meta
      /\ three.path = h /\ three.kind = "f" /\ three.content = text
  BY DEF Line
<1>4. op.at \in Places
  BY DEF OpInv
<1>5. h \in Paths
  BY DEF WalkParts, WalkTyped, AtHand
<1>6. ~op.more
  BY DEF WalkParts, WalkTyped
<1> HIDE DEF meta, text, one, two, three
<1>7. ASSUME NEW line, PutsLine(line), line.path = h,
             Stable(h) => <<line.kind, line.content>> = FactsOf(meta)
      PROVE  \E shown \in BOOLEAN : Handling(shown) /\ Accounted(h, shown)
  <2>1. /\ Handling(TRUE) /\ op'.changed = op.changed /\ op'.more = op.more
        /\ \E i \in DOMAIN op'.found : op'.found[i] = line
    BY <1>7, PutsLineIs
  <2>2. Held
    BY <2>1 DEF Handling
  <2>3. ASSUME Due(h)' PROVE Told(h)'
    <3>1. Stable(h)
      BY <1>4, <1>5, <2>1, <2>2, <2>3, DueIsBelow
    <3>2. line.path = h /\ <<line.kind, line.content>> = FactsOf(op.base[h])
      BY <1>2, <1>5, <1>7, <3>1
    <3>3. op'.does = "facts" /\ op'.base = op.base
      BY <2>2 DEF Held
    <3> QED BY <2>1, <3>2, <3>3 DEF Told
  <2>4. Accounted(h, TRUE)
    BY <1>2, <1>5, <1>6, <2>1, <2>3 DEF Accounted
  <2> QED BY <2>1, <2>4
<1>8. CASE ~IsFile(meta) /\ PutsLine(one)
  <2>1. <<one.kind, one.content>> = FactsOf(meta)
    BY <1>3, <1>8 DEF FactsOf
  <2> QED BY <1>3, <1>7, <1>8, <2>1
<1>9. CASE IsFile(meta) /\ text = "big" /\ PutsLine(two)
  <2>1. Stable(h) => <<two.kind, two.content>> = FactsOf(meta)
    BY <1>2, <1>3, <1>9 DEF FactsOf
  <2> QED BY <1>3, <1>7, <1>9, <2>1
<1>10. CASE IsFile(meta) /\ text # "big" /\ PutsLine(three)
  <2>1. Stable(h) => <<three.kind, three.content>> = FactsOf(meta)
    BY <1>2, <1>3, <1>10 DEF FactsOf
  <2> QED BY <1>3, <1>7, <1>10, <2>1
<1> QED BY <1>1, <1>8, <1>9, <1>10

(* The entry in hand is visited.                                            *)
LEMMA VisitWalks ==
  ASSUME OpInv, WalkInv, Visit
  PROVE  WalkInv'
<1>1. op.pc = "visit" /\ tree' = tree
  BY DEF Visit
<1>2. WalkParts /\ TreeKept
  BY <1>1 DEF WalkInv, Walking
<1>3. op.does \in {"search", "list", "facts"} /\ (op.does = "facts" => ~op.more)
  BY <1>2 DEF WalkParts, WalkTyped
<1>h. PICK h : h = op.entry.path
  OBVIOUS
<1>4. \/ Ends("timeout")
      \/ op.does = "search" /\ Search(op.entry.meta)
      \/ op.does # "search" /\ Len(op.entry.path) = Len(op.at) /\ PassesOver
      \/ op.does = "list" /\ Len(op.entry.path) # Len(op.at) /\ List(op.entry.meta)
      \/ op.does = "facts" /\ Len(op.entry.path) # Len(op.at) /\ Measure(op.entry.meta)
  BY <1>3 DEF Visit, Onwards, PassesOver
<1>5. ASSUME NEW shown \in BOOLEAN, Handling(shown), Accounted(h, shown)
      PROVE  WalkInv'
  <2>1. WalkParts'
    BY <1>2, <1>h, <1>5, HandlingWalks
  <2>2. op'.pc = "walk" /\ Held /\ op'.changed = op.changed
    BY <1>5 DEF Handling
  <2>3. WalksAccountForAll'
    BY <2>2, NothingAnswered
  <2> QED BY <1>1, <2>1, <2>2, <2>3 DEF WalkInv, Held, TreeKept
<1>6. CASE Ends("timeout") \/ Ends("IO")
  BY <1>1, <1>6, EndsWalks
<1>7. CASE op.does = "search" /\ Search(op.entry.meta)
  BY <1>1, <1>2, <1>5, <1>7, <1>h, SearchAccountsFor
<1>8. CASE op.does # "search" /\ Len(op.entry.path) = Len(op.at) /\ PassesOver
  <2>1. Handling(FALSE) /\ op'.changed = op.changed /\ op'.more = op.more
    BY <1>1, <1>8, PassesIs
  <2>2. Held
    BY <2>1 DEF Handling
  <2>3. h \in Paths => ~Due(h)'
    <3>1. op.at \in Places
      BY DEF OpInv
    <3> QED BY <1>h, <1>8, <2>1, <2>2, <3>1, DueIsBelow
  <2>4. Accounted(h, FALSE)
    BY <1>3, <1>8, <1>h, <2>1, <2>3 DEF Accounted
  <2> QED BY <1>5, <2>1, <2>4
<1>9. CASE op.does = "list" /\ Len(op.entry.path) # Len(op.at) /\ List(op.entry.meta)
  BY <1>1, <1>2, <1>5, <1>9, <1>h, ListAccountsFor
<1>10. CASE op.does = "facts" /\ Len(op.entry.path) # Len(op.at) /\ Measure(op.entry.meta)
  BY <1>1, <1>2, <1>5, <1>6, <1>10, <1>h, MeasureAccountsFor
<1> QED BY <1>4, <1>6, <1>7, <1>8, <1>9, <1>10

-----------------------------------------------------------------------------
\* A walk that came to its end.
AtEnd == op.pc = "walk" /\ op.stack = <<>>

(* Then nothing is to come, and what is due was told.                       *)
LEMMA AllIsTold ==
  ASSUME OpInv, WalkInv, AtEnd
  PROVE  /\ WalkParts /\ Waiting = {} /\ AtHand = {}
         /\ \A p \in Paths : Due(p) => Told(p)
<1>1. WalkParts
  BY DEF AtEnd, WalkInv, Walking
<1>2. op.names = {} /\ op.kids = {}
  BY <1>1 DEF AtEnd, WalkParts, WalkTyped
<1>3. OnStack = {}
  BY DEF AtEnd, OnStack
<1>4. KidPaths = {}
  BY <1>2 DEF KidPaths
<1>5. Waiting = {} /\ AtHand = {}
  BY <1>2, <1>3, <1>4 DEF Waiting, AtHand, AtEnd
<1>6. \A p \in Paths : ~Pending(p) /\ p \notin AtHand
  BY <1>5 DEF Pending
<1> QED BY <1>1, <1>5, <1>6 DEF WalkParts, Covered

(* What is shown is shown once.                                             *)
LEMMA ShownOnce ==
  ASSUME InTurn, op.found \in Seq(Range(op.found)), NEW i \in DOMAIN op.found
  PROVE  FoundAt(op.found[i].path) = {i}
<1>1. DOMAIN op.found \subseteq Nat
  BY LenProperties
<1>2. ASSUME NEW j \in DOMAIN op.found, op.found[j].path = op.found[i].path, j # i
      PROVE  FALSE
  <2>1. i < j \/ j < i
    BY <1>1, <1>2
  <2>2. Before(op.found[i].path, op.found[j].path) \/ Before(op.found[j].path, op.found[i].path)
    BY <2>1 DEF InTurn
  <2> QED BY <1>2, <2>2 DEF Before
<1> QED BY <1>2 DEF FoundAt

(* What a walk reaches is below where it began.                             *)
LEMMA ReachedIsAbove ==
  ASSUME OpInv, NEW p \in Paths
  PROVE  Below(p) <=> Above(op.at, p)
BY PrefixIsAbove, PathsAre DEF OpInv, Below

(* The facts of a walk that left nothing out are whole.                     *)
LEMMA FactsHold ==
  ASSUME OpInv, WalkInv, AtEnd, op.does = "facts", ~op.stopped, op.unreadable = 0
  PROVE  FactsAreWhole
<1>1. /\ InTurn /\ WalkTyped /\ ShownWasThere /\ op.at = <<>> /\ ~op.more
      /\ \A p \in Paths : Due(p) => Told(p)
  BY AllIsTold DEF WalkParts, WalkTyped, WalkInv
<1>2. op.found \in Seq(Range(op.found)) /\ FoundAlready \subseteq Paths
  BY <1>1 DEF WalkTyped
<1>3. ASSUME NEW p \in Paths, Stable(p), There(p)
      PROVE  \E i \in DOMAIN op.found : FoundAt(p) = {i} /\
               <<op.found[i].kind, op.found[i].content>> = FactsOf(op.base[p])
  <2>1. p \in Places /\ p \in Seq(Range(Names)) /\ Len(p) \in Nat /\ Len(p) > 0
    BY PathsAre
  <2>2. SubSeq(p, 1, 0) = <<>>
    <3>1. 0 \in 0..Len(p)
      BY <2>1
    <3>2. SubSeq(p, 1, 0) \in Seq(Range(Names)) /\ Len(SubSeq(p, 1, 0)) = 0
      BY <2>1, <3>1, PrefixIs
    <3> QED BY <3>2, EmptySeq
  <2>3. Above(op.at, p)
    <3>1. 0 \in Nat /\ 0 < Len(p)
      BY <2>1
    <3>2. Above(SubSeq(p, 1, 0), p)
      BY <2>1, <3>1, ShorterIsAbove
    <3> QED BY <1>1, <2>2, <3>2
  <2>4. Len(p) - Len(op.at) <= MaxDepth
    <3>1. MaxDepth = Cardinality(Paths)
      BY DEF MaxDepth
    <3>2. Len(op.at) = 0
      BY <1>1
    <3>3. Len(p) <= Cardinality(Paths)
      BY DepthIsBounded
    <3> QED BY <2>1, <3>1, <3>2, <3>3
  <2>5. Told(p)
    BY <1>1, <1>3, <2>3, <2>4 DEF Due
  <2>6. PICK i \in DOMAIN op.found : op.found[i].path = p /\
          <<op.found[i].kind, op.found[i].content>> = FactsOf(op.base[p])
    BY <2>5 DEF Told
  <2>7. FoundAt(p) = {i}
    BY <1>1, <1>2, <2>6, ShownOnce
  <2> QED BY <2>6, <2>7
<1>4. ASSUME NEW p \in Paths, Stable(p), ~There(p)
      PROVE  FoundAt(p) = {}
  BY <1>1, <1>4 DEF ShownWasThere, FoundAt, FoundAlready
<1>5. ASSUME NEW i \in DOMAIN op.found, NEW j \in DOMAIN op.found,
             Parent(op.found[i].path) = Parent(op.found[j].path),
             ByName(op.found[i].path, op.found[j].path)
      PROVE  i < j
  <2>1. op.found[i].path \in Paths /\ op.found[j].path \in Paths
    BY <1>2 DEF FoundAlready
  <2>2. ~ByName(op.found[j].path, op.found[i].path) /\ op.found[i].path # op.found[j].path
    BY <1>5, <2>1, OneOrder
  <2>3. i \in Nat /\ j \in Nat
    BY <1>2, LenProperties
  <2>4. ~(j < i)
    BY <1>1, <1>5, <2>1, <2>2 DEF InTurn, Before
  <2>5. i # j
    BY <2>2
  <2> QED BY <2>3, <2>4, <2>5
<1> QED BY <1>3, <1>4, <1>5 DEF FactsAreWhole

(* What was reached is due, until the walk was cut.                         *)
LEMMA ReachedIsDue ==
  ASSUME OpInv, ~op.stopped, ~op.more, NEW p \in Paths, Reached(p)
  PROVE  Due(p)
BY ReachedIsAbove DEF Reached, Due

(* A search that came to its end accounts for what it passed over.          *)
LEMMA SearchHolds ==
  ASSUME OpInv, WalkInv, AtEnd, op.does = "search"
  PROVE  SearchAccounts
<1>1. /\ WalkTyped /\ ShownWasThere /\ Counts /\ Waiting = {} /\ AtHand = {}
      /\ \A p \in Paths : Due(p) => Told(p)
  BY AllIsTold DEF WalkParts
<1>2. \A p : ~Pending(p) /\ ~Unlooked(p) /\ p \notin AtHand
  BY <1>1 DEF Pending, Unlooked, Waiting
<1>3. ASSUME NEW p \in Paths, Reached(p), op.base[p] = "match", ~op.more, ~op.stopped
      PROVE  FoundAt(p) # {}
  <2>1. Told(p)
    BY <1>1, <1>3, ReachedIsDue
  <2>2. p \in FoundAlready
    BY <1>3, <2>1 DEF Told
  <2> QED BY <2>2 DEF FoundAlready, FoundAt
<1>4. ASSUME NEW p \in Paths, FoundAt(p) # {}, Stable(p)
      PROVE  op.base[p] = "match"
  <2>1. p \in FoundAlready
    BY <1>4 DEF FoundAlready, FoundAt
  <2>2. NodeOf(op.base, p) = "match"
    BY <1>1, <1>4, <2>1 DEF ShownWasThere
  <2> QED BY <2>2, PathsAre DEF NodeOf
<1>5. IsFiniteSet(PassedOver) /\ IsFiniteSet(SeenLinks)
  BY WorkspaceAssumption, FS_Subset DEF PassedOver, SeenLinks
<1>6. Cardinality(PassedOver) \in Nat /\ Cardinality(SeenLinks) \in Nat /\ op.skipped \in Nat /\ op.symlinks \in Nat
  BY <1>1, <1>5, FS_CardinalityType DEF WalkTyped
<1>7. ASSUME ~op.more, ~op.stopped, NEW S,
             S = {p \in Paths : Reached(p) /\ op.base[p] \in {"big", "binary", "locked"}}
      PROVE  op.skipped >= Cardinality(S)
  <2>1. S \subseteq PassedOver
    BY <1>2, <1>7, ReachedIsDue DEF PassedOver, Unreadables
  <2>2. Cardinality(S) <= Cardinality(PassedOver) /\ IsFiniteSet(S)
    BY <1>5, <2>1, FS_Subset
  <2>3. Cardinality(S) \in Nat
    BY <2>2, FS_CardinalityType
  <2> QED BY <1>1, <1>6, <2>2, <2>3 DEF Counts
<1>8. ASSUME ~op.more, ~op.stopped, NEW S, S = {p \in Paths : Reached(p) /\ op.base[p] = "link"}
      PROVE  op.symlinks >= Cardinality(S)
  <2>1. S \subseteq SeenLinks
    BY <1>2, <1>8, ReachedIsDue DEF SeenLinks
  <2>2. Cardinality(S) <= Cardinality(SeenLinks) /\ IsFiniteSet(S)
    BY <1>5, <2>1, FS_Subset
  <2>3. Cardinality(S) \in Nat
    BY <2>2, FS_CardinalityType
  <2> QED BY <1>1, <1>6, <2>2, <2>3 DEF Counts
<1> QED BY <1>3, <1>4, <1>7, <1>8 DEF SearchAccounts

(* A list that came to its end shows all it reached, or says there is more. *)
LEMMA ListHolds ==
  ASSUME OpInv, WalkInv, AtEnd, op.does = "list"
  PROVE  ListAccounts
<1> SUFFICES ASSUME NEW p \in Paths, Reached(p), ~op.more
             PROVE  \E i \in DOMAIN op.found : FoundAt(p) = {i} /\ op.found[i].kind = KindOf(op.base[p])
  BY DEF ListAccounts
<1>1. /\ InTurn /\ WalkTyped /\ ListShows /\ op.found \in Seq(Range(op.found))
      /\ \A q \in Paths : Due(q) => Told(q)
  BY AllIsTold DEF WalkParts, WalkTyped
<1>2. ~op.stopped
  <2> SUFFICES ASSUME op.stopped PROVE FALSE
    BY <1>1 DEF WalkTyped
  <2>1. op.kids = {} /\ Len(op.stack) = 0 /\ op.visited \in Nat
    BY <1>1 DEF WalkTyped, AtEnd
  <2>2. Cardinality(op.kids) = 0
    BY <2>1, FS_EmptySet
  <2>3. op.visited + Len(op.stack) + Cardinality(op.kids) >= LIST_MAX_ENTRIES + 2
    BY <1>1 DEF ListShows
  <2>4. Len(op.found) <= LIST_MAX_ENTRIES /\ Len(op.found) = IF op.visited = 0 THEN 0 ELSE op.visited - 1
    BY <1>1 DEF ListShows, Handled, AtEnd
  <2>5. LIST_MAX_ENTRIES \in Nat
    BY WorkspaceAssumption
  <2> QED BY ONLY <2>1, <2>2, <2>3, <2>4, <2>5
<1>3. Told(p)
  BY <1>1, <1>2, ReachedIsDue
<1>4. PICK i \in DOMAIN op.found : op.found[i].path = p /\ op.found[i].kind = KindOf(op.base[p])
  BY <1>3 DEF Told
<1>5. FoundAt(p) = {i}
  BY <1>1, <1>4, ShownOnce
<1> QED BY <1>4, <1>5

(* So a walk that answers accounts for all there was.                       *)
LEMMA WalkEndsWalks ==
  ASSUME OpInv, WalkInv, WalkEnds
  PROVE  WalkInv'
<1>1. AtEnd /\ tree' = tree
  BY DEF WalkEnds, AtEnd
<1>2. CASE op.does = "facts" /\ (op.stopped \/ op.unreadable > 0)
  <2>1. Ends("IO")
    BY <1>2 DEF WalkEnds, Stated
  <2> QED BY <1>1, <2>1, EndsWalks
<1>3. CASE ~(op.does = "facts" /\ (op.stopped \/ op.unreadable > 0))
  <2>1. Ends("ok")
    BY <1>3 DEF WalkEnds, Stated
  <2>2. /\ op'.pc = "done" /\ op'.does = op.does /\ op'.at = op.at
        /\ op'.depth = op.depth /\ op'.base = op.base /\ op'.changed = op.changed
        /\ op'.found = op.found /\ op'.more = op.more /\ op'.stopped = op.stopped
        /\ op'.skipped = op.skipped /\ op'.symlinks = op.symlinks
    BY <2>1 DEF Ends, OpInv, OpFields
  <2>3. WalkParts
    BY <1>1, AllIsTold
  <2>4. op.does \in {"search", "list", "facts"} /\ op.unreadable \in Nat
    BY <2>3 DEF WalkParts, WalkTyped
  <2>5. /\ \A p : (Stable(p)' <=> Stable(p)) /\ (There(p)' <=> There(p)) /\ (Below(p)' <=> Below(p))
        /\ \A p : FoundAt(p)' = FoundAt(p)
        /\ MaxDepth' = MaxDepth
    BY <2>2 DEF Stable, There, Below, FoundAt, MaxDepth
  <2>6. \A p : Reached(p)' <=> Reached(p)
    BY <2>2, <2>5 DEF Reached
  <2>7. ASSUME op.does = "facts" PROVE WalksAccountForAll'
    <3>1. op.unreadable = 0 /\ ~op.stopped
      BY <1>3, <2>4, <2>7
    <3>2. FactsAreWhole
      BY <1>1, <2>7, <3>1, FactsHold
    <3>3. op'.does = "facts" /\ FactsAreWhole'
      BY <2>2, <2>5, <2>7, <3>2 DEF FactsAreWhole
    <3> QED BY ONLY <3>3 DEF WalksAccountForAll
  <2>8. ASSUME op.does = "search" PROVE WalksAccountForAll'
    <3>1. SearchAccounts
      BY <1>1, <2>8, SearchHolds
    <3>2. op'.does = "search" /\ SearchAccounts'
      BY <2>2, <2>5, <2>6, <2>8, <3>1 DEF SearchAccounts
    <3> QED BY ONLY <3>2 DEF WalksAccountForAll
  <2>9. ASSUME op.does = "list" PROVE WalksAccountForAll'
    <3>1. ListAccounts
      BY <1>1, <2>9, ListHolds
    <3>2. op'.does = "list" /\ ListAccounts'
      BY <2>2, <2>5, <2>6, <2>9, <3>1 DEF ListAccounts
    <3> QED BY ONLY <3>2 DEF WalksAccountForAll
  <2>10. WalksAccountForAll'
    BY <2>4, <2>7, <2>8, <2>9
  <2> QED BY <1>1, <2>2, <2>10 DEF WalkInv, TreeKept, Walking
<1> QED BY <1>2, <1>3

-----------------------------------------------------------------------------
(* An operation that begins has looked at nothing yet.                      *)
LEMMA WalkBegins == OpBegins => WalkInv
<1> SUFFICES ASSUME OpBegins PROVE WalkInv
  OBVIOUS
<1>1. tree \in [Paths -> Nodes]
  BY WorkspaceAssumption DEF OpBegins
<1>2. PICK at \in Places, does \in Operations : \E depth :
        /\ does = "facts" => at = <<>>
        /\ does = "list" => depth \in Nat
        /\ op = Op(does, at, depth, tree)
  BY DEF OpBegins
<1>3. PICK depth : /\ does = "facts" => at = <<>>
                   /\ does = "list" => depth \in Nat
                   /\ op = Op(does, at, depth, tree)
  BY <1>2
<1>4. /\ op.pc = "resolve" /\ op.does = does /\ op.at = at /\ op.depth = depth /\ op.entry = <<>>
      /\ op.base = tree /\ op.changed = {}
  BY <1>3 DEF Op
<1>5. Fresh
  BY <1>3 DEF Op, Fresh
<1>6. TreeKept
  BY <1>1, <1>4 DEF TreeKept
<1>7. LookedAt
  <2>1. Len(op.entry) = 0
    BY <1>4
  <2>2. 1..Len(op.entry) = {}
    BY <2>1
  <2> QED BY <1>4, <1>5, <2>2 DEF LookedAt
<1>8. ~Walking /\ WalksAccountForAll
  BY <1>4 DEF Walking, WalksAccountForAll, Answered
<1> QED BY <1>3, <1>4, <1>6, <1>7, <1>8 DEF WalkInv

(* So is it after a step that begins one.                                   *)
LEMMA WalkBeginsNext == OpBegins' => WalkInv'
BY WalkBegins, PTL

(* What a step of an operation makes of what a walk owes.                   *)
LEMMA WalkSteps ==
  ASSUME OpInv, WalkInv, WorkspaceNext
  PROVE  WalkInv'
BY LookAtWalks, ResolvedWalks, ReadWalks, PopWalks, StatWalks, ListingWalks, VisitWalks, WalkEndsWalks,
   LateWalks, ChangeWalks DEF WorkspaceNext

(* What a walk owes depends on these alone.                                 *)
LEMMA WalkStays ==
  ASSUME WalkInv, UNCHANGED <<tree, op>>
  PROVE  WalkInv'
<1>1. tree' = tree /\ op' = op
  OBVIOUS
<1>2. CASE op.pc = "done"
  <2>1. TreeKept' /\ ~Walking'
    BY <1>1, <1>2 DEF WalkInv, TreeKept, Walking
  <2>2. WalksAccountForAll'
    <3>1. /\ \A p : (Stable(p)' <=> Stable(p)) /\ (There(p)' <=> There(p)) /\ (Reached(p)' <=> Reached(p))
          /\ \A p : FoundAt(p)' = FoundAt(p)
      BY <1>1 DEF Stable, There, Reached, Below, FoundAt, MaxDepth
    <3>2. (FactsAreWhole' <=> FactsAreWhole) /\ (ListAccounts' <=> ListAccounts)
      BY <1>1, <3>1 DEF FactsAreWhole, ListAccounts
    <3>3. SearchAccounts' <=> SearchAccounts
      BY <1>1, <3>1 DEF SearchAccounts
    <3>4. WalksAccountForAll /\ op.does \in {"read", "search", "list", "facts"}
      BY DEF WalkInv, Operations
    <3>5. CASE op.does = "facts"
      BY ONLY <1>1, <3>2, <3>4, <3>5 DEF WalksAccountForAll, Answered
    <3>6. CASE op.does = "search"
      BY ONLY <1>1, <3>3, <3>4, <3>6 DEF WalksAccountForAll, Answered
    <3>7. CASE op.does = "list"
      BY ONLY <1>1, <3>2, <3>4, <3>7 DEF WalksAccountForAll, Answered
    <3>8. CASE op.does = "read"
      BY ONLY <1>1, <3>8 DEF WalksAccountForAll, Answered
    <3> QED BY <3>4, <3>5, <3>6, <3>7, <3>8
  <2> QED BY <1>1, <1>2, <2>1, <2>2 DEF WalkInv
<1>3. CASE op.pc # "done"
  <2>1. Resting
    BY <1>1 DEF Resting, Held
  <2>2. TreeKept'
    BY <1>1 DEF WalkInv, TreeKept
  <2> QED BY <1>3, <2>1, <2>2, RestingWalks
<1> QED BY <1>2, <1>3

(* An operation on its own: what a walk owes is inductive.                  *)
THEOREM WalkInductive == WorkspaceSpec => [](OpInv /\ WalkInv)
<1>1. WorkspaceInit => OpInv /\ WalkInv
  BY InitBegins, OpBeginsOK, WalkBegins
<1>2. OpInv /\ WalkInv /\ [WorkspaceNext]_<<tree, op>> => WalkInv'
  BY WalkSteps, WalkStays
<1>3. OpInv /\ WalkInv /\ [WorkspaceNext]_<<tree, op>> => OpInv'
  BY OpSteps, OpStays
<1> QED BY <1>1, <1>2, <1>3, PTL DEF WorkspaceSpec

(* Whatever the tree, the limits, the order a directory is listed in and    *)
(* the changes made under a walk, a walk that answers accounts for what     *)
(* nobody changed: facts are whole; within its depth and below directories  *)
(* that can be listed, a search has found every match or says what it left  *)
(* out, and a list shows every entry or says there are more (builtin.rs     *)
(* Walk, facts_with, try_search, try_list).                                 *)
THEOREM WalksAccountHolds == WorkspaceSpec => []WalksAccountForAll
<1>1. OpInv /\ WalkInv => WalksAccountForAll
  BY DEF WalkInv
<1> QED BY <1>1, WalkInductive, PTL
-----------------------------------------------------------------------------
(***************************************************************************)
(* The context that is sent.                                                *)
(***************************************************************************)
(* What the builder tries, in order.                                        *)
LEMMA ShrinksAre ==
  ASSUME NEW history, Len(history) \in Nat
  PROVE  LET wanted == Min({RecentTurns, Len(history)})
             most == IF wanted = 0 THEN 1 ELSE wanted
         IN  /\ wanted \in Nat /\ Min({1, Len(history)}) = IF wanted = 0 THEN 0 ELSE 1
             /\ DOMAIN Shrinks(history) = 1..most + 4
             /\ \A k \in 1..most : Shrinks(history)[k] = <<wanted + 1 - k, 1>>
             /\ \A k \in most + 1..most + 4 :
                  Shrinks(history)[k] = <<IF wanted = 0 THEN 0 ELSE 1, (k - most) + 1>>
<1> DEFINE wanted == Min({RecentTurns, Len(history)})
           most == IF wanted = 0 THEN 1 ELSE wanted
           newest == IF wanted = 0 THEN 0 ELSE 1
           a == [k \in 1..Max({wanted, 1}) |-> <<wanted + 1 - k, 1>>]
           b == [k \in 1..Len(ObsCaps) - 1 |-> <<Min({wanted, 1}), k + 1>>]
<1>1. wanted = IF RecentTurns <= Len(history) THEN RecentTurns ELSE Len(history)
  BY ContextAssumption DEF Min
<1>2. wanted \in Nat /\ (wanted = 0 <=> Len(history) = 0)
  BY <1>1, ContextAssumption
<1>3. Min({1, Len(history)}) = newest
  <2>1. Min({1, Len(history)}) = IF 1 <= Len(history) THEN 1 ELSE Len(history)
    BY DEF Min
  <2> QED BY <1>2, <2>1
<1> HIDE DEF wanted
<1>4. Min({wanted, 1}) = newest /\ Max({wanted, 1}) = most /\ most \in Nat \ {0}
  <2>1. Min({wanted, 1}) = IF wanted <= 1 THEN wanted ELSE 1
    BY <1>2 DEF Min
  <2>2. Max({wanted, 1}) = IF wanted >= 1 THEN wanted ELSE 1
    BY <1>2 DEF Max
  <2> QED BY <1>2, <2>1, <2>2
<1>5. Len(ObsCaps) - 1 = 4
  BY DEF ObsCaps
<1>6. a = [k \in 1..most |-> <<wanted + 1 - k, 1>>] /\ b = [k \in 1..4 |-> <<newest, k + 1>>]
  BY <1>4, <1>5
<1> DEFINE S == Int \X Int
<1> HIDE DEF most, newest
<1>7. newest \in Int
  BY DEF newest
<1>8. a \in Seq(S) /\ Len(a) = most /\ b \in Seq(S) /\ Len(b) = 4
  <2>1. a \in [1..most -> S] /\ b \in [1..4 -> S]
    BY <1>2, <1>6, <1>7
  <2>2. most \in Nat
    BY <1>4
  <2> HIDE DEF a, b, S
  <2>3. a \in Seq(S) /\ Len(a) = most
    BY ONLY <2>1, <2>2, ListIs
  <2>4. b \in Seq(S) /\ Len(b) = 4
    <3>1. PICK four \in Nat : four = 4
      OBVIOUS
    <3>2. b \in [1..four -> S]
      BY <2>1, <3>1
    <3>3. b \in Seq(S) /\ Len(b) = four
      BY ONLY <3>2, ListIs
    <3> QED BY <3>1, <3>3
  <2> QED BY <2>3, <2>4
<1>9. /\ a \o b \in Seq(S) /\ Len(a \o b) = most + 4
      /\ \A k \in 1..most + 4 : (a \o b)[k] = IF k <= most THEN a[k] ELSE b[k - most]
  <2> HIDE DEF a, b, S
  <2>1. /\ a \o b \in Seq(S) /\ Len(a \o b) = Len(a) + Len(b)
        /\ \A k \in 1..Len(a) + Len(b) : (a \o b)[k] = IF k <= Len(a) THEN a[k] ELSE b[k - Len(a)]
    BY ONLY <1>8, ConcatProperties
  <2> QED BY <1>8, <2>1
<1>10. Shrinks(history) = a \o b
  BY DEF Shrinks, wanted
<1>11. DOMAIN (a \o b) = 1..most + 4
  <2> HIDE DEF a, b, S
  <2> QED BY <1>9, LenProperties
<1>12. \A k \in 1..most : (a \o b)[k] = <<wanted + 1 - k, 1>>
  <2>1. \A k \in 1..most : (a \o b)[k] = a[k]
    <3> HIDE DEF a, b, S
    <3> QED BY <1>4, <1>9
  <2> QED BY <1>6, <2>1
<1>13. \A k \in most + 1..most + 4 : (a \o b)[k] = <<newest, (k - most) + 1>>
  <2>1. \A k \in most + 1..most + 4 : (a \o b)[k] = b[k - most] /\ k - most \in 1..4
    <3> HIDE DEF a, b, S
    <3>1. most \in Nat
      BY <1>4
    <3>2. \A k \in most + 1..most + 4 : k \in 1..most + 4 /\ ~(k <= most) /\ k - most \in 1..4
      BY ONLY <3>1
    <3>3. \A k \in 1..most + 4 : (a \o b)[k] = IF k <= most THEN a[k] ELSE b[k - most]
      BY <1>9
    <3> QED BY ONLY <3>2, <3>3
  <2> QED BY <1>6, <2>1
<1> HIDE DEF a, b
<1> QED BY <1>2, <1>3, <1>10, <1>11, <1>12, <1>13 DEF wanted, most, newest

(* The first layout that fits, or none.                                     *)
LEMMA BuildIs ==
  ASSUME NEW history, NEW tries, tries = Shrinks(history), DOMAIN tries \subseteq Nat
  PROVE  LET Fit(k) == Estimate(history, tries[k][1], ObsCaps[tries[k][2]]) <= Budget
         IN  \/ Build(history) = Exhausted /\ \A k \in DOMAIN tries : ~Fit(k)
             \/ \E k \in DOMAIN tries :
                  /\ Fit(k) /\ \A j \in DOMAIN tries : j < k => ~Fit(j)
                  /\ Build(history) = Built(tries[k][1], tries[k][2],
                                            Estimate(history, tries[k][1], ObsCaps[tries[k][2]]))
<1> DEFINE fits == {k \in DOMAIN tries : Estimate(history, tries[k][1], ObsCaps[tries[k][2]]) <= Budget}
           fit == Min(fits)
<1>1. Build(history) = IF fits = {} THEN Exhausted
        ELSE Built(tries[fit][1], tries[fit][2],
                   Estimate(history, tries[fit][1], ObsCaps[tries[fit][2]]))
  BY DEF Build
<1>2. CASE fits = {}
  BY <1>1, <1>2
<1>3. CASE fits # {}
  <2>1. fits \subseteq Nat
    OBVIOUS
  <2>2. fit \in fits /\ \A k \in fits : fit <= k
    <3> HIDE DEF fits
    <3> QED BY <1>3, <2>1, LeastIs
  <2> HIDE DEF fit
  <2>3. \A j \in DOMAIN tries : j < fit => j \notin fits
    BY <2>1, <2>2
  <2> QED BY <1>1, <1>3, <2>2, <2>3
<1> QED BY <1>2, <1>3

(* What is built is the first layout that fits.                             *)
LEMMA BuildFits ==
  ASSUME NEW history, Len(history) \in Nat
  PROVE  LET newest == Min({1, Len(history)})
             Fit(recent, cap) == Estimate(history, recent, ObsCaps[cap]) <= Budget
         IN  \/ Build(history) = Exhausted /\ ~Fit(newest, Len(ObsCaps))
             \/ \E recent \in Nat, cap \in 1..5 :
                  /\ Build(history) = Built(recent, cap, Estimate(history, recent, ObsCaps[cap]))
                  /\ Fit(recent, cap) /\ recent >= newest
                  /\ \A more \in recent + 1..Min({RecentTurns, Len(history)}) : ~Fit(more, 1)
                  /\ cap > 1 => recent = newest /\ ~Fit(newest, cap - 1)
<1> DEFINE Fit(recent, cap) == Estimate(history, recent, ObsCaps[cap]) <= Budget
<1>0. Len(ObsCaps) = 5
  BY DEF ObsCaps
<1>1. PICK tries : tries = Shrinks(history)
  OBVIOUS
<1>2. PICK wanted : wanted = Min({RecentTurns, Len(history)})
  OBVIOUS
<1>3. PICK newest : newest = Min({1, Len(history)})
  OBVIOUS
<1>4. PICK most : most = IF wanted = 0 THEN 1 ELSE wanted
  OBVIOUS
<1>5. /\ wanted \in Nat /\ newest = (IF wanted = 0 THEN 0 ELSE 1)
      /\ DOMAIN tries = 1..most + 4
      /\ \A k \in 1..most : tries[k] = <<wanted + 1 - k, 1>>
      /\ \A k \in most + 1..most + 4 : tries[k] = <<newest, (k - most) + 1>>
  BY <1>1, <1>2, <1>3, <1>4, ShrinksAre
<1>6. most \in Nat \ {0}
  BY <1>4, <1>5
<1>7. /\ \A k \in 1..most : tries[k][1] = wanted + 1 - k /\ tries[k][2] = 1
      /\ \A k \in most + 1..most + 4 : tries[k][1] = newest /\ tries[k][2] = (k - most) + 1
  BY <1>5
<1>8. \/ Build(history) = Exhausted /\ \A k \in DOMAIN tries : ~Fit(tries[k][1], tries[k][2])
      \/ \E k \in DOMAIN tries :
           /\ Fit(tries[k][1], tries[k][2])
           /\ \A j \in DOMAIN tries : j < k => ~Fit(tries[j][1], tries[j][2])
           /\ Build(history) = Built(tries[k][1], tries[k][2],
                                     Estimate(history, tries[k][1], ObsCaps[tries[k][2]]))
  <2>1. DOMAIN tries \subseteq Nat
    BY <1>5, <1>6
  <2> QED BY <1>1, <2>1, BuildIs
<1> HIDE DEF Fit
<1>9. CASE Build(history) = Exhausted /\ \A k \in DOMAIN tries : ~Fit(tries[k][1], tries[k][2])
  <2>1. most + 4 \in DOMAIN tries /\ tries[most + 4][1] = newest /\ tries[most + 4][2] = 5
    BY <1>5, <1>6, <1>7
  <2>2. ~Fit(newest, 5)
    BY <1>9, <2>1
  <2> QED BY <1>0, <1>3, <1>9, <2>2 DEF Fit
<1>10. ASSUME NEW k \in DOMAIN tries,
              Fit(tries[k][1], tries[k][2]),
              \A j \in DOMAIN tries : j < k => ~Fit(tries[j][1], tries[j][2]),
              Build(history) = Built(tries[k][1], tries[k][2],
                                     Estimate(history, tries[k][1], ObsCaps[tries[k][2]]))
       PROVE  \E recent \in Nat, cap \in 1..5 :
                  /\ Build(history) = Built(recent, cap, Estimate(history, recent, ObsCaps[cap]))
                  /\ Fit(recent, cap) /\ recent >= newest
                  /\ \A more \in recent + 1..wanted : ~Fit(more, 1)
                  /\ cap > 1 => recent = newest /\ ~Fit(newest, cap - 1)
  <2>1. k \in 1..most + 4
    BY <1>5
  <2>2. ASSUME NEW more \in Nat, more <= wanted, wanted + 1 - more < k, wanted + 1 - more <= most
        PROVE  ~Fit(more, 1)
    <3> DEFINE j == wanted + 1 - more
    <3>1. j \in 1..most /\ j \in DOMAIN tries /\ j < k /\ wanted + 1 - j = more
      BY <1>5, <1>6, <2>2
    <3>2. tries[j][1] = more /\ tries[j][2] = 1
      BY <1>7, <3>1
    <3> QED BY <1>10, <3>1, <3>2
  <2>3. CASE k <= most
    <3>1. tries[k][1] = wanted + 1 - k /\ tries[k][2] = 1
      BY <1>7, <2>1, <2>3
    <3>2. wanted + 1 - k \in Nat /\ wanted + 1 - k >= newest
      BY <1>4, <1>5, <1>6, <2>1, <2>3
    <3>3. \A more \in (wanted + 1 - k) + 1..wanted : ~Fit(more, 1)
      <4> TAKE more \in (wanted + 1 - k) + 1..wanted
      <4>1. more \in Nat /\ more <= wanted /\ wanted + 1 - more < k /\ wanted + 1 - more <= most
        BY <1>5, <1>6, <2>1, <2>3, <3>2
      <4> QED BY <2>2, <4>1
    <3> QED BY <1>10, <3>1, <3>2, <3>3
  <2>4. CASE k > most
    <3>1. tries[k][1] = newest /\ tries[k][2] = (k - most) + 1 /\ (k - most) + 1 \in 2..5
      BY <1>6, <1>7, <2>1, <2>4
    <3>2. newest \in Nat
      BY <1>5
    <3>3. \A more \in newest + 1..wanted : ~Fit(more, 1)
      <4> TAKE more \in newest + 1..wanted
      <4>1. more \in Nat /\ more <= wanted /\ wanted + 1 - more < k /\ wanted + 1 - more <= most
        BY <1>4, <1>5, <1>6, <2>1, <2>4
      <4> QED BY <2>2, <4>1
    <3>4. ~Fit(newest, ((k - most) + 1) - 1)
      <4>1. k - 1 \in DOMAIN tries /\ k - 1 < k /\ ((k - most) + 1) - 1 = k - most
        BY <1>5, <1>6, <2>1, <2>4
      <4>2. tries[k - 1][1] = newest /\ tries[k - 1][2] = k - most
        <5>1. CASE k - 1 = most
          <6>1. wanted + 1 - most = newest /\ k - most = 1
            BY <1>4, <1>5, <2>1, <5>1
          <6>2. most \in 1..most
            BY <1>6
          <6> QED BY <1>7, <5>1, <6>1, <6>2
        <5>2. CASE k - 1 # most
          <6>1. k - 1 \in most + 1..most + 4 /\ ((k - 1) - most) + 1 = k - most
            BY <1>6, <2>1, <2>4, <5>2
          <6> QED BY <1>7, <6>1
        <5> QED BY <5>1, <5>2
      <4> QED BY <1>10, <4>1, <4>2
    <3>5. newest >= newest
      BY <3>2
    <3> QED BY <1>10, <3>1, <3>2, <3>3, <3>4, <3>5
  <2> QED BY <1>6, <2>1, <2>3, <2>4
<1>11. CASE \E k \in DOMAIN tries :
           /\ Fit(tries[k][1], tries[k][2])
           /\ \A j \in DOMAIN tries : j < k => ~Fit(tries[j][1], tries[j][2])
           /\ Build(history) = Built(tries[k][1], tries[k][2],
                                     Estimate(history, tries[k][1], ObsCaps[tries[k][2]]))
  <2>1. PICK recent \in Nat, cap \in 1..5 :
                  /\ Build(history) = Built(recent, cap, Estimate(history, recent, ObsCaps[cap]))
                  /\ Fit(recent, cap) /\ recent >= newest
                  /\ \A more \in recent + 1..wanted : ~Fit(more, 1)
                  /\ cap > 1 => recent = newest /\ ~Fit(newest, cap - 1)
    BY <1>10, <1>11
  <2> QED BY <1>2, <1>3, <2>1 DEF Fit
<1> QED BY <1>8, <1>9, <1>11

(* ContextFits of what is built of any turns.                               *)
LEMMA ContextOf ==
  ASSUME phase = "built" => Len(turns) \in Nat /\ built = Build(turns)
  PROVE  ContextFits
<1> SUFFICES ASSUME phase = "built" PROVE ContextFits
  BY DEF ContextFits
<1>1. Len(turns) \in Nat /\ built = Build(turns)
  OBVIOUS
<1> DEFINE newest == Min({1, Len(turns)})
           Fit(recent, cap) == Estimate(turns, recent, ObsCaps[cap]) <= Budget
<1>2. CASE Build(turns) = Exhausted /\ ~Fit(newest, Len(ObsCaps))
  BY <1>1, <1>2 DEF ContextFits
<1>3. ASSUME NEW recent \in Nat, NEW cap \in 1..5,
             Build(turns) = Built(recent, cap, Estimate(turns, recent, ObsCaps[cap])),
             Fit(recent, cap), recent >= newest,
             \A more \in recent + 1..Min({RecentTurns, Len(turns)}) : ~Fit(more, 1),
             cap > 1 => recent = newest /\ ~Fit(newest, cap - 1)
      PROVE  ContextFits
  <2>1. built # Exhausted /\ built.recent = recent /\ built.cap = cap
    BY <1>1, <1>3 DEF Built, Exhausted
  <2> QED BY <1>3, <2>1 DEF ContextFits
<1> QED BY <1>1, <1>2, <1>3, BuildFits

-----------------------------------------------------------------------------
(***************************************************************************)
(* What admission makes of the manifests.                                   *)
(***************************************************************************)
(* parse_with_origin passes nothing that takes a reserved name.             *)
LEMMA FileChecksAre ==
  ASSUME NEW m
  PROVE  Checks(FileChecks(m)) /\ (Passes(FileChecks(m)) => ~Reserved(m))
<1> DEFINE s == FileChecks(m)
<1>1. Len(s) = 9 /\ s \in Seq({s[1], s[2], s[3], s[4], s[5], s[6], s[7], s[8], s[9]})
  BY DEF FileChecks
<1>2. \A i \in 1..9 : s[i][2] # Accepted
  BY DEF FileChecks, Accepted
<1>3. ~s[7][1] => ~Reserved(m)
  BY DEF FileChecks
<1> HIDE DEF s
<1> QED BY <1>1, <1>2, <1>3 DEF Checks, Passes, s

(* validate passes a compiled-in manifest only under the harness name.      *)
LEMMA ManifestChecksAre ==
  ASSUME NEW m
  PROVE  /\ Checks(ManifestChecks(m))
         /\ Passes(ManifestChecks(m)) => (m.origin = "compiled" => m.provider = BUILTIN_NAMESPACE)
<1> DEFINE a == << <<m.provider = BadName,                              "InvalidName">>,
     <<Reserved(m),                                       "ReservedProvider">>,
     <<m.origin = "compiled" /\ m.provider # BUILTIN_NAMESPACE, "ReservedProvider">>,
     <<~m.texts_sound,                                    "EmptyField">>,
     <<m.min_harness > HarnessVersion,                    "HarnessTooOld">> >>
           b == << <<IsMcp(m) # (m.mcp_protocols # <<>>),               "TransportField">>,
     <<~Unique(m.mcp_protocols),                          "BadTransport">>,
     <<m.capabilities = <<>>,                             "NoCapabilities">>,
     <<Len(m.capabilities) > CAPABILITIES_MAX,            "TooLong">> >>
           t == TransportChecks(m)
<1>1. ManifestChecks(m) = a \o t \o b
  BY DEF ManifestChecks
<1>2. Checks(a) /\ (Passes(a) => (m.origin = "compiled" => m.provider = BUILTIN_NAMESPACE))
  <2>1. Len(a) = 5 /\ a \in Seq({a[1], a[2], a[3], a[4], a[5]})
    OBVIOUS
  <2>2. \A i \in 1..5 : a[i][2] # Accepted
    BY DEF Accepted
  <2>3. ~a[3][1] => (m.origin = "compiled" => m.provider = BUILTIN_NAMESPACE)
    OBVIOUS
  <2> HIDE DEF a
  <2> QED BY <2>1, <2>2, <2>3 DEF Checks, Passes
<1>3. Checks(b)
  <2>1. Len(b) = 4 /\ b \in Seq({b[1], b[2], b[3], b[4]})
    OBVIOUS
  <2>2. \A i \in 1..4 : b[i][2] # Accepted
    BY DEF Accepted
  <2> HIDE DEF b
  <2> QED BY <2>1, <2>2 DEF Checks
<1>4. Checks(t)
  <2>1. Len(t) = 3 /\ t \in Seq({t[1], t[2], t[3]})
    BY DEF TransportChecks
  <2>2. \A i \in 1..3 : t[i][2] # Accepted
    BY DEF Accepted, TransportChecks
  <2> HIDE DEF t
  <2> QED BY <2>1, <2>2 DEF Checks
<1> HIDE DEF a, b, t
<1>5. Checks((a \o t) \o b) /\ (Passes((a \o t) \o b) => Passes(a))
  <2>1. Checks(a \o t) /\ (Passes(a \o t) => Passes(a))
    BY <1>2, <1>4, PassesBoth
  <2> QED BY <1>3, <2>1, PassesBoth
<1> QED BY <1>1, <1>2, <1>5

(* A capability passes only under the namespace of its manifest, and once.  *)
LEMMA CapabilityChecksAre ==
  ASSUME NEW m, NEW i
  PROVE  /\ Checks(CapabilityChecks(m, i))
         /\ Passes(CapabilityChecks(m, i)) =>
              ~Foreign(m, m.capabilities[i].id) /\ ~Repeats(IdsOf(m), i)
<1> DEFINE s == CapabilityChecks(m, i)
<1>1. /\ Len(s) = 11
      /\ s \in Seq({s[1], s[2], s[3], s[4], s[5], s[6], s[7], s[8], s[9], s[10], s[11]})
  BY DEF CapabilityChecks
<1>2. \A k \in 1..11 : s[k][2] # Accepted
  BY DEF CapabilityChecks, Accepted
<1>3. (~s[2][1] => ~Foreign(m, m.capabilities[i].id)) /\ (~s[3][1] => ~Repeats(IdsOf(m), i))
  BY DEF CapabilityChecks
<1> HIDE DEF s
<1> QED BY <1>1, <1>2, <1>3 DEF Checks, Passes, s

(* What a manifest that parses is: under a name it may have, with           *)
(* capabilities of that name and no two alike.                              *)
LEMMA ParsedIs ==
  ASSUME NEW m, m.capabilities \in Seq(Range(m.capabilities)), ParseManifest(m) = Accepted
  PROVE  /\ ~Reserved(m) /\ (m.origin = "compiled" => m.provider = BUILTIN_NAMESPACE)
         /\ \A i \in DOMAIN m.capabilities :
              ~Foreign(m, m.capabilities[i].id) /\ ~Repeats(IdsOf(m), i)
<1> DEFINE n == Len(m.capabilities)
           seqs == [i \in DOMAIN m.capabilities |-> CapabilityChecks(m, i)]
<1>1. n \in Nat /\ DOMAIN m.capabilities = 1..n
  BY LenProperties
<1>2. /\ Len(seqs) = n /\ (n = 0 => seqs = <<>>)
      /\ \A i \in 1..n : seqs[i] = CapabilityChecks(m, i)
  <2>1. seqs \in [1..n -> Range(seqs)]
    BY <1>1 DEF Range
  <2> HIDE DEF n
  <2>2. seqs \in Seq(Range(seqs)) /\ Len(seqs) = n
    <3> HIDE DEF seqs
    <3> QED BY ONLY <1>1, <2>1, ListIs
  <2>3. n = 0 => seqs = <<>>
    <3> HIDE DEF seqs
    <3> QED BY <2>2, EmptySeq
  <2> QED BY <1>1, <2>2, <2>3
<1>3. ParseManifest(m) = FirstRefusal((FileChecks(m) \o ManifestChecks(m)) \o FlattenSeq(seqs))
  BY DEF ParseManifest
<1> HIDE DEF seqs, n
<1>4. \A i \in 1..n : Checks(seqs[i])
  BY <1>2, CapabilityChecksAre
<1>5. /\ Checks(FlattenSeq(seqs))
      /\ Passes(FlattenSeq(seqs)) <=> \A i \in 1..n : Passes(seqs[i])
  BY <1>1, <1>2, <1>4, PassesAll
<1> DEFINE all == (FileChecks(m) \o ManifestChecks(m)) \o FlattenSeq(seqs)
<1>6. /\ Checks(all)
      /\ Passes(all) <=> (Passes(FileChecks(m)) /\ Passes(ManifestChecks(m))) /\ Passes(FlattenSeq(seqs))
  <2>1. /\ Checks(FileChecks(m) \o ManifestChecks(m))
        /\ Passes(FileChecks(m) \o ManifestChecks(m)) <=> Passes(FileChecks(m)) /\ Passes(ManifestChecks(m))
    BY FileChecksAre, ManifestChecksAre, PassesBoth
  <2> QED BY <1>5, <2>1, PassesBoth
<1>7. Passes(all)
  <2>1. FirstRefusal(all) = Accepted
    BY <1>3
  <2> HIDE DEF all
  <2> QED BY <1>6, <2>1, FirstRefusalIs
<1> HIDE DEF all
<1>8. ~Reserved(m) /\ (m.origin = "compiled" => m.provider = BUILTIN_NAMESPACE)
  BY <1>6, <1>7, FileChecksAre, ManifestChecksAre
<1>9. \A i \in 1..n : ~Foreign(m, m.capabilities[i].id) /\ ~Repeats(IdsOf(m), i)
  BY <1>2, <1>5, <1>6, <1>7, CapabilityChecksAre
<1> QED BY <1>1, <1>8, <1>9

(* The builtin tier is for what is compiled in.                             *)
LEMMA TierChecksAre ==
  ASSUME NEW m, NEW tier
  PROVE  /\ Checks(TierChecks(m, tier))
         /\ Passes(TierChecks(m, tier)) => (tier = "builtin" => m.origin = "compiled")
<1> DEFINE s == TierChecks(m, tier)
<1>1. Len(s) = 3 /\ s \in Seq({s[1], s[2], s[3]})
  BY DEF TierChecks
<1>2. \A k \in 1..3 : s[k][2] # Accepted
  BY DEF TierChecks, Accepted
<1>3. ~s[1][1] => (tier = "builtin" => m.origin = "compiled")
  BY DEF TierChecks
<1> HIDE DEF s
<1> QED BY <1>1, <1>2, <1>3 DEF Checks, Passes, s

(* The phase gate passes the builtin tier alone.                            *)
LEMMA PhaseChecksAre ==
  ASSUME NEW m, NEW tier
  PROVE  /\ Checks(PhaseChecks(m, tier))
         /\ Passes(PhaseChecks(m, tier)) => tier = "builtin"
<1> DEFINE s == PhaseChecks(m, tier)
<1>1. Len(s) = 3 /\ s \in Seq({s[1], s[2], s[3]})
  BY DEF PhaseChecks
<1>2. \A k \in 1..3 : s[k][2] # Accepted
  BY DEF PhaseChecks, Accepted
<1>3. ~s[1][1] => tier = "builtin"
  BY DEF PhaseChecks
<1> HIDE DEF s
<1> QED BY <1>1, <1>2, <1>3 DEF Checks, Passes, s

(* No two admitted manifests have one provider, and behind the phase gate   *)
(* all are compiled in.                                                     *)
LEMMA AdmissionIs ==
  ASSUME NEW entries, entries \in Seq(Range(entries)), NEW gated \in BOOLEAN,
         Admission(entries, gated) = Accepted
  PROVE  /\ \A i, j \in DOMAIN entries :
              entries[i].manifest.provider = entries[j].manifest.provider => i = j
         /\ gated => \A i \in DOMAIN entries : entries[i].manifest.origin = "compiled"
<1> DEFINE n == Len(entries)
           Tier(i) == TierChecks(entries[i].manifest, entries[i].tier)
           Phase(i) == IF gated THEN PhaseChecks(entries[i].manifest, entries[i].tier) ELSE <<>>
           shadows == ShadowChecks(entries)
           seqs == [i \in DOMAIN entries |-> Tier(i) \o Phase(i)]
<1>1. n \in Nat /\ DOMAIN entries = 1..n
  BY LenProperties
<1>2. /\ Len(seqs) = n /\ (n = 0 => seqs = <<>>)
      /\ \A i \in 1..n : seqs[i] = Tier(i) \o Phase(i)
  <2>1. seqs \in [1..n -> Range(seqs)]
    BY <1>1 DEF Range
  <2> HIDE DEF n, Tier, Phase
  <2>2. seqs \in Seq(Range(seqs)) /\ Len(seqs) = n
    <3> HIDE DEF seqs
    <3> QED BY ONLY <1>1, <2>1, ListIs
  <2>3. n = 0 => seqs = <<>>
    <3> HIDE DEF seqs
    <3> QED BY <2>2, EmptySeq
  <2> QED BY <1>1, <2>2, <2>3
<1>3. Checks(shadows) /\ (Passes(shadows) =>
        \A i \in 1..n : ~ \E j \in 1..i - 1 : entries[j].manifest.provider = entries[i].manifest.provider)
  <2>1. shadows \in [1..n -> Range(shadows)]
    BY <1>1 DEF Range, ShadowChecks
  <2>2. \A i \in 1..n : shadows[i][2] # Accepted
    BY <1>1 DEF ShadowChecks, Accepted
  <2>3. \A i \in 1..n : ~shadows[i][1] =>
          ~ \E j \in 1..i - 1 : entries[j].manifest.provider = entries[i].manifest.provider
    BY <1>1 DEF ShadowChecks
  <2> HIDE DEF shadows, n
  <2>4. shadows \in Seq(Range(shadows)) /\ Len(shadows) = n
    BY ONLY <1>1, <2>1, ListIs
  <2> QED BY <2>2, <2>3, <2>4 DEF Checks, Passes
<1>4. Admission(entries, gated) = FirstRefusal(shadows \o FlattenSeq(seqs))
  BY DEF Admission
<1>5. /\ \A i \in 1..n : Checks(seqs[i])
      /\ \A i \in 1..n : Passes(seqs[i]) => (gated => entries[i].manifest.origin = "compiled")
  <2> SUFFICES ASSUME NEW i \in 1..n
               PROVE  /\ Checks(seqs[i])
                      /\ Passes(seqs[i]) => (gated => entries[i].manifest.origin = "compiled")
    OBVIOUS
  <2>1. Checks(Tier(i)) /\ (Passes(Tier(i)) => (entries[i].tier = "builtin" => entries[i].manifest.origin = "compiled"))
    BY TierChecksAre
  <2>2. Checks(Phase(i)) /\ (Passes(Phase(i)) => (gated => entries[i].tier = "builtin"))
    <3>1. CASE gated
      BY <3>1, PhaseChecksAre
    <3>2. CASE ~gated
      <4>1. <<>> \in Seq({}) /\ Len(<<>>) = 0
        OBVIOUS
      <4> QED BY <3>2, <4>1 DEF Checks
    <3> QED BY <3>1, <3>2
  <2> HIDE DEF Tier, Phase, seqs
  <2>3. Checks(Tier(i) \o Phase(i)) /\ (Passes(Tier(i) \o Phase(i)) => Passes(Tier(i)) /\ Passes(Phase(i)))
    BY <2>1, <2>2, PassesBoth
  <2> QED BY <1>2, <2>1, <2>2, <2>3
<1> HIDE DEF seqs, shadows, n, Tier, Phase
<1>6. /\ Checks(FlattenSeq(seqs))
      /\ Passes(FlattenSeq(seqs)) <=> \A i \in 1..n : Passes(seqs[i])
  BY <1>1, <1>2, <1>5, PassesAll
<1> DEFINE all == shadows \o FlattenSeq(seqs)
<1>7. Checks(all) /\ (Passes(all) <=> Passes(shadows) /\ Passes(FlattenSeq(seqs)))
  BY <1>3, <1>6, PassesBoth
<1>8. Passes(all)
  <2>1. FirstRefusal(all) = Accepted
    BY <1>4
  <2> HIDE DEF all
  <2> QED BY <1>7, <2>1, FirstRefusalIs
<1> HIDE DEF all
<1>9. \A i \in 1..n : ~ \E j \in 1..i - 1 : entries[j].manifest.provider = entries[i].manifest.provider
  BY <1>3, <1>7, <1>8
<1>10. \A i, j \in 1..n : entries[i].manifest.provider = entries[j].manifest.provider => i = j
  <2> TAKE i, j \in 1..n
  <2>1. i < j => i \in 1..j - 1
    BY <1>1
  <2>2. j < i => j \in 1..i - 1
    BY <1>1
  <2>3. i < j \/ j < i \/ i = j
    BY <1>1
  <2> QED BY <1>9, <2>1, <2>2, <2>3
<1>11. gated => \A i \in 1..n : entries[i].manifest.origin = "compiled"
  BY <1>5, <1>6, <1>7, <1>8
<1> QED BY <1>1, <1>10, <1>11

\* What admission makes of the manifests of a setup.
Sorted ==
  /\ Entries \in Seq(Range(Entries)) /\ setup.grants \in Seq(Range(setup.grants)) /\ setup.gated \in BOOLEAN
  /\ \A i \in DOMAIN Entries :
       LET m == Entries[i].manifest
       IN  /\ Declared(m)
           /\ m.provider = BUILTIN_NAMESPACE <=> m.origin = "compiled"
           /\ setup.gated => m.origin = "compiled"
           /\ \A k \in DOMAIN m.capabilities :
                /\ Owners(m.capabilities[k].id) = {i}
                /\ Matches(Entries, m.capabilities[k].id) = {<<i, k>>}
                /\ m.capabilities[k].id.provider = m.provider

(* Every capability of an admitted setup has one owner, that of its         *)
(* namespace, and one place in it.                                          *)
LEMMA AdmittedIsSorted ==
  ASSUME setup \in Setups, Admitted
  PROVE  Sorted
<1>1. /\ Entries \in Seq(Range(Entries)) /\ setup.grants \in Seq(Range(setup.grants)) /\ setup.gated \in BOOLEAN
      /\ \A entry \in Range(Entries) : Declared(entry.manifest)
  BY TurnAssumption DEF Entries
<1>2. /\ \A i \in DOMAIN Entries : ParseManifest(Entries[i].manifest) = Accepted
      /\ Admission(Entries, setup.gated) = Accepted
  BY DEF Admitted, Refusals
<1>3. PICK entries : entries = Entries
  OBVIOUS
<1>4. PICK gated \in BOOLEAN : gated = setup.gated
  BY <1>1
<1>5. /\ \A i, j \in DOMAIN entries :
              entries[i].manifest.provider = entries[j].manifest.provider => i = j
      /\ gated => \A i \in DOMAIN entries : entries[i].manifest.origin = "compiled"
  <2>1. entries \in Seq(Range(entries)) /\ Admission(entries, gated) = Accepted
    BY <1>1, <1>2, <1>3, <1>4
  <2> QED BY ONLY <2>1, <1>4, AdmissionIs
<1>6. ASSUME NEW i \in DOMAIN entries
      PROVE  LET m == entries[i].manifest
             IN  /\ Declared(m) /\ m.capabilities \in Seq(Range(m.capabilities))
                 /\ m.provider = BUILTIN_NAMESPACE <=> m.origin = "compiled"
                 /\ \A k \in DOMAIN m.capabilities :
                      /\ m.capabilities[k].id.provider = m.provider
                      /\ \A j \in 1..k - 1 : m.capabilities[j].id # m.capabilities[k].id
  <2>1. PICK m : m = entries[i].manifest
    OBVIOUS
  <2>2. Declared(m) /\ ParseManifest(m) = Accepted
    <3>1. entries[i] \in Range(entries)
      BY DEF Range
    <3> QED BY <1>1, <1>2, <1>3, <2>1, <3>1
  <2>3. m.capabilities \in Seq(Range(m.capabilities)) /\ m.origin \in {"compiled", "external"}
    BY <2>2 DEF Declared
  <2>4. /\ ~Reserved(m) /\ (m.origin = "compiled" => m.provider = BUILTIN_NAMESPACE)
        /\ \A k \in DOMAIN m.capabilities :
              ~Foreign(m, m.capabilities[k].id) /\ ~Repeats(IdsOf(m), k)
    BY ONLY <2>2, <2>3, ParsedIs
  <2>5. m.provider = BUILTIN_NAMESPACE <=> m.origin = "compiled"
    BY <2>3, <2>4 DEF Reserved, RESERVED_NAMESPACES, BUILTIN_NAMESPACE
  <2>6. ASSUME NEW k \in DOMAIN m.capabilities
        PROVE  /\ m.capabilities[k].id.provider = m.provider
               /\ \A j \in 1..k - 1 : m.capabilities[j].id # m.capabilities[k].id
    <3>1. m.capabilities[k].id.provider = m.provider
      BY <2>4 DEF Foreign
    <3>2. ASSUME NEW j \in 1..k - 1 PROVE m.capabilities[j].id # m.capabilities[k].id
      <4>1. DOMAIN m.capabilities = 1..Len(m.capabilities) /\ Len(m.capabilities) \in Nat
        BY <2>3, LenProperties
      <4>2. j \in DOMAIN m.capabilities
        BY <4>1
      <4>3. IdsOf(m)[j] # IdsOf(m)[k]
        BY <2>4 DEF Repeats
      <4> QED BY <4>2, <4>3 DEF IdsOf
    <3> QED BY <3>1, <3>2
  <2> QED BY <2>1, <2>2, <2>3, <2>5, <2>6
<1>7. ASSUME NEW i \in DOMAIN entries, NEW k \in DOMAIN entries[i].manifest.capabilities
      PROVE  /\ Owners(entries[i].manifest.capabilities[k].id) = {i}
             /\ Matches(Entries, entries[i].manifest.capabilities[k].id) = {<<i, k>>}
  <2>1. PICK id : id = entries[i].manifest.capabilities[k].id
    OBVIOUS
  <2>2. id.provider = entries[i].manifest.provider
    BY <1>6, <2>1
  <2>3. Owners(id) = {i}
    BY <1>3, <1>5, <2>2 DEF Owners
  <2>4. \A j \in DOMAIN entries : \A l \in DOMAIN entries[j].manifest.capabilities :
          entries[j].manifest.capabilities[l].id = id => j = i /\ l = k
    <3> TAKE j \in DOMAIN entries
    <3> TAKE l \in DOMAIN entries[j].manifest.capabilities
    <3> SUFFICES ASSUME entries[j].manifest.capabilities[l].id = id PROVE j = i /\ l = k
      OBVIOUS
    <3>1. entries[j].manifest.provider = id.provider
      BY <1>6
    <3>2. j = i
      BY <1>5, <2>2, <3>1
    <3>3. PICK c : c = entries[i].manifest.capabilities
      OBVIOUS
    <3>4. /\ DOMAIN c = 1..Len(c) /\ Len(c) \in Nat /\ k \in DOMAIN c /\ l \in DOMAIN c
          /\ \A q \in DOMAIN c : \A p \in 1..q - 1 : c[p].id # c[q].id
      BY <1>6, <3>2, <3>3, LenProperties
    <3>5. c[l].id = c[k].id
      BY <2>1, <3>2, <3>3
    <3>6. l < k => l \in 1..k - 1
      BY <3>4
    <3>7. k < l => k \in 1..l - 1
      BY <3>4
    <3>8. l < k \/ k < l \/ k = l
      BY <3>4
    <3> QED BY <3>2, <3>4, <3>5, <3>6, <3>7, <3>8
  <2>5. Matches(entries, id) = {<<i, k>>}
    <3> DEFINE pairs == UNION {{a} \X DOMAIN entries[a].manifest.capabilities : a \in DOMAIN entries}
    <3>1. Matches(entries, id) = {match \in pairs : entries[match[1]].manifest.capabilities[match[2]].id = id}
      BY DEF Matches
    <3>2. \A match \in pairs : \E j \in DOMAIN entries : \E l \in DOMAIN entries[j].manifest.capabilities :
            match = <<j, l>>
      OBVIOUS
    <3>3. <<i, k>> \in pairs
      OBVIOUS
    <3> HIDE DEF pairs
    <3>4. \A match \in Matches(entries, id) : match = <<i, k>>
      <4> TAKE match \in Matches(entries, id)
      <4>1. match \in pairs /\ entries[match[1]].manifest.capabilities[match[2]].id = id
        BY <3>1
      <4>2. PICK j \in DOMAIN entries : \E l \in DOMAIN entries[j].manifest.capabilities : match = <<j, l>>
        BY <3>2, <4>1
      <4>2a. PICK l \in DOMAIN entries[j].manifest.capabilities : match = <<j, l>>
        BY <4>2
      <4>3. match[1] = j /\ match[2] = l
        BY <4>2a
      <4>4. entries[j].manifest.capabilities[l].id = id
        BY <4>1, <4>3
      <4> QED BY <2>4, <4>2a, <4>4
    <3>5. <<i, k>> \in Matches(entries, id)
      BY <2>1, <3>1, <3>3
    <3> QED BY <3>4, <3>5
  <2> QED BY <1>3, <2>1, <2>3, <2>5
<1>8. ASSUME NEW i \in DOMAIN entries
      PROVE  LET m == entries[i].manifest
             IN  /\ Declared(m)
                 /\ m.provider = BUILTIN_NAMESPACE <=> m.origin = "compiled"
                 /\ setup.gated => m.origin = "compiled"
                 /\ \A k \in DOMAIN m.capabilities :
                      /\ Owners(m.capabilities[k].id) = {i}
                      /\ Matches(Entries, m.capabilities[k].id) = {<<i, k>>}
                      /\ m.capabilities[k].id.provider = m.provider
  <2>1. setup.gated => entries[i].manifest.origin = "compiled"
    BY <1>4, <1>5
  <2> QED BY ONLY <1>6, <1>7, <2>1
<1> QED BY ONLY <1>1, <1>3, <1>8 DEF Sorted

(* So an id that a session holds has one owner.                             *)
LEMMA OwnersOf ==
  ASSUME Sorted
  PROVE  OneOwnerPerCapability
BY DEF Sorted, OneOwnerPerCapability, BUILTIN_NAMESPACE

-----------------------------------------------------------------------------
(***************************************************************************)
(* What a session is planned with.                                          *)
(***************************************************************************)

(* An id that something admitted stands for has one capability, which       *)
(* Resolve finds, under the manifest of its namespace.                      *)
LEMMA ResolveIs ==
  ASSUME Sorted, NEW id, Matches(Entries, id) # {}
  PROVE  \E i \in DOMAIN Entries : \E k \in DOMAIN Entries[i].manifest.capabilities :
           LET c == Entries[i].manifest.capabilities[k]
           IN  /\ c.id = id /\ Resolve(Entries, id) = c
               /\ OwnedBy(id) = {c} /\ FirstOf(OwnedBy(id)) = c
<1>1. PICK entries : entries = Entries
  OBVIOUS
<1> DEFINE pairs == UNION {{a} \X DOMAIN entries[a].manifest.capabilities : a \in DOMAIN entries}
<1>2. PICK match \in pairs : entries[match[1]].manifest.capabilities[match[2]].id = id
  BY <1>1 DEF Matches
<1>3. PICK i \in DOMAIN entries : \E k \in DOMAIN entries[i].manifest.capabilities : match = <<i, k>>
  OBVIOUS
<1>4. PICK k \in DOMAIN entries[i].manifest.capabilities : match = <<i, k>>
  BY <1>3
<1>5. PICK caps : caps = entries[i].manifest.capabilities
  OBVIOUS
<1>6. PICK c : c = caps[k]
  OBVIOUS
<1>7. k \in DOMAIN caps /\ c.id = id
  <2>1. match[1] = i /\ match[2] = k
    BY <1>4
  <2> QED BY <1>2, <1>4, <1>5, <1>6, <2>1
<1>8. Owners(id) = {i} /\ Matches(Entries, id) = {<<i, k>>}
  <2>1. entries[i].manifest.capabilities[k].id = id
    BY <1>5, <1>6, <1>7
  <2>2. /\ Owners(entries[i].manifest.capabilities[k].id) = {i}
        /\ Matches(Entries, entries[i].manifest.capabilities[k].id) = {<<i, k>>}
    BY <1>1, <1>4 DEF Sorted
  <2> QED BY ONLY <2>1, <2>2
<1>9. Resolve(Entries, id) = c
  <2>1. (CHOOSE p \in Matches(Entries, id) : TRUE) = <<i, k>>
    BY <1>8
  <2>2. PICK m : m = CHOOSE p \in Matches(Entries, id) : TRUE
    OBVIOUS
  <2>2a. m = <<i, k>>
    BY ONLY <2>1, <2>2, Zenon
  <2>3. m[1] = i /\ m[2] = k
    BY ONLY <2>2a
  <2>4. Resolve(Entries, id) = Entries[m[1]].manifest.capabilities[m[2]]
    BY <2>2 DEF Resolve
  <2> QED BY <1>1, <1>5, <1>6, <2>3, <2>4
<1>10. OwnedBy(id) = {c}
  <2>1. OwnedBy(id) = {d \in UNION {Range(Entries[j].manifest.capabilities) : j \in {i}} : d.id = id}
    BY <1>8 DEF OwnedBy
  <2>2. UNION {Range(Entries[j].manifest.capabilities) : j \in {i}} = Range(caps)
    BY <1>1, <1>5
  <2>3. OwnedBy(id) = {d \in Range(caps) : d.id = id}
    BY <2>1, <2>2
  <2>4. \A l \in DOMAIN caps : caps[l].id = id => l = k
    <3> SUFFICES ASSUME NEW l \in DOMAIN caps, caps[l].id = id PROVE l = k
      OBVIOUS
    <3>1. <<i, l>> \in Matches(Entries, id)
      <4>1. <<i, l>> \in pairs
        BY <1>5
      <4>2. entries[<<i, l>>[1]].manifest.capabilities[<<i, l>>[2]].id = id
        BY <1>5
      <4> QED BY <1>1, <4>1, <4>2 DEF Matches
    <3>2. <<i, l>> = <<i, k>>
      BY <1>8, <3>1
    <3> QED BY <3>2
  <2>5. c \in Range(caps)
    BY <1>6, <1>7 DEF Range
  <2>6. \A d \in Range(caps) : \E l \in DOMAIN caps : d = caps[l]
    BY DEF Range
  <2> QED BY ONLY <1>6, <1>7, <2>3, <2>4, <2>5, <2>6
<1>11. FirstOf(OwnedBy(id)) = c
  BY <1>10 DEF FirstOf
<1> QED BY <1>1, <1>3, <1>4, <1>5, <1>6, <1>7, <1>9, <1>10, <1>11

(* A grant that is not refused is of something admitted.                    *)
LEMMA GrantedIs ==
  ASSUME NEW spec, NEW registry, spec.grants \in Seq(Range(spec.grants)),
         GrantRefusal(spec, registry) = Accepted
  PROVE  \A i \in DOMAIN spec.grants : Matches(registry, spec.grants[i]) # {}
<1> DEFINE n == Len(spec.grants)
           Of3(i) == << <<Repeats(spec.grants, i),                 "DuplicateGrant">>,
       <<Matches(registry, spec.grants[i]) = {},  "UnknownCapability">>,
       <<~Resolves(registry, spec.grants[i]),     "Ambiguous">> >>
           seqs == [i \in DOMAIN spec.grants |-> Of3(i)]
<1>1. n \in Nat /\ DOMAIN spec.grants = 1..n
  BY LenProperties
<1>2. /\ Len(seqs) = n /\ (n = 0 => seqs = <<>>)
      /\ \A i \in 1..n : seqs[i] = Of3(i)
  <2>1. seqs \in [1..n -> Range(seqs)]
    BY <1>1 DEF Range
  <2> HIDE DEF n, Of3
  <2>2. seqs \in Seq(Range(seqs)) /\ Len(seqs) = n
    <3> HIDE DEF seqs
    <3> QED BY ONLY <1>1, <2>1, ListIs
  <2>3. n = 0 => seqs = <<>>
    <3> HIDE DEF seqs
    <3> QED BY <2>2, EmptySeq
  <2> QED BY <1>1, <2>2, <2>3
<1>3. ASSUME NEW i \in 1..n
      PROVE  /\ Checks(seqs[i])
             /\ Passes(seqs[i]) => Matches(registry, spec.grants[i]) # {}
  <2> DEFINE s == Of3(i)
  <2>1. Len(s) = 3 /\ s \in Seq({s[1], s[2], s[3]})
    OBVIOUS
  <2>2. \A k \in 1..3 : s[k][2] # Accepted
    BY DEF Accepted
  <2>3. ~s[2][1] => Matches(registry, spec.grants[i]) # {}
    OBVIOUS
  <2>4. seqs[i] = s
    BY <1>2
  <2> HIDE DEF s, Of3, seqs, n
  <2>5. Checks(s)
    BY <2>1, <2>2 DEF Checks
  <2>6. Passes(s) => ~s[2][1]
    BY <2>1 DEF Passes
  <2> QED BY ONLY <2>3, <2>4, <2>5, <2>6
<1>4. GrantRefusal(spec, registry) = FirstRefusal(FlattenSeq(seqs))
  BY DEF GrantRefusal
<1> HIDE DEF seqs, n, Of3
<1>5. /\ Checks(FlattenSeq(seqs))
      /\ Passes(FlattenSeq(seqs)) <=> \A i \in 1..n : Passes(seqs[i])
  BY <1>1, <1>2, <1>3, PassesAll
<1>6. Passes(FlattenSeq(seqs))
  BY <1>4, <1>5, FirstRefusalIs
<1> QED BY <1>1, <1>3, <1>5, <1>6

(* What a plan holds is neither restricted nor sent out, and reads or is    *)
(* the submit sentinel; a workspace tool has a workspace.                   *)
LEMMA PlanIs ==
  ASSUME NEW spec, NEW registry, NEW policy, spec.grants \in Seq(Range(spec.grants)),
         PlanRefusal(spec, registry, policy) = Accepted
  PROVE  \A id \in Range(spec.grants) :
           LET c == Resolve(registry, id)
           IN  /\ Matches(registry, id) # {}
               /\ c.sensitivity # "restricted" /\ c.egress = "none"
               /\ c.effect = "read" \/ IsSubmitSentinel(c)
               /\ IsFsTool(c.id) => spec.workspace # NoWorkspace
<1>1. GrantRefusal(spec, registry) = Accepted
  BY DEF PlanRefusal
<1> DEFINE n == Len(spec.grants)
           held == [i \in DOMAIN spec.grants |-> Resolve(registry, spec.grants[i])]
           classes == [i \in DOMAIN held |-> ClassIn(policy, held[i])]
           first == << <<\E i \in DOMAIN held : held[i].sensitivity = "restricted", "Restricted">>,
             <<Trifecta(classes, spec.workspace),                         "Trifecta">> >>
           Of3(i) == << <<IsFsTool(held[i].id) /\ spec.workspace = NoWorkspace,        "NoWorkspace">>,
               <<held[i].effect # "read" /\ ~IsSubmitSentinel(held[i]),       "OutOfScope">>,
               <<held[i].egress # "none",                                     "OutOfScope">> >>
           seqs == [i \in DOMAIN held |-> Of3(i)]
<1>2. FirstRefusal(first \o FlattenSeq(seqs)) = Accepted
  <2>1. PlanRefusal(spec, registry, policy) = FirstRefusal(first \o FlattenSeq(seqs))
    BY <1>1 DEF PlanRefusal
  <2> QED BY <2>1
<1>3. n \in Nat /\ DOMAIN spec.grants = 1..n /\ DOMAIN held = 1..n
  BY LenProperties
<1>4. \A i \in 1..n : held[i] = Resolve(registry, spec.grants[i])
  BY <1>3
<1>5. Checks(first) /\ (Passes(first) => \A i \in 1..n : held[i].sensitivity # "restricted")
  <2> HIDE DEF n, held, classes
  <2>1. Len(first) = 2 /\ first \in Seq({first[1], first[2]})
    OBVIOUS
  <2>2. \A k \in 1..2 : first[k][2] # Accepted
    BY DEF Accepted
  <2>3. ~first[1][1] => \A i \in DOMAIN held : held[i].sensitivity # "restricted"
    OBVIOUS
  <2> HIDE DEF first
  <2> QED BY <1>3, <2>1, <2>2, <2>3 DEF Checks, Passes
<1> HIDE DEF held, first
<1>6. /\ Len(seqs) = n /\ (n = 0 => seqs = <<>>)
      /\ \A i \in 1..n : seqs[i] = Of3(i)
  <2>1. seqs \in [1..n -> Range(seqs)]
    BY <1>3 DEF Range
  <2>2. \A i \in 1..n : seqs[i] = Of3(i)
    BY <1>3
  <2> HIDE DEF n, Of3
  <2>3. seqs \in Seq(Range(seqs)) /\ Len(seqs) = n
    <3> HIDE DEF seqs
    <3> QED BY ONLY <1>3, <2>1, ListIs
  <2>4. n = 0 => seqs = <<>>
    <3> HIDE DEF seqs
    <3> QED BY <2>3, EmptySeq
  <2> QED BY <2>2, <2>3, <2>4
<1>7. ASSUME NEW i \in 1..n
      PROVE  /\ Checks(seqs[i])
             /\ Passes(seqs[i]) => /\ held[i].effect = "read" \/ IsSubmitSentinel(held[i])
                                   /\ held[i].egress = "none"
                                   /\ IsFsTool(held[i].id) => spec.workspace # NoWorkspace
  <2> DEFINE s == Of3(i)
  <2>1. Len(s) = 3 /\ s \in Seq({s[1], s[2], s[3]})
    OBVIOUS
  <2>2. \A k \in 1..3 : s[k][2] # Accepted
    BY DEF Accepted
  <2>3. /\ ~s[1][1] => (IsFsTool(held[i].id) => spec.workspace # NoWorkspace)
        /\ ~s[2][1] => (held[i].effect = "read" \/ IsSubmitSentinel(held[i]))
        /\ ~s[3][1] => held[i].egress = "none"
    OBVIOUS
  <2>4. seqs[i] = s
    BY <1>6
  <2> HIDE DEF s, Of3, seqs, n
  <2>5. Checks(s)
    BY <2>1, <2>2 DEF Checks
  <2>6. Passes(s) => ~s[1][1] /\ ~s[2][1] /\ ~s[3][1]
    BY <2>1 DEF Passes
  <2> QED BY ONLY <2>3, <2>4, <2>5, <2>6
<1> HIDE DEF seqs, n, Of3
<1>8. /\ Checks(FlattenSeq(seqs))
      /\ Passes(FlattenSeq(seqs)) <=> \A i \in 1..n : Passes(seqs[i])
  BY <1>3, <1>6, <1>7, PassesAll
<1> DEFINE all == first \o FlattenSeq(seqs)
<1>9. Checks(all) /\ (Passes(all) <=> Passes(first) /\ Passes(FlattenSeq(seqs)))
  BY <1>5, <1>8, PassesBoth
<1>10. Passes(all)
  <2>1. FirstRefusal(all) = Accepted
    BY <1>2
  <2> HIDE DEF all
  <2> QED BY <1>9, <2>1, FirstRefusalIs
<1> HIDE DEF all
<1>11. \A i \in 1..n : Matches(registry, spec.grants[i]) # {}
  BY <1>1, <1>3, GrantedIs
<1>12. ASSUME NEW i \in 1..n
       PROVE  LET c == Resolve(registry, spec.grants[i])
              IN  /\ Matches(registry, spec.grants[i]) # {}
                  /\ c.sensitivity # "restricted" /\ c.egress = "none"
                  /\ c.effect = "read" \/ IsSubmitSentinel(c)
                  /\ IsFsTool(c.id) => spec.workspace # NoWorkspace
  <2>1. held[i] = Resolve(registry, spec.grants[i])
    BY <1>4
  <2>2. Passes(first) /\ Passes(seqs[i])
    BY <1>8, <1>9, <1>10
  <2> QED BY <1>5, <1>7, <1>11, <2>1, <2>2
<1> QED BY <1>3, <1>12 DEF Range

-----------------------------------------------------------------------------
(***************************************************************************)
(* The orders of the dimensions, and the class they give a capability.      *)
(***************************************************************************)

(* A value that stands once in an order has its index for a rank.           *)
LEMMA RankIs ==
  ASSUME NEW order, NEW value, NEW i \in DOMAIN order, order[i] = value,
         \A j \in DOMAIN order : order[j] = value => j = i
  PROVE  Rank(order, value) = i
BY DEF Rank

(* What is at least to be executed.                                         *)
LEMMA EffectOrder ==
  \A v \in Range(Effects) :
    /\ v \in {"read", "write", "execute", "irreversible"}
    /\ AtLeast(Effects, v, "execute") <=> v \in {"execute", "irreversible"}
<1> DEFINE order == Effects
<1>1. /\ order[1] = "read" /\ order[2] = "write" /\ order[3] = "execute" /\ order[4] = "irreversible"
      /\ DOMAIN order = {1, 2, 3, 4}
  BY DEF Effects
<1> HIDE DEF order
<1>2. /\ Rank(order, "read") = 1 /\ Rank(order, "write") = 2
      /\ Rank(order, "execute") = 3 /\ Rank(order, "irreversible") = 4
  BY <1>1 DEF Rank
<1>3. \A v \in Range(order) : v \in {"read", "write", "execute", "irreversible"}
  BY <1>1 DEF Range
<1> QED BY <1>2, <1>3 DEF AtLeast, order

(* What is at least personal, and what is at most operational.              *)
LEMMA SensitivityOrder ==
  \A v \in Range(Sensitivities) :
    /\ v \in {"public", "operational", "personal", "restricted"}
    /\ AtLeast(Sensitivities, v, "personal") <=> v \in {"personal", "restricted"}
    /\ AtLeast(Sensitivities, "operational", v) <=> v \in {"public", "operational"}
<1> DEFINE order == Sensitivities
<1>1. /\ order[1] = "public" /\ order[2] = "operational" /\ order[3] = "personal" /\ order[4] = "restricted"
      /\ DOMAIN order = {1, 2, 3, 4}
  BY DEF Sensitivities
<1> HIDE DEF order
<1>2. /\ Rank(order, "public") = 1 /\ Rank(order, "operational") = 2
      /\ Rank(order, "personal") = 3 /\ Rank(order, "restricted") = 4
  BY <1>1 DEF Rank
<1>3. \A v \in Range(order) : v \in {"public", "operational", "personal", "restricted"}
  BY <1>1 DEF Range
<1> QED BY <1>2, <1>3 DEF AtLeast, order

(* The highest of some confirmations is to be asked for unless all are none. *)
LEMMA HighestIs ==
  ASSUME NEW S, S \subseteq Range(Confirmations), S # {}
  PROVE  AtLeast(Confirmations, Highest(S), "user_confirm") <=> S # {"none"}
<1> DEFINE order == Confirmations
<1>1. /\ order[1] = "none" /\ order[2] = "user_confirm" /\ order[3] = "protected_action"
      /\ DOMAIN order = {1, 2, 3}
  BY DEF Confirmations
<1> HIDE DEF order
<1>2. /\ Rank(order, "none") = 1 /\ Rank(order, "user_confirm") = 2 /\ Rank(order, "protected_action") = 3
  BY <1>1 DEF Rank
<1>3. S \subseteq {"none", "user_confirm", "protected_action"}
  BY <1>1 DEF Range, order
<1>4. /\ AtLeast(order, "protected_action", "none") /\ AtLeast(order, "protected_action", "user_confirm")
      /\ AtLeast(order, "protected_action", "protected_action")
      /\ AtLeast(order, "user_confirm", "none") /\ AtLeast(order, "user_confirm", "user_confirm")
      /\ AtLeast(order, "none", "none") /\ ~AtLeast(order, "none", "user_confirm")
  BY <1>2 DEF AtLeast
<1>5. \E c \in S : \A d \in S : AtLeast(order, c, d)
  <2>1. CASE "protected_action" \in S
    BY <1>3, <1>4, <2>1
  <2>2. CASE "protected_action" \notin S /\ "user_confirm" \in S
    BY <1>3, <1>4, <2>2
  <2>3. CASE "protected_action" \notin S /\ "user_confirm" \notin S
    BY <1>3, <1>4, <2>3
  <2> QED BY <2>1, <2>2, <2>3
<1>6. PICK high : high = Highest(S)
  OBVIOUS
<1>7. high \in S /\ \A d \in S : AtLeast(order, high, d)
  BY <1>5, <1>6 DEF Highest, order
<1>8. AtLeast(order, high, "user_confirm") <=> high # "none"
  BY <1>3, <1>4, <1>7
<1>9. high # "none" <=> S # {"none"}
  <2>1. CASE high = "none"
    <3>1. "user_confirm" \notin S /\ "protected_action" \notin S
      <4>1. ~AtLeast(order, "none", "protected_action")
        BY <1>2 DEF AtLeast
      <4> QED BY <1>4, <1>7, <2>1, <4>1
    <3> QED BY <1>3, <1>7, <2>1, <3>1
  <2>2. CASE high # "none"
    BY <1>7, <2>2
  <2> QED BY <2>1, <2>2
<1> QED BY <1>6, <1>8, <1>9 DEF order

\* The enumerations of a capability, as a manifest declares them.
Enumerated(c) ==
  /\ c.effect \in Range(Effects) /\ c.sensitivity \in Range(Sensitivities)
  /\ c.blast_radius \in Range(BlastRadii) /\ c.egress \in Range(Egresses)
  /\ c.confirmation \in Range(Confirmations)

(* The class of a capability asks for a person unless nothing of it does.   *)
LEMMA ClassIs ==
  ASSUME NEW policy, NEW c, Enumerated(c)
  PROVE  LET class == ClassIn(policy, c)
         IN  /\ class.effect = c.effect /\ class.sensitivity = c.sensitivity /\ class.egress = c.egress
             /\ class.requires_conformed <=> c.effect \in {"execute", "irreversible"}
             /\ AtLeast(Confirmations, class.confirmation, "user_confirm") <=>
                  ~ (/\ c.confirmation = "none" /\ ~Listed(policy.ask, c.id)
                     /\ c.effect # "irreversible" /\ c.blast_radius # "shared" /\ c.egress # "internet"
                     /\ c.sensitivity \in {"public", "operational"})
<1>1. PICK floor : floor = IF Listed(policy.ask, c.id) THEN "user_confirm" ELSE "none"
  OBVIOUS
<1>2. PICK derived : derived = DerivedFloor(c)
  OBVIOUS
<1>3. PICK class : class = ClassIn(policy, c)
  OBVIOUS
<1>4. PICK high : high = Highest({c.confirmation, derived, floor})
  OBVIOUS
<1>5. PICK strong : strong = AtLeast(Effects, c.effect, "execute")
  OBVIOUS
<1>6. class = [effect |-> c.effect, sensitivity |-> c.sensitivity, egress |-> c.egress, content |-> c.content,
               confirmation |-> high, requires_conformed |-> strong]
  BY <1>1, <1>2, <1>3, <1>4, <1>5 DEF ClassIn, EffectiveClass
<1>7. /\ c.effect \in {"read", "write", "execute", "irreversible"}
      /\ AtLeast(Effects, c.effect, "execute") <=> c.effect \in {"execute", "irreversible"}
  BY EffectOrder DEF Enumerated
<1>8. /\ c.sensitivity \in {"public", "operational", "personal", "restricted"}
      /\ AtLeast(Sensitivities, c.sensitivity, "personal") <=> c.sensitivity \in {"personal", "restricted"}
  BY SensitivityOrder DEF Enumerated
<1>9. /\ derived \in {"none", "user_confirm", "protected_action"}
      /\ derived = "none" <=> /\ c.effect # "irreversible" /\ c.blast_radius # "shared"
                              /\ c.egress # "internet" /\ c.sensitivity \in {"public", "operational"}
  <2>1. CASE c.effect = "irreversible" \/ c.blast_radius = "shared"
    BY <1>2, <2>1 DEF DerivedFloor
  <2>2. CASE /\ ~(c.effect = "irreversible" \/ c.blast_radius = "shared")
             /\ c.egress = "internet" \/ AtLeast(Sensitivities, c.sensitivity, "personal")
    BY <1>2, <1>8, <2>2 DEF DerivedFloor
  <2>3. CASE /\ ~(c.effect = "irreversible" \/ c.blast_radius = "shared")
             /\ ~(c.egress = "internet" \/ AtLeast(Sensitivities, c.sensitivity, "personal"))
    BY <1>2, <1>8, <2>3 DEF DerivedFloor
  <2> QED BY <2>1, <2>2, <2>3
<1>10. /\ {c.confirmation, derived, floor} \subseteq Range(Confirmations)
       /\ c.confirmation \in {"none", "user_confirm", "protected_action"}
  <2>1. Range(Confirmations) = {"none", "user_confirm", "protected_action"}
    <3>1. /\ Confirmations[1] = "none" /\ Confirmations[2] = "user_confirm"
          /\ Confirmations[3] = "protected_action" /\ DOMAIN Confirmations = {1, 2, 3}
      BY DEF Confirmations
    <3> QED BY <3>1 DEF Range
  <2> QED BY <1>1, <1>9, <2>1 DEF Enumerated
<1>11. AtLeast(Confirmations, high, "user_confirm") <=> {c.confirmation, derived, floor} # {"none"}
  BY <1>4, <1>10, HighestIs
<1>12. {c.confirmation, derived, floor} = {"none"} <=>
         c.confirmation = "none" /\ derived = "none" /\ ~Listed(policy.ask, c.id)
  BY <1>1
<1>13. /\ class.effect = c.effect /\ class.sensitivity = c.sensitivity /\ class.egress = c.egress
       /\ class.requires_conformed = strong /\ class.confirmation = high
  BY <1>6
<1>14. strong <=> c.effect \in {"execute", "irreversible"}
  BY <1>5, <1>7
<1>15. AtLeast(Confirmations, class.confirmation, "user_confirm") <=>
                  ~ (/\ c.confirmation = "none" /\ ~Listed(policy.ask, c.id)
                     /\ c.effect # "irreversible" /\ c.blast_radius # "shared" /\ c.egress # "internet"
                     /\ c.sensitivity \in {"public", "operational"})
  BY <1>9, <1>11, <1>12, <1>13
<1> QED BY <1>3, <1>13, <1>14, <1>15

(* A user's rule names a capability or all of its provider.                 *)
LEMMA ListedIs ==
  ASSUME NEW list, NEW id
  PROVE  Listed(list, id) <=> UserSays(list, id)
BY DEF Listed, MatchesId, AnyVerb, UserSays, Range

(* What fits a schema is as it declares.                                    *)
LEMMA FitsIs ==
  ASSUME NEW schema, NEW args
  PROVE  Fits(schema, args) <=> AsDeclared(schema, args)
<1>1. \A name \in DOMAIN args :
        FitsScalar(schema.properties[name], args[name]) <=>
          LET given == args[name]  declared == schema.properties[name]
          IN  /\ given.json = declared.type \/ <<given.json, declared.type>> = <<"integer", "number">>
              /\ declared.enum = AnyValue \/ given \in declared.enum
              /\ declared.min <= given.size /\ given.size <= declared.max
  <2> TAKE name \in DOMAIN args
  <2>1. \A a, b : (<<a, b>> = <<"integer", "number">>) <=> (b = "number" /\ a = "integer")
    OBVIOUS
  <2> QED BY <2>1 DEF FitsScalar, IsOf
<1>2. DOMAIN args \subseteq DOMAIN schema.properties <=> \A name \in DOMAIN args : name \in DOMAIN schema.properties
  OBVIOUS
<1> QED BY <1>1, <1>2 DEF Fits, AsDeclared

(* A path that is not refused stays inside the workspace.                   *)
LEMMA PathIs ==
  ASSUME NEW path, path.form \in PathForms, path.parts \in Seq(Range(Names) \cup BadParts)
  PROVE  PathRefusal(path) = Accepted <=>
           path.form \in {"root", "relative"} /\ Range(path.parts) \subseteq Range(Names)
<1> DEFINE n == Len(path.parts)
           forms ==    << <<path.form = "empty",     "Empty">>,    <<path.form = "too-long",  "TooLong">>,
       <<path.form = "control",   "Control">>,  <<path.form = "backslash", "Backslash">>,
       <<path.form = "absolute",  "Absolute">>, <<path.form = "colon",     "Colon">> >>
           Of5(i) == << <<path.parts[i] = "",    "EmptyComponent">>, <<path.parts[i] = ".",  "CurrentDir">>,
            <<path.parts[i] = "..",  "Parent">>,         <<path.parts[i] = "x.", "TrailingDotOrSpace">>,
            <<path.parts[i] = "con", "DeviceName">> >>
           seqs == [i \in DOMAIN path.parts |-> Of5(i)]
<1>1. n \in Nat /\ DOMAIN path.parts = 1..n
  BY LenProperties
<1>2. Checks(forms) /\ (Passes(forms) <=> path.form \in {"root", "relative"})
  <2>1. Len(forms) = 6 /\ forms \in Seq({forms[1], forms[2], forms[3], forms[4], forms[5], forms[6]})
    OBVIOUS
  <2>2. \A k \in 1..6 : forms[k][2] # Accepted
    BY DEF Accepted
  <2>3. /\ forms[1][1] => path.form = "empty"
        /\ forms[2][1] => path.form = "too-long"
        /\ forms[3][1] => path.form = "control"
        /\ forms[4][1] => path.form = "backslash"
        /\ forms[5][1] => path.form = "absolute"
        /\ forms[6][1] => path.form = "colon"
    OBVIOUS
  <2>3a. /\ ~forms[1][1] => path.form # "empty"
         /\ ~forms[2][1] => path.form # "too-long"
         /\ ~forms[3][1] => path.form # "control"
         /\ ~forms[4][1] => path.form # "backslash"
         /\ ~forms[5][1] => path.form # "absolute"
         /\ ~forms[6][1] => path.form # "colon"
    OBVIOUS
  <2> HIDE DEF forms
  <2>4. Checks(forms)
    BY <2>1, <2>2 DEF Checks
  <2>5. Passes(forms) <=> /\ ~forms[1][1] /\ ~forms[2][1] /\ ~forms[3][1]
                          /\ ~forms[4][1] /\ ~forms[5][1] /\ ~forms[6][1]
    BY <2>1 DEF Passes
  <2> QED BY <2>3, <2>3a, <2>4, <2>5 DEF PathForms
<1>3. /\ Len(seqs) = n /\ (n = 0 => seqs = <<>>)
      /\ \A i \in 1..n : seqs[i] = Of5(i)
  <2>1. seqs \in [1..n -> Range(seqs)]
    BY <1>1 DEF Range
  <2>2. \A i \in 1..n : seqs[i] = Of5(i)
    BY <1>1
  <2> HIDE DEF n, Of5
  <2>3. seqs \in Seq(Range(seqs)) /\ Len(seqs) = n
    <3> HIDE DEF seqs
    <3> QED BY ONLY <1>1, <2>1, ListIs
  <2>4. n = 0 => seqs = <<>>
    <3> HIDE DEF seqs
    <3> QED BY <2>3, EmptySeq
  <2> QED BY <2>2, <2>3, <2>4
<1>4. ASSUME NEW i \in 1..n
      PROVE  Checks(seqs[i]) /\ (Passes(seqs[i]) <=> path.parts[i] \in Range(Names))
  <2> DEFINE s == Of5(i)
  <2>1. Len(s) = 5 /\ s \in Seq({s[1], s[2], s[3], s[4], s[5]})
    OBVIOUS
  <2>2. /\ s[1][2] # Accepted /\ s[2][2] # Accepted /\ s[3][2] # Accepted
        /\ s[4][2] # Accepted /\ s[5][2] # Accepted
    BY DEF Accepted
  <2>3. /\ s[1][1] => path.parts[i] = ""
        /\ s[2][1] => path.parts[i] = "."
        /\ s[3][1] => path.parts[i] = ".."
        /\ s[4][1] => path.parts[i] = "x."
        /\ s[5][1] => path.parts[i] = "con"
    OBVIOUS
  <2>3a. /\ ~s[1][1] => path.parts[i] # ""
         /\ ~s[2][1] => path.parts[i] # "."
         /\ ~s[3][1] => path.parts[i] # ".."
         /\ ~s[4][1] => path.parts[i] # "x."
         /\ ~s[5][1] => path.parts[i] # "con"
    OBVIOUS
  <2>4. seqs[i] = s
    BY <1>3
  <2>5. path.parts[i] \in Range(Names) \cup BadParts
    BY <1>1, ElementOfSeq
  <2> HIDE DEF s, Of5, seqs, n
  <2>6. Checks(s)
    BY <2>1, <2>2 DEF Checks
  <2>7. Passes(s) <=> ~s[1][1] /\ ~s[2][1] /\ ~s[3][1] /\ ~s[4][1] /\ ~s[5][1]
    BY <2>1 DEF Passes
  <2>8. Passes(s) <=> path.parts[i] \in Range(Names)
    BY <2>3, <2>3a, <2>5, <2>7, TurnAssumption DEF BadParts
  <2> QED BY ONLY <2>4, <2>6, <2>8
<1>5. PathRefusal(path) = FirstRefusal(forms \o FlattenSeq(seqs))
  BY DEF PathRefusal
<1> HIDE DEF seqs, forms, n, Of5
<1>6. /\ Checks(FlattenSeq(seqs))
      /\ Passes(FlattenSeq(seqs)) <=> \A i \in 1..n : Passes(seqs[i])
  BY <1>1, <1>3, <1>4, PassesAll
<1> DEFINE all == forms \o FlattenSeq(seqs)
<1>7. Checks(all) /\ (Passes(all) <=> Passes(forms) /\ Passes(FlattenSeq(seqs)))
  BY <1>2, <1>6, PassesBoth
<1>8. PathRefusal(path) = Accepted <=> Passes(all)
  <2>1. PathRefusal(path) = FirstRefusal(all)
    BY <1>5
  <2> HIDE DEF all
  <2> QED BY <1>7, <2>1, FirstRefusalIs
<1>9. (\A i \in 1..n : path.parts[i] \in Range(Names)) <=> Range(path.parts) \subseteq Range(Names)
  BY <1>1 DEF Range
<1> HIDE DEF all
<1> QED BY <1>2, <1>4, <1>6, <1>7, <1>8, <1>9

-----------------------------------------------------------------------------
(***************************************************************************)
(* What a planned session allows.                                           *)
(***************************************************************************)

(* The deny rules pass what none of the nine refuses.                       *)
LEMMA DenyRulesAre ==
  ASSUME NEW s, NEW a, NEW asks,
         a.class.requires_conformed \in BOOLEAN, a.user_deny \in BOOLEAN
  PROVE  FirstRefusal(DenyRules(s, a, asks)) = Accepted <=>
           /\ asks.capability \notin s.quarantined
           /\ a.class.effect = "read" \/ a.submit
           /\ a.class.sensitivity # "restricted" /\ a.class.egress = "none"
           /\ ~a.class.requires_conformed
           /\ a.class.sensitivity = "personal" => s.personal_granted
           /\ ~a.user_deny /\ Fits(a.schema, asks.args)
           /\ a.fs_tool /\ "path" \in DOMAIN asks.args => PathRefusal(PathArgument(asks.args)) = Accepted
<1> DEFINE rules == DenyRules(s, a, asks)
<1>1. /\ Len(rules) = 9
      /\ rules \in Seq({rules[1], rules[2], rules[3], rules[4], rules[5], rules[6], rules[7], rules[8], rules[9]})
  BY DEF DenyRules
<1>2. /\ rules[1][2] # Accepted /\ rules[2][2] # Accepted /\ rules[3][2] # Accepted
      /\ rules[4][2] # Accepted /\ rules[5][2] # Accepted /\ rules[6][2] # Accepted
      /\ rules[7][2] # Accepted /\ rules[8][2] # Accepted /\ rules[9][2] # Accepted
  BY DEF DenyRules, Accepted
<1>3. /\ rules[1][1] => asks.capability \in s.quarantined
      /\ rules[2][1] => a.class.effect # "read" /\ ~a.submit
      /\ rules[3][1] => a.class.sensitivity = "restricted"
      /\ rules[4][1] => a.class.egress # "none"
      /\ rules[5][1] => a.class.requires_conformed
      /\ rules[6][1] => a.class.sensitivity = "personal" /\ ~s.personal_granted
      /\ rules[7][1] => a.user_deny
      /\ rules[8][1] => ~Fits(a.schema, asks.args)
      /\ rules[9][1] => /\ a.fs_tool /\ "path" \in DOMAIN asks.args
                        /\ PathRefusal(PathArgument(asks.args)) # Accepted
  BY DEF DenyRules
<1>4. /\ ~rules[1][1] => asks.capability \notin s.quarantined
      /\ ~rules[2][1] => (a.class.effect = "read" \/ a.submit)
      /\ ~rules[3][1] => a.class.sensitivity # "restricted"
      /\ ~rules[4][1] => a.class.egress = "none"
      /\ ~rules[5][1] => ~a.class.requires_conformed
      /\ ~rules[6][1] => (a.class.sensitivity = "personal" => s.personal_granted)
      /\ ~rules[7][1] => ~a.user_deny
      /\ ~rules[8][1] => Fits(a.schema, asks.args)
      /\ ~rules[9][1] => (a.fs_tool /\ "path" \in DOMAIN asks.args =>
                            PathRefusal(PathArgument(asks.args)) = Accepted)
  BY DEF DenyRules
<1> HIDE DEF rules
<1>5. Checks(rules)
  BY <1>1, <1>2 DEF Checks
<1>6. Passes(rules) <=> /\ ~rules[1][1] /\ ~rules[2][1] /\ ~rules[3][1] /\ ~rules[4][1] /\ ~rules[5][1]
                        /\ ~rules[6][1] /\ ~rules[7][1] /\ ~rules[8][1] /\ ~rules[9][1]
  BY <1>1 DEF Passes
<1>7. FirstRefusal(rules) = Accepted <=> Passes(rules)
  BY <1>5, FirstRefusalIs
<1> QED BY <1>3, <1>4, <1>6, <1>7 DEF rules

\* The session is the plan's, with some of its capabilities quarantined.
SessionOK ==
  /\ PlanRefusal(SpecOf, Entries, setup.policy) = Accepted
  /\ session.quarantined \subseteq DOMAIN session.active
  /\ session = [active      |-> [id \in Range(SpecOf.grants) |-> Activated(Resolve(Entries, id), setup.policy)],
                quarantined |-> session.quarantined,
                approver_present |-> SpecOf.approver,
                personal_granted |-> SpecOf.personal]

(* A list is a list of what it holds.                                       *)
LEMMA HoldsIs ==
  ASSUME NEW S, NEW list \in Seq(S)
  PROVE  list \in Seq(Range(list))
<1>1. PICK n \in Nat : n = Len(list) /\ DOMAIN list = 1..n
  BY LenProperties
<1>2. list = [i \in 1..n |-> list[i]]
  BY <1>1
<1>3. list \in [1..n -> Range(list)]
  BY <1>1, <1>2 DEF Range
<1> QED BY ONLY <1>1, <1>3, ListIs

(* What a run is granted is a list.                                         *)
LEMMA GrantsAre ==
  ASSUME Sorted
  PROVE  /\ SpecOf.grants \in Seq(Range(SpecOf.grants))
         /\ Range(SpecOf.grants) \subseteq {SUBMIT_ID} \cup Range(setup.grants)
<1>1. setup.grants \in Seq(Range(setup.grants)) /\ setup.gated \in BOOLEAN
  BY DEF Sorted
<1>2. SpecOf.grants = IF setup.gated THEN DriverGrants ELSE setup.grants
  BY <1>1 DEF SpecOf
<1>3. PICK S : S = Range(setup.grants) \cup {SUBMIT_ID}
  OBVIOUS
<1>4. PICK sub : sub = SUBMIT_ID
  OBVIOUS
<1>5. PICK g : g = setup.grants
  OBVIOUS
<1>6. g \in Seq(S) /\ sub \in S
  <2>1. g \in Seq(Range(setup.grants)) /\ Range(setup.grants) \subseteq S
    BY <1>1, <1>3, <1>5
  <2> QED BY <1>3, <1>4, <2>1, SeqMonotonic
<1>7. Append(g, sub) \in Seq(S)
  BY ONLY <1>6, AppendProperties
<1>8. SpecOf.grants \in Seq(S)
  BY <1>2, <1>4, <1>5, <1>6, <1>7 DEF DriverGrants
<1>9. Range(SpecOf.grants) \subseteq S
  <2>1. PICK list : list = SpecOf.grants
    OBVIOUS
  <2>2. \A i \in DOMAIN list : list[i] \in S
    BY <1>8, <2>1, ElementOfSeq, LenProperties
  <2> QED BY <2>1, <2>2 DEF Range
<1> QED BY <1>3, <1>8, <1>9, HoldsIs

(* What a session holds was granted, and something admitted has it.         *)
LEMMA SessionsAreGranted ==
  ASSUME Sorted, SessionOK, NEW id \in DOMAIN session.active
  PROVE  id \in Range(SpecOf.grants) /\ Matches(Entries, id) # {}
<1>1. id \in Range(SpecOf.grants)
  <2>1. session.active = [k \in Range(SpecOf.grants) |-> Activated(Resolve(Entries, k), setup.policy)]
    BY DEF SessionOK
  <2> QED BY <2>1
<1>2. PICK spec : spec = SpecOf
  OBVIOUS
<1>3. spec.grants \in Seq(Range(spec.grants)) /\ PlanRefusal(spec, Entries, setup.policy) = Accepted
  BY <1>2, GrantsAre DEF SessionOK
<1> QED BY <1>1, <1>2, <1>3, PlanIs

(* What a session holds is one capability of one manifest, as declared.     *)
LEMMA HeldIs ==
  ASSUME Sorted, SessionOK, NEW id \in DOMAIN session.active
  PROVE  LET c == FirstOf(OwnedBy(id))
         IN  /\ c.id = id /\ session.active[id] = Activated(c, setup.policy)
             /\ Enumerated(c)
             /\ c.sensitivity # "restricted" /\ c.egress = "none"
             /\ c.effect = "read" \/ IsSubmitSentinel(c)
             /\ IsFsTool(id) <=> id.provider = "harness" /\ id.verb # "task.submit"
<1>1. id \in Range(SpecOf.grants) /\ session.active[id] = Activated(Resolve(Entries, id), setup.policy)
  <2>1. session.active = [k \in Range(SpecOf.grants) |-> Activated(Resolve(Entries, k), setup.policy)]
    BY DEF SessionOK
  <2> QED BY <2>1
<1>2. LET c == Resolve(Entries, id)
      IN  /\ Matches(Entries, id) # {}
          /\ c.sensitivity # "restricted" /\ c.egress = "none"
          /\ c.effect = "read" \/ IsSubmitSentinel(c)
  <2>1. PICK spec : spec = SpecOf
    OBVIOUS
  <2>2. spec.grants \in Seq(Range(spec.grants)) /\ PlanRefusal(spec, Entries, setup.policy) = Accepted
    BY <2>1, GrantsAre DEF SessionOK
  <2> QED BY <1>1, <2>1, <2>2, PlanIs
<1>3. PICK i \in DOMAIN Entries : \E k \in DOMAIN Entries[i].manifest.capabilities :
           LET c == Entries[i].manifest.capabilities[k]
           IN  /\ c.id = id /\ Resolve(Entries, id) = c
               /\ OwnedBy(id) = {c} /\ FirstOf(OwnedBy(id)) = c
  BY <1>2, ResolveIs
<1>4. PICK m : m = Entries[i].manifest
  OBVIOUS
<1>5. PICK k \in DOMAIN m.capabilities :
           LET c == m.capabilities[k]
           IN  c.id = id /\ Resolve(Entries, id) = c /\ FirstOf(OwnedBy(id)) = c
  BY <1>3, <1>4
<1>6. PICK c : c = m.capabilities[k]
  OBVIOUS
<1>7. /\ Declared(m) /\ (m.provider = BUILTIN_NAMESPACE <=> m.origin = "compiled")
      /\ m.capabilities[k].id.provider = m.provider
  BY <1>4 DEF Sorted
<1>8. /\ Enumerated(c) /\ (m.origin = "compiled" => c.id.verb \in FsVerbs \cup {"task.submit"})
  <2>1. c \in Range(m.capabilities)
    BY <1>6 DEF Range
  <2> QED BY <1>7, <2>1 DEF Declared, Enumerated
<1>9. c.id = id /\ Resolve(Entries, id) = c /\ FirstOf(OwnedBy(id)) = c
  BY <1>5, <1>6
<1>10. IsFsTool(id) <=> id.provider = "harness" /\ id.verb # "task.submit"
  BY <1>6, <1>7, <1>8, <1>9 DEF IsFsTool, FsVerbs, BUILTIN_NAMESPACE
<1> QED BY <1>1, <1>2, <1>8, <1>9, <1>10

(* A path argument that is not refused stays inside the workspace.          *)
LEMMA PathArgumentIs ==
  ASSUME NEW asks, WellFormed(asks)
  PROVE  ("path" \in DOMAIN asks.args => PathRefusal(PathArgument(asks.args)) = Accepted) <=>
           StaysInside(asks.args)
<1> SUFFICES ASSUME "path" \in DOMAIN asks.args
             PROVE  PathRefusal(PathArgument(asks.args)) = Accepted <=> StaysInside(asks.args)
  BY DEF StaysInside
<1>1. PICK given : given = asks.args["path"]
  OBVIOUS
<1>2. CASE given.json = "string"
  <2>1. PICK path : path = given.v
    OBVIOUS
  <2>2. path.form \in PathForms /\ path.parts \in Seq(Range(Names) \cup BadParts)
    BY <1>1, <1>2, <2>1 DEF WellFormed
  <2>3. PathArgument(asks.args) = path
    BY <1>1, <1>2, <2>1 DEF PathArgument
  <2>4. PathRefusal(path) = Accepted <=>
           path.form \in {"root", "relative"} /\ Range(path.parts) \subseteq Range(Names)
    BY ONLY <2>2, PathIs
  <2> QED BY <1>1, <1>2, <2>1, <2>3, <2>4 DEF StaysInside
<1>3. CASE given.json # "string"
  <2>1. PICK path : path = Path("empty", <<>>)
    OBVIOUS
  <2>2. path.form = "empty" /\ path.parts = <<>>
    BY <2>1 DEF Path
  <2>3. path.form \in PathForms /\ path.parts \in Seq(Range(Names) \cup BadParts)
    BY <2>2 DEF PathForms
  <2>4. PathRefusal(path) = Accepted <=>
           path.form \in {"root", "relative"} /\ Range(path.parts) \subseteq Range(Names)
    BY ONLY <2>3, PathIs
  <2>5. PathRefusal(path) # Accepted
    BY <2>2, <2>4
  <2>6. PathArgument(asks.args) = path
    BY <1>1, <1>3, <2>1 DEF PathArgument
  <2> QED BY <1>1, <1>3, <2>5, <2>6 DEF StaysInside
<1> QED BY <1>2, <1>3

\* What AllowedIsSafe says of a call that is allowed.
Safe(asks) ==
  LET id == asks.capability
      c  == FirstOf(OwnedBy(id))
  IN  /\ id \in DOMAIN session.active /\ id \notin session.quarantined
      /\ Harmless(c)
      /\ ~UserSays(setup.policy.deny, id) /\ ~UserSays(setup.policy.ask, id)
      /\ AsDeclared(c.input_schema, asks.args)
      /\ id.provider = "harness" /\ id.verb # "task.submit" => StaysInside(asks.args)

(* A decision is Allow, Ask or Deny.                                        *)
LEMMA DecisionsAre ==
  ASSUME NEW s, NEW asks
  PROVE  Decide(s, asks).is \in {"Allow", "Ask", "Deny"}
<1>1. \A why : Deny(why).is = "Deny" /\ Allow(why).is = "Allow" /\ Ask(why).is = "Ask"
  BY DEF Deny, Allow, Ask
<1> DEFINE a == s.active[asks.capability]
<1>2. AskRule(s, a).is \in {"Ask", "Deny"}
  BY <1>1 DEF AskRule
<1>3. AllowRule(a).is \in {"Allow", "Deny"}
  BY <1>1 DEF AllowRule
<1> HIDE DEF a
<1>4. Decide(s, asks) \in {Deny("deny.not-granted"), Deny(FirstRefusal(DenyRules(s, a, asks))), AskRule(s, a), AllowRule(a)}
  BY DEF Decide, a
<1> QED BY <1>1, <1>2, <1>3, <1>4

(* What no deny rule refuses and no confirmation holds up is allowed when   *)
(* it reads or submits and is at most operational.                          *)
LEMMA AllowRuleIs ==
  ASSUME NEW a, a.user_allow \in BOOLEAN, a.submit \in BOOLEAN,
         a.class.effect = "read" \/ a.submit,
         a.class.sensitivity \in {"public", "operational"}
  PROVE  AllowRule(a).is = "Allow"
<1>1. AtLeast(Sensitivities, "operational", a.class.sensitivity)
  <2>1. /\ Sensitivities[1] = "public" /\ Sensitivities[2] = "operational"
        /\ DOMAIN Sensitivities = {1, 2, 3, 4}
    BY DEF Sensitivities
  <2>2. a.class.sensitivity \in Range(Sensitivities)
    BY <2>1 DEF Range
  <2> QED BY <2>2, SensitivityOrder
<1>2. \A why : Allow(why).is = "Allow"
  BY DEF Allow
<1>3. CASE a.user_allow
  <2>1. AllowRule(a) = Allow("user.Allow")
    BY <1>3 DEF AllowRule
  <2> QED BY <1>2, <2>1
<1>4. CASE ~a.user_allow /\ a.class.effect = "read"
  <2>1. AllowRule(a) = Allow("allow.default.read")
    BY <1>1, <1>4 DEF AllowRule
  <2> QED BY <1>2, <2>1
<1>5. CASE ~a.user_allow /\ a.class.effect # "read"
  <2>1. AllowRule(a) = Allow("allow.task-submit")
    BY <1>1, <1>5 DEF AllowRule
  <2> QED BY <1>2, <2>1
<1> QED BY <1>3, <1>4, <1>5

(* A planned session allows what is safe and nothing else.                  *)
LEMMA DecidesSafely ==
  ASSUME Sorted, SessionOK, NEW asks, WellFormed(asks)
  PROVE  Decide(session, asks).is = "Allow" <=> Safe(asks)
<1>1. PICK id : id = asks.capability
  OBVIOUS
<1>2. \A why : Deny(why).is = "Deny" /\ Ask(why).is = "Ask"
  BY DEF Deny, Ask
<1>3. CASE id \notin DOMAIN session.active
  <2>1. Decide(session, asks) = Deny("deny.not-granted")
    BY <1>1, <1>3 DEF Decide
  <2>2. Decide(session, asks).is # "Allow"
    BY <1>2, <2>1
  <2> QED BY <1>1, <1>3, <2>2 DEF Safe
<1>4. CASE id \in DOMAIN session.active
  <2>1. PICK a : a = session.active[id]
    OBVIOUS
  <2>2. PICK c : c = FirstOf(OwnedBy(id))
    OBVIOUS
  <2>3. PICK policy : policy = setup.policy
    OBVIOUS
  <2>4. /\ c.id = id /\ a = Activated(c, policy)
        /\ Enumerated(c)
        /\ c.sensitivity # "restricted" /\ c.egress = "none"
        /\ c.effect = "read" \/ IsSubmitSentinel(c)
        /\ IsFsTool(id) <=> id.provider = "harness" /\ id.verb # "task.submit"
    BY <1>4, <2>1, <2>2, <2>3, HeldIs
  <2>5. PICK class : class = ClassIn(policy, c)
    OBVIOUS
  <2>6. /\ class.effect = c.effect /\ class.sensitivity = c.sensitivity /\ class.egress = c.egress
        /\ class.requires_conformed <=> c.effect \in {"execute", "irreversible"}
        /\ AtLeast(Confirmations, class.confirmation, "user_confirm") <=>
             ~ (/\ c.confirmation = "none" /\ ~Listed(policy.ask, c.id)
                /\ c.effect # "irreversible" /\ c.blast_radius # "shared" /\ c.egress # "internet"
                /\ c.sensitivity \in {"public", "operational"})
    <3>1. Enumerated(c)
      BY <2>4
    <3> QED BY ONLY <2>5, <3>1, ClassIs
  <2>7. class.requires_conformed \in BOOLEAN
    <3>1. class.requires_conformed = AtLeast(Effects, c.effect, "execute")
      BY <2>5 DEF ClassIn, EffectiveClass
    <3>2. AtLeast(Effects, c.effect, "execute") \in BOOLEAN
      BY DEF AtLeast
    <3> QED BY <3>1, <3>2
  <2>8. /\ a.class = class /\ a.schema = c.input_schema
        /\ a.user_deny = Listed(policy.deny, c.id) /\ a.user_allow = Listed(policy.allow, c.id)
        /\ a.fs_tool = IsFsTool(c.id) /\ a.submit = IsSubmitSentinel(c)
    BY <2>4, <2>5 DEF Activated
  <2>9. /\ a.user_deny \in BOOLEAN /\ a.user_allow \in BOOLEAN /\ a.submit \in BOOLEAN
    BY <2>8 DEF Listed, IsSubmitSentinel
  <2>10. PICK passes \in BOOLEAN : passes <=> FirstRefusal(DenyRules(session, a, asks)) = Accepted
    OBVIOUS
  <2>11. passes <=>
           /\ asks.capability \notin session.quarantined
           /\ a.class.effect = "read" \/ a.submit
           /\ a.class.sensitivity # "restricted" /\ a.class.egress = "none"
           /\ ~a.class.requires_conformed
           /\ a.class.sensitivity = "personal" => session.personal_granted
           /\ ~a.user_deny /\ Fits(a.schema, asks.args)
           /\ a.fs_tool /\ "path" \in DOMAIN asks.args => PathRefusal(PathArgument(asks.args)) = Accepted
    <3>1. a.class.requires_conformed \in BOOLEAN
      BY <2>7, <2>8
    <3> QED BY <2>9, <2>10, <3>1, DenyRulesAre
  <2>12. PICK confirms \in BOOLEAN : confirms <=> AtLeast(Confirmations, a.class.confirmation, "user_confirm")
    OBVIOUS
  <2>13. confirms <=>
             ~ (/\ c.confirmation = "none" /\ ~Listed(policy.ask, c.id)
                /\ c.effect # "irreversible" /\ c.blast_radius # "shared" /\ c.egress # "internet"
                /\ c.sensitivity \in {"public", "operational"})
    BY <2>6, <2>8, <2>12
  <2>14. Decide(session, asks) = IF ~passes THEN Deny(FirstRefusal(DenyRules(session, a, asks)))
                                 ELSE IF confirms THEN AskRule(session, a) ELSE AllowRule(a)
    BY <1>1, <1>4, <2>1, <2>10, <2>12 DEF Decide
  <2>15. AskRule(session, a).is # "Allow"
    BY <1>2 DEF AskRule
  <2>16. c.effect = "read" \/ a.submit
    BY <2>4, <2>8
  <2>17. a.submit => c.id = SUBMIT_ID /\ c.effect = "write"
    BY <2>8 DEF IsSubmitSentinel
  <2>18. passes /\ ~confirms => AllowRule(a).is = "Allow"
    <3> SUFFICES ASSUME passes, ~confirms PROVE AllowRule(a).is = "Allow"
      OBVIOUS
    <3>1. a.class.effect = "read" \/ a.submit
      BY <2>11
    <3>2. a.class.sensitivity \in {"public", "operational"}
      BY <2>6, <2>8, <2>13
    <3> QED BY <2>9, <3>1, <3>2, AllowRuleIs
  <2>19. Decide(session, asks).is = "Allow" <=> passes /\ ~confirms
    <3>1. CASE ~passes
      BY <1>2, <2>14, <3>1
    <3>2. CASE passes /\ confirms
      BY <2>14, <2>15, <3>2
    <3>3. CASE passes /\ ~confirms
      BY <2>14, <2>18, <3>3
    <3> QED BY <3>1, <3>2, <3>3
  <2>20. Harmless(c) /\ ~UserSays(policy.ask, id) <=> ~confirms
    <3>1. c.blast_radius \in {"own", "host"} <=> c.blast_radius # "shared"
      <4>1. BlastRadii[1] = "own" /\ BlastRadii[2] = "host" /\ BlastRadii[3] = "shared" /\ DOMAIN BlastRadii = {1, 2, 3}
        BY DEF BlastRadii
      <4>2. c.blast_radius \in {"own", "host", "shared"}
        BY <2>4, <4>1 DEF Enumerated, Range
      <4> QED BY <4>2
    <3>2. Listed(policy.ask, c.id) <=> UserSays(policy.ask, id)
      BY <2>4, ListedIs
    <3>3. c.effect = "read" \/ c.id = SUBMIT_ID
      BY <2>16, <2>17
    <3>4. c.effect # "irreversible" /\ c.egress = "none"
      BY <2>4, <2>16, <2>17
    <3> QED BY <2>13, <3>1, <3>2, <3>3, <3>4 DEF Harmless
  <2>21. passes <=> /\ id \notin session.quarantined
                    /\ a.class.sensitivity = "personal" => session.personal_granted
                    /\ ~UserSays(policy.deny, id) /\ AsDeclared(c.input_schema, asks.args)
                    /\ id.provider = "harness" /\ id.verb # "task.submit" => StaysInside(asks.args)
    <3>1. a.user_deny <=> UserSays(policy.deny, id)
      BY <2>4, <2>8, ListedIs
    <3>2. Fits(a.schema, asks.args) <=> AsDeclared(c.input_schema, asks.args)
      BY <2>8, FitsIs
    <3>3. (a.fs_tool /\ "path" \in DOMAIN asks.args => PathRefusal(PathArgument(asks.args)) = Accepted) <=>
             (id.provider = "harness" /\ id.verb # "task.submit" => StaysInside(asks.args))
      <4>1. a.fs_tool <=> id.provider = "harness" /\ id.verb # "task.submit"
        BY <2>4, <2>8
      <4> QED BY <4>1, PathArgumentIs
    <3>4. a.class.effect = "read" \/ a.submit
      BY <2>6, <2>8, <2>16
    <3>5. a.class.sensitivity # "restricted" /\ a.class.egress = "none"
      BY <2>4, <2>6, <2>8
    <3>6. ~a.class.requires_conformed
      BY <2>6, <2>8, <2>16, <2>17
    <3> QED BY ONLY <1>1, <2>11, <3>1, <3>2, <3>3, <3>4, <3>5, <3>6
  <2>22. ~confirms => a.class.sensitivity # "personal"
    BY <2>6, <2>8, <2>13
  <2>23. Safe(asks) <=>
           /\ id \notin session.quarantined
           /\ Harmless(c)
           /\ ~UserSays(policy.deny, id) /\ ~UserSays(policy.ask, id)
           /\ AsDeclared(c.input_schema, asks.args)
           /\ id.provider = "harness" /\ id.verb # "task.submit" => StaysInside(asks.args)
    BY <1>1, <1>4, <2>2, <2>3 DEF Safe
  <2> QED BY ONLY <2>19, <2>20, <2>21, <2>22, <2>23, <2>10, <2>12
<1> QED BY <1>3, <1>4

-----------------------------------------------------------------------------
(***************************************************************************)
(* The invariant of a session.                                              *)
(***************************************************************************)
\* What was admitted is planned from, and the session is the plan's.
SessionInv ==
  /\ setup \in Setups /\ phase \in Phases
  /\ phase \notin {"manifests", "ended"} => Admitted
  /\ phase \notin {"manifests", "startup", "plan", "ended"} => SessionOK
  /\ session = None \/ (Admitted /\ SessionOK)

\* What is about to be sent was built from the turns.
BuiltInv ==
  /\ turns = <<>> \/ turns \in Histories
  /\ phase = "built" => turns \in Histories /\ built = Build(turns)

\* A call of the client, and an operation on the workspace, in their phases.
CallsInv ==
  /\ call = NoCall \/ ClientInv
  /\ phase \notin {"startup", "model"} => call = NoCall
OpsInv ==
  /\ op = NoOp \/ (OpInv /\ WalkInv)
  /\ phase \notin {"facts", "tool"} => op = NoOp

\* What is asked is a call, and what is decided was decided of it.
AskedInv ==
  /\ asked = None \/ WellFormed(asked)
  /\ phase = "decided" => asked # None /\ decision = Decide(session, asked)
  /\ phase \notin {"decided", "tool", "ended"} => decision = None
  /\ decision = None \/ (asked # None /\ decision.is \in {"Allow", "Ask", "Deny"})

TurnInv == SessionInv /\ BuiltInv /\ CallsInv /\ OpsInv /\ AskedInv

-----------------------------------------------------------------------------
(* What is admitted, and what a session is, depends on these alone.         *)
LEMMA Unmoved ==
  ASSUME UNCHANGED setup
  PROVE  /\ Admitted' <=> Admitted
         /\ UNCHANGED session => (SessionOK' <=> SessionOK)
<1>1. Admitted' <=> Admitted
  BY DEF Admitted, Refusals, Entries
<1>2. UNCHANGED session => (SessionOK' <=> SessionOK)
  BY DEF SessionOK, SpecOf, DriverGrants, Entries
<1> QED BY <1>1, <1>2

(* The setup stays as it is.                                                *)
LEMMA SetupStays ==
  ASSUME [Next]_vars
  PROVE  UNCHANGED setup
BY DEF Next, vars, still, others, Admit, StartupCheck, StartedUp, Plan, PrepareRefuses, MeasureFacts, FactsMeasured,
       BuildContext, Send, ModelFails, Parse, Asked, Quarantine, Decides, AskAgain, Submits, Refuses,
       Invoke, ToolFinished, ClientSteps, WorkspaceSteps

(* A plan that is not refused makes a session.                              *)
LEMMA PlanMakesASession ==
  ASSUME UNCHANGED setup, session' = Planned(SpecOf, Entries, setup.policy),
         PlanRefusal(SpecOf, Entries, setup.policy) = Accepted
  PROVE  SessionOK'
<1>1. SpecOf' = SpecOf /\ Entries' = Entries
  BY DEF SpecOf, DriverGrants, Entries
<1>2. PICK spec : spec = SpecOf
  OBVIOUS
<1>3. PICK active : active = [id \in Range(spec.grants) |-> Activated(Resolve(Entries, id), setup.policy)]
  OBVIOUS
<1>4. session' = [active |-> active, quarantined |-> {}, approver_present |-> spec.approver,
                  personal_granted |-> spec.personal]
  BY <1>2, <1>3 DEF Planned
<1>5. /\ session'.quarantined = {}
      /\ session' = [active |-> active, quarantined |-> session'.quarantined,
                     approver_present |-> spec.approver, personal_granted |-> spec.personal]
  BY <1>4
<1> QED BY <1>1, <1>2, <1>3, <1>5 DEF SessionOK

(* A quarantine leaves the rest of the session as it is.                    *)
LEMMA QuarantineKeeps ==
  ASSUME SessionOK, Quarantine
  PROVE  SessionOK'
<1>1. UNCHANGED setup
  BY DEF Quarantine
<1>2. SpecOf' = SpecOf /\ Entries' = Entries
  BY <1>1 DEF SpecOf, DriverGrants, Entries
<1>3. PICK id \in DOMAIN session.active : session' = [session EXCEPT !.quarantined = @ \cup {id}]
  BY DEF Quarantine, Quarantined
<1>4. PICK active, approver, personal :
        /\ active = [k \in Range(SpecOf.grants) |-> Activated(Resolve(Entries, k), setup.policy)]
        /\ approver = SpecOf.approver /\ personal = SpecOf.personal
  OBVIOUS
<1>5. /\ session = [active |-> active, quarantined |-> session.quarantined,
                    approver_present |-> approver, personal_granted |-> personal]
      /\ session.quarantined \subseteq DOMAIN session.active
      /\ PlanRefusal(SpecOf, Entries, setup.policy) = Accepted
  BY <1>4 DEF SessionOK
<1>6. /\ session' = [active |-> active, quarantined |-> session'.quarantined,
                     approver_present |-> approver, personal_granted |-> personal]
      /\ session'.quarantined = session.quarantined \cup {id} /\ session'.active = session.active
  BY <1>3, <1>5
<1>7. session'.quarantined \subseteq DOMAIN session'.active
  BY <1>3, <1>5, <1>6
<1> QED BY <1>1, <1>2, <1>4, <1>5, <1>6, <1>7 DEF SessionOK

(* What a step makes of the session.                                        *)
LEMMA SessionSteps ==
  ASSUME TurnInv, [Next]_vars
  PROVE  SessionInv'
<1>1. UNCHANGED setup /\ SessionInv
  BY SetupStays DEF TurnInv
<1>2. Admitted' <=> Admitted
  BY <1>1, Unmoved
<1>3. CASE Admit
  <2>1. UNCHANGED session
    BY <1>3 DEF Admit, still
  <2>2. phase = "manifests" /\ phase' = IF ~Admitted THEN "ended" ELSE IF setup.gated THEN "startup" ELSE "plan"
    BY <1>3 DEF Admit
  <2> QED BY <1>1, <1>2, <2>1, <2>2, Unmoved DEF SessionInv, Phases
<1>4. CASE Plan
  <2>1. phase = "plan" /\ Admitted
    BY <1>1, <1>4 DEF Plan, SessionInv
  <2>2. CASE phase' = "ended" /\ UNCHANGED session
    BY <1>1, <1>2, <2>2, Unmoved DEF SessionInv, Phases
  <2>3. CASE /\ PlanRefusal(SpecOf, Entries, setup.policy) = Accepted
             /\ phase' = IF setup.gated THEN "facts" ELSE "decide"
             /\ session' = Planned(SpecOf, Entries, setup.policy)
    <3>1. SessionOK'
      BY <1>1, <2>3, PlanMakesASession
    <3> QED BY <1>1, <1>2, <2>1, <2>3, <3>1 DEF SessionInv, Phases
  <2> QED BY <1>4, <2>2, <2>3 DEF Plan
<1>5. CASE Quarantine
  <2>1. phase = "decide" /\ phase' = phase /\ Admitted /\ SessionOK
    BY <1>1, <1>5 DEF Quarantine, SessionInv
  <2> QED BY <1>1, <1>2, <1>5, <2>1, QuarantineKeeps DEF SessionInv
<1>6. ASSUME UNCHANGED session, phase' \in Phases,
             phase' \in {"manifests", "startup"} => phase' = phase,
             phase' \notin {"manifests", "ended"} => phase \notin {"manifests", "ended"},
             phase' \notin {"manifests", "startup", "plan", "ended"} =>
               phase \notin {"manifests", "startup", "plan", "ended"}
      PROVE  SessionInv'
  BY <1>1, <1>2, <1>6, Unmoved DEF SessionInv
<1>7. CASE \/ UNCHANGED vars \/ StartupCheck \/ StartedUp \/ MeasureFacts \/ FactsMeasured
           \/ ClientSteps \/ WorkspaceSteps
  BY <1>1, <1>6, <1>7 DEF SessionInv, Phases, vars, StartupCheck, StartedUp, MeasureFacts, FactsMeasured,
     ClientSteps, WorkspaceSteps, others
<1>8. CASE BuildContext \/ Send \/ ModelFails \/ Parse \/ Asked \/ Decides
  BY <1>1, <1>6, <1>8 DEF SessionInv, Phases, BuildContext, Send, ModelFails, Parse, Asked, Decides
<1>9. CASE PrepareRefuses \/ AskAgain \/ Submits \/ Refuses \/ Invoke \/ ToolFinished
  BY <1>1, <1>6, <1>9 DEF SessionInv, Phases, PrepareRefuses, AskAgain, Submits, Refuses, Invoke, ToolFinished, still
<1> QED BY <1>3, <1>4, <1>5, <1>7, <1>8, <1>9 DEF Next

(* What a step makes of the turns and what is built of them.                *)
LEMMA BuiltSteps ==
  ASSUME TurnInv, [Next]_vars
  PROVE  BuiltInv'
<1>1. BuiltInv
  BY DEF TurnInv
<1>2. CASE BuildContext
  BY <1>2 DEF BuildContext, BuiltInv
<1>3. CASE Send
  BY <1>3 DEF Send, BuiltInv
<1>4. ASSUME UNCHANGED <<turns, built>>, phase' = "built" => phase = "built"
      PROVE  BuiltInv'
  BY <1>1, <1>4 DEF BuiltInv
<1>5. CASE \/ UNCHANGED vars \/ Admit \/ StartupCheck \/ StartedUp \/ Plan \/ MeasureFacts \/ FactsMeasured
           \/ ClientSteps \/ WorkspaceSteps
  BY <1>4, <1>5 DEF vars, Admit, still, StartupCheck, StartedUp, Plan, MeasureFacts, FactsMeasured,
     ClientSteps, WorkspaceSteps, others
<1>6. CASE ModelFails \/ Parse \/ Asked \/ Quarantine \/ Decides
  BY <1>4, <1>6 DEF ModelFails, Parse, Asked, Quarantine, Decides
<1>7. CASE PrepareRefuses \/ AskAgain \/ Submits \/ Refuses \/ Invoke \/ ToolFinished
  BY <1>4, <1>7 DEF PrepareRefuses, AskAgain, Submits, Refuses, Invoke, ToolFinished, still
<1> QED BY <1>2, <1>3, <1>5, <1>6, <1>7 DEF Next

(* What a step makes of the call of the client.                             *)
LEMMA CallsSteps ==
  ASSUME TurnInv, [Next]_vars
  PROVE  CallsInv'
<1>1. CallsInv /\ SessionInv
  BY DEF TurnInv
<1>2. ASSUME CallBegins', phase' \in {"startup", "model"} PROVE CallsInv'
  <2>1. ClientInv'
    BY <1>2, CallBeginsNext
  <2> QED BY <1>2, <2>1 DEF CallsInv
<1>3. ASSUME call' = NoCall PROVE CallsInv'
  BY <1>3 DEF CallsInv
<1>4. ASSUME call' = call, phase' \notin {"startup", "model"} => phase \notin {"startup", "model"}
      PROVE  CallsInv'
  BY <1>1, <1>4, CallStays DEF CallsInv
<1>5. CASE StartupCheck
  BY <1>2, <1>5 DEF StartupCheck, CallBegins
<1>6. CASE Send
  <2>1. CASE phase' = "ended" /\ call' = call
    BY <1>1, <1>4, <1>6, <2>1 DEF Send
  <2>2. CASE phase' = "model" /\ call' = Call("chat")
    BY <1>2, <2>2 DEF CallBegins
  <2> QED BY <1>6, <2>1, <2>2 DEF Send
<1>7. CASE StartedUp \/ ModelFails \/ Parse
  BY <1>3, <1>7 DEF StartedUp, ModelFails, Parse
<1>8. CASE ClientSteps
  <2>1. call # NoCall
    <3> SUFFICES ASSUME call = NoCall PROVE FALSE
      OBVIOUS
    <3>1. call.pc = "idle"
      BY DEF NoCall
    <3> QED BY <1>8, <3>1 DEF ClientSteps, ClientNext, PastDeadline, Connect, StartWrite, Written, WriteSome,
               WriteFails, Trickle, ReadFails, Reading, HeadArrives, BodyArrives, Closes, ClosesInAnEvent, Retry
  <2>2. ClientInv /\ phase \in {"startup", "model"}
    BY <1>1, <2>1 DEF CallsInv
  <2>3. ClientInv'
    BY <1>8, <2>2, CallSteps DEF ClientSteps
  <2> QED BY <1>8, <2>2, <2>3 DEF CallsInv, ClientSteps, others
<1>9. CASE UNCHANGED vars \/ Admit \/ Plan \/ MeasureFacts \/ FactsMeasured \/ WorkspaceSteps
  BY <1>4, <1>9 DEF vars, Admit, still, Plan, MeasureFacts, FactsMeasured, WorkspaceSteps, others
<1>10. CASE BuildContext \/ Asked \/ Quarantine \/ Decides
  BY <1>4, <1>10 DEF BuildContext, Asked, Quarantine, Decides
<1>11. CASE PrepareRefuses \/ AskAgain \/ Submits \/ Refuses \/ Invoke \/ ToolFinished
  BY <1>4, <1>11 DEF PrepareRefuses, AskAgain, Submits, Refuses, Invoke, ToolFinished, still
<1> QED BY <1>5, <1>6, <1>7, <1>8, <1>9, <1>10, <1>11 DEF Next

(* What a run may invoke is a read tool, on a path of the workspace.        *)
LEMMA InvokedIsInside ==
  ASSUME TurnInv, Invoke
  PROVE  PathOf \in Places /\ Tool \in {"read", "search", "list"}
<1>1. /\ phase = "decided" /\ setup.gated /\ decision.is = "Allow" /\ asked.capability # SUBMIT_ID
      /\ Sorted /\ SessionOK /\ WellFormed(asked) /\ decision = Decide(session, asked)
  BY AdmittedIsSorted DEF Invoke, TurnInv, SessionInv, AskedInv
<1>2. PICK id : id = asked.capability
  OBVIOUS
<1>3. Safe(asked)
  BY <1>1, DecidesSafely
<1>4. id \in DOMAIN session.active
  BY <1>2, <1>3 DEF Safe
<1>5. /\ id.provider = "harness" /\ id = [provider |-> id.provider, verb |-> id.verb]
      /\ id.verb \in FsVerbs \cup {"task.submit"}
  <2>1. PICK i \in DOMAIN Entries : \E k \in DOMAIN Entries[i].manifest.capabilities :
          Entries[i].manifest.capabilities[k].id = id
    <3>1. Matches(Entries, id) # {}
      BY <1>1, <1>4, SessionsAreGranted
    <3> QED BY <1>1, <3>1, ResolveIs
  <2>2. PICK m : m = Entries[i].manifest
    OBVIOUS
  <2>3. PICK k \in DOMAIN m.capabilities : m.capabilities[k].id = id
    BY <2>1, <2>2
  <2>4. /\ Declared(m) /\ m.provider = BUILTIN_NAMESPACE /\ m.capabilities[k].id.provider = m.provider
        /\ m.origin = "compiled"
    BY <1>1, <2>2 DEF Sorted
  <2>5. PICK c : c = m.capabilities[k]
    OBVIOUS
  <2>6. c \in Range(m.capabilities)
    BY <2>5 DEF Range
  <2>7. /\ c.id = [provider |-> c.id.provider, verb |-> c.id.verb]
        /\ c.id.verb \in FsVerbs \cup {"task.submit"}
    BY <2>4, <2>6 DEF Declared
  <2> QED BY <2>3, <2>4, <2>5, <2>7 DEF BUILTIN_NAMESPACE
<1>6. id.verb # "task.submit"
  BY <1>1, <1>2, <1>5 DEF SUBMIT_ID, BUILTIN_NAMESPACE
<1>7. StaysInside(asked.args)
  BY <1>2, <1>3, <1>5, <1>6 DEF Safe
<1>8. ASSUME "path" \in DOMAIN asked.args PROVE PathOf \in Places
  <2>1. PICK given : given = asked.args["path"]
    OBVIOUS
  <2>2. given.json = "string" /\ Range(given.v.parts) \subseteq Range(Names)
    BY <1>7, <1>8, <2>1 DEF StaysInside
  <2>3. given.v.parts \in Seq(Range(Names) \cup BadParts)
    BY <1>1, <1>8, <2>1, <2>2 DEF WellFormed
  <2>4. given.v.parts \in Seq(Range(given.v.parts))
    BY <2>3, HoldsIs
  <2>5. given.v.parts \in Seq(Range(Names))
    BY <2>2, <2>4, SeqMonotonic
  <2>6. PathOf = given.v.parts
    BY <1>8, <2>1 DEF PathOf, Argument
  <2> QED BY <2>5, <2>6 DEF Places
<1>9. ASSUME "path" \notin DOMAIN asked.args PROVE PathOf \in Places
  <2>1. PathOf = <<>>
    BY <1>9 DEF PathOf, Argument, Path
  <2> QED BY <2>1, PathsAre
<1>10. Tool \in {"read", "search", "list"}
  BY <1>2, <1>5, <1>6 DEF Tool, FsVerbs
<1> QED BY <1>8, <1>9, <1>10

(* What a step makes of the operation on the workspace.                     *)
LEMMA OpsSteps ==
  ASSUME TurnInv, [Next]_vars
  PROVE  OpsInv'
<1>1. OpsInv /\ SessionInv
  BY DEF TurnInv
<1>2. ASSUME OpBegins', phase' \in {"facts", "tool"} PROVE OpsInv'
  <2>1. OpInv' /\ WalkInv'
    BY <1>2, OpBeginsNext, WalkBeginsNext
  <2> QED BY <1>2, <2>1 DEF OpsInv
<1>3. ASSUME op' = NoOp PROVE OpsInv'
  BY <1>3 DEF OpsInv
<1>4. ASSUME op' = op, tree' = tree, phase' \notin {"facts", "tool"} => phase \notin {"facts", "tool"}
      PROVE  OpsInv'
  <2>1. OpInv /\ WalkInv => OpInv' /\ WalkInv'
    BY <1>4, OpStays, WalkStays
  <2> QED BY <1>1, <1>4, <2>1 DEF OpsInv
<1>5. CASE MeasureFacts
  <2>1. tree' \in Trees /\ op' = Op("facts", <<>>, 0, tree') /\ phase' = "facts"
    BY <1>5 DEF MeasureFacts
  <2>2. OpBegins'
    BY <2>1, PathsAre DEF OpBegins, Operations
  <2> QED BY <1>2, <2>1, <2>2
<1>6. CASE Invoke
  <2>1. PICK place \in Places : place = PathOf
    BY <1>6, InvokedIsInside
  <2>2. PICK does, depth : does = Tool /\ depth = Depth
    OBVIOUS
  <2>3. tree' \in Trees /\ op' = Op(does, place, depth, tree') /\ phase' = "tool"
    BY <1>6, <2>1, <2>2 DEF Invoke
  <2>4. does \in Operations /\ does # "facts"
    BY <1>6, <2>2, InvokedIsInside DEF Operations
  <2>5. does = "list" => depth \in Nat
    BY <1>6, <2>2 DEF Invoke
  <2>6. OpBegins'
    BY <2>3, <2>4, <2>5 DEF OpBegins
  <2> QED BY <1>2, <2>3, <2>6
<1>7. CASE FactsMeasured \/ ToolFinished
  BY <1>3, <1>7 DEF FactsMeasured, ToolFinished
<1>8. CASE WorkspaceSteps
  <2>1. op # NoOp
    <3> SUFFICES ASSUME op = NoOp PROVE FALSE
      OBVIOUS
    <3>1. op.pc = "idle"
      BY DEF NoOp
    <3> QED BY <1>8, <3>1 DEF WorkspaceSteps, WorkspaceNext, LookAt, Resolved, Read, Pop, Stat, Listing,
               Visit, WalkEnds, Late, Change, Running
  <2>2. OpInv /\ WalkInv /\ phase \in {"facts", "tool"}
    BY <1>1, <2>1 DEF OpsInv
  <2>3. OpInv' /\ WalkInv'
    BY <1>8, <2>2, OpSteps, WalkSteps DEF WorkspaceSteps
  <2> QED BY <1>8, <2>2, <2>3 DEF OpsInv, WorkspaceSteps, others
<1>9. CASE UNCHANGED vars \/ Admit \/ StartupCheck \/ StartedUp \/ ClientSteps
  BY <1>4, <1>9 DEF vars, Admit, still, StartupCheck, StartedUp, ClientSteps, others
<1>10. CASE Plan
  BY <1>4, <1>10 DEF Plan
<1>11. CASE BuildContext \/ Send \/ ModelFails \/ Parse \/ Asked \/ Quarantine \/ Decides
  BY <1>4, <1>11 DEF BuildContext, Send, ModelFails, Parse, Asked, Quarantine, Decides
<1>12. CASE AskAgain \/ Submits \/ Refuses
  BY <1>4, <1>12 DEF AskAgain, Submits, Refuses, still
<1>13. CASE PrepareRefuses
  <2>1. op.pc = "idle" /\ op' = op
    BY <1>13 DEF PrepareRefuses, still
  <2>2. op = NoOp
    BY <1>1, <2>1 DEF OpsInv, OpInv
  <2> QED BY <1>3, <2>1, <2>2
<1> QED BY <1>5, <1>6, <1>7, <1>8, <1>9, <1>10, <1>11, <1>12, <1>13 DEF Next

(* What a step makes of what is asked and decided.                          *)
LEMMA AskedSteps ==
  ASSUME TurnInv, [Next]_vars
  PROVE  AskedInv'
<1>1. AskedInv /\ CallsInv
  BY DEF TurnInv
<1>2. ASSUME UNCHANGED <<asked, decision>>, UNCHANGED session \/ phase' # "decided",
             phase' = "decided" => phase = "decided",
             phase' \notin {"decided", "tool", "ended"} => phase \notin {"decided", "tool", "ended"}
      PROVE  AskedInv'
  <2>1. WellFormed(asked)' <=> WellFormed(asked)
    BY <1>2 DEF WellFormed
  <2> QED BY <1>1, <1>2, <2>1 DEF AskedInv
<1>3. ASSUME asked' = None, decision' = None, phase' # "decided"
      PROVE  AskedInv'
  BY <1>3 DEF AskedInv
<1>4. ASSUME WellFormed(asked'), decision' = decision, phase \notin {"decided", "tool", "ended"},
             phase' \notin {"decided", "tool", "ended"}
      PROVE  AskedInv'
  BY <1>1, <1>4 DEF AskedInv
<1>5. CASE Parse
  <2>1. CASE ParsedReply.is = "action" /\ phase' = "decide" /\ asked' = ParsedReply.call
    <3>1. call # NoCall
      BY <1>5 DEF Parse, NoCall
    <3>2. AnswerOK
      BY <1>1, <3>1 DEF CallsInv, ClientInv
    <3>3. WellFormed(ParsedReply.call)
      BY <1>5, <2>1, <3>2, ParsedIsWellFormed DEF Parse, ParsedReply
    <3> QED BY <1>4, <1>5, <2>1, <3>3 DEF Parse
  <2>2. CASE phase' = "context" /\ UNCHANGED asked
    BY <1>2, <1>5, <2>2 DEF Parse
  <2> QED BY <1>5, <2>1, <2>2 DEF Parse
<1>6. CASE Asked
  BY <1>4, <1>6, TurnAssumption DEF Asked
<1>7. CASE Decides
  <2>1. /\ phase = "decide" /\ asked # None /\ phase' = "decided"
        /\ decision' = Decide(session, asked) /\ UNCHANGED <<session, asked>>
    BY <1>7 DEF Decides
  <2>2. decision'.is \in {"Allow", "Ask", "Deny"}
    BY <2>1, DecisionsAre
  <2>3. WellFormed(asked)' <=> WellFormed(asked)
    BY <2>1 DEF WellFormed
  <2> QED BY <1>1, <2>1, <2>2, <2>3 DEF AskedInv
<1>8. CASE AskAgain \/ Refuses \/ ToolFinished
  BY <1>3, <1>8 DEF AskAgain, Refuses, ToolFinished
<1>9. CASE \/ UNCHANGED vars \/ Admit \/ StartupCheck \/ StartedUp \/ MeasureFacts \/ FactsMeasured
           \/ ClientSteps \/ WorkspaceSteps
  BY <1>2, <1>9 DEF vars, Admit, still, StartupCheck, StartedUp, MeasureFacts, FactsMeasured,
     ClientSteps, WorkspaceSteps, others
<1>10. CASE Plan \/ BuildContext \/ Send \/ ModelFails \/ Quarantine
  BY <1>2, <1>10 DEF Plan, BuildContext, Send, ModelFails, Quarantine
<1>11. CASE PrepareRefuses \/ Submits \/ Invoke
  BY <1>2, <1>11 DEF PrepareRefuses, Submits, Invoke, still
<1> QED BY <1>5, <1>6, <1>7, <1>8, <1>9, <1>10, <1>11 DEF Next

(* The invariant behind the theorems about a session.                       *)
THEOREM TurnInductive == Spec => []TurnInv
<1>1. Init => TurnInv
  BY DEF Init, TurnInv, SessionInv, Phases, BuiltInv, CallsInv, OpsInv, AskedInv
<1>2. TurnInv /\ [Next]_vars => TurnInv'
  BY SessionSteps, BuiltSteps, CallsSteps, OpsSteps, AskedSteps DEF TurnInv
<1> QED BY <1>1, <1>2, PTL DEF Spec

-----------------------------------------------------------------------------
(* Whatever the setups, answers and trees: a session holds what it was      *)
(* granted, a decision is of something asked, and a call or an operation is *)
(* under way only in its phases (TypeOK).                                   *)
THEOREM TypeCorrect == Spec => []TypeOK
<1>1. TurnInv => TypeOK
  <2> SUFFICES ASSUME TurnInv PROVE TypeOK
    OBVIOUS
  <2>1. session # None => /\ DOMAIN session.active \subseteq {SUBMIT_ID} \cup Range(setup.grants)
                          /\ session.quarantined \subseteq DOMAIN session.active
    <3> SUFFICES ASSUME session # None
                 PROVE  /\ DOMAIN session.active \subseteq {SUBMIT_ID} \cup Range(setup.grants)
                        /\ session.quarantined \subseteq DOMAIN session.active
      OBVIOUS
    <3>1. Sorted /\ SessionOK
      BY AdmittedIsSorted DEF TurnInv, SessionInv
    <3>2. DOMAIN session.active = Range(SpecOf.grants)
      <4>1. session.active = [id \in Range(SpecOf.grants) |-> Activated(Resolve(Entries, id), setup.policy)]
        BY <3>1 DEF SessionOK
      <4> QED BY <4>1
    <3> QED BY <3>1, <3>2, GrantsAre DEF SessionOK
  <2>2. /\ call.pc \in {"idle", "connect", "write", "writing", "head", "body", "retry", "done"}
        /\ call.pc # "idle" => phase \in {"startup", "model"}
    BY DEF TurnInv, CallsInv, NoCall, ClientInv, CallInv, CallTyped, CallPCs
  <2>3. /\ op.pc \in {"idle", "resolve", "open", "walk", "list", "visit", "done"}
        /\ op.pc # "idle" => phase \in {"facts", "tool"}
    BY DEF TurnInv, OpsInv, NoOp, OpInv
  <2> QED BY <2>1, <2>2, <2>3 DEF TypeOK, TurnInv, SessionInv, BuiltInv, AskedInv
<1> QED BY <1>1, TurnInductive, PTL

(* Whatever manifests are admitted, an id that a session holds belongs to   *)
(* one manifest, that of its namespace (admission.rs, harness-manifest      *)
(* validate).                                                               *)
THEOREM OneOwnerPerCapabilityHolds == Spec => []OneOwnerPerCapability
<1>1. TurnInv => OneOwnerPerCapability
  <2> SUFFICES ASSUME TurnInv PROVE OneOwnerPerCapability
    OBVIOUS
  <2>1. CASE session = None
    BY <2>1 DEF OneOwnerPerCapability
  <2>2. CASE session # None
    BY <2>2, AdmittedIsSorted, OwnersOf DEF TurnInv, SessionInv
  <2> QED BY <2>1, <2>2
<1> QED BY <1>1, TurnInductive, PTL

(* Whatever the manifests, the grants and the user policy, a call is        *)
(* allowed exactly when its capability was granted and is harmless, the     *)
(* user neither denies nor asks, and its arguments stay in the schema and   *)
(* the workspace (harness-policy plan and decide).                          *)
THEOREM AllowedIsSafeHolds == Spec => []AllowedIsSafe
<1>1. TurnInv => AllowedIsSafe
  <2> SUFFICES ASSUME TurnInv, phase = "decided" PROVE AllowedIsSafe
    BY DEF AllowedIsSafe
  <2>1. Sorted /\ SessionOK /\ WellFormed(asked) /\ decision = Decide(session, asked)
    BY AdmittedIsSorted DEF TurnInv, SessionInv, AskedInv
  <2>2. decision.is = "Allow" <=> Safe(asked)
    BY <2>1, DecidesSafely
  <2> QED BY <2>2 DEF AllowedIsSafe, Safe
<1> QED BY <1>1, TurnInductive, PTL

(* Whatever the turns behind it, the context that is sent fits its budget   *)
(* and drops no turn that would have fit (context.rs build).                *)
THEOREM ContextFitsHolds == Spec => []ContextFits
<1>1. TurnInv => ContextFits
  <2> SUFFICES ASSUME TurnInv PROVE ContextFits
    OBVIOUS
  <2>1. phase = "built" => Len(turns) \in Nat /\ built = Build(turns)
    BY TurnAssumption DEF TurnInv, BuiltInv
  <2> QED BY <2>1, ContextOf
<1> QED BY <1>1, TurnInductive, PTL

(* In a session too a call of the server keeps the bounds of                *)
(* CallKeepsItsBounds, at startup and in every turn (client.rs complete).   *)
THEOREM TurnsCallWithinBounds == Spec => []CallKeepsItsBounds
<1>1. TurnInv => CallKeepsItsBounds
  <2>1. call = NoCall => CallKeepsItsBounds
    BY DEF NoCall, CallKeepsItsBounds, RetriesAreDue, EndsByItsDeadline, StatusesAreNamed, Over, Calling
  <2> QED BY <2>1, ClientKeeps DEF TurnInv, CallsInv
<1> QED BY <1>1, TurnInductive, PTL

(* In a session too no turn takes part of a reply for all of it (wire.rs    *)
(* Acc::done, INV-3).                                                       *)
THEOREM TurnsTakeWholeReplies == Spec => []NeverAPartialReply
<1>1. TurnInv => NeverAPartialReply
  <2>1. call = NoCall => NeverAPartialReply
    BY DEF NoCall, NeverAPartialReply, Over
  <2> QED BY <2>1, ClientKeeps DEF TurnInv, CallsInv
<1> QED BY <1>1, TurnInductive, PTL

(* In a session too nothing is read from outside the workspace unless       *)
(* something on the way became a link after it was looked at: what is       *)
(* allowed to run is on a path inside (builtin.rs:18-24, INV-30).           *)
THEOREM TurnsFollowNoLinks == Spec => []LinksAreNotFollowed
<1>1. TurnInv => LinksAreNotFollowed
  BY DEF TurnInv, OpsInv, NoOp, OpInv, Blamed, LinksAreNotFollowed
<1> QED BY <1>1, TurnInductive, PTL

(* In a session too every walk that answers accounts for what it comes to   *)
(* and nobody changed, as WalksAccountForAll says: the facts a run starts   *)
(* from, and what each search and list tells the model (builtin.rs          *)
(* facts_with, try_search, try_list).                                       *)
THEOREM TurnsAccountForAll == Spec => []WalksAccountForAll
<1>1. TurnInv => WalksAccountForAll
  <2>1. op = NoOp => WalksAccountForAll
    BY DEF NoOp, WalksAccountForAll, Answered
  <2> QED BY <2>1 DEF TurnInv, OpsInv, WalkInv
<1> QED BY <1>1, TurnInductive, PTL
=============================================================================
