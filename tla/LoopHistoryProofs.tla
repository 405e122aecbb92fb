-------------------------- MODULE LoopHistoryProofs --------------------------
(***************************************************************************)
(* The theorems about the detector beside its history: what each counter,   *)
(* the window and the sets stand for in the log, and from that, that the    *)
(* signal is the ruling of design 2.6 over the whole log.                   *)
(***************************************************************************)
EXTENDS LoopHistory, FiniteSetTheorems, SequenceTheorems, TLAPS

Event(kind, of) == [kind |-> kind, of |-> of]

\* Where an event stands in the log.
Places(event) == {j \in 1..Len(log) : log[j] = event}

\* How many actions there were up to a position.
Actions(i) == Cardinality(OfKind({"action"}, i))

-----------------------------------------------------------------------------
(***************************************************************************)
(* The invariant.                                                           *)
(***************************************************************************)
CountsOK ==
  /\ \A f \in Files : edits_per_file[f] = Cardinality(Places(Event("edit", f)))
  /\ \A c \in Capabilities : denial_counts[c] = Cardinality(Places(Event("denial", c)))

SeenOK ==
  /\ \A d \in Digests : d \in seen_observations <=> Places(Event("observation", d)) # {}
  /\ \A t \in Trees : t \in seen_trees <=> Places(Event("tree", t)) # {}

NoticedOK ==
  \A key \in Keys : key \in repeat_noticed <=> \E i \in Places(Event("action", key)) : IsHit(i)

\* The window holds the latest actions, in their order, and all of them.
WindowOK ==
  /\ Len(window) <= IDENTICAL_WINDOW /\ Len(window) <= Actions(Len(log))
  /\ Len(window) = IDENTICAL_WINDOW \/ Len(window) = Actions(Len(log))
  /\ \E place \in [1..Len(window) -> Latest({"action"}, IDENTICAL_WINDOW, Len(log))] :
       /\ \A k \in 1..Len(window) : /\ log[place[k]] = Event("action", window[k])
                                    /\ Actions(Len(log)) - Actions(place[k]) = Len(window) - k
       /\ \A j \in Latest({"action"}, IDENTICAL_WINDOW, Len(log)) :
            \E k \in 1..Len(window) : place[k] = j

StallOK == steps_without_progress = Stall

\* Whoever is still running has not stalled.
StallWasSignalled == ~ended => steps_without_progress < NO_PROGRESS_LIMIT

HistoryInv ==
  /\ TypeOK
  /\ CountsOK /\ SeenOK /\ NoticedOK /\ WindowOK /\ StallOK
  /\ StallWasSignalled
  /\ FollowsTheRules /\ DroppedSignalIsNoStop

-----------------------------------------------------------------------------
(***************************************************************************)
(* The log as it grows.                                                     *)
(***************************************************************************)
Grows(e) == e \in Events /\ log \in Seq(Events) /\ log' = Append(log, e)

(* The log is longer by one, and as it was before.                          *)
LEMMA LogGrows ==
  ASSUME NEW e, Grows(e)
  PROVE  /\ Len(log) \in Nat /\ Len(log') = Len(log) + 1 /\ Len(log') \in Nat
         /\ 1..Len(log') = (1..Len(log)) \cup {Len(log')} /\ Len(log') \notin 1..Len(log)
         /\ log' \in Seq(Events) /\ log'[Len(log')] = e
         /\ \A i \in 1..Len(log) : log'[i] = log[i]
<1>1. Len(log) \in Nat /\ log' = Append(log, e) /\ e \in Events /\ log \in Seq(Events)
  BY DEF Grows
<1>2. /\ Len(log') = Len(log) + 1 /\ log' \in Seq(Events) /\ log'[Len(log) + 1] = e
      /\ \A i \in 1..Len(log) : log'[i] = log[i]
  BY <1>1, AppendProperties
<1>3. 1..(Len(log) + 1) = (1..Len(log)) \cup {Len(log) + 1} /\ Len(log) + 1 \notin 1..Len(log)
  BY <1>1
<1> QED BY <1>1, <1>2, <1>3

(* Every set of places is finite.                                           *)
LEMMA UpToIsFinite ==
  ASSUME NEW n \in Nat, NEW T, T \subseteq 1..n
  PROVE  IsFiniteSet(T) /\ Cardinality(T) \in Nat
<1>1. IsFiniteSet(1..n)
  BY FS_Interval
<1>2. IsFiniteSet(T)
  BY <1>1, FS_Subset
<1> QED BY <1>2, FS_CardinalityType

(* The new event has one place more, every other event the same.            *)
LEMMA PlacesGrow ==
  ASSUME NEW e, Grows(e), NEW x
  PROVE  /\ Places(x)' = IF x = e THEN Places(x) \cup {Len(log')} ELSE Places(x)
         /\ Cardinality(Places(x)) \in Nat /\ Len(log') \notin Places(x)
         /\ Cardinality(Places(x)') = Cardinality(Places(x)) + (IF x = e THEN 1 ELSE 0)
<1>1. /\ Places(x)' = IF x = e THEN Places(x) \cup {Len(log')} ELSE Places(x)
      /\ Len(log') \notin Places(x)
  BY LogGrows DEF Places
<1>2. IsFiniteSet(Places(x)) /\ Cardinality(Places(x)) \in Nat
  <2>1. Places(x) \subseteq 1..Len(log) /\ Len(log) \in Nat
    BY LogGrows DEF Places
  <2> QED BY <2>1, UpToIsFinite
<1>3. Cardinality(Places(x) \cup {Len(log')}) = Cardinality(Places(x)) + 1
  BY <1>1, <1>2, FS_AddElement
<1> QED BY <1>1, <1>2, <1>3

(* What was said of the positions before stays true of them.                *)
LEMMA KindsStay ==
  ASSUME NEW e, Grows(e), NEW K, NEW i \in 0..Len(log)
  PROVE  OfKind(K, i)' = OfKind(K, i)
<1>1. \A j \in 1..i : log'[j] = log[j]
  BY LogGrows
<1> QED BY <1>1 DEF OfKind

(* The same of the latest, the same and the hits.                           *)
LEMMA HitsStay ==
  ASSUME NEW e, Grows(e), NEW i \in 1..Len(log)
  PROVE  /\ Same(i)' = Same(i) /\ IsHit(i)' = IsHit(i) /\ IsNews(i)' = IsNews(i)
         /\ Actions(i)' = Actions(i)
<1>1. i \in 0..Len(log) /\ \A j \in 1..i : j \in 0..Len(log) /\ log'[j] = log[j]
  BY LogGrows
<1>2. i \in 1..i
  BY LogGrows
<1>3. Same(i)' = Same(i) /\ log'[i] = log[i]
  BY <1>1, <1>2 DEF Same
<1>4. \A j \in 0..Len(log) : OfKind({"action"}, j)' = OfKind({"action"}, j)
  BY KindsStay
<1>5. Latest({"action"}, IDENTICAL_WINDOW, i)' = Latest({"action"}, IDENTICAL_WINDOW, i)
  <2>1. OfKind({"action"}, i) \subseteq 1..i /\ OfKind({"action"}, i)' = OfKind({"action"}, i)
    BY <1>1, <1>4 DEF OfKind
  <2>2. \A j \in OfKind({"action"}, i) : OfKind({"action"}, j)' = OfKind({"action"}, j)
    BY <1>1, <1>4, <2>1
  <2> QED BY <2>1, <2>2 DEF Latest
<1>6. IsHit(i)' = IsHit(i)
  BY <1>3, <1>5 DEF IsHit
<1>7. IsNews(i)' = IsNews(i)
  BY <1>3 DEF IsNews
<1> QED BY <1>1, <1>3, <1>4, <1>6, <1>7 DEF Actions

(* What is the same as the newest event.                                    *)
LEMMA SameIsPlaces ==
  ASSUME NEW e, Grows(e)
  PROVE  Same(Len(log))' = Places(e)' /\ Places(e)' = Places(e) \cup {Len(log')}
<1>1. Same(Len(log))' = Places(e)'
  BY LogGrows DEF Same, Places
<1> QED BY <1>1, PlacesGrow

(* The newest event is news if it is a digest that had no place.            *)
LEMMA NewsIs ==
  ASSUME NEW e, Grows(e)
  PROVE  IsNews(Len(log))' <=> e.kind \in {"observation", "tree"} /\ Places(e) = {}
<1>1. /\ Same(Len(log))' = Places(e) \cup {Len(log')} /\ log'[Len(log')] = e
      /\ Len(log') \notin Places(e)
  BY SameIsPlaces, LogGrows, PlacesGrow
<1>2. Places(e) \cup {Len(log')} = {Len(log')} <=> Places(e) = {}
  BY <1>1
<1> QED BY <1>1, <1>2 DEF IsNews

\* What counts against the run: steps and actions with no news since.
Barren == {i \in OfKind({"step", "action"}, Len(log)) : \A j \in i..Len(log) : ~IsNews(j)}

(* News empty it, a step or an action that is none adds itself, and         *)
(* anything else leaves it.                                                 *)
LEMMA StallGrows ==
  ASSUME NEW e, Grows(e)
  PROVE  /\ Stall \in Nat
         /\ IsNews(Len(log))' => Stall' = 0
         /\ ~IsNews(Len(log))' => Stall' = Stall + (IF e.kind \in {"step", "action"} THEN 1 ELSE 0)
<1> DEFINE K == {"step", "action"}
<1> PICK n : n = Len(log)
  OBVIOUS
<1>0. /\ n = Len(log) /\ n \in Nat /\ Len(log') = n + 1 /\ log'[n + 1] = e /\ n \in 0..n
      /\ \A i \in 1..n : log'[i] = log[i]
  BY LogGrows
<1>1. Stall = Cardinality(Barren) /\ Stall' = Cardinality(Barren')
  BY DEF Stall, Barren
<1>2. IsFiniteSet(Barren) /\ Cardinality(Barren) \in Nat /\ Barren \subseteq 1..n
  <2>1. Barren \subseteq 1..n
    BY DEF Barren, OfKind
  <2> QED BY <1>0, <2>1, UpToIsFinite
<1>3. IsNews(Len(log))' <=> IsNews(n + 1)'
  BY <1>0
<1>4. \A i \in 1..n : IsNews(i)' = IsNews(i)
  BY HitsStay
<1>5. Barren' = {i \in {j \in 1..(n + 1) : log'[j].kind \in K} : \A j \in i..(n + 1) : ~IsNews(j)'}
  BY <1>0 DEF Barren, OfKind
<1>6. CASE IsNews(Len(log))'
  <2>1. \A i \in 1..(n + 1) : n + 1 \in i..(n + 1)
    BY <1>0
  <2>2. IsNews(n + 1)'
    BY <1>3, <1>6
  <2>3. Barren' = {}
    BY <1>5, <2>1, <2>2
  <2> QED BY <1>1, <1>2, <1>6, <2>3, FS_EmptySet
<1>7. CASE ~IsNews(Len(log))'
  <2>1. ~IsNews(n + 1)'
    BY <1>3, <1>7
  <2>2. \A i \in 1..n : (\A j \in i..(n + 1) : ~IsNews(j)') <=> (\A j \in i..n : ~IsNews(j))
    <3> TAKE i \in 1..n
    <3>1. i..(n + 1) = (i..n) \cup {n + 1} /\ i..n \subseteq 1..n
      BY <1>0
    <3> QED BY ONLY <1>4, <2>1, <3>1
  <2>3. \A j \in (n + 1)..(n + 1) : ~IsNews(j)'
    BY <1>0, <2>1
  <2>4. /\ 1..(n + 1) = (1..n) \cup {n + 1} /\ n + 1 \notin 1..n
        /\ Barren = {i \in {j \in 1..n : log[j].kind \in K} : \A j \in i..n : ~IsNews(j)}
    BY <1>0 DEF Barren, OfKind
  <2>5. Barren' = IF e.kind \in K THEN Barren \cup {n + 1} ELSE Barren
    BY <1>0, <1>5, <2>2, <2>3, <2>4
  <2>6. n + 1 \notin Barren
    BY <1>2, <2>4
  <2> HIDE DEF K
  <2>7. Cardinality(Barren \cup {n + 1}) = Cardinality(Barren) + 1
    BY <1>2, <2>6, FS_AddElement
  <2> QED BY <1>1, <1>2, <1>7, <2>5, <2>7 DEF K
<1> QED BY <1>1, <1>2, <1>6, <1>7

-----------------------------------------------------------------------------
(***************************************************************************)
(* The window.                                                              *)
(***************************************************************************)
Newest == Latest({"action"}, IDENTICAL_WINDOW, Len(log))

(* Of the actions, the newest are those with few after them.                *)
LEMMA NewestIs ==
  \A j : j \in Newest <=> /\ j \in 1..Len(log) /\ log[j].kind = "action"
                          /\ Actions(Len(log)) - Actions(j) < IDENTICAL_WINDOW
BY DEF Newest, Latest, OfKind, Actions

(* An action raises the count, nothing else does.                           *)
LEMMA ActionsGrow ==
  ASSUME NEW e, Grows(e)
  PROVE  /\ Actions(Len(log)) \in Nat
         /\ Actions(Len(log))' = Actions(Len(log)) + (IF e.kind = "action" THEN 1 ELSE 0)
         /\ \A j \in 1..Len(log) : Actions(j)' = Actions(j) /\ Actions(j) \in Nat
<1> DEFINE n == Len(log)
           A(i) == OfKind({"action"}, i)
<1>0. n \in Nat /\ Len(log') = n + 1 /\ log'[n + 1] = e /\ \A i \in 1..n : log'[i] = log[i]
  BY LogGrows
<1>1. \A i \in 0..n : IsFiniteSet(A(i)) /\ Cardinality(A(i)) \in Nat
  <2> TAKE i \in 0..n
  <2>1. A(i) \subseteq 1..i /\ i \in Nat
    BY <1>0 DEF OfKind
  <2> QED BY <2>1, UpToIsFinite
<1>2. /\ A(n)' = IF e.kind = "action" THEN A(n) \cup {n + 1} ELSE A(n)
      /\ n + 1 \notin A(n)
  <2>1. 1..(n + 1) = (1..n) \cup {n + 1} /\ n + 1 \notin 1..n
    BY <1>0
  <2> QED BY <1>0, <2>1 DEF OfKind
<1>3. n \in 0..n /\ \A j \in 1..n : j \in 0..n
  BY <1>0
<1>4. Cardinality(A(n) \cup {n + 1}) = Cardinality(A(n)) + 1
  BY <1>1, <1>2, <1>3, FS_AddElement
<1>5. \A j \in 1..n : Actions(j)' = Actions(j)
  BY HitsStay
<1>6. Actions(n) = Cardinality(A(n)) /\ Actions(n)' = Cardinality(A(n)') /\ \A j \in 1..n : Actions(j) = Cardinality(A(j))
  BY DEF Actions
<1> HIDE DEF A
<1> QED BY <1>1, <1>2, <1>3, <1>4, <1>5, <1>6

(* Another kind of event leaves the window as it is.                        *)
LEMMA WindowStays ==
  ASSUME NEW e, Grows(e), e.kind # "action", window' = window, WindowOK
  PROVE  WindowOK'
<1> DEFINE n == Len(log)
           Fits(place, total, l) ==
             /\ \A k \in 1..Len(window) : /\ l[place[k]] = Event("action", window[k])
                                          /\ total - Actions(place[k]) = Len(window) - k
             /\ \A j \in Newest : \E k \in 1..Len(window) : place[k] = j
<1>0. n \in Nat /\ Len(log') = n + 1 /\ log'[n + 1] = e /\ \A i \in 1..n : log'[i] = log[i]
  BY LogGrows
<1>1. Actions(Len(log))' = Actions(n) /\ \A j \in 1..n : Actions(j)' = Actions(j)
  BY ActionsGrow
<1>2. Newest' = Newest
  <2>1. \A j : j \in Newest' <=> /\ j \in 1..(n + 1) /\ log'[j].kind = "action"
                                 /\ Actions(Len(log))' - Actions(j)' < IDENTICAL_WINDOW
    <3>1. \A j : j \in Newest' <=> /\ j \in 1..Len(log') /\ log'[j].kind = "action"
                                   /\ Actions(Len(log))' - Actions(j)' < IDENTICAL_WINDOW
      BY DEF Newest, Latest, OfKind, Actions
    <3> QED BY <1>0, <3>1
  <2>2. 1..(n + 1) = (1..n) \cup {n + 1}
    BY <1>0
  <2> QED BY <1>0, <1>1, <2>1, <2>2, NewestIs
<1>3. PICK place \in [1..Len(window) -> Newest] : Fits(place, Actions(n), log)
  BY DEF WindowOK, Newest
<1>4. \A k \in 1..Len(window) : place[k] \in 1..n
  BY <1>3, NewestIs
<1>5. \A k \in 1..Len(window) : log'[place[k]] = log[place[k]] /\ Actions(place[k])' = Actions(place[k])
  BY <1>0, <1>1, <1>4
<1>6. place \in [1..Len(window') -> Newest']
  BY <1>2, <1>3
<1>7. /\ \A k \in 1..Len(window') : /\ log'[place[k]] = Event("action", window'[k])
                                    /\ Actions(Len(log))' - Actions(place[k])' = Len(window') - k
      /\ \A j \in Newest' : \E k \in 1..Len(window') : place[k] = j
  BY <1>1, <1>2, <1>3, <1>5
<1>8. /\ Len(window') <= IDENTICAL_WINDOW /\ Len(window') <= Actions(Len(log))'
      /\ Len(window') = IDENTICAL_WINDOW \/ Len(window') = Actions(Len(log))'
  BY <1>1 DEF WindowOK
<1> QED BY <1>6, <1>7, <1>8 DEF WindowOK, Newest

(* An action is pushed behind the others, and only the oldest may go.       *)
LEMMA WindowGrows ==
  ASSUME NEW key \in Keys, Grows(Event("action", key)), window \in Seq(Keys),
         IDENTICAL_WINDOW \in Nat \ {0}, window' = Pushed(key), WindowOK
  PROVE  WindowOK' /\ window' \in Seq(Keys) /\ Len(window') <= IDENTICAL_WINDOW
<1> DEFINE e == Event("action", key)
           w == IDENTICAL_WINDOW
<1> PICK n, size, total : n = Len(log) /\ size = Len(window) /\ total = Actions(Len(log))
  OBVIOUS
<1>0. /\ n \in Nat /\ Len(log') = n + 1 /\ log'[n + 1] = e /\ \A i \in 1..n : log'[i] = log[i]
      /\ e.kind = "action" /\ size \in Nat /\ w \in Nat /\ w # 0
  BY LogGrows DEF Event
<1>1. /\ Actions(Len(log))' = total + 1 /\ total \in Nat /\ Actions(n + 1)' = total + 1
      /\ \A j \in 1..n : Actions(j)' = Actions(j) /\ Actions(j) \in Nat
  <2>1. Actions(Len(log))' = Actions(n + 1)'
    BY <1>0
  <2> QED BY <1>0, <2>1, ActionsGrow
<1>2. \A j : j \in Newest' <=> j = n + 1 \/ (j \in Newest /\ total - Actions(j) < w - 1)
  <2>1. \A j : j \in Newest' <=> /\ j \in 1..Len(log') /\ log'[j].kind = "action"
                                 /\ Actions(Len(log))' - Actions(j)' < w
    BY DEF Newest, Latest, OfKind, Actions
  <2>2. 1..(n + 1) = (1..n) \cup {n + 1} /\ n + 1 \notin 1..n
    BY <1>0
  <2>3. \A j : j \in Newest <=> j \in 1..n /\ log[j].kind = "action" /\ total - Actions(j) < w
    BY NewestIs
  <2>4. n + 1 \in Newest'
    <3>1. (total + 1) - (total + 1) < w
      BY <1>0, <1>1
    <3> QED BY <1>0, <1>1, <2>1, <2>2, <3>1
  <2>5. ASSUME NEW j, j # n + 1 PROVE j \in Newest' <=> j \in Newest /\ total - Actions(j) < w - 1
    <3>1. CASE j \in 1..n
      <4>1. log'[j] = log[j] /\ Actions(j)' = Actions(j) /\ Actions(j) \in Nat
        BY <1>0, <1>1, <3>1
      <4>2. (total + 1) - Actions(j) < w <=> total - Actions(j) < w - 1
        BY <1>0, <1>1, <4>1
      <4>3. total - Actions(j) < w - 1 => total - Actions(j) < w
        BY <1>0, <1>1, <4>1
      <4> QED BY <1>0, <1>1, <2>1, <2>2, <2>3, <3>1, <4>1, <4>2, <4>3
    <3>2. CASE j \notin 1..n
      BY <1>0, <2>1, <2>2, <2>3, <2>5, <3>2
    <3> QED BY <3>1, <3>2
  <2> QED BY <2>4, <2>5
<1>3. PICK place \in [1..size -> Newest] :
         /\ \A k \in 1..size : log[place[k]] = Event("action", window[k]) /\ total - Actions(place[k]) = size - k
         /\ \A j \in Newest : \E k \in 1..size : place[k] = j
  BY DEF WindowOK, Newest
<1>4. size <= w /\ size <= total /\ (size = w \/ size = total)
  BY DEF WindowOK
<1>5. \A k \in 1..size : /\ place[k] \in Newest /\ place[k] \in 1..n /\ place[k] # n + 1
                         /\ log'[place[k]] = log[place[k]] /\ Actions(place[k])' = Actions(place[k])
                         /\ Actions(place[k]) \in Nat
  <2>1. \A k \in 1..size : place[k] \in Newest
    BY <1>3
  <2>2. \A k \in 1..size : place[k] \in 1..n /\ place[k] # n + 1
    BY <1>0, <2>1, NewestIs
  <2> QED BY <1>0, <1>1, <2>1, <2>2
<1>6. \A k \in 1..size : window[k] \in Keys
  BY ElementOfSeq
<1>7. /\ Append(window, key) \in Seq(Keys) /\ Len(Append(window, key)) = size + 1
      /\ Append(window, key)[size + 1] = key /\ \A k \in 1..size : Append(window, key)[k] = window[k]
  BY AppendProperties
<1>8. CASE size < w
  <2> DEFINE new == [k \in 1..(size + 1) |-> IF k = size + 1 THEN n + 1 ELSE place[k]]
  <2>1. window' = Append(window, key) /\ Len(window') = size + 1
    BY <1>0, <1>7, <1>8 DEF Pushed
  <2>2. total = size /\ \A j \in Newest : total - Actions(j) < w - 1
    <3>1. total = size
      BY <1>0, <1>4, <1>8
    <3>2. ASSUME NEW j \in Newest PROVE total - Actions(j) < w - 1
      <4>1. PICK k \in 1..size : place[k] = j
        BY <1>3
      <4>2. total - Actions(j) = size - k
        BY <1>3, <4>1
      <4> QED BY <1>0, <1>8, <4>1, <4>2
    <3> QED BY <3>1, <3>2
  <2>3. 1..(size + 1) = (1..size) \cup {size + 1} /\ size + 1 \notin 1..size
    BY <1>0
  <2>4. new \in [1..(size + 1) -> Newest']
    <3>1. \A k \in 1..(size + 1) : new[k] \in Newest'
      BY <1>2, <1>5, <2>2, <2>3
    <3> QED BY <3>1
  <2>5. ASSUME NEW k \in 1..(size + 1)
        PROVE  log'[new[k]] = Event("action", window'[k]) /\ (total + 1) - Actions(new[k])' = (size + 1) - k
    <3>1. CASE k = size + 1
      <4>1. new[k] = n + 1 /\ window'[k] = key
        BY <1>7, <2>1, <3>1
      <4>2. Actions(new[k])' = total + 1
        BY <1>1, <4>1
      <4>3. (total + 1) - (total + 1) = (size + 1) - k
        BY <1>0, <1>1, <3>1
      <4> QED BY <1>0, <4>1, <4>2, <4>3
    <3>2. CASE k # size + 1
      <4>1. k \in 1..size /\ new[k] = place[k] /\ window'[k] = window[k]
        BY <1>7, <2>1, <2>3, <3>2
      <4>2. total - Actions(place[k]) = size - k /\ Actions(new[k])' = Actions(place[k]) /\ Actions(place[k]) \in Nat
        BY <1>3, <1>5, <4>1
      <4>3. (total + 1) - Actions(place[k]) = (size + 1) - k
        BY <1>0, <1>1, <4>1, <4>2
      <4> QED BY <1>3, <1>5, <4>1, <4>2, <4>3
    <3> QED BY <3>1, <3>2
  <2>6. ASSUME NEW j \in Newest' PROVE \E k \in 1..(size + 1) : new[k] = j
    <3>1. CASE j = n + 1
      BY <2>3, <3>1
    <3>2. CASE j # n + 1
      <4>1. PICK k \in 1..size : place[k] = j
        BY <1>2, <1>3, <3>2
      <4>2. k \in 1..(size + 1) /\ new[k] = j
        BY <2>3, <4>1
      <4> QED BY <4>2
    <3> QED BY <3>1, <3>2
  <2>7. size + 1 <= w /\ size + 1 <= total + 1 /\ size + 1 = total + 1
    BY <1>0, <1>8, <2>2
  <2> HIDE DEF new
  <2>8. /\ new \in [1..Len(window') -> Newest']
        /\ \A k \in 1..Len(window') : /\ log'[new[k]] = Event("action", window'[k])
                                      /\ Actions(Len(log))' - Actions(new[k])' = Len(window') - k
        /\ \A j \in Newest' : \E k \in 1..Len(window') : new[k] = j
    BY ONLY <1>1, <2>1, <2>4, <2>5, <2>6
  <2>9. /\ Len(window') <= w /\ Len(window') <= Actions(Len(log))'
        /\ Len(window') = w \/ Len(window') = Actions(Len(log))'
    BY ONLY <1>1, <2>1, <2>7
  <2>10. window' \in Seq(Keys)
    BY <1>7, <2>1
  <2> QED BY ONLY <2>8, <2>9, <2>10 DEF WindowOK, Newest
<1>9. CASE size >= w
  <2> DEFINE new == [k \in 1..size |-> IF k = size THEN n + 1 ELSE place[k + 1]]
  <2>1. size = w /\ size + 1 > w /\ Append(window, key) # <<>>
    BY <1>0, <1>4, <1>7, <1>9
  <2>2. /\ window' = Tail(Append(window, key))
    BY <1>7, <2>1 DEF Pushed
  <2>3. /\ window' \in Seq(Keys) /\ Len(window') = size
        /\ \A k \in 1..size : window'[k] = Append(window, key)[k + 1]
    <3>1. /\ window' \in Seq(Keys) /\ Len(window') = Len(Append(window, key)) - 1
          /\ \A k \in 1..Len(window') : window'[k] = Append(window, key)[k + 1]
      BY <1>7, <2>1, <2>2, HeadTailProperties
    <3> QED BY <1>0, <1>7, <3>1
  <2>4. \A k \in 1..size : k # size => k + 1 \in 1..size /\ window'[k] = window[k + 1] /\ new[k] = place[k + 1]
    BY <1>0, <1>7, <2>3
  <2>5. size \in 1..size /\ new[size] = n + 1 /\ window'[size] = key
    BY <1>0, <1>7, <2>1, <2>3
  <2>6. \A k \in 1..size : k # size => total - Actions(place[k + 1]) < w - 1
    <3>1. ASSUME NEW k \in 1..size, k # size PROVE total - Actions(place[k + 1]) < w - 1
      <4>1. total - Actions(place[k + 1]) = size - (k + 1)
        BY <1>3, <2>4, <3>1
      <4> QED BY <1>0, <2>1, <3>1, <4>1
    <3> QED BY <3>1
  <2>7. new \in [1..size -> Newest']
    <3>1. ASSUME NEW k \in 1..size PROVE new[k] \in Newest'
      <4>1. CASE k = size
        BY <1>2, <2>5, <4>1
      <4>2. CASE k # size
        BY <1>2, <1>5, <2>4, <2>6, <4>2
      <4> QED BY <4>1, <4>2
    <3> QED BY <3>1
  <2>8. ASSUME NEW k \in 1..size
        PROVE  log'[new[k]] = Event("action", window'[k]) /\ (total + 1) - Actions(new[k])' = size - k
    <3>1. CASE k = size
      <4>1. Actions(new[k])' = total + 1 /\ (total + 1) - (total + 1) = size - k
        BY <1>0, <1>1, <2>5, <3>1
      <4> QED BY <1>0, <2>5, <3>1, <4>1
    <3>2. CASE k # size
      <4>1. /\ total - Actions(place[k + 1]) = size - (k + 1) /\ Actions(place[k + 1]) \in Nat
            /\ Actions(new[k])' = Actions(place[k + 1])
        BY <1>3, <1>5, <2>4, <3>2
      <4>2. (total + 1) - Actions(place[k + 1]) = size - k
        <5>1. total \in Nat /\ size \in Nat /\ k \in Nat
          BY <1>0, <1>1
        <5>2. \A x, y, z, t \in Nat : x - y = z - (t + 1) => (x + 1) - y = z - t
          OBVIOUS
        <5> QED BY ONLY <4>1, <5>1, <5>2
      <4>3. k + 1 \in 1..size /\ new[k] = place[k + 1] /\ window'[k] = window[k + 1]
        BY <2>4, <3>2
      <4>4. log'[place[k + 1]] = log[place[k + 1]] /\ log[place[k + 1]] = Event("action", window[k + 1])
        BY ONLY <1>3, <1>5, <4>3
      <4>5. log'[new[k]] = Event("action", window'[k])
        BY ONLY <4>3, <4>4
      <4> QED BY ONLY <4>1, <4>2, <4>5
    <3> QED BY <3>1, <3>2
  <2>9. ASSUME NEW j \in Newest' PROVE \E k \in 1..size : new[k] = j
    <3>1. CASE j = n + 1
      BY <2>5, <3>1
    <3>2. CASE j # n + 1
      <4>1. j \in Newest /\ total - Actions(j) < w - 1
        BY <1>2, <3>2
      <4>2. PICK k \in 1..size : place[k] = j
        BY <1>3, <4>1
      <4>3. total - Actions(j) = size - k
        BY <1>3, <4>2
      <4>4. k - 1 \in 1..size /\ k - 1 # size /\ (k - 1) + 1 = k
        BY <1>0, <2>1, <4>1, <4>2, <4>3
      <4>5. new[k - 1] = j
        BY <2>4, <4>2, <4>4
      <4> QED BY <4>4, <4>5
    <3> QED BY <3>1, <3>2
  <2> HIDE DEF new
  <2>10. size <= w /\ size <= total + 1 /\ (size = w \/ size = total + 1)
    BY <1>0, <1>1, <1>4, <2>1
  <2>11. /\ new \in [1..Len(window') -> Newest']
         /\ \A k \in 1..Len(window') : /\ log'[new[k]] = Event("action", window'[k])
                                       /\ Actions(Len(log))' - Actions(new[k])' = Len(window') - k
         /\ \A j \in Newest' : \E k \in 1..Len(window') : new[k] = j
    BY ONLY <1>1, <2>3, <2>7, <2>8, <2>9
  <2>12. /\ Len(window') <= w /\ Len(window') <= Actions(Len(log))'
         /\ Len(window') = w \/ Len(window') = Actions(Len(log))'
    BY ONLY <1>1, <2>3, <2>10
  <2> QED BY ONLY <2>3, <2>11, <2>12 DEF WindowOK, Newest
<1> QED BY <1>0, <1>8, <1>9

\* The newest action is a hit when the window holds its key often enough.
HitsAreCounted ==
  \A key \in Keys :
    log \in Seq(Events) /\ log # <<>> /\ log[Len(log)] = Event("action", key)
      => (IsHit(Len(log)) <=> Cardinality({k \in 1..Len(window) : window[k] = key}) >= IDENTICAL_LIMIT)

(* So the detector, which only has the window, finds the hits of the log.   *)
LEMMA HitIs == WindowOK /\ window \in Seq(Keys) => HitsAreCounted
<1> SUFFICES ASSUME WindowOK, window \in Seq(Keys), NEW key \in Keys,
                    log \in Seq(Events), log # <<>>, log[Len(log)] = Event("action", key)
             PROVE  IsHit(Len(log)) <=> Cardinality({k \in 1..Len(window) : window[k] = key}) >= IDENTICAL_LIMIT
  BY DEF HitsAreCounted
<1> DEFINE In == {k \in 1..Len(window) : window[k] = key}
           Hits == Same(Len(log)) \cap Newest
<1>1. PICK place \in [1..Len(window) -> Newest] :
         /\ \A k \in 1..Len(window) : /\ log[place[k]] = Event("action", window[k])
                                      /\ Actions(Len(log)) - Actions(place[k]) = Len(window) - k
         /\ \A j \in Newest : \E k \in 1..Len(window) : place[k] = j
  BY DEF WindowOK, Newest
<1> DEFINE map == [k \in In |-> place[k]]
<1>2. Len(window) \in Nat /\ IsFiniteSet(In)
  BY UpToIsFinite
<1>3. \A x, y : Event("action", x) = Event("action", y) <=> x = y
  BY DEF Event
<1>4. \A j : j \in Hits <=> j \in Newest /\ log[j] = Event("action", key)
  BY NewestIs DEF Same
<1>5. map \in [In -> Hits]
  BY <1>1, <1>3, <1>4
<1>6. ASSUME NEW k \in In, NEW l \in In, map[k] = map[l] PROVE k = l
  <2>1. Actions(Len(log)) - Actions(place[k]) = Len(window) - k
    BY <1>1
  <2>2. Actions(Len(log)) - Actions(place[l]) = Len(window) - l
    BY <1>1
  <2>3. place[k] = place[l]
    BY <1>6
  <2>4. Len(window) - k = Len(window) - l
    BY <2>1, <2>2, <2>3
  <2>5. k \in Nat /\ l \in Nat
    BY <1>2
  <2> QED BY <1>2, <2>4, <2>5
<1>7. \A j \in Hits : \E k \in In : map[k] = j
  BY <1>1, <1>3, <1>4
<1> HIDE DEF map
<1>8. map \in Bijection(In, Hits)
  BY <1>5, <1>6, <1>7 DEF Bijection, Injection, Surjection, IsInjective
<1>9. Cardinality(Hits) = Cardinality(In)
  BY <1>2, <1>8, FS_Bijection DEF ExistsBijection
<1>10. IsHit(Len(log)) <=> Cardinality(Hits) >= IDENTICAL_LIMIT
  BY DEF IsHit, Newest, Event
<1> QED BY <1>9, <1>10

-----------------------------------------------------------------------------
(***************************************************************************)
(* Events of one kind leave what was kept of the others.                    *)
(***************************************************************************)

(* The key of a new hit is noticed, and no other key is new.                *)
LEMMA NoticedGrows ==
  ASSUME NEW e, Grows(e), NoticedOK,
         \A key \in Keys : key \in repeat_noticed'
           <=> key \in repeat_noticed \/ (e = Event("action", key) /\ IsHit(Len(log))')
  PROVE  NoticedOK'
<1> PICK n : n = Len(log')
  OBVIOUS
<1>1. \A x : \A i \in Places(x) : i \in 1..Len(log) /\ IsHit(i)' = IsHit(i)
  BY HitsStay DEF Places
<1>2. \A x : Places(x)' = IF x = e THEN Places(x) \cup {n} ELSE Places(x)
  BY PlacesGrow
<1>3. IsHit(Len(log))' <=> IsHit(n)'
  OBVIOUS
<1>4. ASSUME NEW key \in Keys
      PROVE  key \in repeat_noticed' <=> \E i \in Places(Event("action", key))' : IsHit(i)'
  <2>1. key \in repeat_noticed <=> \E i \in Places(Event("action", key)) : IsHit(i)
    BY DEF NoticedOK
  <2>2. CASE e = Event("action", key)
    <3>1. Places(Event("action", key))' = Places(Event("action", key)) \cup {n}
      BY <1>2, <2>2
    <3> QED BY <1>1, <1>3, <2>1, <2>2, <3>1
  <2>3. CASE e # Event("action", key)
    <3>1. Places(Event("action", key))' = Places(Event("action", key))
      BY <1>2, <2>3
    <3> QED BY <1>1, <2>1, <2>3, <3>1
  <2> QED BY <2>2, <2>3
<1> QED BY <1>4 DEF NoticedOK

(* What was seen and is not news again, for any event.                      *)
LEMMA SeenGrows ==
  ASSUME NEW e, Grows(e), SeenOK,
         \A d \in Digests : d \in seen_observations' <=> d \in seen_observations \/ e = Event("observation", d),
         \A t \in Trees : t \in seen_trees' <=> t \in seen_trees \/ e = Event("tree", t)
  PROVE  SeenOK'
<1>1. \A x : Places(x)' # {} <=> Places(x) # {} \/ e = x
  BY PlacesGrow
<1>2. \A d \in Digests : d \in seen_observations' <=> Places(Event("observation", d))' # {}
  BY <1>1 DEF SeenOK
<1>3. \A t \in Trees : t \in seen_trees' <=> Places(Event("tree", t))' # {}
  BY <1>1 DEF SeenOK
<1> QED BY <1>2, <1>3 DEF SeenOK

(* Each counter counts its event.                                           *)
LEMMA CountsGrow ==
  ASSUME NEW e, Grows(e), CountsOK,
         \A f \in Files : edits_per_file'[f] = edits_per_file[f] + (IF e = Event("edit", f) THEN 1 ELSE 0),
         \A c \in Capabilities : denial_counts'[c] = denial_counts[c] + (IF e = Event("denial", c) THEN 1 ELSE 0)
  PROVE  CountsOK'
<1>1. \A x : Cardinality(Places(x)') = Cardinality(Places(x)) + (IF e = x THEN 1 ELSE 0)
  BY PlacesGrow
<1>2. \A f \in Files : edits_per_file'[f] = Cardinality(Places(Event("edit", f))')
  BY <1>1 DEF CountsOK
<1>3. \A c \in Capabilities : denial_counts'[c] = Cardinality(Places(Event("denial", c))')
  BY <1>1 DEF CountsOK
<1> QED BY <1>2, <1>3 DEF CountsOK

(* The ruling on the newest event, by its kind.                             *)
LEMMA RulingIs ==
  ASSUME NEW e, Grows(e)
  PROVE  LET again == \E i \in Places(e) : IsHit(i)
             times == Cardinality(Places(e)) + 1
             hit   == IsHit(Len(log))'
         IN  Ruling' = IF e.kind = "action" /\ hit /\ again THEN Repeat
                       ELSE IF e.kind = "edit" /\ times > EDIT_CHURN_LIMIT THEN EditChurn
                       ELSE IF Stall' >= NO_PROGRESS_LIMIT THEN NoProgress
                       ELSE IF e.kind = "denial" /\ times >= DENIAL_LIMIT THEN Denied
                       ELSE IF e.kind = "action" /\ hit THEN Notice
                       ELSE Quiet
<1> PICK n : n = Len(log')
  OBVIOUS
<1>1. /\ Same(n)' = Places(e) \cup {n} /\ log'[n] = e /\ n # 0 /\ n \notin Places(e)
      /\ IsHit(n)' <=> IsHit(Len(log))'
  <2>1. /\ Same(Len(log))' = Same(n)' /\ IsHit(n)' <=> IsHit(Len(log))'
    OBVIOUS
  <2> QED BY <2>1, SameIsPlaces, LogGrows, PlacesGrow
<1>2. Same(n)' \ {n} = Places(e)
  BY <1>1
<1>3. \A i \in Places(e) : IsHit(i)' = IsHit(i)
  BY HitsStay DEF Places
<1>4. Cardinality(Same(n)') = Cardinality(Places(e)) + 1
  <2>1. Same(n)' = Places(e)'
    BY <1>1, PlacesGrow
  <2> QED BY <2>1, PlacesGrow
<1>5. IsHit(n)' => e.kind = "action"
  BY <1>1 DEF IsHit
<1>6. Ruling' = IF IsHit(n)' /\ (\E i \in Same(n)' \ {n} : IsHit(i)') THEN Repeat
                ELSE IF e.kind = "edit" /\ Cardinality(Same(n)') > EDIT_CHURN_LIMIT THEN EditChurn
                ELSE IF Stall' >= NO_PROGRESS_LIMIT THEN NoProgress
                ELSE IF e.kind = "denial" /\ Cardinality(Same(n)') >= DENIAL_LIMIT THEN Denied
                ELSE IF IsHit(n)' THEN Notice
                ELSE Quiet
  BY <1>1 DEF Ruling
<1> HIDE DEF Ruling
<1> QED BY ONLY <1>1, <1>2, <1>3, <1>4, <1>5, <1>6

\* What Feed does with the event.
Fed(e) ==
  /\ ~ended /\ Len(log) < MaxEvents /\ Grows(e)
  /\ ended' = (signal' \in Stops /\ e.kind # "observation")

(* Feed appends the event.                                                  *)
LEMMA FedIs ==
  ASSUME NEW kind, NEW of, Event(kind, of) \in Events, log \in Seq(Events), Feed(kind, of)
  PROVE  Fed(Event(kind, of))
BY DEF Fed, Feed, Grows, Event

(* Whoever goes on has no stall that was not signalled: a step, an action,  *)
(* an edit, a tree or a denial signals it at once, and an observation never *)
(* makes one.                                                               *)
LEMMA StallIsSignalled ==
  ASSUME NEW e, Fed(e), NEW own, Signal(own), StallWasSignalled,
         steps_without_progress \in Nat, steps_without_progress' \in Nat, NO_PROGRESS_LIMIT \in Nat,
         e.kind = "observation" => own = Quiet /\ steps_without_progress' <= steps_without_progress
  PROVE  StallWasSignalled' /\ DroppedSignalIsNoStop'
<1>1. steps_without_progress < NO_PROGRESS_LIMIT
  BY DEF StallWasSignalled, Fed
<1>2. log'[Len(log')] = e
  BY LogGrows DEF Fed
<1>3. Quiet \notin Stops /\ NoProgress \in Stops
  BY DEF Stops, Quiet, NoProgress, Repeat, EditChurn, Denied
<1>4. CASE e.kind = "observation"
  <2>1. steps_without_progress' < NO_PROGRESS_LIMIT
    BY <1>1, <1>4
  <2>2. signal' = Quiet
    BY <1>4, <2>1 DEF Signal
  <2> QED BY <1>2, <1>3, <1>4, <2>1, <2>2 DEF StallWasSignalled, DroppedSignalIsNoStop
<1>5. CASE e.kind # "observation"
  <2>1. ~ended' => signal' \notin Stops
    BY <1>5 DEF Fed
  <2>2. signal' \notin Stops => ~(steps_without_progress' >= NO_PROGRESS_LIMIT)
    BY <1>3 DEF Signal
  <2>3. ~ended' => steps_without_progress' < NO_PROGRESS_LIMIT
    BY <2>1, <2>2
  <2> QED BY <1>2, <1>5, <2>3 DEF StallWasSignalled, DroppedSignalIsNoStop
<1> QED BY <1>4, <1>5

(* The types of the log and of what was fed.                                *)
LEMMA LogTypes ==
  ASSUME NEW e, Fed(e), Len(log) <= MaxEvents, MaxEvents \in Nat
  PROVE  log' \in Seq(Events) /\ Len(log') <= MaxEvents /\ ended' \in BOOLEAN
<1>1. Grows(e) /\ Len(log) < MaxEvents /\ ended' \in BOOLEAN
  BY DEF Fed
<1>2. Len(log') <= MaxEvents
  BY <1>1, LogGrows
<1> QED BY <1>1, <1>2, LogGrows

(* A signal is one of the kinds when what the rule itself says is.          *)
LEMMA SignalType ==
  ASSUME NEW own \in {Quiet, Notice} \cup Stops, Signal(own)
  PROVE  signal' \in {Quiet, Notice} \cup Stops
BY DEF Signal, Stops

-----------------------------------------------------------------------------
(***************************************************************************)
(* The steps.  Each does of the following what its event calls for, and     *)
(* leaves the rest.                                                         *)
(***************************************************************************)
IsNew(e) ==
  \/ \E d \in Digests : e = Event("observation", d) /\ d \notin seen_observations
  \/ \E t \in Trees : e = Event("tree", t) /\ t \notin seen_trees

HitNow(e) == e.kind = "action" /\ IsHit(Len(log))'

Recorded(e) ==
  /\ \A f \in Files : edits_per_file'[f] = edits_per_file[f] + (IF e = Event("edit", f) THEN 1 ELSE 0)
  /\ \A c \in Capabilities : denial_counts'[c] = denial_counts[c] + (IF e = Event("denial", c) THEN 1 ELSE 0)
  /\ \A d \in Digests : d \in seen_observations' <=> d \in seen_observations \/ e = Event("observation", d)
  /\ \A t \in Trees : t \in seen_trees' <=> t \in seen_trees \/ e = Event("tree", t)
  /\ \A key \in Keys : key \in repeat_noticed'
       <=> key \in repeat_noticed \/ (e = Event("action", key) /\ IsHit(Len(log))')
  /\ steps_without_progress' = IF IsNew(e) THEN 0
                               ELSE IF e.kind \in {"step", "action"} THEN steps_without_progress + 1
                               ELSE steps_without_progress

OwnRule(e) ==
  IF HitNow(e) THEN IF e.of \in repeat_noticed THEN Repeat ELSE Notice
  ELSE IF e.kind = "edit" /\ edits_per_file'[e.of] > EDIT_CHURN_LIMIT THEN EditChurn
  ELSE IF e.kind = "denial" /\ denial_counts'[e.of] >= DENIAL_LIMIT THEN Denied
  ELSE Quiet

(* An event has one kind, and is news when the log has no place for it.     *)
LEMMA EventIs ==
  ASSUME NEW e \in Events
  PROVE  /\ e = Event(e.kind, e.of)
         /\ e.kind \in {"step", "action", "edit", "observation", "tree", "denial"}
         /\ e.kind = "action" => e.of \in Keys
         /\ e.kind = "edit" => e.of \in Files
         /\ e.kind = "denial" => e.of \in Capabilities
         /\ e.kind = "observation" => e.of \in Digests
         /\ e.kind = "tree" => e.of \in Trees
         /\ \A kind, of : e = Event(kind, of) => e.kind = kind /\ e.of = of
         /\ \A kind, of : Event(kind, of).kind = kind /\ Event(kind, of).of = of
<1>1. \A kind, of : Event(kind, of).kind = kind /\ Event(kind, of).of = of
  BY DEF Event
<1>2. CASE e \in [kind : {"step"}, of : {"none"}]
  BY <1>1, <1>2 DEF Event
<1>3. CASE e \in [kind : {"action"}, of : Keys]
  BY <1>1, <1>3 DEF Event
<1>4. CASE e \in [kind : {"edit"}, of : Files]
  BY <1>1, <1>4 DEF Event
<1>5. CASE e \in [kind : {"observation"}, of : Digests]
  BY <1>1, <1>5 DEF Event
<1>6. CASE e \in [kind : {"tree"}, of : Trees]
  BY <1>1, <1>6 DEF Event
<1>7. CASE e \in [kind : {"denial"}, of : Capabilities]
  BY <1>1, <1>7 DEF Event
<1> QED BY <1>2, <1>3, <1>4, <1>5, <1>6, <1>7 DEF Events

(* The detector's set and the log agree on what is new.                     *)
LEMMA NewIsNews ==
  ASSUME NEW e, Grows(e), SeenOK
  PROVE  IsNew(e) <=> IsNews(Len(log))'
<1>1. e \in Events
  BY DEF Grows
<1>2. IsNews(Len(log))' <=> e.kind \in {"observation", "tree"} /\ Places(e) = {}
  BY NewsIs
<1>3. CASE e.kind = "observation"
  <2>1. e = Event("observation", e.of) /\ e.of \in Digests
    BY <1>1, <1>3, EventIs
  <2>2. e.of \in seen_observations <=> Places(e) # {}
    BY <2>1 DEF SeenOK
  <2>3. IsNew(e) <=> e.of \notin seen_observations
    BY <1>1, <1>3, <2>1, EventIs DEF IsNew
  <2> QED BY <1>2, <1>3, <2>2, <2>3
<1>4. CASE e.kind = "tree"
  <2>1. e = Event("tree", e.of) /\ e.of \in Trees
    BY <1>1, <1>4, EventIs
  <2>2. e.of \in seen_trees <=> Places(e) # {}
    BY <2>1 DEF SeenOK
  <2>3. IsNew(e) <=> e.of \notin seen_trees
    BY <1>1, <1>4, <2>1, EventIs DEF IsNew
  <2> QED BY <1>2, <1>4, <2>2, <2>3
<1>5. CASE e.kind \notin {"observation", "tree"}
  BY <1>1, <1>2, <1>5, EventIs DEF IsNew
<1> QED BY <1>3, <1>4, <1>5

(* A step that records its event and signals by the rules keeps the         *)
(* invariant: one part of it after the other.                               *)
LEMMA RecordedKeeps ==
  ASSUME HistoryInv, NEW e, Fed(e), Recorded(e), Signal(OwnRule(e)), WindowOK', DetectorTypeOK'
  PROVE  HistoryInv'
<1>1. /\ TypeOK /\ DetectorTypeOK /\ log \in Seq(Events) /\ Len(log) <= MaxEvents /\ MaxEvents \in Nat
      /\ NO_PROGRESS_LIMIT \in Nat
  BY HistoryAssumption, DetectorAssumption DEF HistoryInv, TypeOK
<1>2. CountsOK /\ SeenOK /\ NoticedOK /\ WindowOK /\ StallOK /\ StallWasSignalled
  BY DEF HistoryInv
<1>3. Grows(e) /\ e \in Events
  BY DEF Fed, Grows
<1>4. CountsOK'
  BY <1>2, <1>3, CountsGrow DEF Recorded
<1>5. SeenOK'
  BY <1>2, <1>3, SeenGrows DEF Recorded
<1>6. NoticedOK'
  BY <1>2, <1>3, NoticedGrows DEF Recorded
<1>7. steps_without_progress = Stall /\ steps_without_progress \in Nat
  <2>1. steps_without_progress = Stall
    BY <1>2 DEF StallOK
  <2> QED BY <1>1, <2>1 DEF DetectorTypeOK
<1>8. steps_without_progress' = Stall' /\ steps_without_progress' \in Nat
  <2>1. /\ IsNews(Len(log))' => Stall' = 0
        /\ ~IsNews(Len(log))' => Stall' = Stall + (IF e.kind \in {"step", "action"} THEN 1 ELSE 0)
    BY <1>3, StallGrows
  <2>2. IsNew(e) <=> IsNews(Len(log))'
    BY <1>2, <1>3, NewIsNews
  <2>3. steps_without_progress' = IF IsNew(e) THEN 0
                                  ELSE IF e.kind \in {"step", "action"} THEN steps_without_progress + 1
                                  ELSE steps_without_progress
    BY DEF Recorded
  <2> QED BY ONLY <1>7, <2>1, <2>2, <2>3
<1>9. StallOK'
  BY <1>8 DEF StallOK
<1>10. TypeOK'
  BY <1>1, LogTypes DEF TypeOK
<1>11. StallWasSignalled' /\ DroppedSignalIsNoStop'
  <2>1. e.kind = "observation" => OwnRule(e) = Quiet
    BY DEF OwnRule, HitNow
  <2>2. e.kind = "observation" => steps_without_progress' <= steps_without_progress
    BY <1>7 DEF Recorded
  <2> QED BY <1>1, <1>2, <1>7, <1>8, <2>1, <2>2, StallIsSignalled
<1>12. FollowsTheRules'
  <2> DEFINE again == \E i \in Places(e) : IsHit(i)
             times == Cardinality(Places(e)) + 1
             hit   == IsHit(Len(log))'
  <2>1. Ruling' = IF e.kind = "action" /\ hit /\ again THEN Repeat
                  ELSE IF e.kind = "edit" /\ times > EDIT_CHURN_LIMIT THEN EditChurn
                  ELSE IF Stall' >= NO_PROGRESS_LIMIT THEN NoProgress
                  ELSE IF e.kind = "denial" /\ times >= DENIAL_LIMIT THEN Denied
                  ELSE IF e.kind = "action" /\ hit THEN Notice
                  ELSE Quiet
    BY <1>3, RulingIs
  <2>2. e.kind = "action" => (e.of \in repeat_noticed <=> again)
    <3>1. e.kind = "action" => e = Event("action", e.of) /\ e.of \in Keys
      BY <1>3, EventIs
    <3> QED BY <1>2, <3>1 DEF NoticedOK
  <2>3. e.kind = "edit" => edits_per_file'[e.of] = times
    <3>1. e.kind = "edit" => e = Event("edit", e.of) /\ e.of \in Files
      BY <1>3, EventIs
    <3>2. e.kind = "edit" => edits_per_file[e.of] = Cardinality(Places(e))
      BY <1>2, <3>1 DEF CountsOK
    <3> QED BY <3>1, <3>2 DEF Recorded
  <2>4. e.kind = "denial" => denial_counts'[e.of] = times
    <3>1. e.kind = "denial" => e = Event("denial", e.of) /\ e.of \in Capabilities
      BY <1>3, EventIs
    <3>2. e.kind = "denial" => denial_counts[e.of] = Cardinality(Places(e))
      BY <1>2, <3>1 DEF CountsOK
    <3> QED BY <3>1, <3>2 DEF Recorded
  <2> HIDE DEF again, times, hit
  <2>5. OwnRule(e) = IF e.kind = "action" /\ hit THEN IF again THEN Repeat ELSE Notice
                     ELSE IF e.kind = "edit" /\ times > EDIT_CHURN_LIMIT THEN EditChurn
                     ELSE IF e.kind = "denial" /\ times >= DENIAL_LIMIT THEN Denied
                     ELSE Quiet
    BY <2>2, <2>3, <2>4 DEF OwnRule, HitNow, hit
  <2>6. signal' = IF OwnRule(e) \notin Stops /\ Stall' >= NO_PROGRESS_LIMIT THEN NoProgress ELSE OwnRule(e)
    BY <1>8 DEF Signal
  <2>7. Repeat \in Stops /\ EditChurn \in Stops /\ Denied \in Stops /\ Notice \notin Stops /\ Quiet \notin Stops
    BY DEF Stops, Quiet, Notice, NoProgress, Repeat, EditChurn, Denied
  <2>8. e.kind = "denial" => ~(Stall' >= NO_PROGRESS_LIMIT)
    <3>1. steps_without_progress < NO_PROGRESS_LIMIT
      BY <1>2 DEF StallWasSignalled, Fed
    <3>2. e.kind = "denial" => steps_without_progress' <= steps_without_progress
      BY <1>7 DEF Recorded
    <3> QED BY <1>1, <1>7, <1>8, <3>1, <3>2
  <2>9. signal' = Ruling'
    BY ONLY <2>1, <2>5, <2>6, <2>7, <2>8
  <2> QED BY <2>9 DEF FollowsTheRules
<1> QED BY <1>4, <1>5, <1>6, <1>9, <1>10, <1>11, <1>12 DEF HistoryInv

(* A step without an action.                                                *)
LEMMA StepKeeps ==
  ASSUME HistoryInv, ObserveStep, Feed("step", "none")
  PROVE  HistoryInv'
<1> DEFINE e == Event("step", "none")
<1>1. TypeOK /\ DetectorTypeOK /\ log \in Seq(Events) /\ WindowOK
  BY DEF HistoryInv, TypeOK
<1>2. e \in Events /\ e.kind = "step" /\ e.of = "none"
  BY DEF Event, Events
<1>3. Fed(e) /\ Grows(e)
  <2>1. Fed(e)
    BY <1>1, <1>2, FedIs
  <2> QED BY <2>1 DEF Fed
<1>4. \A kind, of : e = Event(kind, of) <=> kind = "step" /\ of = "none"
  BY DEF Event
<1> HIDE DEF e
<1>5. DetectorTypeOK' /\ window' = window
  <2>1. signal' \in {Quiet, Notice} \cup Stops
    BY SignalType DEF ObserveStep
  <2> QED BY <1>1, <2>1 DEF ObserveStep, BumpStall, repeats, denials, DetectorTypeOK
<1>6. WindowOK'
  BY <1>1, <1>2, <1>3, <1>5, WindowStays
<1>7. Recorded(e)
  <2>1. ~IsNew(e)
    BY <1>4 DEF IsNew
  <2> QED BY <1>1, <1>2, <1>4, <2>1
          DEF Recorded, ObserveStep, BumpStall, repeats, denials, DetectorTypeOK
<1>8. Signal(OwnRule(e))
  <2>1. OwnRule(e) = Quiet
    BY <1>2 DEF OwnRule, HitNow
  <2> QED BY <2>1 DEF ObserveStep
<1> QED BY <1>1, <1>3, RecordedKeeps, <1>5, <1>6, <1>7, <1>8

(* An action: the window is the one after it was pushed.                    *)
LEMMA ActionKeeps ==
  ASSUME HistoryInv, NEW key \in Keys, ObserveAction(key), Feed("action", key)
  PROVE  HistoryInv'
<1> DEFINE e == Event("action", key)
<1>1. TypeOK /\ DetectorTypeOK /\ log \in Seq(Events) /\ WindowOK
  BY DEF HistoryInv, TypeOK
<1>2. e \in Events /\ e.kind = "action" /\ e.of = key
  BY DEF Event, Events
<1>3. Fed(e) /\ Grows(e)
  <2>1. Fed(e)
    BY <1>1, <1>2, FedIs
  <2> QED BY <2>1 DEF Fed
<1>4. \A kind, of : e = Event(kind, of) <=> kind = "action" /\ of = key
  BY DEF Event
<1> HIDE DEF e
<1>5. /\ WindowOK' /\ window' \in Seq(Keys) /\ Len(window') <= IDENTICAL_WINDOW
      /\ window' = Pushed(key)
  <2>1. window' = Pushed(key) /\ IDENTICAL_WINDOW \in Nat \ {0} /\ window \in Seq(Keys)
    BY <1>1, DetectorAssumption DEF ObserveAction, DetectorTypeOK
  <2>2. Grows(Event("action", key))
    BY <1>3 DEF e
  <2> QED BY <1>1, <2>1, <2>2, WindowGrows
<1> DEFINE hit == IsHit(Len(log))'
           own == IF hit THEN IF key \in repeat_noticed THEN Repeat ELSE Notice ELSE Quiet
<1>6. hit <=> Cardinality({i \in 1..Len(window') : window'[i] = key}) >= IDENTICAL_LIMIT
  <2>1. WindowOK' /\ (window \in Seq(Keys))' => HitsAreCounted'
    BY HitIs, PTL
  <2>2. (window \in Seq(Keys))' /\ log' \in Seq(Events) /\ log' # <<>> /\ log'[Len(log')] = Event("action", key)
    <3>1. log' \in Seq(Events) /\ log'[Len(log')] = e /\ Len(log') = Len(log) + 1 /\ Len(log) \in Nat
      BY <1>3, LogGrows
    <3>2. log' # <<>>
      BY <3>1
    <3> QED BY <1>5, <3>1, <3>2 DEF e
  <2> QED BY <1>5, <2>1, <2>2 DEF HitsAreCounted
<1>7. /\ BumpStall /\ Signal(own)
      /\ repeat_noticed' = IF hit THEN repeat_noticed \cup {key} ELSE repeat_noticed
      /\ edits_per_file' = edits_per_file /\ seen_observations' = seen_observations
      /\ seen_trees' = seen_trees /\ denial_counts' = denial_counts /\ removed' = removed
  <2>1. Cardinality({i \in 1..Len(window') : window'[i] = key}) \in Nat /\ IDENTICAL_LIMIT \in Nat
    <3>1. Len(window') \in Nat
      BY <1>5
    <3> QED BY <3>1, UpToIsFinite, DetectorAssumption
  <2> DEFINE few == Cardinality({i \in 1..Len(window') : window'[i] = key}) < IDENTICAL_LIMIT
  <2>2. hit <=> ~few
    BY <1>6, <2>1
  <2>3. /\ BumpStall
        /\ IF few THEN Signal(Quiet) /\ UNCHANGED repeat_noticed
           ELSE /\ Signal(IF key \in repeat_noticed THEN Repeat ELSE Notice)
                /\ repeat_noticed' = repeat_noticed \cup {key}
        /\ UNCHANGED <<edits_per_file, seen_observations, seen_trees, denials>>
    BY DEF ObserveAction
  <2> HIDE DEF hit, few
  <2>4. Signal(own) /\ repeat_noticed' = IF hit THEN repeat_noticed \cup {key} ELSE repeat_noticed
    <3>1. CASE few
      BY <2>2, <2>3, <3>1
    <3>2. CASE ~few
      BY <2>2, <2>3, <3>2
    <3> QED BY <3>1, <3>2
  <2> QED BY <2>3, <2>4 DEF denials
<1>8. Recorded(e)
  <2>1. ~IsNew(e)
    BY <1>4 DEF IsNew
  <2> HIDE DEF hit
  <2>2. \A k \in Keys : k \in repeat_noticed' <=> k \in repeat_noticed \/ (e = Event("action", k) /\ hit)
    BY <1>4, <1>7
  <2> QED BY <1>1, <1>2, <1>4, <1>7, <2>1, <2>2 DEF Recorded, BumpStall, DetectorTypeOK, hit
<1>9. Signal(OwnRule(e))
  <2>1. OwnRule(e) = own
    BY <1>2 DEF OwnRule, HitNow
  <2> HIDE DEF own
  <2> QED BY <1>7, <2>1
<1>10. DetectorTypeOK'
  <2>1. own \in {Quiet, Notice} \cup Stops
    BY DEF Stops
  <2> HIDE DEF own
  <2>2. signal' \in {Quiet, Notice} \cup Stops
    BY <1>7, <2>1, SignalType
  <2>3. repeat_noticed' \subseteq Keys
    BY <1>1, <1>7 DEF DetectorTypeOK
  <2> QED BY <1>1, <1>5, <1>7, <2>2, <2>3 DEF BumpStall, DetectorTypeOK
<1> QED BY <1>1, <1>3, <1>5, <1>8, <1>9, <1>10, RecordedKeeps

(* An edit.                                                                 *)
LEMMA EditKeeps ==
  ASSUME HistoryInv, NEW file \in Files, ObserveEdit(file), Feed("edit", file)
  PROVE  HistoryInv'
<1> DEFINE e == Event("edit", file)
<1>1. TypeOK /\ DetectorTypeOK /\ log \in Seq(Events) /\ WindowOK
  BY DEF HistoryInv, TypeOK
<1>2. e \in Events /\ e.kind = "edit" /\ e.of = file
  BY DEF Event, Events
<1>3. Fed(e) /\ Grows(e)
  <2>1. Fed(e)
    BY <1>1, <1>2, FedIs
  <2> QED BY <2>1 DEF Fed
<1>4. \A kind, of : e = Event(kind, of) <=> kind = "edit" /\ of = file
  BY DEF Event
<1> HIDE DEF e
<1>5. DetectorTypeOK' /\ window' = window
  <2>1. signal' \in {Quiet, Notice} \cup Stops
    BY SignalType DEF ObserveEdit, Stops
  <2> QED BY <1>1, <2>1 DEF ObserveEdit, repeats, progress, denials, DetectorTypeOK
<1>6. WindowOK'
  BY <1>1, <1>2, <1>3, <1>5, WindowStays
<1>7. Recorded(e)
  <2>1. ~IsNew(e)
    BY <1>4 DEF IsNew
  <2> QED BY <1>1, <1>2, <1>4, <2>1
          DEF Recorded, ObserveEdit, repeats, progress, denials, DetectorTypeOK
<1>8. Signal(OwnRule(e))
  <2>1. OwnRule(e) = IF edits_per_file'[file] > EDIT_CHURN_LIMIT THEN EditChurn ELSE Quiet
    BY <1>2 DEF OwnRule, HitNow
  <2> QED BY <2>1 DEF ObserveEdit
<1> QED BY <1>1, <1>3, RecordedKeeps, <1>5, <1>6, <1>7, <1>8

(* An observation: the only event that may find a stall and leave it.       *)
LEMMA ObservationKeeps ==
  ASSUME HistoryInv, NEW digest \in Digests, ObserveObservation(digest), Feed("observation", digest)
  PROVE  HistoryInv'
<1> DEFINE e == Event("observation", digest)
<1>1. TypeOK /\ DetectorTypeOK /\ log \in Seq(Events) /\ WindowOK
  BY DEF HistoryInv, TypeOK
<1>2. e \in Events /\ e.kind = "observation" /\ e.of = digest
  BY DEF Event, Events
<1>3. Fed(e) /\ Grows(e)
  <2>1. Fed(e)
    BY <1>1, <1>2, FedIs
  <2> QED BY <2>1 DEF Fed
<1>4. \A kind, of : e = Event(kind, of) <=> kind = "observation" /\ of = digest
  BY DEF Event
<1> HIDE DEF e
<1>5. DetectorTypeOK' /\ window' = window
  <2>1. signal' \in {Quiet, Notice} \cup Stops
    BY SignalType DEF ObserveObservation, Stops
  <2> QED BY <1>1, <2>1 DEF ObserveObservation, repeats, denials, DetectorTypeOK
<1>6. WindowOK'
  BY <1>1, <1>2, <1>3, <1>5, WindowStays
<1>7. Recorded(e)
  <2>1. IsNew(e) <=> digest \notin seen_observations
    BY <1>4 DEF IsNew
  <2> QED BY <1>1, <1>2, <1>4, <2>1
          DEF Recorded, ObserveObservation, repeats, denials, DetectorTypeOK
<1>8. Signal(OwnRule(e))
  <2>1. OwnRule(e) = Quiet
    BY <1>2 DEF OwnRule, HitNow
  <2> QED BY <2>1 DEF ObserveObservation
<1> QED BY <1>1, <1>3, RecordedKeeps, <1>5, <1>6, <1>7, <1>8

(* A tree digest.                                                           *)
LEMMA TreeKeeps ==
  ASSUME HistoryInv, NEW digest \in Trees, ObserveTree(digest), Feed("tree", digest)
  PROVE  HistoryInv'
<1> DEFINE e == Event("tree", digest)
<1>1. TypeOK /\ DetectorTypeOK /\ log \in Seq(Events) /\ WindowOK
  BY DEF HistoryInv, TypeOK
<1>2. e \in Events /\ e.kind = "tree" /\ e.of = digest
  BY DEF Event, Events
<1>3. Fed(e) /\ Grows(e)
  <2>1. Fed(e)
    BY <1>1, <1>2, FedIs
  <2> QED BY <2>1 DEF Fed
<1>4. \A kind, of : e = Event(kind, of) <=> kind = "tree" /\ of = digest
  BY DEF Event
<1> HIDE DEF e
<1>5. DetectorTypeOK' /\ window' = window
  <2>1. signal' \in {Quiet, Notice} \cup Stops
    BY SignalType DEF ObserveTree, Stops
  <2> QED BY <1>1, <2>1 DEF ObserveTree, repeats, denials, DetectorTypeOK
<1>6. WindowOK'
  BY <1>1, <1>2, <1>3, <1>5, WindowStays
<1>7. Recorded(e)
  <2>1. IsNew(e) <=> digest \notin seen_trees
    BY <1>4 DEF IsNew
  <2> QED BY <1>1, <1>2, <1>4, <2>1
          DEF Recorded, ObserveTree, repeats, denials, DetectorTypeOK
<1>8. Signal(OwnRule(e))
  <2>1. OwnRule(e) = Quiet
    BY <1>2 DEF OwnRule, HitNow
  <2> QED BY <2>1 DEF ObserveTree
<1> QED BY <1>1, <1>3, RecordedKeeps, <1>5, <1>6, <1>7, <1>8

(* A denial.                                                                *)
LEMMA DenialKeeps ==
  ASSUME HistoryInv, NEW cap \in Capabilities, ObserveDenial(cap), Feed("denial", cap)
  PROVE  HistoryInv'
<1> DEFINE e == Event("denial", cap)
<1>1. TypeOK /\ DetectorTypeOK /\ log \in Seq(Events) /\ WindowOK
  BY DEF HistoryInv, TypeOK
<1>2. e \in Events /\ e.kind = "denial" /\ e.of = cap
  BY DEF Event, Events
<1>3. Fed(e) /\ Grows(e)
  <2>1. Fed(e)
    BY <1>1, <1>2, FedIs
  <2> QED BY <2>1 DEF Fed
<1>4. \A kind, of : e = Event(kind, of) <=> kind = "denial" /\ of = cap
  BY DEF Event
<1> HIDE DEF e
<1>5. DetectorTypeOK' /\ window' = window
  <2>1. signal' \in {Quiet, Notice} \cup Stops
    BY SignalType DEF ObserveDenial, Stops
  <2> QED BY <1>1, <2>1 DEF ObserveDenial, repeats, progress, DetectorTypeOK
<1>6. WindowOK'
  BY <1>1, <1>2, <1>3, <1>5, WindowStays
<1>7. Recorded(e)
  <2>1. ~IsNew(e)
    BY <1>4 DEF IsNew
  <2> QED BY <1>1, <1>2, <1>4, <2>1
          DEF Recorded, ObserveDenial, repeats, progress, DetectorTypeOK
<1>8. Signal(OwnRule(e))
  <2>1. OwnRule(e) = IF denial_counts'[cap] >= DENIAL_LIMIT THEN Denied ELSE Quiet
    BY <1>2 DEF OwnRule, HitNow
  <2> QED BY <2>1 DEF ObserveDenial
<1> QED BY <1>1, <1>3, RecordedKeeps, <1>5, <1>6, <1>7, <1>8

(* A step that changes nothing.                                             *)
LEMMA StutterKeeps ==
  ASSUME HistoryInv, UNCHANGED <<detector, log, ended>>
  PROVE  HistoryInv'
<1>1. /\ log' = log /\ ended' = ended /\ window' = window /\ repeat_noticed' = repeat_noticed
      /\ edits_per_file' = edits_per_file /\ steps_without_progress' = steps_without_progress
      /\ seen_observations' = seen_observations /\ seen_trees' = seen_trees
      /\ denial_counts' = denial_counts /\ removed' = removed /\ signal' = signal
  BY DEF detector, repeats, progress, denials
<1>2. /\ \A x : Places(x)' = Places(x)
      /\ \A K, i : OfKind(K, i)' = OfKind(K, i)
      /\ \A i : Same(i)' = Same(i)
  BY <1>1 DEF Places, OfKind, Same
<1>3. \A K, n, i : Latest(K, n, i)' = Latest(K, n, i)
  BY <1>2 DEF Latest
<1>4. \A i : Actions(i)' = Actions(i) /\ IsHit(i)' = IsHit(i) /\ IsNews(i)' = IsNews(i)
  BY <1>1, <1>2, <1>3 DEF Actions, IsHit, IsNews
<1>5. Stall' = Stall
  <2>1. OfKind({"step", "action"}, Len(log))' = OfKind({"step", "action"}, Len(log))
    BY <1>1 DEF OfKind
  <2> QED BY <1>1, <1>4, <2>1 DEF Stall
<1>6. Ruling' = Ruling
  BY <1>1, <1>5 DEF Ruling, Same, IsHit, Latest, OfKind
<1>7. TypeOK'
  BY <1>1 DEF HistoryInv, TypeOK, DetectorTypeOK
<1>8. CountsOK' /\ SeenOK'
  BY <1>1, <1>2 DEF HistoryInv, CountsOK, SeenOK
<1>9. NoticedOK'
  BY <1>1, <1>2, <1>4 DEF HistoryInv, NoticedOK
<1>10. WindowOK'
  <2>1. Actions(Len(log))' = Actions(Len(log)) /\ Newest' = Newest
    BY <1>1 DEF Actions, Newest, Latest, OfKind
  <2> QED BY <1>1, <1>4, <2>1 DEF HistoryInv, WindowOK, Newest
<1>11. StallOK' /\ StallWasSignalled' /\ FollowsTheRules' /\ DroppedSignalIsNoStop'
  BY <1>1, <1>5, <1>6 DEF HistoryInv, StallOK, StallWasSignalled, FollowsTheRules, DroppedSignalIsNoStop
<1> QED BY <1>7, <1>8, <1>9, <1>10, <1>11 DEF HistoryInv

(* Nothing was fed.                                                         *)
LEMMA InitHolds == Init => HistoryInv
<1> SUFFICES ASSUME Init PROVE HistoryInv
  OBVIOUS
<1>1. /\ log = <<>> /\ ended = FALSE /\ Len(log) = 0 /\ 1..Len(log) = {} /\ Len(window) = 0 /\ window = <<>>
      /\ log \in Seq(Events) /\ window \in Seq(Keys)
  BY DEF Init, DetectorInit
<1>2. MaxEvents \in Nat /\ IDENTICAL_WINDOW \in Nat /\ NO_PROGRESS_LIMIT \in Nat /\ NO_PROGRESS_LIMIT # 0
  BY HistoryAssumption, DetectorAssumption
<1>3. TypeOK
  <2>1. /\ repeat_noticed = {} /\ edits_per_file = [f \in Files |-> 0] /\ steps_without_progress = 0
        /\ seen_observations = {} /\ seen_trees = {} /\ denial_counts = [c \in Capabilities |-> 0]
        /\ removed = {} /\ signal = Quiet
    BY DEF Init, DetectorInit
  <2>2. edits_per_file \in [Files -> Nat] /\ denial_counts \in [Capabilities -> Nat]
    BY <2>1
  <2>3. Len(window) <= IDENTICAL_WINDOW /\ Len(log) <= MaxEvents
    BY <1>1, <1>2
  <2> QED BY <1>1, <2>1, <2>2, <2>3 DEF TypeOK, DetectorTypeOK
<1>4. \A x : Places(x) = {}
  BY <1>1 DEF Places
<1>5. Cardinality({}) = 0
  BY FS_EmptySet
<1>6. CountsOK /\ SeenOK /\ NoticedOK
  BY <1>4, <1>5 DEF CountsOK, SeenOK, NoticedOK, Init, DetectorInit
<1>7. \A K : OfKind(K, Len(log)) = {}
  BY <1>1 DEF OfKind
<1>8. WindowOK
  <2>1. Actions(Len(log)) = 0 /\ Newest = {}
    BY <1>5, <1>7 DEF Actions, Newest, Latest
  <2>2. [k \in 1..Len(window) |-> 0] \in [1..Len(window) -> Newest] /\ 1..Len(window) = {}
    BY <1>1
  <2>3. /\ \A k \in 1..Len(window) : FALSE
        /\ \A j \in Newest : FALSE
    BY <2>1, <2>2
  <2>4. Len(window) <= IDENTICAL_WINDOW /\ Len(window) <= Actions(Len(log)) /\ Len(window) = Actions(Len(log))
    BY <1>1, <1>2, <2>1
  <2> QED BY <2>2, <2>3, <2>4 DEF WindowOK, Newest
<1>9. StallOK /\ StallWasSignalled
  <2>1. Stall = Cardinality({})
    BY <1>7 DEF Stall
  <2> QED BY <1>2, <1>5, <2>1 DEF StallOK, StallWasSignalled, Init, DetectorInit
<1>10. FollowsTheRules /\ DroppedSignalIsNoStop
  BY <1>1 DEF FollowsTheRules, DroppedSignalIsNoStop, Ruling, Init, DetectorInit
<1> QED BY <1>3, <1>6, <1>8, <1>9, <1>10 DEF HistoryInv

-----------------------------------------------------------------------------
(***************************************************************************)
(* The theorems.                                                            *)
(***************************************************************************)

(* Whatever is fed in whatever order: counters, sets and window are those   *)
(* of the log, and whoever goes on has not stalled (observe, lib.rs).       *)
THEOREM Inductive == Spec => []HistoryInv
<1>1. HistoryInv /\ [Next]_<<detector, log, ended>> => HistoryInv'
  <2> SUFFICES ASSUME HistoryInv, [Next]_<<detector, log, ended>> PROVE HistoryInv'
    OBVIOUS
  <2>1. CASE ObserveStep /\ Feed("step", "none")
    BY <2>1, StepKeeps
  <2>2. CASE \E key \in Keys : ObserveAction(key) /\ Feed("action", key)
    BY <2>2, ActionKeeps
  <2>3. CASE \E file \in Files : ObserveEdit(file) /\ Feed("edit", file)
    BY <2>3, EditKeeps
  <2>4. CASE \E digest \in Digests : ObserveObservation(digest) /\ Feed("observation", digest)
    BY <2>4, ObservationKeeps
  <2>5. CASE \E tree \in Trees : ObserveTree(tree) /\ Feed("tree", tree)
    BY <2>5, TreeKeeps
  <2>6. CASE \E cap \in Capabilities : ObserveDenial(cap) /\ Feed("denial", cap)
    BY <2>6, DenialKeeps
  <2>7. CASE UNCHANGED <<detector, log, ended>>
    BY <2>7, StutterKeeps
  <2> QED BY <2>1, <2>2, <2>3, <2>4, <2>5, <2>6, <2>7 DEF Next
<1> QED BY <1>1, InitHolds, PTL DEF Spec

(* The detector's state, the log and the end keep their types, the window   *)
(* its length (lib.rs LoopDetector).                                        *)
THEOREM TypeCorrect == Spec => []TypeOK
<1>1. HistoryInv => TypeOK
  BY DEF HistoryInv
<1> QED BY <1>1, Inductive, PTL

(* For every limit, window and number of events, the signal is the ruling   *)
(* of design 2.6 over the whole history (lib.rs observe).                   *)
THEOREM FollowsTheRulesHolds == Spec => []FollowsTheRules
<1>1. HistoryInv => FollowsTheRules
  BY DEF HistoryInv
<1> QED BY <1>1, Inductive, PTL

(* The signal that the run loop drops, that of an observation, is never a   *)
(* stop (driver.rs).                                                        *)
THEOREM DroppedSignalIsNoStopHolds == Spec => []DroppedSignalIsNoStop
<1>1. HistoryInv => DroppedSignalIsNoStop
  BY DEF HistoryInv
<1> QED BY <1>1, Inductive, PTL
=============================================================================
