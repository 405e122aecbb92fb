---------------------------- MODULE JournalProofs ----------------------------
(***************************************************************************)
(* Proofs about Journal, for every value of its constants: type            *)
(* correctness, an inductive invariant, the three safety invariants, and    *)
(* the refinement to EvidenceLog.                                           *)
(***************************************************************************)
EXTENDS Journal, SequenceTheorems, TLAPS

Opening == {"start", "made", "entered", "checked", "created", "listed"}
Serving == {"ready", "syncing", "tmp", "named"}

(* Where the writer stands says which entries were synced.                  *)
EntriesOK ==
  /\ pc \in {"entered", "checked", "created", "listed"} => attemptEntry = "durable"
  /\ pc \in Serving \cup {"done"} \/ file # <<>> =>
       attemptEntry = "durable" /\ fileEntries = "durable"

(* A writer that is not poisoned has lost nothing and left nothing torn.    *)
PoisonOK ==
  /\ pc \in Opening => file = <<>> /\ ~poison
  /\ pc \in {"syncing", "tmp", "named"} => ~poison
  /\ pc \in Opening \cup Serving /\ ~poison => ~torn /\ ~dropped
  /\ pc = "syncing" => synced < Len(file)

(* Nothing is released, and nothing stops the run, before commit.           *)
ReleaseOK ==
  /\ pc \in Opening \cup Serving => released = None
  /\ \A i \in 1..Len(file) : file[i].kind = "RunStopped" => pc \in {"syncing", "done", "dead"}

(* Only the blob put is working on is between absent and durable.           *)
BlobsOK ==
  /\ \A p \in held : blob[p] = "durable"
  /\ pc \in {"tmp", "named"} => putting \in Payloads /\ blob[putting] = pc
  /\ pc \in Opening \cup Serving /\ ~poison =>
       \A p \in Payloads : blob[p] \in {"absent", "durable"} \/ p = putting
  /\ pc \in Opening \cup {"ready", "syncing"} => putting = None

IInv ==
  /\ TypeOK
  /\ EntriesOK
  /\ PoisonOK
  /\ ReleaseOK
  /\ BlobsOK
  /\ WriteAhead
  /\ CommitPoint
  /\ Verifies

(* start and what it calls: the steps that make the attempt and its entries.  *)
LEMMA OpeningSteps ==
  ASSUME IInv,
         \/ CreateAttemptDir \/ SyncRunDir \/ CheckAttemptDir
         \/ CreateJournalFile \/ CreateBlobsDir \/ SyncAttemptDir \/ StartFails
  PROVE  IInv'
<1> USE JournalAssumption DEF IInv, TypeOK, EntriesOK, PoisonOK, ReleaseOK, BlobsOK, WriteAhead, CommitPoint,
        Verifies, Opening, Serving, Last, starting, lines, store, callers
<1>1. CASE CreateAttemptDir
  BY <1>1 DEF CreateAttemptDir, Advance, PCs, Entry
<1>2. CASE SyncRunDir
  BY <1>2 DEF SyncRunDir, Advance, PCs, Entry
<1>3. CASE CheckAttemptDir
  BY <1>3 DEF CheckAttemptDir, Advance, PCs
<1>4. CASE CreateJournalFile
  BY <1>4 DEF CreateJournalFile, Advance, PCs, Entry
<1>5. CASE CreateBlobsDir
  BY <1>5 DEF CreateBlobsDir, Advance, PCs
<1>6. CASE SyncAttemptDir
  BY <1>6 DEF SyncAttemptDir, Advance, PCs, Entry
<1>7. CASE StartFails
  BY <1>7 DEF StartFails, Refuse, PCs
<1> QED BY <1>1, <1>2, <1>3, <1>4, <1>5, <1>6, <1>7

(* DirBlobs::put: a blob is durable before a line can refer to it.          *)
LEMMA BlobSteps ==
  ASSUME IInv, PutRename \/ PutSyncDir \/ PutFails \/ \E p \in Payloads : PutTmp(p) \/ PutExisting(p)
  PROVE  IInv'
<1> USE JournalAssumption DEF IInv, TypeOK, EntriesOK, PoisonOK, ReleaseOK, BlobsOK, WriteAhead, CommitPoint,
        Verifies, Opening, Serving, Last, starting, lines, store, callers
<1>1. CASE PutRename
  BY <1>1 DEF PutRename, Advance, PCs, BlobState
<1>2. CASE PutSyncDir
  BY <1>2 DEF PutSyncDir, Advance, PCs, BlobState, PayloadRef
<1>3. CASE PutFails
  BY <1>3 DEF PutFails, Fail, Refuse, CanCall, PCs, PayloadRef
<1>4. ASSUME NEW p \in Payloads, PutTmp(p) PROVE IInv'
  BY <1>4 DEF PutTmp, CanCall, PCs, BlobState, PayloadRef
<1>5. ASSUME NEW p \in Payloads, PutExisting(p) PROVE IInv'
  BY <1>5 DEF PutExisting, CanCall
<1> QED BY <1>1, <1>2, <1>3, <1>4, <1>5

(* A line goes to the page cache only: nothing durable changes.             *)
LEMMA WriteStep ==
  ASSUME IInv, NEW rec \in Record, Write(rec), (file = <<>>) = (rec.kind = "RunStarted")
  PROVE  IInv'
<1> USE JournalAssumption DEF IInv, Write, CanCall
<1>1. /\ file' \in Seq(Record) /\ file' # <<>> /\ Len(file') = Len(file) + 1
      /\ \A i \in 1..Len(file) : file'[i] = file[i]
      /\ file'[Len(file) + 1] = rec
  BY AppendProperties DEF TypeOK
<1>2. TypeOK'
  BY <1>1 DEF TypeOK, PCs, store, starting, callers
<1>3. EntriesOK' /\ PoisonOK' /\ BlobsOK'
  BY <1>1 DEF TypeOK, EntriesOK, PoisonOK, BlobsOK, Opening, Serving, starting, store, NeedsFsync
<1>4. ReleaseOK'
  BY <1>1 DEF TypeOK, ReleaseOK, Opening, Serving, NeedsFsync
<1>5. WriteAhead'
  BY <1>1 DEF TypeOK, WriteAhead, Journaled, callers
<1>6. CommitPoint'
  BY <1>1 DEF TypeOK, CommitPoint, ReleaseOK, Opening, Serving
<1>7. Verifies'
  BY <1>1 DEF TypeOK, Verifies, BlobsOK, ReleaseOK, store
<1> QED BY <1>2, <1>3, <1>4, <1>5, <1>6, <1>7

(* start, append, append_intent and commit write one line each.             *)
LEMMA WriteSteps ==
  ASSUME IInv,
         \/ \E b \in PayloadRef :
              \/ WriteHeader(b)
              \/ \E kind \in {"Note", "ToolFinished"} : AppendEvent(kind, b)
              \/ \E c \in Calls : AppendIntent(c, b)
         \/ \E o \in Outcomes : Commit(o)
  PROVE  IInv'
<1>1. ASSUME NEW b \in PayloadRef, WriteHeader(b) PROVE IInv'
  BY <1>1, WriteStep DEF WriteHeader, Record
<1>2. ASSUME NEW b \in PayloadRef, NEW kind \in {"Note", "ToolFinished"}, AppendEvent(kind, b)
      PROVE  IInv'
  BY <1>2, WriteStep DEF AppendEvent, Record
<1>3. ASSUME NEW b \in PayloadRef, NEW c \in Calls, AppendIntent(c, b) PROVE IInv'
  BY <1>3, WriteStep DEF AppendIntent, Record
<1>4. ASSUME NEW o \in Outcomes, Commit(o) PROVE IInv'
  BY <1>4, WriteStep DEF Commit, Record
<1> QED BY <1>1, <1>2, <1>3, <1>4

(* A failed write or fsync poisons the writer; a poisoned commit releases   *)
(* Unreadable.                                                              *)
LEMMA FailureSteps ==
  ASSUME IInv, CommitPoisoned \/ SyncFails \/ \E kind \in Kinds : WriteFails(kind)
  PROVE  IInv'
<1> USE JournalAssumption DEF IInv, TypeOK, EntriesOK, PoisonOK, ReleaseOK, BlobsOK, WriteAhead,
        CommitPoint, Verifies, Opening, Serving, Last, starting, lines, store, callers
<1>1. CASE CommitPoisoned
  BY <1>1 DEF CommitPoisoned, PCs
<1>2. CASE SyncFails
  BY <1>2 DEF SyncFails, Fail, Refuse, PCs
<1>3. ASSUME NEW kind \in Kinds, WriteFails(kind) PROVE IInv'
  BY <1>3 DEF WriteFails, Fail, Refuse, PCs, CanCall
<1> QED BY <1>1, <1>2, <1>3

(* A successful fsync of a file that lost nothing makes every line durable. *)
LEMMA SyncSteps ==
  ASSUME IInv, SyncReturns \/ IntentReturns \/ CommitReturns
  PROVE  IInv'
<1> USE JournalAssumption DEF IInv, TypeOK, EntriesOK, PoisonOK, ReleaseOK, BlobsOK, WriteAhead,
        CommitPoint, Verifies, Opening, Serving, Last, starting, lines, store, callers, SyncData
<1>1. CASE SyncReturns
  BY <1>1 DEF SyncReturns, PCs, Journaled
<1>2. CASE IntentReturns
  BY <1>2 DEF IntentReturns, PCs, Journaled, Record
<1>3. CASE CommitReturns
  BY <1>3 DEF CommitReturns, PCs, Record, Journaled
<1> QED BY <1>1, <1>2, <1>3

(* The caller spends or drops a Journaled permission.                       *)
LEMMA CallerSteps ==
  ASSUME IInv, NEW j \in minted, Invoke(j) \/ Drop(j)
  PROVE  IInv'
BY DEF IInv, TypeOK, EntriesOK, PoisonOK, ReleaseOK, BlobsOK, WriteAhead, CommitPoint,
       Verifies, Last, starting, lines, store, Invoke, Drop

(* A kill leaves the page cache; a power loss keeps the synced lines and a   *)
(* prefix of the others, and nothing that was permitted is taken away.      *)
LEMMA CrashSteps ==
  ASSUME IInv, Kill \/ PowerLoss
  PROVE  IInv'
<1> USE JournalAssumption DEF IInv, TypeOK, EntriesOK, PoisonOK, ReleaseOK, BlobsOK, WriteAhead,
        CommitPoint, Verifies, Opening, Serving, Last, starting, lines, store, callers
<1>1. CASE Kill
  BY <1>1 DEF Kill, PCs, PayloadRef
<1>2. CASE PowerLoss
  <2>1. PICK n \in synced..Len(file) :
          /\ file' = SubSeq(file, 1, n) /\ synced' = n
          /\ torn' \in IF n < Len(file) \/ torn THEN BOOLEAN ELSE {FALSE}
    BY <1>2 DEF PowerLoss
  <2>2. /\ file' \in Seq(Record) /\ Len(file') = n
        /\ \A i \in 1..n : file'[i] = file[i]
    BY <2>1, SubSeqProperties
  <2>3. TypeOK'
    <3>1. blob' \in [Payloads -> BlobState] /\ torn' \in BOOLEAN
      BY <1>2, <2>1 DEF PowerLoss
    <3>2. attemptEntry' \in Entry /\ fileEntries' \in Entry
      BY <1>2 DEF PowerLoss, Survivors, Entry
    <3> QED BY <1>2, <2>1, <2>2, <3>1, <3>2 DEF PowerLoss, PCs, PayloadRef
  <2>4. \A p \in Payloads : blob[p] = "durable" => blob'[p] = "durable"
    BY <1>2 DEF PowerLoss
  <2>5. EntriesOK' /\ PoisonOK' /\ ReleaseOK' /\ BlobsOK'
    BY <1>2, <2>1, <2>2 DEF PowerLoss, Survivors
  <2>6. WriteAhead'
    BY <1>2, <2>1, <2>2 DEF PowerLoss, Journaled
  <2>7. CommitPoint'
    <3>1. released' = released
      BY <1>2 DEF PowerLoss
    <3>2. ASSUME released \in Outcomes
          PROVE  /\ synced' = Len(file') /\ file' # <<>> /\ ~torn'
                 /\ Last'.kind = "RunStopped" /\ Last'.of = released
      <4>1. n = Len(file) /\ Len(file) > 0
        BY <3>2, <2>1, EmptySeq
      <4>2. Len(file') = n /\ file' # <<>> /\ file'[n] = file[n]
        BY <4>1, <2>2, EmptySeq
      <4>3. torn' \in {FALSE}
        <5>1. ~torn /\ ~(n < Len(file))
          BY <3>2, <4>1
        <5> QED BY <5>1, <2>1, Zenon
      <4> QED BY <3>2, <4>1, <4>2, <4>3, <2>1
    <3>3. \A i \in 1..Len(file') :
            file'[i].kind = "RunStopped" => released \in {None, Unreadable, file'[i].of}
      BY <2>1, <2>2
    <3> QED BY <3>1, <3>2, <3>3
  <2>8. Verifies'
    BY <1>2, <2>1, <2>2, <2>4 DEF PowerLoss, Record, PayloadRef
  <2> QED BY <2>3, <2>5, <2>6, <2>7, <2>8
<1> QED BY <1>1, <1>2

(* The writer before start satisfies the inductive invariant.               *)
LEMMA InitStep == Init => IInv
<1> SUFFICES ASSUME Init PROVE IInv
  OBVIOUS
<1>1. file = <<>> /\ file \in Seq(Record) /\ Len(file) = 0
  BY EmptySeq DEF Init
<1>2. TypeOK
  <2>1. blob \in [Payloads -> BlobState]
    BY DEF Init, BlobState
  <2>2. pc \in PCs /\ attemptEntry \in Entry /\ fileEntries \in Entry
    BY DEF Init, PCs, Entry
  <2>3. synced \in 0..Len(file) /\ putting \in PayloadRef /\ held \subseteq Payloads
    BY <1>1 DEF Init, PayloadRef
  <2>4. minted \subseteq Journaled /\ invoked \subseteq Journaled
    BY DEF Init
  <2>5. torn \in BOOLEAN /\ dropped \in BOOLEAN /\ poison \in BOOLEAN
    BY DEF Init
  <2>6. released \in Outcomes \cup {None, Unreadable, CouldNotRun}
    BY DEF Init
  <2> QED BY <1>1, <2>1, <2>2, <2>3, <2>4, <2>5, <2>6 DEF TypeOK
<1>3. EntriesOK /\ PoisonOK /\ ReleaseOK /\ BlobsOK
  BY <1>1 DEF Init, EntriesOK, PoisonOK, ReleaseOK, BlobsOK, Opening, Serving
<1>4. WriteAhead /\ CommitPoint /\ Verifies
  BY <1>1, JournalAssumption DEF Init, WriteAhead, CommitPoint, Verifies
<1> QED BY <1>2, <1>3, <1>4 DEF IInv

(* Every step of the writer, and a stutter, preserves the invariant.        *)
LEMMA NextStep == IInv /\ [Next]_vars => IInv'
<1> SUFFICES ASSUME IInv, [Next]_vars PROVE IInv'
  OBVIOUS
<1>1. CASE UNCHANGED vars
  BY <1>1 DEF IInv, TypeOK, EntriesOK, PoisonOK, ReleaseOK, BlobsOK, WriteAhead, CommitPoint,
              Verifies, Last, vars, starting, lines, store, callers
<1>2. CASE Next
  BY <1>2, OpeningSteps, BlobSteps, WriteSteps, FailureSteps, SyncSteps, CallerSteps, CrashSteps
     DEF Next, PayloadRef
<1> QED BY <1>1, <1>2

(* The inductive invariant holds of every behaviour of the writer.          *)
THEOREM Inductive == Spec => []IInv
BY InitStep, NextStep, PTL DEF Spec

(* Every variable keeps its type.                                           *)
THEOREM TypeCorrect == Spec => []TypeOK
<1>1. IInv => TypeOK
  BY DEF IInv
<1> QED BY <1>1, Inductive, PTL

(* append_intent: no call was or can be executed whose intent a crash could *)
(* still take away, whatever failed before and wherever the crash comes.    *)
THEOREM WriteAheadHolds == Spec => []WriteAhead
<1>1. IInv => WriteAhead
  BY DEF IInv
<1> QED BY <1>1, Inductive, PTL

(* commit: an outcome is released only with its record on disk.             *)
THEOREM CommitPointHolds == Spec => []CommitPoint
<1>1. IInv => CommitPoint
  BY DEF IInv
<1> QED BY <1>1, Inductive, PTL

(* create_with, put, write_record: what is on disk is reachable and verifies. *)
THEOREM EvidenceReadableHolds == Spec => []EvidenceReadable
<1>1. IInv => EvidenceReadable
  <2> SUFFICES ASSUME IInv PROVE EvidenceReadable
    OBVIOUS
  <2>1. synced > 0 => file # <<>>
    BY EmptySeq DEF IInv, TypeOK
  <2> QED BY <2>1 DEF IInv, EntriesOK, EvidenceReadable
<1> QED BY <1>1, Inductive, PTL

-----------------------------------------------------------------------------
(* The refinement.  The ledger is the part of the file that is on disk.     *)
Ledger == SubSeq(file, 1, synced)

(* The first n elements of a sequence.                                      *)
LEMMA PrefixProperties ==
  ASSUME NEW S, NEW s \in Seq(S), NEW n \in 0..Len(s)
  PROVE  /\ SubSeq(s, 1, n) \in Seq(S) /\ Len(SubSeq(s, 1, n)) = n
         /\ \A i \in 1..n : SubSeq(s, 1, n)[i] = s[i]
BY SubSeqProperties

(* Two sequences that agree on 1..m have the same prefix of length m.       *)
LEMMA PrefixAgree ==
  ASSUME NEW S, NEW s \in Seq(S), NEW t \in Seq(S),
         NEW m \in 0..Len(s), m <= Len(t), \A i \in 1..m : s[i] = t[i]
  PROVE  SubSeq(s, 1, m) = SubSeq(t, 1, m)
<1> DEFINE u == SubSeq(s, 1, m)
           v == SubSeq(t, 1, m)
<1>1. u \in Seq(S) /\ Len(u) = m /\ \A i \in 1..m : u[i] = s[i]
  BY PrefixProperties
<1>2. v \in Seq(S) /\ Len(v) = m /\ \A i \in 1..m : v[i] = t[i]
  BY PrefixProperties
<1> HIDE DEF u, v
<1>3. u = v
  BY <1>1, <1>2, SeqEqual
<1> QED BY <1>3 DEF u, v

(* Lines added to the file, or made durable, only extend the ledger.        *)
LEMMA LedgerGrows ==
  ASSUME TypeOK, TypeOK', synced <= synced', \A i \in 1..synced : file'[i] = file[i]
  PROVE  /\ Len(Ledger) <= Len(Ledger')
         /\ Ledger = SubSeq(Ledger', 1, Len(Ledger))
         /\ synced' = synced => Ledger' = Ledger
<1> DEFINE old == Ledger
           new == Ledger'
<1>1. old \in Seq(Record) /\ Len(old) = synced /\ \A i \in 1..synced : old[i] = file[i]
  BY PrefixProperties DEF TypeOK, Ledger
<1>2. new \in Seq(Record) /\ Len(new) = synced' /\ \A i \in 1..synced' : new[i] = file'[i]
  BY PrefixProperties DEF TypeOK, Ledger
<1>3. synced \in Nat /\ synced' \in Nat
  BY DEF TypeOK
<1> HIDE DEF old, new
<1>4. SubSeq(new, 1, Len(old)) = SubSeq(old, 1, Len(old))
  BY <1>1, <1>2, <1>3, PrefixAgree
<1>5. SubSeq(old, 1, Len(old)) = old
  BY <1>1, SubSeqFull
<1>6. ASSUME synced' = synced PROVE new = old
  BY <1>1, <1>2, <1>3, <1>6, SeqEqual
<1> QED BY <1>1, <1>2, <1>3, <1>4, <1>5, <1>6 DEF old, new

(* Before start nothing is on disk: the evidence log is empty too.          *)
LEMMA RefinementInit == Init => Evidence!Init
BY SubSeqEmpty DEF Init, Evidence!Init

(* Every step of the writer is a step of the evidence log, or none.         *)
LEMMA RefinementStep ==
  ASSUME IInv, IInv', Next
  PROVE  [Evidence!Next]_(Evidence!evidence)
<1> USE JournalAssumption DEF Evidence!evidence, Evidence!Next
<1>1. TypeOK /\ TypeOK'
  BY DEF IInv
<1>2. ASSUME UNCHANGED <<file, synced, invoked>>,
             released' = released \/ (released = None /\ released' \in {Unreadable, CouldNotRun})
      PROVE  [Evidence!Next]_(Evidence!evidence)
  BY <1>2 DEF Evidence!Downgrade
<1>3. ASSUME UNCHANGED <<invoked, released>>, released \notin Outcomes \/ synced' = synced,
             synced <= synced', \A i \in 1..synced : file'[i] = file[i]
      PROVE  [Evidence!Next]_(Evidence!evidence)
  BY <1>1, <1>3, LedgerGrows DEF Ledger, Evidence!Extend, Evidence!Grows
<1>4. CASE \/ CreateAttemptDir \/ SyncRunDir \/ CheckAttemptDir
           \/ CreateJournalFile \/ CreateBlobsDir \/ SyncAttemptDir
           \/ PutRename \/ PutSyncDir \/ Kill
           \/ \E p \in Payloads : PutTmp(p) \/ PutExisting(p)
  BY <1>2, <1>4 DEF CreateAttemptDir, SyncRunDir, CheckAttemptDir, CreateJournalFile,
     CreateBlobsDir, SyncAttemptDir, PutRename, PutSyncDir, Kill, PutTmp, PutExisting,
     lines, callers
<1>5. CASE StartFails \/ PutFails \/ CommitPoisoned \/ SyncFails \/ \E kind \in Kinds : WriteFails(kind)
  BY <1>2, <1>5 DEF StartFails, PutFails, CommitPoisoned, SyncFails, WriteFails, Fail, Refuse,
     CanCall, lines, callers, IInv, ReleaseOK, Opening, Serving
<1>6. ASSUME NEW rec \in Record, Write(rec) PROVE [Evidence!Next]_(Evidence!evidence)
  <2>1. \A i \in 1..synced : file'[i] = file[i]
    BY <1>1, <1>6, AppendProperties DEF Write, TypeOK
  <2> QED BY <1>1, <1>3, <1>6, <2>1 DEF Write, callers, TypeOK
<1>7. CASE \/ \E b \in PayloadRef :
                \/ WriteHeader(b)
                \/ \E kind \in {"Note", "ToolFinished"} : AppendEvent(kind, b)
                \/ \E c \in Calls : AppendIntent(c, b)
           \/ \E o \in Outcomes : Commit(o)
  BY <1>6, <1>7 DEF WriteHeader, AppendEvent, AppendIntent, Commit, Record, PayloadRef
<1>8. CASE SyncReturns \/ IntentReturns
  <2>1. UNCHANGED <<file, invoked, released>>
    BY <1>8 DEF SyncReturns, IntentReturns, callers
  <2>2. released \notin Outcomes /\ synced <= synced'
    BY <1>1, <1>8 DEF SyncReturns, IntentReturns, SyncData, TypeOK, IInv, ReleaseOK, Opening, Serving
  <2> QED BY <1>3, <2>1, <2>2
<1>9. CASE CommitReturns
  <2>1. file' = file /\ synced' = Len(file) /\ file # <<>> /\ released = None
    BY <1>9, EmptySeq DEF CommitReturns, SyncData, IInv, TypeOK, PoisonOK, ReleaseOK, Opening, Serving
  <2>2. Ledger' = file
    BY <1>1, <2>1, SubSeqFull DEF TypeOK, Ledger
  <2>3. Evidence!Grows
    BY <1>1, <2>1, LedgerGrows DEF Ledger, Evidence!Grows, TypeOK
  <2>4. Last.of \in Outcomes /\ released' = Last.of /\ Last.kind = "RunStopped"
    <3>1. Last \in Record
      BY <2>1, EmptySeq DEF Last, IInv, TypeOK
    <3> QED BY <3>1, <1>9 DEF CommitReturns, Record
  <2>5. Evidence!Ends(Ledger', Last.of)
    BY <2>1, <2>2, <2>4 DEF Evidence!Ends, Last
  <2> QED BY <1>9, <2>1, <2>3, <2>4, <2>5 DEF Evidence!Conclude, CommitReturns, callers, Ledger, Evidence!Ends
<1>10. ASSUME NEW j \in minted, Invoke(j) PROVE [Evidence!Next]_(Evidence!evidence)
  <2>1. j.seq \in 1..synced /\ file[j.seq].kind = "ToolStarted" /\ file[j.seq].of = j.call
        /\ j \notin invoked /\ j = [seq |-> j.seq, call |-> j.call]
    BY <1>10 DEF IInv, TypeOK, WriteAhead, Journaled
  <2>2. Len(Ledger) = synced /\ Ledger[j.seq] = file[j.seq]
    BY <1>1, <2>1, PrefixProperties DEF TypeOK, Ledger
  <2>3. Evidence!Perform
    BY <1>10, <2>1, <2>2 DEF Evidence!Perform, Invoke, lines, Ledger
  <2> QED BY <2>3
<1>11. ASSUME NEW j \in minted, Drop(j) PROVE [Evidence!Next]_(Evidence!evidence)
  BY <1>2, <1>11 DEF Drop, lines
<1>12. CASE PowerLoss
  <2>1. PICK n \in synced..Len(file) : file' = SubSeq(file, 1, n) /\ synced' = n
    BY <1>12 DEF PowerLoss
  <2>2. \A i \in 1..synced : file'[i] = file[i]
    BY <1>1, <2>1, PrefixProperties DEF TypeOK
  <2>3. released \in Outcomes => synced' = synced
    BY <1>1, <2>1 DEF IInv, CommitPoint, TypeOK
  <2> QED BY <1>1, <1>3, <1>12, <2>1, <2>2, <2>3 DEF PowerLoss, TypeOK
<1> QED BY <1>4, <1>5, <1>7, <1>8, <1>9, <1>10, <1>11, <1>12 DEF Next, PayloadRef

(* JournalWriter implements the evidence log.                               *)
THEOREM Refinement == Spec => ImplementsEvidenceLog
<1>1. IInv /\ IInv' /\ [Next]_vars => [Evidence!Next]_(Evidence!evidence)
  <2>1. UNCHANGED vars => UNCHANGED Evidence!evidence
    BY DEF vars, lines, callers, Evidence!evidence
  <2> QED BY <2>1, RefinementStep
<1> QED BY <1>1, RefinementInit, Inductive, PTL DEF Spec, Evidence!Spec, ImplementsEvidenceLog
=============================================================================
