------------------------------- MODULE Journal -------------------------------
(***************************************************************************)
(* One JournalWriter (harness-journal/src/writer.rs) on one attempt         *)
(* directory, from mkdir to the released outcome, over a file system whose  *)
(* page cache may be lost.                                                  *)
(*                                                                          *)
(* The writer is single threaded (every call takes &mut self), so `pc` says *)
(* where the one call in progress stands; a kill or a power loss may come   *)
(* between any two system calls.  The caller is arbitrary: it makes any     *)
(* sequence of API calls the types allow.  Lines are whole records; `torn`  *)
(* says that the bytes of an incomplete line follow the last whole one.     *)
(***************************************************************************)
EXTENDS Naturals, Sequences

CONSTANTS
  Calls,      \* the calls an intent may be about
  Payloads,   \* untrusted payloads too large to be carried inline
  Outcomes,   \* outcomes the caller may hand to commit
  None,       \* no call, no payload, nothing released yet
  MaxLines    \* bound: lines the caller writes before it must commit

Unreadable  == "indeterminate:unreadable_evidence"
CouldNotRun == "indeterminate:could_not_run"

ASSUME JournalAssumption ==
  /\ None \notin Calls \cup Payloads \cup Outcomes \cup {Unreadable, CouldNotRun}
  /\ Outcomes \cap {Unreadable, CouldNotRun} = {}
  /\ MaxLines \in Nat

VARIABLES
  pc,           \* where the writer's thread stands (PCs below)
  attemptEntry, \* attempt-<n> in the run directory
  fileEntries,  \* journal.jsonl and blobs/ in the attempt directory
  file,         \* the whole lines of journal.jsonl, as any process reads them
  synced,       \* how many of them are on disk: no crash can take them away
  torn,         \* a partial line follows them
  dropped,      \* a failed fsync let the kernel drop dirty pages of the file
  poison,       \* a write, fsync or blob write failed (sticky)
  blob,         \* each payload in blobs/
  putting,      \* the payload put is working on
  held,         \* BlobRefs handed to the caller
  minted,       \* Journaled values the caller holds
  invoked,      \* Journaled values a provider consumed
  released      \* what commit (or the refusal to start) gave the caller

starting == <<attemptEntry, fileEntries>>
lines    == <<file, synced, torn, dropped>>
store    == <<blob, putting, held>>
callers  == <<minted, invoked>>
vars     == <<pc, starting, lines, poison, store, callers, released>>

(* "Note" stands for every kind needs_fsync leaves out (ContextBuilt,       *)
(* ModelRequested, ...); "ToolFinished" for every kind append syncs.        *)
Kinds       == {"RunStarted", "Note", "ToolStarted", "ToolFinished", "RunStopped"}
NeedsFsync(kind) == kind # "Note"
PayloadRef  == Payloads \cup {None}
Record      ==      [kind : {"RunStarted", "Note", "ToolFinished"}, of : {None}, blob : PayloadRef]
               \cup [kind : {"ToolStarted"}, of : Calls, blob : PayloadRef]
               \cup [kind : {"RunStopped"}, of : Outcomes, blob : {None}]
Entry       == {"absent", "cached", "durable"}
BlobState   == {"absent", "tmp", "named", "durable"}
Journaled   == [seq : Nat \ {0}, call : Calls]
PCs == {"start", "made", "entered", "checked", "created", "listed",
        "ready", "syncing", "tmp", "named", "refused", "done", "dead"}

Last     == file[Len(file)]

TypeOK ==
  /\ pc \in PCs
  /\ attemptEntry \in Entry /\ fileEntries \in Entry
  /\ file \in Seq(Record) /\ synced \in 0..Len(file)
  /\ torn \in BOOLEAN /\ dropped \in BOOLEAN
  /\ poison \in BOOLEAN
  /\ blob \in [Payloads -> BlobState] /\ putting \in PayloadRef
  /\ held \subseteq Payloads
  /\ minted \subseteq Journaled /\ invoked \subseteq Journaled
  /\ released \in Outcomes \cup {None, Unreadable, CouldNotRun}

Init ==
  /\ pc = "start"
  /\ attemptEntry = "absent" /\ fileEntries = "absent"
  /\ file = <<>> /\ synced = 0 /\ torn = FALSE /\ dropped = FALSE
  /\ poison = FALSE
  /\ blob = [p \in Payloads |-> "absent"] /\ putting = None /\ held = {}
  /\ minted = {} /\ invoked = {}
  /\ released = None

(***************************************************************************)
(* Opening the attempt: create_next_attempt_with, then create_with.  Any    *)
(* failure is a StartError: no writer, the run does not start.              *)
(***************************************************************************)
Advance(from, to) == pc = from /\ pc' = to

Refuse == pc' = "refused" /\ released' = CouldNotRun

CreateAttemptDir ==
  /\ Advance("start", "made")
  /\ attemptEntry' = "cached"
  /\ UNCHANGED <<fileEntries, lines, poison, store, callers, released>>

SyncRunDir ==
  /\ Advance("made", "entered")
  /\ attemptEntry' = "durable"
  /\ UNCHANGED <<fileEntries, lines, poison, store, callers, released>>

\* The filesystem-locality check, on the directory once it exists.
CheckAttemptDir ==
  /\ Advance("entered", "checked")
  /\ UNCHANGED <<starting, lines, poison, store, callers, released>>

\* OpenOptions::create_new: the single-writer point.
CreateJournalFile ==
  /\ Advance("checked", "created")
  /\ fileEntries' = "cached"
  /\ UNCHANGED <<attemptEntry, lines, poison, store, callers, released>>

CreateBlobsDir ==
  /\ Advance("created", "listed")
  /\ UNCHANGED <<starting, lines, poison, store, callers, released>>

SyncAttemptDir ==
  /\ Advance("listed", "ready")
  /\ fileEntries' = "durable"
  /\ UNCHANGED <<attemptEntry, lines, poison, store, callers, released>>

StartFails ==
  /\ pc \in {"start", "made", "entered", "checked", "created", "listed"}
  /\ Refuse
  /\ UNCHANGED <<starting, lines, poison, store, callers>>

(***************************************************************************)
(* untrusted: the payload home.  DirBlobs::put writes a temporary file and  *)
(* syncs it, renames it into place, then syncs blobs/.                      *)
(***************************************************************************)
\* Mutant: a call does not ask whether the writer is poisoned.
CanCallPoisoned == pc = "ready"

CanCall == pc = "ready" /\ ~poison

PutTmp(p) ==
  /\ CanCall /\ blob[p] = "absent"
  /\ pc' = "tmp" /\ putting' = p
  /\ blob' = [blob EXCEPT ![p] = "tmp"]
  /\ UNCHANGED <<starting, lines, poison, held, callers, released>>

\* Mutant: put forgets its payload at the rename, before blobs/ is synced.
PutRenameForgets ==
  /\ Advance("tmp", "named")
  /\ blob' = [blob EXCEPT ![putting] = "named"]
  /\ putting' = None
  /\ UNCHANGED <<starting, lines, poison, held, callers, released>>

PutRename ==
  /\ Advance("tmp", "named")
  /\ blob' = [blob EXCEPT ![putting] = "named"]
  /\ UNCHANGED <<starting, lines, poison, putting, held, callers, released>>

PutSyncDir ==
  /\ Advance("named", "ready")
  /\ blob' = [blob EXCEPT ![putting] = "durable"]
  /\ held' = held \cup {putting}
  /\ putting' = None
  /\ UNCHANGED <<starting, lines, poison, callers, released>>

\* An existing blob whose content hashes to its name is accepted as it is.
PutExisting(p) ==
  /\ CanCall /\ blob[p] \in {"named", "durable"}
  /\ held' = held \cup {p}
  /\ UNCHANGED <<pc, starting, lines, poison, blob, putting, callers, released>>

\* Mutant: a commit that failed releases the outcome it was handed.
FailReleases(kind) ==
  /\ poison' = TRUE
  /\ CASE kind = "RunStarted" -> Refuse
       [] kind = "RunStopped" -> pc' = "done" /\ released' \in Outcomes
       [] OTHER               -> pc' = "ready" /\ UNCHANGED released

\* What a failed call leaves behind: a poisoned writer; before the header a
\* StartError, in commit a downgraded release, otherwise an Err for the caller.
Fail(kind) ==
  /\ poison' = TRUE
  /\ CASE kind = "RunStarted" -> Refuse
       [] kind = "RunStopped" -> pc' = "done" /\ released' = Unreadable
       [] OTHER               -> pc' = "ready" /\ UNCHANGED released

\* Mutant: a blob failure is the caller's alone and leaves the writer usable.
PutFailsQuietly ==
  /\ pc \in {"tmp", "named"}
  /\ pc' = "ready" /\ putting' = None
  /\ UNCHANGED <<starting, lines, poison, blob, held, callers, released>>

\* A failed put may leave its temporary file, which create_new then refuses.
PutFails ==
  /\ pc \in {"tmp", "named"} \/ (CanCall /\ Payloads # {})
  /\ putting' = None
  /\ Fail(IF file = <<>> THEN "RunStarted" ELSE "Note")
  /\ UNCHANGED <<starting, lines, blob, held, callers>>

(***************************************************************************)
(* write_record: write the line, then sync_data when the kind needs it.     *)
(***************************************************************************)
Write(rec) ==
  /\ CanCall
  /\ rec.blob \in held \cup {None}
  /\ file' = Append(file, rec)
  /\ pc' = IF NeedsFsync(rec.kind) THEN "syncing" ELSE "ready"
  /\ UNCHANGED <<starting, synced, torn, dropped, poison, store, callers, released>>

\* start: line 0.  Claims in the header put their blobs before it.
WriteHeader(b) ==
  /\ file = <<>>
  /\ Write([kind |-> "RunStarted", of |-> None, blob |-> b])

\* append: RunStarted, ToolStarted and RunStopped are refused here.
AppendEvent(kind, b) ==
  /\ file # <<>> /\ Len(file) < MaxLines
  /\ kind \in {"Note", "ToolFinished"}
  /\ Write([kind |-> kind, of |-> None, blob |-> b])

\* append_intent: the write-ahead record, its digest computed from the call.
AppendIntent(c, b) ==
  /\ file # <<>> /\ Len(file) < MaxLines
  /\ Write([kind |-> "ToolStarted", of |-> c, blob |-> b])

\* commit consumes the writer; the deliverable digest is not a blob.
Commit(o) ==
  /\ file # <<>>
  /\ Write([kind |-> "RunStopped", of |-> o, blob |-> None])

CommitPoisoned ==
  /\ pc = "ready" /\ poison /\ file # <<>>
  /\ pc' = "done" /\ released' = Unreadable
  /\ UNCHANGED <<starting, lines, poison, store, callers>>

\* write_all failed: nothing, or the bytes of an incomplete line, reached the file.
WriteFails(kind) ==
  /\ CanCall
  /\ (kind = "RunStarted") = (file = <<>>)
  /\ torn' \in BOOLEAN
  /\ Fail(kind)
  /\ UNCHANGED <<starting, file, synced, dropped, store, callers>>

\* sync_data failed: what of the unsynced lines is on disk is unknown.
SyncFails ==
  /\ pc = "syncing"
  /\ dropped' = TRUE
  /\ Fail(Last.kind)
  /\ UNCHANGED <<starting, file, synced, torn, store, callers>>

\* The kernel reports a write-back error once and marks the pages clean: a
\* later sync_data succeeds without having written them.
SyncData ==
  /\ pc = "syncing"
  /\ synced' = IF dropped THEN synced ELSE Len(file)

\* start and append return.
SyncReturns ==
  /\ SyncData
  /\ Last.kind \in {"RunStarted", "ToolFinished"}
  /\ pc' = "ready"
  /\ UNCHANGED <<starting, file, torn, dropped, poison, store, callers, released>>

\* Mutant: the intent is handed back without waiting for its fsync.
IntentReturnsUnsynced ==
  /\ pc = "syncing" /\ Last.kind = "ToolStarted"
  /\ minted' = minted \cup {[seq |-> Len(file), call |-> Last.of]}
  /\ pc' = "ready"
  /\ UNCHANGED <<starting, lines, poison, store, invoked, released>>

\* append_intent returns: only now does a Journaled value exist.
IntentReturns ==
  /\ SyncData
  /\ Last.kind = "ToolStarted"
  /\ minted' = minted \cup {[seq |-> Len(file), call |-> Last.of]}
  /\ pc' = "ready"
  /\ UNCHANGED <<starting, file, torn, dropped, poison, store, invoked, released>>

\* commit returns: the outcome is released only after RunStopped is durable.
CommitReturns ==
  /\ SyncData
  /\ Last.kind = "RunStopped"
  /\ released' = Last.of
  /\ pc' = "done"
  /\ UNCHANGED <<starting, file, torn, dropped, poison, store, callers>>

(***************************************************************************)
(* The caller's use of a Journaled value: a provider consumes it (neither   *)
(* Clone nor forgeable), or it is dropped.  The value does not borrow the   *)
(* writer, so it may outlive a poisoned or a committed one.                 *)
(***************************************************************************)
Invoke(j) ==
  /\ j \in minted
  /\ minted' = minted \ {j}
  /\ invoked' = invoked \cup {j}
  /\ UNCHANGED <<pc, starting, lines, poison, store, released>>

Drop(j) ==
  /\ j \in minted
  /\ minted' = minted \ {j}
  /\ UNCHANGED <<pc, starting, lines, poison, store, invoked, released>>

(***************************************************************************)
(* The environment.                                                         *)
(***************************************************************************)
\* The process ends; the page cache, and so every line, stays.
Kill ==
  /\ pc # "dead" /\ pc' = "dead"
  /\ minted' = {} /\ putting' = None /\ held' = {}
  /\ UNCHANGED <<starting, lines, poison, blob, invoked, released>>

\* What was never synced survives or not; unsynced lines survive as a prefix.
Survivors(entry) == IF entry = "cached" THEN {"absent", "durable"} ELSE {entry}

PowerLoss ==
  /\ pc' = "dead"
  /\ minted' = {} /\ putting' = None /\ held' = {}
  /\ attemptEntry' \in Survivors(attemptEntry)
  /\ fileEntries' \in Survivors(fileEntries)
  /\ \E n \in synced..Len(file) :
       /\ file' = SubSeq(file, 1, n)
       /\ synced' = n
       /\ torn' \in IF n < Len(file) \/ torn THEN BOOLEAN ELSE {FALSE}
  /\ blob' \in [Payloads -> BlobState]
  /\ \A p \in Payloads :
       blob'[p] \in CASE blob[p] = "tmp"   -> {"absent", "tmp"}
                      [] blob[p] = "named" -> {"absent", "tmp", "durable"}
                      [] OTHER             -> {blob[p]}
  /\ UNCHANGED <<dropped, poison, invoked, released>>

Next ==
  \/ CreateAttemptDir \/ SyncRunDir \/ CheckAttemptDir
  \/ CreateJournalFile \/ CreateBlobsDir \/ SyncAttemptDir \/ StartFails
  \/ \E p \in Payloads : PutTmp(p) \/ PutExisting(p)
  \/ PutRename \/ PutSyncDir \/ PutFails
  \/ \E b \in Payloads \cup {None} :
       \/ WriteHeader(b)
       \/ \E kind \in {"Note", "ToolFinished"} : AppendEvent(kind, b)
       \/ \E c \in Calls : AppendIntent(c, b)
  \/ \E o \in Outcomes : Commit(o)
  \/ CommitPoisoned
  \/ \E kind \in Kinds : WriteFails(kind)
  \/ SyncFails \/ SyncReturns \/ IntentReturns \/ CommitReturns
  \/ \E j \in minted : Invoke(j) \/ Drop(j)
  \/ Kill \/ PowerLoss

Spec == Init /\ [][Next]_vars

-----------------------------------------------------------------------------
(* reader.rs verify, on whole lines: one header, first; nothing after       *)
(* RunStopped; every payload a line refers to present under its name.       *)
Verifies ==
  /\ \A i \in 1..Len(file) : (i = 1) = (file[i].kind = "RunStarted")
  /\ \A i \in 1..Len(file) : file[i].kind = "RunStopped" => i = Len(file)
  /\ \A i \in 1..Len(file) : file[i].blob # None => blob[file[i].blob] = "durable"

(* append_intent (2.2 step 7, INV-33): whatever call was or still can be    *)
(* executed, its intent is on disk where no crash can take it away, and the *)
(* permission was used at most once.  It needs the fsync before the value   *)
(* is handed out, and the poison to be sticky: after one failed fsync a     *)
(* later successful one says nothing.                                       *)
WriteAhead ==
  /\ \A j \in minted \cup invoked :
       /\ j.seq <= synced
       /\ file[j.seq].kind = "ToolStarted"
       /\ file[j.seq].of = j.call
  /\ minted \cap invoked = {}

(* commit (7.1): an outcome other than a downgrade is released only with    *)
(* its RunStopped record on disk, as the last one, with no torn bytes after *)
(* it; and a RunStopped record that is in the file never contradicts what   *)
(* was released (a failed commit leaves it there under a downgrade).        *)
CommitPoint ==
  /\ released \in Outcomes =>
       /\ synced = Len(file) /\ file # <<>> /\ ~torn
       /\ Last.kind = "RunStopped" /\ Last.of = released
  /\ \A i \in 1..Len(file) :
       file[i].kind = "RunStopped" => released \in {None, Unreadable, file[i].of}

(* create_with, put and write_record: once a line is on disk its directory  *)
(* entries are, and whatever a crash leaves of the file still verifies,     *)
(* every blob it refers to included.                                        *)
EvidenceReadable ==
  /\ synced > 0 => attemptEntry = "durable" /\ fileEntries = "durable"
  /\ Verifies

(* The writer implements the evidence log: the lines on disk are a ledger   *)
(* that crashes never shorten or rewrite.                                   *)
Evidence == INSTANCE EvidenceLog WITH
  Verdicts <- Outcomes, Downgrades <- {Unreadable, CouldNotRun},
  ledger <- SubSeq(file, 1, synced), effects <- invoked, verdict <- released

ImplementsEvidenceLog == Evidence!Spec
=============================================================================
