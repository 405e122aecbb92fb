------------------------------- MODULE Reader --------------------------------
(***************************************************************************)
(* The verifying reader (harness-journal/src/reader.rs) and the hash chain  *)
(* it checks (canon.rs).                                                    *)
(*                                                                          *)
(* SHA-256 is taken to be injective: the hash of a record is the chain of   *)
(* contents it stands for, and a payload's digest is its bytes.  The bytes  *)
(* of a line are its form: Canonical, or the reason it is none.             *)
(***************************************************************************)
EXTENDS Naturals, Sequences, FiniteSets, FiniteSetsExt

EventKinds == {"RunStarted", "ModelReplied", "ActionParsed", "RunStopped"}
Canonical  == "canonical"
Forms      == {Canonical, "NotUtf8", "NotARecord", "NotCanonical"}
Whole      == "whole"

Genesis == <<>>
Hash(prev, content) == Append(prev, content)

\* A body and the untrusted payload in it: none, inline, or in the blob store.
NoPayload      == [home |-> "none"]
Inline(bytes)  == [home |-> "inline", sha |-> bytes, bytes |-> bytes]
InBlob(bytes)  == [home |-> "blob", sha |-> bytes, name |-> bytes]

Content(line) == [seq |-> line.seq, kind |-> line.kind, run |-> line.run, attempt |-> line.attempt,
                  mono |-> line.mono, body |-> line.body, payload |-> line.payload]

\* RecordFields::encode, over the fields in `content`.
Encode(prev, content) ==
  [form |-> Canonical, seq |-> content.seq, prev |-> prev, hash |-> Hash(prev, content),
   kind |-> content.kind, run |-> content.run, attempt |-> content.attempt, mono |-> content.mono,
   body |-> content.body, payload |-> content.payload]

HeadOf(lines) == IF lines = <<>> THEN Genesis ELSE lines[Len(lines)].hash

-----------------------------------------------------------------------------
\* check_blob: a payload's bytes, wherever they are, hash to its digest.
\* mutant: a payload whose blob is gone is let pass
PayloadBreakLax(payload, blobs) ==
  CASE payload.home = "inline" /\ payload.bytes # payload.sha -> "UntrustedMismatch"
    [] payload.home = "blob" /\ payload.name \in DOMAIN blobs /\ blobs[payload.name] # payload.sha
         -> "UntrustedMismatch"
    [] OTHER -> Whole
PayloadBreak(payload, blobs) ==
  CASE payload.home = "inline" /\ payload.bytes # payload.sha -> "UntrustedMismatch"
    [] payload.home = "blob" /\ payload.name # payload.sha -> "UntrustedMalformed"
    [] payload.home = "blob" /\ payload.name = payload.sha /\ payload.name \notin DOMAIN blobs
         -> "MissingBlob"
    [] /\ payload.home = "blob" /\ payload.name = payload.sha
       /\ payload.name \in DOMAIN blobs /\ blobs[payload.name] # payload.sha -> "UntrustedMismatch"
    [] OTHER -> Whole

\* The checks of verify_line in their order, given that the lines before it passed.
LineChecks(lines, i, blobs) ==
  LET line == lines[i]
      prev == IF i = 1 THEN Genesis ELSE lines[i - 1].hash
  IN  << <<line.form # Canonical,                                  line.form>>,
         <<line.seq # i - 1,                                       "BadSeq">>,
         <<line.prev # prev,                                       "BadPrev">>,
         <<line.hash # Hash(prev, Content(line)),                  "BadHash">>,
         <<line.kind \notin EventKinds,                            "UnknownKind">>,
         <<(i = 1) # (line.kind = "RunStarted"),                   "HeaderMisplaced">>,
         <<<<line.run, line.attempt>> # <<lines[1].run, lines[1].attempt>>, "WrongRun">>,
         <<i > 1 /\ line.mono < lines[IF i = 1 THEN 1 ELSE i - 1].mono, "TimeBackwards">>,
         <<PayloadBreak(line.payload, blobs) # Whole,              PayloadBreak(line.payload, blobs)>>,
         <<i > 1 /\ lines[IF i = 1 THEN 1 ELSE i - 1].kind = "RunStopped", "AfterRunStopped">> >>

LineBreak(lines, i, blobs) ==
  LET checks == LineChecks(lines, i, blobs)
      failed == {k \in DOMAIN checks : checks[k][1]}
  IN  IF failed = {} THEN Whole ELSE checks[Min(failed)][2]

\* verify: what is wrong with a journal, at its first broken record.  The
\* lines are its complete ones; a torn line after them is no break.
BrokenLines(lines, blobs) == {i \in DOMAIN lines : LineBreak(lines, i, blobs) # Whole}

Verifies(journal) ==
  /\ journal.lines # <<>>          \* Empty, or TornHeader
  /\ BrokenLines(journal.lines, journal.blobs) = {}

IsComplete(journal) ==
  ~journal.torn /\ journal.lines[Len(journal.lines)].kind = "RunStopped"

CheckAnchor(journal, anchor) == HeadOf(journal.lines) = anchor

\* open_expecting: the files are real ones, and the journal says the attempt
\* of its directory and the run the caller expects.
Opens(journal, attempt, run) ==
  /\ journal.real
  /\ Verifies(journal)
  /\ journal.lines[1].attempt = attempt
  /\ journal.lines[1].run = run
=============================================================================
