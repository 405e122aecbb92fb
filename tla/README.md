# RustyHarness: formal models, checks and proofs

RustyHarness runs a language model as an agent on a task: one step at a time it
asks the model for an action, decides by policy whether the action is allowed,
executes it through a provider, and journals everything so that the run can be
audited, resumed, and its outcome trusted. This directory holds TLA+ models of
that program, the TLC runs that check them on small instances, and TLAPS proofs
of the properties that matter most.

`PROJECT.json` holds the same project as data: components, runs, the mutant that
shows what each property catches, the source lines each definition stands for,
the findings, and the hazards of the code.

Paths below are relative to `src/crates/`.

## 1. Inventory

| Component | State | Operations | What is hard |
|---|---|---|---|
| Journal writer (`harness-journal/src/writer.rs`) | the file, its durable part, `poisoned`, blobs, `Journaled` values | `create_next_attempt_with`, `start`, `append`, `append_intent`, `untrusted`, `observe_condition`, `commit` | kill and power loss between any two system calls, failed fsyncs that drop pages, directory entries, one of several steps failing |
| Journal reader (`harness-journal/src/reader.rs`, `canon.rs`) | none | `verify`, `check_anchor` | what a crash leaves must still be accepted or named |
| Run directory layout (`harness-journal/src/layout.rs`) | the directories | `create_run_dir`, `create_next_attempt`, `latest_attempt`, `create_next_replay` | two processes, a crash between mkdir and header |
| Standing conditions (`harness-journal/src/conditions.rs`) | the conditions active now | `observe` | one record at the start and one at the end of a condition, whoever observes it |
| Meter (`harness-core/src/lib.rs`) | six counters, elapsed time, pauses, the first exhaustion | `charge_step`, `record_tokens`, `tick_wall`, `pause_wall`, `check_renewable_exhaustion`, `record_format_error`, `record_format_ok`, `take_repair_round`, `new_resumed` | saturation, clocks that jump back, strict and lax limits, causes that arrive late |
| Loop detector (`harness-core/src/lib.rs`) | the action window, stall and denial counters, what was seen, the keys noticed | `observe` for five events | rules over histories kept incrementally, precedence when two fire |
| Run loop (`harness-run/src/driver.rs`) | the meter, the detector, the turns, the step number | `drive`, `step`, `request`, `execute`, `model_error`, `observe_budgets`, `feed_stall`, `loop_stop`, `commit` | order of journaling, charging and doing; every stop at every point |
| Life cycle (`harness-run/src/replay.rs`) | attempts on disk, the recorded exchanges and results, wall time carried | `audit`, `resume`, `recorded`, `compare` | crashes during the catch-up, concurrent resumers, the boundary between replayed and live |
| Scripted and replay backends (`harness-model/src/{scripted,replay}.rs`) | a cursor over recorded exchanges | `complete`, `exhausted`, `from_journal` | a request that differs, a request without a reply |
| Gate outcome (`gate-outcome/src/lib.rs`) | none | `GateReport::new`, `run_checked`, `verdict`, `ChildRun` interpretation | worst wins, unlawful reports, fail closed |
| Policy (`harness-policy/src/lib.rs`) | the session: classes, quarantine | `plan`, `quarantine`, `decide`, `authorize`, `trifecta` | rule order |
| Manifests and admission (`harness-manifest`) | the registry | `admit`, `resolve` | collisions between tiers |
| Model client (`harness-model/src/{client,http}.rs`) | retry count, statuses | `startup_check`, `complete` | backoff against the deadline |
| Model protocol (`harness-model-core/src/{protocol,wire,profile}.rs`) | none | `parse_reply`, `account`, `render_request` | text |
| Context builder (`harness-model-core/src/context.rs`) | none | `build` | which turns are shrunk or dropped |
| Tools (`harness-tools`) | none | bounded reads, lists, searches | file system I/O |
| Sandbox, environment, capture, locality (`harness-sandbox`, `harness-policy/src/locality.rs`) | none | probes | parsing of host data |
| Command line (`harness-cli`) | none | `run`, `resume`, `audit`, ... | reports and exit codes |

How they interact. The command line builds a `Run`; `run`, `resume` and `audit`
(`harness-run`) prepare a policy session, open a journal attempt and hand both
to one `Loop`. The loop owns the meter and the detector by value and is their
only caller; it calls the journal writer through `&mut`, so no two calls
overlap; it calls the model backend and the providers synchronously, each with a
deadline. The journal is the only state shared between processes and between
attempts: `resume` and `audit` read what an earlier attempt wrote. The
concurrency of this program is therefore the interleaving of one thread with
crashes, failing system calls, an arbitrary model, an arbitrary file system and,
between attempts, other processes on the same run directory.

What makes each component correct:

- Writer: write-ahead (a call is executed only when its intent cannot be lost),
  commit point (an outcome is released only when its record cannot be lost, and
  the file never contradicts it), readable evidence after any crash.
- Meter: no overrun goes unseen, working time is charged once and waiting never,
  the first cause stands.
- Detector: at every event the ruling design 2.6 gives over the whole history.
- Loop: evidence can be paired again, nothing starts unless it is permitted and
  paid for, a stop gives the cause it has, the model is told before it is
  stopped, every run ends.
- Life cycle: what was spent and done in one attempt counts in the next; an
  audit accepts exactly what a run of this code could have written.
- Gate outcome, command line: a parent reads of a child what the child decided,
  or that it could not run; a pass is taken only where it was earned; worst wins.
- Reader, audit: no damage to a journal is confirmed, and with the anchor no
  replacement of it either; a run starts on a local disk only.
- Manifests, policy: an id has one owner; what runs unasked was granted, is
  harmless in itself and stays in its schema and in the workspace.
- Context: fits, shows the newest turn, drops no turn that would have fit.
- Model client: the retry budget, Retry-After and the deadline are kept, every
  status is named, and a completion is never part of a reply.
- Tools: nothing outside the workspace is read through a link that was there,
  and a walk accounts for what it did not see.

`PROJECT.json` lists the hazards of the code, each at its line, with the
properties that catch it.

## 2. Plan

Order of the modules, most important behaviour first. *done* is in this
directory.

1. *done* `EvidenceLog`: what a journal promises, as an abstract specification.
   `Journal`: the writer over a file system that loses its cache; it implements
   `EvidenceLog`. `JournalProofs`.
2. *done* `LoopDetector`, `LoopHistory`: the incremental detector against a
   definition over the whole history.
3. *done* `Meter`, `MeterHistory`: the meter against an unbounded ledger of
   what was spent and of the time worked.
4. *done* `RunLoop`: the loop, composed of `Meter`, `LoopDetector` and a journal
   whose appends may fail.
5. *done* `Lifecycle`: attempts, crash, resume, catch-up, the chained backend,
   audit; several processes on one run. `LifecycleProofs`.
6. *done* `Verdict`, `Reader`, `Locality`, composed in `GateChild`: one parent, the
   program's processes and others it launches, and the journal between them.
   `GateChildProofs`.
7. *done* `Manifest`, `Policy`, `Context`, `ModelClient`, `Reply`, `Workspace`,
   composed in `Turn`: from manifests to one turn after another.
   `Choice` is what `Lifecycle` and `Reply` share. `TurnProofs`.
8. *done* `MeterLemmas`, `MeterProofs`, `RunLoopProofs`, `LoopHistoryProofs`.
9. *left* Models: the read log once something consumes it, rendering of a request,
   profiles. With them, what section 6 remarks and no run states.

How the modules compose. Those in one box share one state and one run.

```
EvidenceLog <-implements- Journal                   run journal
LoopDetector <- LoopHistory                         runs loop_detector, six_steps
Meter <- MeterHistory                               run meter
LoopDetector + Meter <- RunLoop                     runs run_loop, prompt_charge
Choice <- Lifecycle                                 runs attempts, replays, ...
Verdict + Reader + Locality <- GateChild            run gate_child
Manifest <- Policy;
Choice <- Reply <- ModelClient;
Policy + Context + ModelClient + Reply + Workspace <- Turn   run turn
```

Nothing in a module that is proved about uses a RECURSIVE operator. Each
`...Proofs` module extends the module it is about.

## 3. The modules and the code

### EvidenceLog, Journal, JournalProofs

`EvidenceLog` is the promise: a ledger that only grows, effects that happen only
after an entry of the ledger announced them and at most once each, one released
verdict that the ledger ends with, or a downgrade.

`Journal` is `JournalWriter` from `mkdir attempt-<n>` to the released outcome.
One action is one system call or one return. `pc` says where the one call in
progress stands: the writer takes `&mut self`, so there is never a second one.

| Variable | Code |
|---|---|
| `attemptEntry`, `fileEntries` | whether the entries `attempt-<n>` and `journal.jsonl`, `blobs/` exist, and survive a power loss |
| `file`, `synced`, `torn`, `dropped` | the whole lines in the page cache, how many of them are on disk, a partial last line, pages lost by a failed fsync |
| `poison` | `poisoned`, sticky |
| `blob`, `putting`, `held` | the temporary file, the name and the synced name of each payload; the `BlobRef`s the caller got |
| `minted`, `invoked` | `Journaled` values in the caller's hand, and consumed by a provider |
| `released` | what the caller was given as the outcome of the run |

The caller is arbitrary: it makes any calls the types allow, in any order. The
run loop's use of the writer is one of its behaviours.

A line is its kind, its subject and the blob it refers to. Of the kinds,
`Note` stands for every one `needs_fsync` leaves out and `ToolFinished` for
every one that `append` syncs. Hashes and the chain are abstracted: the model's
lines cannot be confused, which is what the hashes are for. `InvalidEvent`
writes nothing and changes no state; it is left out. A power loss keeps the synced lines and any
prefix of the others; an entry or a blob that was not synced survives or not.
After a failed fsync a later one succeeds without having written the lost pages
(this is what Linux does, and why the code poisons the writer).

### LoopDetector, LoopHistory, LoopHistoryProofs

`LoopDetector` has the fields of the Rust struct as variables, and one action for
each `LoopEvent`. `signal` is the return value of `observe`. `LoopHistory` adds
`log`, every event so far, and restates the rules of design 2.6 over it
without any of the incremental state: how many equal actions are among the latest,
whether one of the same key was a hit before, how many steps and actions since
the last news, how often a file was edited and a capability denied.

### Meter, MeterHistory

`Meter` has the fields of the Rust struct, and its counters saturate at `MaxU64`, small enough
to be reached. A clock reading is an arbitrary value, bounded by
`MaxClock`. `MeterHistory` adds the exact amounts spent and the time actually
worked, and drives the meter in any order.

### RunLoop

`Loop::drive`, `step` and all they call, one action for each append to the
journal, meter call or detector event: what a kill can fall between. `pc` names
the place in the code. Meter and detector are the modules above, with their
own variables and operators; the loop's actions conjoin theirs.

| Variable | Code |
|---|---|
| `cause` | the `StopCause` of `Flow::Stop` |
| `poison`, `active` | the writer's `poisoned` and its standing conditions |
| `reader` | what `recorded` and `ReplayBackend::from_journal` (the scan that `audit` and `resume` make) know after the records written so far |
| `prompt`, `reply`, `result` | the estimate of the request, what came back, the provider's digest |
| `turns`, `notice`, `announced` | the turns pushed so far, whether one carries the loop notice, the calls it was given for |
| `executed` | the steps whose provider was invoked |
| `granted` | the keys the session allows |

What is abstracted, and why the properties cannot tell:

- A failed append either left the record in the file or did not, and poisons the
  writer. What is durable is the subject of `Journal`.
- A kill is any reachable state: the properties about `reader` are invariants,
  so they say what an audit or a resume finds after a kill anywhere.
- `decide` is a pure function of the session and the call, so a set `granted`
  fixed at the start stands for it.
- The clock moves at the places that read it (`tick_wall`).
- A reply is malformed, unusable, unavailable or a call; a call is its loop key.
- Left out: the recorded results fed back on an audit or a resume (they are in
  `Lifecycle`), the read log, which nothing consumes yet, samples of host
  pressure, the `affected` count of a condition, and the resolve failure that
  the code itself calls a harness bug.

### Lifecycle, LifecycleProofs

`run`, `resume` and `audit`, invoked on one run directory by any number of
processes, each of which may be killed at any point and started again. The three
share the loop, so the module has it once, with a `role`.

| Variable | Code |
|---|---|
| `attempts` | the journals `attempt-1`, `attempt-2`, ...; empty between mkdir and the header |
| `driver[p].pc`, `role` | where process `p` stands, and what it was invoked as |
| `from`, `head` | the attempt it read, and how many of its records (the chain head) |
| `attempt`, `carried` | the attempt it writes, and the wall time of those before (`wall_carried_ms`) |
| `mono`, `above` | its own time, and the standing condition of the wall |
| `replies`, `results` | `ReplayBackend`'s exchanges after its cursor, `Loop::feed` |
| `step`, `turns`, `reply`, `intent`, `cause` | the state of `Loop` |
| `diverged` | `Chain::diverged` of a resume, `AuditReport::divergence` of an audit |
| `copy`, `anchored`, `outcome` | an audit's `replay-<k>`, whether an anchor matched, what is reported |

`ListAttempts` and `MakeAttempt` are the two halves of `create_next_attempt`, and
other processes step in between. An audit writes its own journal and reads a
snapshot of the attempt, which its owner may still be extending.

What is abstracted, and why the properties cannot tell:

- Of the loop's records those are kept that a replay consumes or the comparison
  can tell apart. `ContextBuilt`, `ActionParsed` and `PolicyDecided` are computed
  from the same inputs as the `ModelRequested` and `ToolStarted` beside them.
- A request is the list of turns it is rendered from; the nonce is taken from the
  recording in the same order as the reply and is left out with it.
- Every call is one that policy allows, and the detector is silent: both are
  functions of the recorded replies and results, so a replay decides as the record did.
  `RunLoop` has them.
- Of the budgets, steps and wall time: one that a replay recomputes, and the one
  it cannot. A replayed reply or result takes no time.
- A failed append is a kill before or after it; `Journal` is about the rest.
- The checks of the header and of the workspace digest refuse before anything is
  written. `Verbs` bounds what is invoked after `run`.

### Verdict, Reader, Locality, GateChild, GateChildProofs

`Verdict` is `gate-outcome` without time: the report laws, `run_checked`,
`verdict` and `interpret` over what a parent observed of a child. Findings are a
set of severities, one of them without its text. `Reader` is what `verify` says
of a journal, line by line in the order of its checks; a digest is what it is
taken of. `Locality` is `classify` and the probes of three systems over a mount
table.

`GateChild` has the time: a parent launches `run`, `resume` and `replay` of this
program one after the other on one run directory, or launches another program,
or runs a check itself; it collects a report of each and judges the plan.

| Variable | Code |
|---|---|
| `child` | the process: its verb, the stage it is at (`try_run`, `try_replay` to their first refusal), what it measured, the outcome it reached, what it has printed (`emit`: the chain head, the report line, the marker) and its exit code |
| `journal` | the newest attempt's lines, torn tail and blobs; what was done to it from outside |
| `written`, `kept` | the lines the program wrote, and the head it printed and the parent kept as an anchor |
| `reports` | what the parent will give to `verdict` |
| `ending` | how the last child really ended, for the properties to compare with |

A stage may refuse for reasons the model does not decide (a file is unreadable);
where it does decide (locality, the journal of a resume), it refuses exactly
then. A kill falls between any two writes. `Damage` is one of: a cut, torn,
lost, altered or garbled line, lost blobs, a journal of another attempt in its
place, and one that is well formed and of the right attempt. Altered lines whose
whole chain was computed again are the last of these only.

### Manifest, Policy, Context, ModelClient, Reply, Workspace, Turn, TurnProofs

`Manifest`, `Policy`, `Context`, `Reply` and `Choice` are pure: the checks of a manifest
and of an admission in their order (the first refusal is the answer), `plan_with`
and `decide`, the layouts `build` tries, the accumulated reply and the action
parsed from it.

`ModelClient` is one call (variable `call`), over time: a step is a system call
or its timeout, and the server may answer with any of `Answers` at any
speed, stall, or close. `Slack` is how late a timer may be seen. `Workspace`
is one operation of a tool (`op`) over `tree`, one file system call at a step,
while another process changes up to `MaxChanges` entries.

`Turn` composes them with the variables `phase`, `setup`, `session`, `turns`,
`built`, `asked` and `decision`: manifests are admitted, the server asked for the
model, the session planned, what `prepare` looks at next passed or refused
(`PrepareRefuses`), the workspace facts measured; then context, call, reply, decision
and tool in turn. A native call names its tool by `wire_name`, a parameter: the tool is
the first granted one with that name, as the code looks it up, and nothing assumes that
two ids have different names.

What is abstracted, and why the properties cannot tell:

- A name, a path, a schema and a text are members of small sets, or one flag for
  "obeys the rule about its characters and length".
- The conversation behind a turn is any of `Histories`: what a loop makes of turns
  is in `RunLoop`. Between two operations the workspace may have become any tree.
- A setup that is not `gated` admits without the phase gate, as the tests of
  `plan_with` do: the shipped build refuses every manifest but its own, and the
  rules for the others would never be reached. Its calls are decided and not run.
- The estimate of a text is a third of its bytes; the blocks before the turns are
  one prefix.
- The refusals of `prepare` (the root, the state root, their overlap, the file system)
  may come or not: when a disk is refused is in `Locality` and `GateChild`.
- An error of the file system is "not found" or another, as `io_out` has it.
- The walk of the workspace facts asks for a depth of `usize::MAX`; the number of paths, which
  no path is deeper than, stands for it.

## 4. The runs

| Run | What it asks | Instance |
|---|---|---|
| `journal` | The three promises of the writer and the refinement of `EvidenceLog`. | 2 calls, 1 payload, the outcomes of `MCJournal`, 4 lines |
| `loop_detector` | The incremental detector against the history. | up to 7 events over two keys, digests, capabilities; window 3, limits 2 and 4 |
| `six_steps` | Is a repeat always within six steps? It is not (finding 1). | the thresholds of the code |
| `meter` | No hidden overrun, only working time, the first exhaustion stands. | counters of 3 bits, limits within them, a clock that jumps back by 2 |
| `run_loop` | The five properties of the loop, and that every run ends. | 4 steps, three calls of two capabilities, every dimension can run out first |
| `gate_child` | What a parent reads, when a pass is earned, where a run starts, what an audit confirms, how a plan is judged. | 3 reports, one model reply, one step, eight hosts of three systems |
| `turn` | One owner for an id, what may run unasked, the bounds of a call, no partial reply, the context, walks and links. | 51 setups, 39 answers, turns of four shapes up to four, 6 trees of 4 entries with up to 2 changes, 7 ticks of deadline, 2 retries |
| `attempts` | Racing resumers never share a journal; no fresh wall time. | two processes, three attempts, one step, delays of 4 against a limit of 5, no audit |
| `replays` | The catch-up repeats the record; an audit confirms it. | one process, two attempts, three steps, one call and one result (or a failure), wall limit 6 |
| `wall_left_out` | Does the wall record never make a committed attempt diverge? It does (finding 3). | one attempt, two steps |
| `steps_recharged` | Is no completed step asked live again? One is (finding 4). | three attempts, two steps |
| `prompt_charge` | Is a prompt that does not fit refused? It is not (finding 2). | 3 tokens |

Why the bounds are enough. In `journal`, four lines give a header, an intent, its
result or a second intent, and the line of commit, so that a failure can hit any
of them while an earlier one is still unsynced; the theorems hold for every
bound. In `loop_detector`, seven events are more than two windows of three: a
burst can begin, be announced, end and begin again, and a second detector can
fire on the same event. In `meter`, three bits make every counter saturate in
two spends. In `run_loop`, four steps allow a notice, a stop for repeating, two
denials, and a stall, and each limit is reached first in some behaviour; TLC
reports every action taken. In `gate_child`, three reports are a run, a resume and
an audit, or any mix of them with others in which ranks tie and a bad report is
followed by good ones; one step leaves a request with and without its reply, a
submit and a journal to damage in every line. In `turn`, the deadline of 7 with
reads of 2 and backoffs of up to 3 leaves room for both retries, for one, and for
none; every framing meets every way to end; the histories take a context through
every cut and every dropped turn; two changes are enough to replace a directory
on the way and an entry below it. In `attempts`, three attempts make a chain of two
resumes, the least in which carried time can be lost on the way, and one
delay crosses 80% while two exhaust the limit; with two processes every race
between listing and making an attempt occurs. In `replays`, three steps leave a
resume at least two to repeat, so that the cursors can part after the first; one
process is enough, since what it replays is a journal it wrote before a kill, and
the interleaving of two is the other run's subject. Symmetry is over calls or processes that are interchangeable in
the configuration, and is not used where a liveness property is checked.

Deadlock is checked for `journal` and `meter`. In the other runs a run ends (the
loop is `done`, a setup is refused, or the bound on events, reports or attempts is
reached), which is why their configurations switch the check off.

Each property has a mutant in `PROJECT.json`: a plausible bug in one mapped
definition (named `...Late`, `...Quietly`, `...Untold` and so on, beside the
definition it changes) under which TLC finds the property violated.

### Fairness

Only `RunLoop` has a fairness condition, `WF_vars(Next)`: the one thread of the
loop goes on. The code justifies it in that the model backend and the providers
are called with a deadline and return, and every other operation is a finite
computation or a system call. There is no fairness on how a call ends: every
append may fail, the model may fail for ever. Termination then rests on the meter: each
step charges a step. No other liveness is claimed.

## 5. What is proved

Eight modules hold proofs. Each theorem is of the same `Spec` that TLC runs, for
every value of the constants that the assumptions allow. `PROJECT.json` lists the
theorems with what each says; a theorem named `...Holds`, or `TypeCorrect`, states
the property of that name. Every safety property of the passing runs is proved; the
one liveness property is not, see *Only model-checked*.

The shape is the same throughout. None of the properties is inductive. An
invariant (`IInv`, `HistoryInv`, `JournalsTold`, `WalkInv`, `TurnInv`) adds what the
code relies on without saying so; one lemma per action, or per group of actions that leave the same
things alone, shows that it is preserved, and one theorem (`Inductive`) that it
always holds; the properties follow from it.

### JournalProofs

`TypeOK`, `WriteAhead`, `CommitPoint`, `EvidenceReadable`, and that `Journal`
implements `EvidenceLog`. `IInv` adds:

- `EntriesOK`: once the writer serves calls, both directory entries are on
  disk. Without it a synced line may be in a file that a power loss removes.
- `PoisonOK`: a writer that is not poisoned has lost no page and left no torn
  line, so a successful fsync really makes the whole file durable. This is the
  reason the poison must be sticky: it is the only thing that excludes
  `dropped` where an fsync returns.
- `ReleaseOK`: no `RunStopped` line, and no release, before commit.
- `BlobsOK`: only the payload `put` is working on is between absent and durable,
  so accepting an existing blob as it is is sound as long as a failed `put`
  poisons.

The refinement maps the ledger to the synced prefix of the file; lemmas on prefixes
show that lines written or made durable only extend it, that a power loss leaves
it alone or extends it, and that an effect's announcement is in it.

### LoopHistoryProofs

`TypeOK`, `FollowsTheRules`, `DroppedSignalIsNoStop`. `HistoryInv` says what each
piece of the detector stands for in the log: a counter is the number of places of
its event (`CountsOK`), a set has what has a place (`SeenOK`), a key is noticed when
some place of its action was a hit at the time (`NoticedOK`), the stall is what
counts since the last news (`StallOK`). `WindowOK` is the hard part: the window's
entries are, in their order, at increasing places of the log, and those are all of
the latest `IDENTICAL_WINDOW` actions; so that counting a key in the window is
counting it in the log (`HitIs`, by a bijection), and that what a push drops is what
falls out of the latest (`WindowGrows`). One more is needed for the order of the rules:
`StallWasSignalled`, that whoever goes on has not stalled. The design puts the stall before a
denial, and the code, where a detector's own stop stands, puts it after; the two
never meet, because a denial never makes a stall and a stall always stopped the
run before. The same fact makes the dropped signal harmless. So the two properties
are one argument, and rest on the run loop acting on every other stop at once.

### MeterLemmas, MeterProofs

All four properties of the run `meter`, for every limit, price, width of a counter and
behaviour of the clock. `IInv` says that a counter is what was really spent,
saturated (`Adds`: saturating a sum of saturated parts is saturating the sum), that
until something is exhausted every renewable limit is kept, and that what was
charged and what is still to be charged was worked (`Works`). `MeterLemmas`, shared
with `RunLoopProofs`, says what one call of the meter does.

### RunLoopProofs

All safety properties of the run `run_loop`. The invariant has six parts, each tied
to `pc`: `Budgets`, that past the first charge of a step every budget is kept or the
run is stopping for the one that is not; `Permits`, that a call under way was
allowed; `Evidence`, that the journal is behind the run by the request or the call in
progress and by nothing else, until an append fails; `Types`; `Standing`, that what
the journal says of the standing conditions is what the writer believes, and that
`observe_budgets` has brought the dimensions it is through up to date; `Told`, that
a step has its turn from when it is told until the next begins, and that a key
which had its notice is announced or about to be.

### LifecycleProofs

`TypeOK`, `OneWriter`, `WallIsCarried`, `CursorsAgree`, `RepeatsTheRecord` and
`AuditConfirms`, for any number of processes, attempts, steps, kills and resumes.
Nothing in `OneWriter` says that two processes that chose the same number cannot both
make it: `Placed` adds that a number was one past the highest when it was chosen, so
that mkdir, which succeeds only above the highest, makes exactly the next one. `Headed`
is why no wall time is lost: a header carries the time up to a record of the attempt it
continues, and what that one carried, and attempts before it never change below that
record (`Whole`, `OwnOK`: a journal only grows, and its times with it). The sum over the
chain of attempts that `WallIsCarried` is stated with is then shown to be what the
header says, by induction over the number of the attempt.

The other three compare two journals, through the operators that filter and pair their
records. The argument is a simulation between a run and what replays it:

1. `Story`: a journal is a list of turns, the last record of each at a known place, and
   the beginning of one more. Every prefix of a journal that a resume may continue tells
   one too (`JournalsTold`, with `TellsUpto`), so that what a resume keeps of it and what
   an audit reads of it are turns.
2. `Playing`: a process goes through the turns it was given in their order. The replies
   and results it has left are those of the turns it has not reached, both cursors stand
   at the turn it is in, and what it wrote tells the turns it is through (`DriversTold`).
   `CursorsAgree` is read off this: neither of the two cursors, which the code moves in
   different places, can be ahead of the other. That a resumed journal repeats the one it
   continues (`Resumes`) is what is left of it once the process is dead, and that is
   `RepeatsTheRecord`.
3. `Accord`: of two journals that tell the same turns, the records that a comparison
   looks at are the same as far as both go (`SameRecords`), unless a wall record
   stands before an intent and shifts its number (`Unshifted`), which is finding 3.
4. `Audited`: so an audit finds a divergence only where `AuditConfirms` says that it may, and
   its outcome is the recorded one; a stop by the wall, which a replay never makes, is
   why the outcome then depends on the anchor.

### GateChildProofs

All six properties and `TypeOK` of the run `gate_child`. The first invariant follows
a child through its stages and its three writes (`ChildOK`): its outcome is never a
pass or a failure, its marker is never written, and the line it printed is the one
of its outcome. The second, `Evidence`, is about the journal: undamaged lines are a
chain that ends only with its RunStopped, the head the parent kept is that of the
lines it stands for (`KeptOK`), a damage that is to be seen leaves no journal that
opens complete (`JournalOK`), and a child has measured what its stage comes after
(`InStages`, `Stands`). That two chains with one head are the same lines is an
induction over their length. `HostIs` is the ground truth of a host: whether a type of
file system is remote is asked of the types and not of the model's own verdict, which
would make `StartsOnALocalDisk` circular.

### TurnProofs

`TypeOK`, `OneOwnerPerCapability`, `AllowedIsSafe`, `ContextFits`, `CallKeepsItsBounds`,
`NeverAPartialReply`, `LinksAreNotFollowed` and `WalksAccountForAll` of `Turn`; the last
four also of one call (`ClientSpec`) or one operation (`WorkspaceSpec`) on its own, for
every environment.
`TurnInv` has one part for each component:

- `SessionInv`: what is admitted was admitted in order, each against those before
  (so an id has one owner), and the session is the one planned, less what was
  quarantined. `AllowedIsSafe` is an equivalence: the rules of `decide` in
  their order, the user's lists and the classes of the plan come down to one
  conjunction over the manifests, which is proved from what a plan accepts.
- `BuiltInv`: a context is what `build` makes of the turns, for any list of caps.
- `CallsInv` (`CallTyped`, `OnTime`, `StatusesOK`, `AnswerOK`): where a call stands says how
  late it may be; the statuses served are those retried and the one in hand; what is in
  hand of an answer is a prefix of one that the server may give. A prefix of the
  events that reads as a completion is then shown to be all that was sent
  of it, for each framing and both forms.
- `OpsInv` (`OpInv` and `WalkInv`). `OpInv` (`ClearedOK`, `InHandOK`): everything above a
  path in hand was looked at, and something that was looked at and leads outside was
  changed since. `WalkInv` is below.
- `AskedInv`: a decision is that of the session and the call in hand.

`WalksAccountForAll` compares the answer of a depth-first walk with the tree as it was
when the walk began, at every path that nobody changed in between. `WalkInv` has one part
for each thing that its answer rests on:

- `EntriesGenuine`: what was seen of such a path is what was there, on the stack, in the
  directory being read and in hand. `LookedAt` is the same of a path being resolved.
- `InTurn`: every entry comes once, after its directory and in the order of names; what was
  answered comes before what is in hand, and that before all that is pending. This is
  the order in which an answer is given, and why nothing is counted twice.
- `Covered`: while the walk has not said that it left something out, whatever it owes an
  answer about is pending (itself, or a directory above it), in hand, or told. At the end
  nothing is pending and nothing in hand, and this is the property.
- `ShownWasThere`: the converse, nothing is shown that was not there.
- `Counts`, `ListShows`: the counts of skipped files and of links are at least the
  number of those passed over, and a list that stops says so only with more to show.

Covering is by paths and not by entries, because a directory stands for all below it
until it is read, at any depth; the proof is for trees of every shape and any depth.

### What is assumed

Each assumption is named, stands in the module that declares the constants, and is
evaluated by TLC in the runs. They are of three kinds: bounds and limits are numbers;
a token for "nothing" is not one of the values it stands beside (`None \notin Keys`,
`None \notin DamageKinds`, `JournalAssumption`, `LifecycleAssumption`); and inputs have
the shape that the code's types give them. Of the last kind are `Answering`
(a status and a Retry-After are numbers, events are a list), `HostIs` (a mount table and
what the system says of it), `WellFormed` (a path has one of the eight forms that
`PathForms` lists, and parts), `WorkspaceAssumption` (the paths are finitely many lists of
names, with a path come those above it, and a list stops at an entry limit below that of a
walk, as the constants of the code do) and `Declared` (a capability has the enumerations of the
manifest, and a compiled-in manifest is the built-in one's verbs). None of them says
how an input is used, and each set of inputs may be of any size.

### How the model is written for it

Where the prover cannot reach an operator of the library, the model has its own form
of it: `Chosen` (module `Choice`) for selecting from a list, a recursive function in
`Verdict` for a fold, `Min` of a set of positions for the first of a kind, `PutBlob` for
extending a store. The library's induction theorems take an operator as a
parameter, which the provers cannot instantiate; the proofs use instead that every
nonempty set of numbers has a least one (`LeastIs`, from the well-founded order of the
numbers), and from that an induction over a *set* of numbers (`FromZero`). That is how
`Chosen`, the verdict of a plan, the chain of hashes, the chain of attempts and the
ancestors of a path are reasoned about.

### Only model-checked

- `Terminates` of the run `run_loop`, and liveness in general, which the prover does not
  reach; nor ENABLED.
- The findings (runs that expect a violation), which are counterexamples.

## 6. Findings

1. `six_steps`. Design 2.6, the comment on the constant and the notice shown to
   the model speak of three equal calls "within the last six steps"; the code's
   window holds six actions, and a step without an action does not age it.
2. `prompt_charge`. Design 2.2 charges the estimated input tokens with the step,
   before the model is called; the code charges them after the reply. A prompt
   that no longer fits is sent all the same.

3. `wall_left_out`. An audit leaves the wall's `BudgetCharged` record out of the
   comparison, but in the recorded attempt that record took a sequence number.
   The replay, whose meter has no wall limit, never writes it, so every later
   `intent_seq` is one less in the replay, and the bodies that carry it differ.
   An honest run that passes 80% of its wall time before a call or a submit
   audits as unreadable evidence. `AuditConfirms`, in the run `replays`, states
   what does hold, with this case and the request without a reply taken out.
4. `steps_recharged`. The module documentation says that steps and tokens are
   charged again by the catch-up. `resume` reads the newest attempt only, and
   keeps the steps below its last: if that attempt was itself killed while it
   caught up, what the attempts before it had spent beyond that step is charged to
   nobody, and those steps are run live again.

Findings 1, 2 and 4 are disagreements between document and code, finding 3 is a
bug of the code; the models follow the code.

Remarks: what modelling showed that no run states as a violation, because a
property of a passing run already carves it out or because nothing the program
does today reaches it.

- `harness-model/src/http.rs:14-17` says that the deadline is checked before every
  write. The write timeout is computed once (347-349) and `write_all` looks at no
  deadline, so a server that drains the request slowly keeps the call past it:
  this is the `drained` of `CallKeepsItsBounds`. A write that stalls for
  `read_timeout` is reported as `Deadline`.
- `harness-model/src/client.rs:8-10` says that each failed attempt's status is
  recorded on the result. A retry that ends in a connection, timeout, deadline or
  unusable reply loses the statuses before it; `StatusesAreNamed` claims the rest.
- `fs.list` reports neither a directory it could not read nor that its walk was
  stopped: an unreadable directory is answered with no entries and no note.
- `fs.search` says nothing of files below the depth limit of a walk.
- `build` may try a layout that is larger than the one before (a cut adds a notice, a
  dropped turn an index line), so `ContextFits` claims the order tried and not the
  largest context that would fit.
- `max_active_tools` is never exceeded by the four built-in tools, and the trifecta
  check is shadowed in this phase by the refusal of any egress.
- A run that is refused after the attempt's directory was made leaves an empty
  attempt, and the newest attempt then does not verify (`replay.rs:771`).
- `emit` would write the marker and exit 0 if an outcome were `Passed`, beside a
  report that says it could not run (`harness-cli/src/lib.rs:302-338`); no outcome is
  in this phase, which is part of what `GateChildProofs` shows.
- The anchor names the head of the last complete line, so a torn tail after
  `RunStopped` is accepted with it.

## 7. Not modelled, and why

- Parsing and rendering of text, canonical JSON, hashing, character sets: data
  without control that lasts; where they refuse, the refusal is an outcome of the
  action that asks.
- Rendering of a request, profiles and endpoints: texts read once at the start.
- Host statistics and bounded capture (`harness-sandbox/src/{environment,capture}.rs`):
  parsing of host data that no decision reads; it ends in findings of the lowest rank.
- `version`, `sandbox`, `manifest check`, `profile check` and the smoke test of a
  model: they print and change nothing.
- The scripted backend, which serves tests only; the strict JSON reader, whose
  refusals are outcomes of the actions that parse.
- The read log of a run, host pressure samples and the count of a standing
  condition: written, and read by nothing yet.
- Journals whose whole hash chain was computed again by someone else, apart from one
  that replaces the original as a whole.
