--------------------------------- MODULE Turn ---------------------------------
(***************************************************************************)
(* A session from its manifests to one turn after another: the manifests    *)
(* are admitted, the model server is asked whether it has the model, the    *)
(* session is planned and the workspace measured; then, each turn, the      *)
(* context is built, the model called, its reply parsed and decided, and    *)
(* what is allowed runs.  ModelClient and Workspace take their own steps;   *)
(* RunLoop has what the run records, charges and stops for around them.     *)
(*                                                                          *)
(* A setup with `gated` FALSE admits without the phase gate, as plan_with's *)
(* tests do: it may hold any manifest, and its calls are decided, not run.  *)
(* Between two operations the workspace may have become any of Trees.       *)
(***************************************************************************)
EXTENDS Policy, Context, ModelClient, Workspace

CONSTANTS
  Setups,     \* [entries, gated, grants, workspace, approver, personal, policy, protocol]
  Histories,  \* the turns a run may have behind it
  Calls,      \* what a session without a model is asked
  MaxTools,   \* max_active_tools of the profile
  None

\* A path argument is of a form the code tells apart, with components it does.
BadParts  == {"", ".", "..", "x.", "con"}
PathForms == {"empty", "too-long", "control", "backslash", "absolute", "colon", "root", "relative"}
WellFormed(asks) ==
  "path" \in DOMAIN asks.args /\ asks.args["path"].json = "string" =>
    /\ asks.args["path"].v.form \in PathForms
    /\ asks.args["path"].v.parts \in Seq(Range(Names) \cup BadParts)

\* A capability has an id and enumerations; what is compiled in has these names.
Declared(m) ==
  /\ m.origin \in {"compiled", "external"} /\ m.capabilities \in Seq(Range(m.capabilities))
  /\ \A c \in Range(m.capabilities) :
       /\ c.id = [provider |-> c.id.provider, verb |-> c.id.verb]
       /\ c.effect \in Range(Effects) /\ c.sensitivity \in Range(Sensitivities)
       /\ c.blast_radius \in Range(BlastRadii) /\ c.egress \in Range(Egresses)
       /\ c.confirmation \in Range(Confirmations)
       /\ m.origin = "compiled" => c.id.verb \in FsVerbs \cup {"task.submit"}

ASSUME TurnAssumption ==
  /\ Range(Names) \cap BadParts = {}
  /\ \A s \in Setups : /\ s.entries \in Seq(Range(s.entries)) /\ s.grants \in Seq(Range(s.grants))
                       /\ s.gated \in BOOLEAN
                       /\ \A entry \in Range(s.entries) : Declared(entry.manifest)
  /\ \A asks \in Calls : WellFormed(asks)
  /\ \A answer \in Answers : \A event \in Range(answer.events) :
       /\ event.is = "json" => WellFormed(event.call)
       /\ event.is = "call" => WellFormed(event)
       /\ event.is \in {"json", "call"} => event.form \in JsonForms
  /\ \A history \in Histories : Len(history) \in Nat

VARIABLES
  phase,
  setup,
  session,    \* None before it is planned
  turns, built,
  asked,      \* the call to decide
  decision

vars == <<phase, setup, session, turns, built, asked, decision, call, tree, op>>

Phases == {"manifests", "startup", "plan", "facts", "context", "built", "model", "decide",
           "decided", "tool", "ended"}

Unread    == CHOOSE t \in Trees : TRUE

Entries == setup.entries

Init ==
  /\ phase = "manifests" /\ setup \in Setups /\ session = None
  /\ turns = <<>> /\ built = None /\ asked = None /\ decision = None
  /\ call = NoCall /\ op = NoOp /\ tree = Unread

still == <<setup, session, turns, built, asked, decision, call, tree, op>>

-----------------------------------------------------------------------------
(***************************************************************************)
(* builtin_registry, UserPolicy::new, startup_check, plan, workspace_facts. *)
(***************************************************************************)
Refusals == [i \in DOMAIN Entries |-> ParseManifest(Entries[i].manifest)]

Admitted ==
  /\ \A i \in DOMAIN Entries : Refusals[i] = Accepted
  /\ Admission(Entries, setup.gated) = Accepted
  /\ PolicySound(setup.policy)

Admit ==
  /\ phase = "manifests"
  /\ phase' = IF ~Admitted THEN "ended" ELSE IF setup.gated THEN "startup" ELSE "plan"
  /\ UNCHANGED still

StartupCheck ==
  /\ phase = "startup" /\ call.pc = "idle"
  /\ call' = Call("models")
  /\ UNCHANGED <<phase, setup, session, turns, built, asked, decision, tree, op>>

StartedUp ==
  /\ phase = "startup" /\ call.pc = "done"
  /\ phase' = IF call.outcome = Ready THEN "plan" ELSE "ended"
  /\ call' = NoCall
  /\ UNCHANGED <<setup, session, turns, built, asked, decision, tree, op>>

\* mutant: a run is granted whatever is admitted
EveryGrant == IdsOf(Entries[1].manifest)
\* The driver grants the submit sentinel, declares a workspace, has no approver.
DriverGrants == IF SUBMIT_ID \in Range(setup.grants) THEN setup.grants ELSE Append(setup.grants, SUBMIT_ID)
SpecOf ==
  IF setup.gated
  THEN [grants |-> DriverGrants, workspace |-> setup.workspace, approver |-> FALSE, personal |-> FALSE]
  ELSE [grants |-> setup.grants, workspace |-> setup.workspace, approver |-> setup.approver,
        personal |-> setup.personal]

Plan ==
  /\ phase = "plan"
  /\ IF \/ PlanRefusal(SpecOf, Entries, setup.policy) # Accepted
        \/ setup.gated /\ Len(DriverGrants) > MaxTools
     THEN phase' = "ended" /\ UNCHANGED session
     ELSE /\ phase' = IF setup.gated THEN "facts" ELSE "decide"
          /\ session' = Planned(SpecOf, Entries, setup.policy)
  /\ UNCHANGED <<setup, turns, built, asked, decision, call, tree, op>>

\* What stands between the plan and the facts may refuse: a root that is a link or
\* no directory, a state root that cannot be used or overlaps it, a remote disk.
PrepareRefuses ==
  /\ phase = "facts" /\ op.pc = "idle"
  /\ phase' = "ended"
  /\ UNCHANGED still

MeasureFacts ==
  /\ phase = "facts" /\ op.pc = "idle"
  /\ tree' \in Trees
  /\ op' = Op("facts", <<>>, 0, tree')
  /\ UNCHANGED <<phase, setup, session, turns, built, asked, decision, call>>

FactsMeasured ==
  /\ phase = "facts" /\ op.pc = "done"
  /\ phase' = IF op.status = "ok" THEN "context" ELSE "ended"
  /\ op' = NoOp /\ tree' = Unread
  /\ UNCHANGED <<setup, session, turns, built, asked, decision, call>>

-----------------------------------------------------------------------------
(***************************************************************************)
(* A turn.                                                                  *)
(***************************************************************************)
BuildContext ==
  /\ phase = "context"
  /\ turns' \in Histories /\ built' = Build(turns')
  /\ phase' = "built"
  /\ UNCHANGED <<setup, session, asked, decision, call, tree, op>>

Send ==
  /\ phase = "built"
  /\ IF built = Exhausted THEN phase' = "ended" /\ UNCHANGED call
     ELSE phase' = "model" /\ call' = Call("chat")
  /\ turns' = <<>> /\ built' = None
  /\ UNCHANGED <<setup, session, asked, decision, tree, op>>

\* model_error: what was unusable is a turn of its own, the rest stops the run.
ModelFails ==
  /\ phase = "model" /\ call.pc = "done" /\ call.outcome.is = "error"
  /\ phase' = IF call.outcome.why \in {"Empty", "Truncated", "Unusable"} THEN "context" ELSE "ended"
  /\ call' = NoCall
  /\ UNCHANGED <<setup, session, turns, built, asked, decision, tree, op>>

ParsedReply == ParseReply(call.outcome, setup.protocol, DriverGrants)

Parse ==
  /\ phase = "model" /\ call.pc = "done" /\ call.outcome.is = "completion"
  /\ IF ParsedReply.is = "action" THEN phase' = "decide" /\ asked' = ParsedReply.call
     ELSE phase' = "context" /\ UNCHANGED asked
  /\ call' = NoCall
  /\ UNCHANGED <<setup, session, turns, built, decision, tree, op>>

\* A session without a model is asked, and a provider may be quarantined.
Asked ==
  /\ phase = "decide" /\ asked = None
  /\ asked' \in Calls
  /\ UNCHANGED <<phase, setup, session, turns, built, decision, call, tree, op>>

Quarantine ==
  /\ phase = "decide" /\ asked = None
  /\ \E id \in DOMAIN session.active : session' = Quarantined(session, id)
  /\ UNCHANGED <<phase, setup, turns, built, asked, decision, call, tree, op>>

Decides ==
  /\ phase = "decide" /\ asked # None
  /\ decision' = Decide(session, asked)
  /\ phase' = "decided"
  /\ UNCHANGED <<setup, session, turns, built, asked, call, tree, op>>

AskAgain ==
  /\ phase = "decided" /\ (~setup.gated \/ decision.is # "Allow")
  /\ phase' = IF setup.gated THEN "context" ELSE "decide"
  /\ asked' = None /\ decision' = None
  /\ UNCHANGED <<setup, session, turns, built, call, tree, op>>

Submits ==
  /\ phase = "decided" /\ setup.gated /\ decision.is = "Allow" /\ asked.capability = SUBMIT_ID
  /\ phase' = "ended"
  /\ UNCHANGED still

Argument(name, default) == IF name \in DOMAIN asked.args THEN asked.args[name].v ELSE default
PathOf == Argument("path", Path("root", <<>>)).parts
Depth  == Argument("depth", 1)
HasPattern == Argument("pattern", "") # ""
Tool   == CASE asked.capability.verb = "fs.read"   -> "read"
            [] asked.capability.verb = "fs.search" -> "search"
            [] asked.capability.verb = "fs.list"   -> "list"

\* A deadline that has passed, or an argument out of range, ends the call at once.
Refuses == phase = "decided" /\ setup.gated /\ decision.is = "Allow" /\ asked.capability # SUBMIT_ID
           /\ phase' = "context" /\ asked' = None /\ decision' = None
           /\ UNCHANGED <<setup, session, turns, built, call, tree, op>>

Invoke ==
  /\ phase = "decided" /\ setup.gated /\ decision.is = "Allow" /\ asked.capability # SUBMIT_ID
  /\ Tool = "search" => HasPattern
  /\ Tool = "list" => Depth \in 1..LIST_MAX_DEPTH
  /\ phase' = "tool"
  /\ tree' \in Trees
  /\ op' = Op(Tool, PathOf, Depth, tree')
  /\ UNCHANGED <<setup, session, turns, built, asked, decision, call>>

ToolFinished ==
  /\ phase = "tool" /\ op.pc = "done"
  /\ phase' = "context" /\ asked' = None /\ decision' = None
  /\ op' = NoOp /\ tree' = Unread
  /\ UNCHANGED <<setup, session, turns, built, call>>

-----------------------------------------------------------------------------
others == <<phase, setup, session, turns, built, asked, decision>>

ClientSteps    == ClientNext /\ UNCHANGED <<others, tree, op>>
WorkspaceSteps == WorkspaceNext /\ UNCHANGED <<others, call>>

Next ==
  \/ Admit \/ StartupCheck \/ StartedUp \/ Plan \/ PrepareRefuses \/ MeasureFacts \/ FactsMeasured
  \/ BuildContext \/ Send \/ ModelFails \/ Parse \/ Asked \/ Quarantine \/ Decides
  \/ AskAgain \/ Submits \/ Refuses \/ Invoke \/ ToolFinished
  \/ ClientSteps \/ WorkspaceSteps

Spec == Init /\ [][Next]_vars

-----------------------------------------------------------------------------
TypeOK ==
  /\ phase \in Phases
  /\ session # None => /\ DOMAIN session.active \subseteq {SUBMIT_ID} \cup Range(setup.grants)
                            /\ session.quarantined \subseteq DOMAIN session.active
  /\ turns # <<>> => turns \in Histories
  /\ decision # None => asked # None /\ decision.is \in {"Allow", "Ask", "Deny"}
  /\ call.pc \in {"idle", "connect", "write", "writing", "head", "body", "retry", "done"}
  /\ op.pc \in {"idle", "resolve", "open", "walk", "list", "visit", "done"}
  /\ op.pc # "idle" => phase \in {"facts", "tool"}
  /\ call.pc # "idle" => phase \in {"startup", "model"}

\* The capability an id stands for, found by the manifest of its namespace.
Owners(id) == {i \in DOMAIN Entries : Entries[i].manifest.provider = id.provider}
OwnedBy(id) ==
  {c \in UNION {Range(Entries[i].manifest.capabilities) : i \in Owners(id)} : c.id = id}

(* Whatever is admitted, an id that a session holds belongs to exactly one  *)
(* manifest, that of its namespace, and a harness name to the one that is   *)
(* compiled in (admission.rs, harness-manifest validate).                   *)
OneOwnerPerCapability ==
  session # None /\ phase \in {"facts", "decide"} /\ op.pc = "idle" =>
    \A i \in DOMAIN Entries : \A k \in DOMAIN Entries[i].manifest.capabilities :
      LET id == Entries[i].manifest.capabilities[k].id
      IN  /\ Owners(id) = {i} /\ Matches(Entries, id) = {<<i, k>>}
          /\ id.provider = "harness" => Entries[i].manifest.origin = "compiled"

FirstOf(set) == CHOOSE c \in set : TRUE
UserSays(list, id) == \E r \in Range(list) : r.provider = id.provider /\ r.verb \in {"*", id.verb}
AsDeclared(schema, args) ==
  /\ Range(schema.required) \subseteq DOMAIN args /\ DOMAIN args \subseteq DOMAIN schema.properties
  /\ \A name \in DOMAIN args :
       LET given == args[name]  declared == schema.properties[name]
       IN  /\ given.json = declared.type \/ <<given.json, declared.type>> = <<"integer", "number">>
           /\ declared.enum = AnyValue \/ given \in declared.enum
           /\ declared.min <= given.size /\ given.size <= declared.max
StaysInside(args) ==
  "path" \in DOMAIN args =>
    /\ args["path"].json = "string"
    /\ args["path"].v.form \in {"root", "relative"}
    /\ Range(args["path"].v.parts) \subseteq Range(Names)

\* What may run without a person being asked.
Harmless(c) ==
  /\ c.effect = "read" \/ c.id = SUBMIT_ID
  /\ c.egress = "none" /\ c.blast_radius \in {"own", "host"}
  /\ c.sensitivity \in {"public", "operational"} /\ c.confirmation = "none"

(* A call is allowed only if its one capability was granted and is not      *)
(* quarantined, is harmless in itself, the user neither denies it nor wants *)
(* to be asked, and its arguments stay in the schema and the workspace; a   *)
(* user's allow lifts none of that (lib.rs decide and plan, 5.1).           *)
AllowedIsSafe ==
  phase = "decided" =>
    LET id == asked.capability
        c  == FirstOf(OwnedBy(id))
    IN  decision.is = "Allow" <=>
          /\ id \in DOMAIN session.active /\ id \notin session.quarantined
          /\ Harmless(c)
          /\ ~UserSays(setup.policy.deny, id) /\ ~UserSays(setup.policy.ask, id)
          /\ AsDeclared(c.input_schema, asked.args)
          /\ id.provider = "harness" /\ id.verb # "task.submit" => StaysInside(asked.args)

(* The context that is sent fits its budget, shows the newest turn word for *)
(* word and drops no turn that would have fit; the run stops for it only if *)
(* the newest turn alone does not fit at its smallest (context.rs build).   *)
ContextFits ==
  phase = "built" =>
    LET newest == Min({1, Len(turns)})
        floor  == Len(ObsCaps)
        Fit(recent, cap) == Estimate(turns, recent, ObsCaps[cap]) <= Budget
    IN  IF built = Exhausted THEN ~Fit(newest, floor)
        ELSE /\ Fit(built.recent, built.cap) /\ built.recent >= newest
             /\ \A more \in built.recent + 1..Min({RecentTurns, Len(turns)}) : ~Fit(more, 1)
             /\ built.cap > 1 => built.recent = newest /\ ~Fit(newest, built.cap - 1)
=============================================================================
