------------------------------- MODULE Policy --------------------------------
(***************************************************************************)
(* The policy of a session (harness-policy/src/lib.rs): the effective class *)
(* of a capability, what a session may be planned with, and what may happen *)
(* to one call.  path.rs is the lexical rule for a path argument.           *)
(*                                                                          *)
(* A user rule is named by its list, not by its index in it.                *)
(***************************************************************************)
EXTENDS Manifest

-----------------------------------------------------------------------------
(***************************************************************************)
(* workspace_path.  A path is a form and, where it has them, its parts.     *)
(***************************************************************************)
Path(form, parts) == [form |-> form, parts |-> parts]

PathRefusal(path) ==
  FirstRefusal(
    << <<path.form = "empty",     "Empty">>,    <<path.form = "too-long",  "TooLong">>,
       <<path.form = "control",   "Control">>,  <<path.form = "backslash", "Backslash">>,
       <<path.form = "absolute",  "Absolute">>, <<path.form = "colon",     "Colon">> >>
    \o FlattenSeq([i \in DOMAIN path.parts |->
         << <<path.parts[i] = "",    "EmptyComponent">>, <<path.parts[i] = ".",  "CurrentDir">>,
            <<path.parts[i] = "..",  "Parent">>,         <<path.parts[i] = "x.", "TrailingDotOrSpace">>,
            <<path.parts[i] = "con", "DeviceName">> >>]))

-----------------------------------------------------------------------------
(***************************************************************************)
(* Classes and user policy.                                                 *)
(***************************************************************************)
DerivedFloor(c) ==
  CASE c.effect = "irreversible" \/ c.blast_radius = "shared" -> "protected_action"
    [] /\ ~(c.effect = "irreversible" \/ c.blast_radius = "shared")
       /\ c.egress = "internet" \/ AtLeast(Sensitivities, c.sensitivity, "personal") -> "user_confirm"
    [] OTHER -> "none"

Highest(confirmations) ==
  CHOOSE c \in confirmations : \A d \in confirmations : AtLeast(Confirmations, c, d)

\* mutant: a user rule replaces the derived floor
UserFloorOnly(c, user_floor) ==
  [effect |-> c.effect, sensitivity |-> c.sensitivity, egress |-> c.egress, content |-> c.content,
   confirmation |-> Highest({c.confirmation, user_floor}),
   requires_conformed |-> AtLeast(Effects, c.effect, "execute")]
EffectiveClass(c, user_floor) ==
  [effect |-> c.effect, sensitivity |-> c.sensitivity, egress |-> c.egress, content |-> c.content,
   confirmation |-> Highest({c.confirmation, DerivedFloor(c), user_floor}),
   requires_conformed |-> AtLeast(Effects, c.effect, "execute")]

AnyVerb == "*"
MatchesId(selector, id) == selector.provider = id.provider /\ selector.verb \in {AnyVerb, id.verb}
Listed(list, id) == \E i \in DOMAIN list : MatchesId(list[i], id)

\* UserPolicy::new
PolicySound(policy) ==
  LET all == policy.deny \o policy.ask \o policy.allow
  IN  Unique(all) /\ \A i \in DOMAIN all : BadName \notin {all[i].provider, all[i].verb}

-----------------------------------------------------------------------------
(***************************************************************************)
(* Session::plan.  A spec is [grants, workspace, approver, personal].       *)
(***************************************************************************)
NoWorkspace == "no-workspace"
FsVerbs     == {"fs.read", "fs.search", "fs.list"}
IsFsTool(id) == id.provider = BUILTIN_NAMESPACE /\ id.verb \in FsVerbs
SUBMIT_ID   == [provider |-> BUILTIN_NAMESPACE, verb |-> "task.submit"]

IsSubmitSentinel(c) ==
  /\ c.id = SUBMIT_ID
  /\ c.effect = "write" /\ c.sensitivity = "public" /\ c.blast_radius = "own"
  /\ c.egress = "none" /\ c.content = "own" /\ c.confirmation = "none"

\* trifecta: private, untrusted and a way out
Trifecta(classes, workspace) ==
  /\ \/ \E i \in DOMAIN classes : AtLeast(Sensitivities, classes[i].sensitivity, "personal")
     \/ workspace = "private"
  /\ (\E i \in DOMAIN classes : classes[i].content = "third_party") \/ workspace # NoWorkspace
  /\ \E i \in DOMAIN classes : classes[i].egress # "none"

ClassIn(policy, c) ==
  EffectiveClass(c, IF Listed(policy.ask, c.id) THEN "user_confirm" ELSE "none")

GrantRefusal(spec, registry) ==
  FirstRefusal(FlattenSeq([i \in DOMAIN spec.grants |->
    << <<Repeats(spec.grants, i),                 "DuplicateGrant">>,
       <<Matches(registry, spec.grants[i]) = {},  "UnknownCapability">>,
       <<~Resolves(registry, spec.grants[i]),     "Ambiguous">> >>]))

PlanRefusal(spec, registry, policy) ==
  IF GrantRefusal(spec, registry) # Accepted THEN GrantRefusal(spec, registry)
  ELSE
    LET held    == [i \in DOMAIN spec.grants |-> Resolve(registry, spec.grants[i])]
        classes == [i \in DOMAIN held |-> ClassIn(policy, held[i])]
    IN  FirstRefusal(
          << <<\E i \in DOMAIN held : held[i].sensitivity = "restricted", "Restricted">>,
             <<Trifecta(classes, spec.workspace),                         "Trifecta">> >>
          \o FlattenSeq([i \in DOMAIN held |->
            << <<IsFsTool(held[i].id) /\ spec.workspace = NoWorkspace,        "NoWorkspace">>,
               <<held[i].effect # "read" /\ ~IsSubmitSentinel(held[i]),       "OutOfScope">>,
               <<held[i].egress # "none",                                     "OutOfScope">> >>]))

Activated(c, policy) ==
  [class |-> ClassIn(policy, c), schema |-> c.input_schema,
   user_deny  |-> Listed(policy.deny, c.id),
   user_ask   |-> Listed(policy.ask, c.id),
   user_allow |-> Listed(policy.allow, c.id),
   fs_tool |-> IsFsTool(c.id), submit |-> IsSubmitSentinel(c)]

\* The session of a plan that is not refused.
Planned(spec, registry, policy) ==
  [active      |-> [id \in Range(spec.grants) |-> Activated(Resolve(registry, id), policy)],
   quarantined |-> {},
   approver_present |-> spec.approver,
   personal_granted |-> spec.personal]

-----------------------------------------------------------------------------
(***************************************************************************)
(* Session::decide.  A call is [capability, args].                          *)
(***************************************************************************)
Allow(rule) == [is |-> "Allow", rule |-> rule]
Ask(tier)   == [is |-> "Ask", tier |-> tier]
Deny(rule)  == [is |-> "Deny", rule |-> rule]

PathArgument(args) ==
  IF args["path"].json = "string" THEN args["path"].v ELSE Path("empty", <<>>)

\* The deny rules of a capability `a` that is active, in their order.
DenyRules(session, a, call) ==
  << <<call.capability \in session.quarantined,                      "deny.quarantined">>,
     <<a.class.effect # "read" /\ ~a.submit,                         "deny.class-out-of-scope">>,
     <<a.class.sensitivity = "restricted",                           "deny.restricted">>,
     <<a.class.egress # "none",                                      "deny.egress-unavailable">>,
     <<a.class.requires_conformed,                                   "deny.no-conformed">>,
     <<a.class.sensitivity = "personal" /\ ~session.personal_granted, "deny.personal-not-granted">>,
     <<a.user_deny,                                                  "user.Deny">>,
     <<~Fits(a.schema, call.args),                                   "deny.args-schema">>,
     <<a.fs_tool /\ "path" \in DOMAIN call.args /\ PathRefusal(PathArgument(call.args)) # Accepted,
                                                                     "deny.path-outside-workspace">> >>

AskRule(session, a) ==
  IF session.approver_present THEN Ask(a.class.confirmation) ELSE Deny("deny.no-approver")

AllowRule(a) ==
  CASE a.user_allow -> Allow("user.Allow")
    [] /\ ~a.user_allow /\ a.class.effect = "read"
       /\ AtLeast(Sensitivities, "operational", a.class.sensitivity) -> Allow("allow.default.read")
    [] /\ ~a.user_allow /\ a.submit
       /\ ~(a.class.effect = "read" /\ AtLeast(Sensitivities, "operational", a.class.sensitivity))
       -> Allow("allow.task-submit")
    [] OTHER -> Deny("deny.default")

Decide(session, call) ==
  IF call.capability \notin DOMAIN session.active THEN Deny("deny.not-granted")
  ELSE LET a == session.active[call.capability]
           denied == FirstRefusal(DenyRules(session, a, call))
       IN  IF denied # Accepted THEN Deny(denied)
           ELSE IF AtLeast(Confirmations, a.class.confirmation, "user_confirm") THEN AskRule(session, a)
           ELSE AllowRule(a)

\* Session::authorize
Authorizes(session, call) == Decide(session, call).is = "Allow"

Quarantined(session, id) == [session EXCEPT !.quarantined = @ \cup {id}]
=============================================================================
