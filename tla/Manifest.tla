------------------------------ MODULE Manifest -------------------------------
(***************************************************************************)
(* Capability manifests: their parsing and validation                       *)
(* (harness-manifest/src/lib.rs), input schemas (schema.rs), and the tiers  *)
(* that admit them into a registry (admission.rs).                          *)
(*                                                                          *)
(* A check is <<refused, why>>; the first that refuses is the answer.       *)
(* Texts that people read are one flag, and an id is its namespace and its  *)
(* verb.  A schema is an object of scalars: nesting is left out.            *)
(***************************************************************************)
EXTENDS Integers, SequencesExt

Accepted == "accepted"
FirstRefusal(checks) ==
  LET refused == {i \in DOMAIN checks : checks[i][1]}
  IN  IF refused = {} THEN Accepted ELSE checks[Min(refused)][2]

\* The dimensions, each in the order that derive(Ord) gives it.
Effects       == <<"read", "write", "execute", "irreversible">>
Sensitivities == <<"public", "operational", "personal", "restricted">>
BlastRadii    == <<"own", "host", "shared">>
Egresses      == <<"none", "lan", "internet">>
Contents      == <<"own", "third_party">>
Confirmations == <<"none", "user_confirm", "protected_action">>

Rank(order, value) == CHOOSE i \in DOMAIN order : order[i] = value
AtLeast(order, value, floor) == Rank(order, value) >= Rank(order, floor)

BUILTIN_NAMESPACE   == "harness"
RESERVED_NAMESPACES == {"harness", "rustyvault"}
CAPABILITIES_MAX    == 1024
SECRETS_MAX         == 16
PROPERTIES_MAX      == 32
ENUM_MAX            == 64
BadName == "?"                      \* fails the grammar of names
HarnessVersion == 1

Repeats(seq, i) == \E j \in 1..i - 1 : seq[j] = seq[i]
Unique(seq) == \A i \in DOMAIN seq : ~Repeats(seq, i)

-----------------------------------------------------------------------------
(***************************************************************************)
(* Input schemas.  A value is [json, v, size]: the size of a string is its  *)
(* length, that of a number the number.                                     *)
(***************************************************************************)
AnyValue == {}                       \* no enum
NoMin    == -1000
NoMax    == 1000

IsOf(type, json) == json = type \/ (type = "number" /\ json = "integer")

ScalarSound(node) ==
  /\ node.type \in {"string", "integer", "number", "boolean"}
  /\ node.min <= node.max
  /\ Cardinality(node.enum) <= ENUM_MAX
  /\ \A value \in node.enum : IsOf(node.type, value.json)

\* InputSchema::new
SchemaSound(schema) ==
  /\ schema.closed                                   \* additionalProperties: false
  /\ Cardinality(DOMAIN schema.properties) <= PROPERTIES_MAX
  /\ \A name \in DOMAIN schema.properties : name # BadName /\ ScalarSound(schema.properties[name])
  /\ Unique(schema.required) /\ Range(schema.required) \subseteq DOMAIN schema.properties

FitsScalar(node, value) ==
  /\ IsOf(node.type, value.json)
  /\ node.enum # AnyValue => value \in node.enum
  /\ node.min <= value.size /\ value.size <= node.max

\* mutant: an argument the schema does not declare is let pass
FitsOpen(schema, args) ==
  /\ \A name \in DOMAIN args \cap DOMAIN schema.properties :
       FitsScalar(schema.properties[name], args[name])
  /\ Range(schema.required) \subseteq DOMAIN args
\* validate_args
Fits(schema, args) ==
  /\ \A name \in DOMAIN args :
       name \in DOMAIN schema.properties /\ FitsScalar(schema.properties[name], args[name])
  /\ Range(schema.required) \subseteq DOMAIN args

-----------------------------------------------------------------------------
(***************************************************************************)
(* parse_with_origin: the bytes, then validate over the typed manifest.     *)
(***************************************************************************)
\* mutant: no name is reserved
NothingReserved(m) == FALSE
Reserved(m) == m.origin = "external" /\ m.provider \in RESERVED_NAMESPACES

FileChecks(m) ==
  << <<m.form = "too-large",                     "TooLarge">>,
     <<m.form = "malformed",                     "Json">>,
     <<m.form = "repeated-key",                  "DuplicateKey">>,
     <<m.form = "no-version",                    "NoSchemaVersion">>,
     <<m.form = "version-0",                     "SchemaV0">>,
     <<m.form = "later-version",                 "UnsupportedSchema">>,
     <<Reserved(m),                              "ReservedProvider">>,
     <<m.form = "null",                          "NullValue">>,
     <<m.form = "unknown-field",                 "Shape">> >>

\* validate_transport; the argv and env_allow rules are one flag.
TransportChecks(m) ==
  << <<m.transport = "builtin" /\ m.origin = "external",  "BuiltinTransportExternal">>,
     <<m.transport # "builtin" /\ m.origin = "compiled",  "BadTransport">>,
     <<~m.transport_sound,                                "BadTransport">> >>

IsMcp(m) == m.transport = "mcp-stdio"

ManifestChecks(m) ==
  << <<m.provider = BadName,                              "InvalidName">>,
     <<Reserved(m),                                       "ReservedProvider">>,
     <<m.origin = "compiled" /\ m.provider # BUILTIN_NAMESPACE, "ReservedProvider">>,
     <<~m.texts_sound,                                    "EmptyField">>,
     <<m.min_harness > HarnessVersion,                    "HarnessTooOld">> >>
  \o TransportChecks(m) \o
  << <<IsMcp(m) # (m.mcp_protocols # <<>>),               "TransportField">>,
     <<~Unique(m.mcp_protocols),                          "BadTransport">>,
     <<m.capabilities = <<>>,                             "NoCapabilities">>,
     <<Len(m.capabilities) > CAPABILITIES_MAX,            "TooLong">> >>

NoMcpName == "no-mcp_name"
IdsOf(m)      == [i \in DOMAIN m.capabilities |-> m.capabilities[i].id]
McpNamesOf(m) == [i \in DOMAIN m.capabilities |-> m.capabilities[i].mcp_name]

Foreign(m, id) == id.provider # m.provider

CapabilityChecks(m, i) ==
  LET c == m.capabilities[i]
  IN  << <<BadName \in {c.id.provider, c.id.verb},        "InvalidName">>,
         <<Foreign(m, c.id),                              "ForeignNamespace">>,
         <<Repeats(IdsOf(m), i),                          "DuplicateId">>,
         <<IsMcp(m) # (c.mcp_name # NoMcpName),           "TransportField">>,
         <<IsMcp(m) /\ c.mcp_name = BadName,              "InvalidName">>,
         <<IsMcp(m) /\ Repeats(McpNamesOf(m), i),         "DuplicateMcpName">>,
         <<~SchemaSound(c.input_schema),                  "Schema">>,
         <<(m.transport = "builtin") # (c.pins = "none"), "TransportField">>,
         <<c.pins = "not-hex",                            "BadPin">>,
         <<Len(c.secrets) > SECRETS_MAX \/ ~Unique(c.secrets), "InvalidName">>,
         <<c.limits = "zero",                             "BadLimits">> >>

\* Manifest::parse, builtin::manifest
ParseManifest(m) ==
  FirstRefusal(FileChecks(m) \o ManifestChecks(m)
               \o FlattenSeq([i \in DOMAIN m.capabilities |-> CapabilityChecks(m, i)]))

-----------------------------------------------------------------------------
(***************************************************************************)
(* Registry::admit.  An entry is a manifest that parsed, and its tier.      *)
(***************************************************************************)
Tiers == {"builtin", "signed", "pinned"}

TierChecks(m, tier) ==
  << <<(tier = "builtin") # (m.origin = "compiled"),              "TierMismatch">>,
     <<tier = "pinned" /\ m.transport = "in-process",             "TierExceeded">>,
     <<tier = "pinned" /\ \E i \in DOMAIN m.capabilities :
          \/ ~AtLeast(Sensitivities, "operational", m.capabilities[i].sensitivity)
          \/ ~AtLeast(BlastRadii, "host", m.capabilities[i].blast_radius), "TierExceeded">> >>

\* The H1 phase gate.
PhaseChecks(m, tier) ==
  << <<tier # "builtin",                                          "NotInThisPhase">>,
     <<m.transport # "builtin",                                   "NotInThisPhase">>,
     <<\E i \in DOMAIN m.capabilities : m.capabilities[i].secrets # <<>>, "NotInThisPhase">> >>

\* mutant: namespaces are compared only within a tier
ShadowChecksPerTier(entries) ==
  [i \in DOMAIN entries |-> <<\E j \in 1..i - 1 : /\ entries[j].manifest.provider = entries[i].manifest.provider
                                                  /\ entries[j].tier = entries[i].tier, "Shadowed">>]
ShadowChecks(entries) ==
  [i \in DOMAIN entries |->
     <<\E j \in 1..i - 1 : entries[j].manifest.provider = entries[i].manifest.provider, "Shadowed">>]

\* The phase gate hides what rules 1 to 3 say: `gated` tells whether it is on.
Admission(entries, gated) ==
  FirstRefusal(ShadowChecks(entries)
    \o FlattenSeq([i \in DOMAIN entries |->
         TierChecks(entries[i].manifest, entries[i].tier)
         \o (IF gated THEN PhaseChecks(entries[i].manifest, entries[i].tier) ELSE <<>>)]))

\* Registry::resolve counts every match.
Matches(registry, id) ==
  {match \in UNION {{i} \X DOMAIN registry[i].manifest.capabilities : i \in DOMAIN registry} :
     registry[match[1]].manifest.capabilities[match[2]].id = id}
Resolves(registry, id) == Cardinality(Matches(registry, id)) = 1
Resolve(registry, id) ==
  LET match == CHOOSE match \in Matches(registry, id) : TRUE
  IN  registry[match[1]].manifest.capabilities[match[2]]
=============================================================================
