------------------------------- MODULE MCTurn -------------------------------
(* Small instances of what Turn is given: manifests, sessions, answers of   *)
(* the server, conversations and workspaces.                                *)
EXTENDS Turn

-----------------------------------------------------------------------------
Value(json, v, size) == [json |-> json, v |-> v, size |-> size]
Scalar(type, min, max) == [type |-> type, enum |-> AnyValue, min |-> min, max |-> max]
Schema(properties, required) ==
  [closed |-> TRUE, properties |-> properties, required |-> required]

Text(max) == Scalar("string", NoMin, max)
PathSchema == Schema("path" :> Text(9) @@ "depth" :> Scalar("integer", 1, 4), <<"path">>)

Id(provider, verb) == [provider |-> provider, verb |-> verb]
Capability(id, effect, schema) ==
  [id |-> id, mcp_name |-> NoMcpName, effect |-> effect, sensitivity |-> "operational",
   blast_radius |-> "own", egress |-> "none", content |-> "third_party", confirmation |-> "none",
   input_schema |-> schema, pins |-> "none", secrets |-> <<>>, limits |-> "given"]

ReadCap   == Capability(Id("harness", "fs.read"), "read", PathSchema)
SearchCap == Capability(Id("harness", "fs.search"), "read",
               Schema("path" :> Text(9) @@ "pattern" :> Text(9), <<"pattern">>))
ListCap   == Capability(Id("harness", "fs.list"), "read", PathSchema)
SubmitCap == [Capability(SUBMIT_ID, "write", Schema("note" :> Text(9), <<"note">>))
                EXCEPT !.sensitivity = "public", !.content = "own"]

Manifest0(provider, origin, transport, capabilities) ==
  [origin |-> origin, form |-> "sound", provider |-> provider, texts_sound |-> TRUE, min_harness |-> 1,
   transport |-> transport, transport_sound |-> TRUE,
   mcp_protocols |-> IF transport = "mcp-stdio" THEN <<"2025-06-18">> ELSE <<>>,
   capabilities |-> capabilities]
Builtin == Manifest0("harness", "compiled", "builtin", <<ReadCap, SearchCap, ListCap, SubmitCap>>)

\* Of a tool outside: over MCP, with its pin.
McpCap(provider, verb) ==
  [Capability(Id(provider, verb), "read", Schema(<<>>, <<>>)) EXCEPT !.mcp_name = verb, !.pins = "hex"]
Mcp(provider, capabilities) == Manifest0(provider, "external", "mcp-stdio", capabilities)

At0(tier, manifest) == [tier |-> tier, manifest |-> manifest]
Home == At0("builtin", Builtin)

-----------------------------------------------------------------------------
NoRules == [deny |-> <<>>, ask |-> <<>>, allow |-> <<>>]
ReadId == ReadCap.id
ListId == ListCap.id
SearchId == SearchCap.id

Shipped(grants, workspace, policy, protocol) ==
  [entries |-> <<Home>>, gated |-> TRUE, grants |-> grants, workspace |-> workspace,
   approver |-> FALSE, personal |-> FALSE, policy |-> policy, protocol |-> protocol]

ShippedSetups ==
  { Shipped(<<ReadId, SearchId, ListId>>, "private", NoRules, "text"),
    Shipped(<<ReadId, SearchId, ListId, SUBMIT_ID>>, "public",
            [deny |-> <<ReadId>>, ask |-> <<ListId>>, allow |-> <<Id("harness", "*")>>], "native"),
    Shipped(<<ReadId, ReadId>>, "private", NoRules, "text"),
    Shipped(<<Id("harness", "fs.write")>>, "private", NoRules, "text"),
    Shipped(<<ReadId>>, "private", [NoRules EXCEPT !.ask = <<ReadId, ReadId>>], "text"),
    [Shipped(<<ReadId>>, "private", NoRules, "text") EXCEPT !.entries = <<Home, At0("pinned", Mcp("web", <<McpCap("web", "get")>>))>>] }

\* A session with one more manifest than the build has.
With(entry, grants, workspace, policy) ==
  [entries |-> <<Home, entry>>, gated |-> FALSE, grants |-> grants, workspace |-> workspace,
   approver |-> TRUE, personal |-> TRUE, policy |-> policy, protocol |-> "text"]

X == Id("web", "get")
XCap == McpCap("web", "get")
AllowX == [NoRules EXCEPT !.allow = <<X>>]
Web(c) == At0("signed", Mcp("web", <<c>>))

\* One label of the capability at a time, with a user who allows it.
Labelled ==
  {With(Web(c), <<X>>, NoWorkspace, AllowX) : c \in
     {XCap} \cup {[XCap EXCEPT !.effect = e] : e \in Range(Effects)}
     \cup {[XCap EXCEPT !.sensitivity = s] : s \in Range(Sensitivities)}
     \cup {[XCap EXCEPT !.blast_radius = b] : b \in Range(BlastRadii)}
     \cup {[XCap EXCEPT !.egress = e] : e \in Range(Egresses)}
     \cup {[XCap EXCEPT !.confirmation = c] : c \in Range(Confirmations)}}

Personal == [XCap EXCEPT !.sensitivity = "personal"]
Policies ==
  {With(Web(XCap), <<X, ReadId>>, "private", p) : p \in
     {NoRules, [NoRules EXCEPT !.deny = <<Id("web", "*")>>], [AllowX EXCEPT !.ask = <<Id("web", "*")>>],
      [NoRules EXCEPT !.allow = <<Id("?", "*")>>]}}
  \cup {[With(Web(Personal), <<X>>, NoWorkspace, AllowX) EXCEPT !.approver = a, !.personal = p] :
          a \in BOOLEAN, p \in BOOLEAN}
  \cup {With(Web([XCap EXCEPT !.egress = "lan"]), <<X>>, w, NoRules) : w \in {"private", "public"}}
  \cup {With(Web(XCap), <<ReadId>>, NoWorkspace, NoRules)}

\* What tries to take another's names, and what a manifest may get wrong.
Impostors ==
  { At0("signed", Mcp("harness", <<[McpCap("harness", "get") EXCEPT !.mcp_name = "get"]>>)),
    At0("signed", Mcp("rustyvault", <<McpCap("rustyvault", "get")>>)),
    At0("signed", Mcp("web", <<[XCap EXCEPT !.id = ReadId]>>)),
    At0("signed", Mcp("web", <<XCap, [XCap EXCEPT !.mcp_name = "other"]>>)),
    At0("signed", Mcp("web", <<XCap, [XCap EXCEPT !.id = Id("web", "put")]>>)),
    At0("builtin", Mcp("web", <<XCap>>)), At0("signed", Builtin),
    At0("builtin", [Builtin EXCEPT !.provider = "web"]),
    At0("pinned", Mcp("web", <<Personal>>)),
    At0("pinned", Manifest0("web", "external", "in-process", <<[XCap EXCEPT !.mcp_name = NoMcpName]>>)),
    At0("signed", Manifest0("web", "external", "builtin", <<[XCap EXCEPT !.mcp_name = NoMcpName, !.pins = "none"]>>)),
    At0("signed", [Mcp("web", <<XCap>>) EXCEPT !.mcp_protocols = <<>>]),
    At0("signed", [Mcp("web", <<XCap>>) EXCEPT !.min_harness = 2]),
    At0("signed", [Mcp("web", <<XCap>>) EXCEPT !.form = "repeated-key"]),
    At0("signed", Mcp("web", <<>>)),
    Web([XCap EXCEPT !.pins = "not-hex"]), Web([XCap EXCEPT !.limits = "zero"]),
    Web([XCap EXCEPT !.input_schema.closed = FALSE]),
    Web([XCap EXCEPT !.input_schema.required = <<"absent">>]) }

\* Two of one namespace, one that replaces the built-in, and one that takes its name.
Twice == [With(Web(XCap), <<X>>, NoWorkspace, NoRules) EXCEPT
            !.entries = <<Home, Web(XCap), At0("pinned", Mcp("web", <<McpCap("web", "put")>>))>>]
Homeless == [With(Web(XCap), <<X>>, NoWorkspace, NoRules) EXCEPT !.entries = <<Web(XCap)>>]
Stolen   == [With(Web(XCap), <<Id("harness", "get")>>, NoWorkspace, NoRules) EXCEPT
               !.entries = <<At0("signed", Mcp("harness", <<McpCap("harness", "get")>>))>>]

MCSetups ==
  ShippedSetups \cup Labelled \cup Policies \cup {Twice, Homeless, Stolen}
  \cup {With(entry, <<ReadId>>, "private", NoRules) : entry \in Impostors}

-----------------------------------------------------------------------------
PathValue(form, parts) == Value("string", Path(form, parts), 4)
Inside   == PathValue("relative", <<"d", "b">>)
Outwards == {PathValue("relative", <<"d", "..">>), PathValue("absolute", <<"d">>),
             PathValue("relative", <<"d", "con">>), PathValue("empty", <<>>)}
Root     == PathValue("root", <<>>)
Dir      == PathValue("relative", <<"d">>)

Asks(id, args) == [capability |-> id, args |-> args]
MCCalls ==
  {Asks(X, <<>>), Asks(X, "extra" :> Root), Asks(Id("web", "put"), <<>>), Asks(SUBMIT_ID, "note" :> Root)}
  \cup {Asks(ReadId, "path" :> p) : p \in {Inside} \cup Outwards}
  \cup {Asks(ReadId, <<>>), Asks(ReadId, "path" :> Value("integer", 1, 1))}

\* The calls a model makes of the shipped build.
ModelCalls ==
  {Asks(ReadId, "path" :> Inside), Asks(ReadId, "path" :> PathValue("relative", <<"d", "..">>)),
   Asks(SearchId, "pattern" :> Value("string", "match", 5)),
   Asks(SearchId, "pattern" :> Value("string", "", 0)),
   Asks(SearchId, "pattern" :> Value("string", "match", 5) @@ "path" :> Dir),
   Asks(ListId, "path" :> Root @@ "depth" :> Value("integer", 2, 2)),
   Asks(ListId, "path" :> Dir @@ "depth" :> Value("integer", 5, 5)),
   Asks(Id("harness", "fs.write"), "path" :> Inside),
   Asks(SUBMIT_ID, "note" :> Value("string", "done", 4))}

-----------------------------------------------------------------------------
Answer(status, type, after, framing, events) ==
  [head |-> "sound", status |-> status, type |-> type, after |-> after, framing |-> framing,
   events |-> events]

\* The ids of the build as function names; "harness.fs.read" itself is none.
MCwire_name(id) ==
  CASE id = ReadId -> "harness_fs_read"   [] id = SearchId -> "harness_fs_search"
    [] id = ListId -> "harness_fs_list"   [] id = SUBMIT_ID -> "harness_task_submit"
    [] id = Id("harness", "fs.write") -> "harness_fs_write"
    [] id = X -> "web_get"  [] id = Id("web", "put") -> "web_put"

InText(c)   == <<OPEN, Json("sound", c), CLOSE, Finish("stop")>>
Native(name, form, args) == <<ToolCall(name, form, args), Finish("tool_calls")>>
InNative(c) == Native(MCwire_name(c.capability), "sound", c.args)
Some == Asks(ReadId, "path" :> Inside)

MCAnswers ==
  {Answer(200, "json", 0, "length", InText(c)) : c \in ModelCalls}
  \cup {Answer(200, "json", 0, "length", InNative(c)) : c \in ModelCalls}
  \cup {Answer(200, "json", 0, "length", Native("harness_fs_read", form, Some.args)) : form \in JsonForms}
  \cup { [Answer(200, "sse", 0, "close", <<>>) EXCEPT !.head = "malformed"],
         Answer(200, "sse", 0, "close", <<Words>> \o InText(Some) \o <<DONE>>),
         Answer(200, "sse", 0, "chunked", InText(Some) \o InText(Some)),
         Answer(200, "sse", 0, "chunked", <<Words, OPEN, Json("bad-json", Some), CLOSE, Finish("stop")>>),
         Answer(200, "sse", 0, "close", <<Words, CLOSE, OPEN, Finish("stop")>>),
         Answer(200, "sse", 0, "close", <<Words, Finish("stop"), DONE, Words>>),
         Answer(200, "sse", 0, "close", <<Words, Garbled, Finish("stop")>>),
         Answer(200, "sse", 0, "length", <<Words, Finish("length")>>),
         Answer(200, "sse", 0, "chunked", <<Words, Words, Words, Words, Words, Words, Words, Words>>),
         Answer(200, "json", 0, "length", Native("harness.fs.read", "bad-json", Some.args)),
         Answer(200, "json", 0, "length", <<Head(InNative(Some))>> \o InNative(Some)),
         Answer(200, "json", 0, "length", <<Finish("stop")>>),
         Answer(200, "json", 0, "close", <<Words, Finish("content_filter")>>),
         Answer(200, "html", 0, "close", <<Words>>),
         Answer(429, "json", 0, "length", <<>>), Answer(429, "json", 3, "close", <<Words>>),
         Answer(503, "json", 0, "chunked", <<Words>>), Answer(404, "json", 0, "length", <<>>) }

MCListings ==
  { Answer(200, "json", 0, "length", <<"listed">>), Answer(200, "json", 0, "close", <<"listed">>),
    Answer(200, "json", 0, "length", <<"absent">>), Answer(503, "json", 0, "length", <<>>) }

-----------------------------------------------------------------------------
TurnOf(reply, lines, width, notice) ==
  [reply |-> reply, lines |-> lines, width |-> width, notice |-> notice]
MCHistories ==
  SeqOf({TurnOf(200, 60, 0, 0), TurnOf(900, 400, 60, 120), TurnOf(300, 30, 40, 0), TurnOf(40000, 5, 20, 0)}, 4)

T(d, b, c, f) == (<<"d">> :> d) @@ (<<"d", "b">> :> b) @@ (<<"d", "c">> :> c) @@ (<<"f">> :> f)
MCNames == <<"b", "c", "d", "f">>
MCPaths == {<<"d">>, <<"d", "b">>, <<"d", "c">>, <<"f">>}
MCTrees ==
  { T("dir", "match", "plain", "match"), T("dir", "binary", "link", "big"),
    T("link", "absent", "absent", "plain"), T("sealed", "plain", "absent", "locked"),
    T("dir", "dir", "absent", "other"), T("match", "absent", "absent", "absent") }
=============================================================================
