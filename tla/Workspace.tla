------------------------------ MODULE Workspace ------------------------------
(***************************************************************************)
(* The read tools over a workspace and the measurement of its facts         *)
(* (harness-tools/src/builtin.rs), one call of the file system at a time,   *)
(* while another process changes the tree.                                  *)
(*                                                                          *)
(* A node of the tree is absent, a directory ("dir", or "sealed" when it    *)
(* cannot be listed), a link out of the workspace, a file, or another kind. *)
(* A file is one line: "match" or "plain"; "binary" is not text, "big" is   *)
(* over every size cap, and "locked" cannot be opened.                      *)
(***************************************************************************)
EXTENDS Integers, SequencesExt

CONSTANTS
  Names,             \* in name order
  Paths,             \* the paths of the workspace: sequences of names
  Trees,             \* what the workspace may hold at first
  ChangeTo,          \* what another process may put at a path
  MaxChanges,        \* bound: changes during one operation
  SEARCH_MAX_HITS, LIST_MAX_ENTRIES, LIST_MAX_DEPTH, WALK_MAX_DEPTH, WALK_MAX_ENTRIES, FACTS_MAX_ENTRIES

Parent(path) == Front(path)
Ancestors(path) == {SubSeq(path, 1, n) : n \in 1..Len(path) - 1}
Nodes == {"absent", "dir", "sealed", "link", "match", "plain", "binary", "big", "locked", "other"}

ASSUME WorkspaceAssumption ==
  /\ Names \in Seq(Range(Names)) /\ IsFiniteSet(Paths)
  /\ \A p \in Paths : p \in Seq(Range(Names)) /\ p # <<>>
  /\ \A p \in Paths : Ancestors(p) \subseteq Paths
  /\ Trees # {} /\ Trees \subseteq [Paths -> Nodes] /\ ChangeTo \subseteq Nodes
  /\ {MaxChanges, SEARCH_MAX_HITS, LIST_MAX_ENTRIES, LIST_MAX_DEPTH, WALK_MAX_DEPTH} \subseteq Nat
  /\ FACTS_MAX_ENTRIES \in Nat \ {0}
  /\ WALK_MAX_ENTRIES \in Nat /\ LIST_MAX_ENTRIES + 2 <= WALK_MAX_ENTRIES

VARIABLES
  tree,   \* the workspace
  op      \* the operation in hand, if any

IsDir(node)  == node \in {"dir", "sealed"}
IsFile(node) == node \in {"match", "plain", "binary", "big", "locked"}
Outside == "match"             \* what a link leads to, and whatever is under it

NodeOf(t, path) == IF path = <<>> THEN "dir" ELSE IF path \in Paths THEN t[path] ELSE "absent"
Leaves(t, path) == \E a \in Ancestors(path) : NodeOf(t, a) = "link"

\* symlink_metadata: links before the last component are followed.
Lstat(t, path) ==
  IF Leaves(t, path) THEN Outside
  ELSE IF \A a \in Ancestors(path) : IsDir(NodeOf(t, a)) THEN NodeOf(t, path) ELSE "absent"

\* open: every link is followed.
IsOutside(t, path) == Leaves(t, path) \/ NodeOf(t, path) = "link"
Opened(t, path) == IF IsOutside(t, path) THEN Outside ELSE Lstat(t, path)

\* read_dir; a link leads to a directory with the names this one had.
Kids(path) == {p \in Paths : Parent(p) = path}
NamesIn(t, path) ==
  IF IsOutside(t, path) THEN Kids(path) ELSE {p \in Kids(path) : t[p] # "absent"}
Listable(t, path) == IsOutside(t, path) \/ Lstat(t, path) = "dir"

Position(name) == CHOOSE i \in DOMAIN Names : Names[i] = name
ByName(p, q) == Position(Last(p)) < Position(Last(q))

-----------------------------------------------------------------------------
NoOp == [pc |-> "idle"]

\* base, changed, cleared and taken are history: the tree at the start, the
\* paths changed since, those seen to be no link, and those whose content came
\* from outside.
Op(does, at, depth, now) ==
  [pc |-> "resolve", does |-> does, at |-> at, depth |-> depth, late |-> FALSE, meta |-> "none",
   stack |-> <<>>, entry |-> <<>>, names |-> {}, kids |-> {},
   visited |-> 0, symlinks |-> 0, unreadable |-> 0, stopped |-> FALSE,
   skipped |-> 0, more |-> FALSE, found |-> <<>>, status |-> "none",
   base |-> now, changed |-> {}, cleared |-> {<<>>}, taken |-> {}]

Running  == op.pc \notin {"idle", "done"}
Ends(status) == op' = [op EXCEPT !.pc = "done", !.status = status]

\* io_out of a path without an entry: nothing is there, or what stands on the way is
\* no directory, which is another error.
IoOut(path) ==
  IF \A a \in Ancestors(path) : \/ NodeOf(tree, a) = "absent" \/ IsDir(NodeOf(tree, a))
                                \/ \E b \in Ancestors(a) : NodeOf(tree, b) = "absent"
  THEN "NOT_FOUND" ELSE "IO"

\* facts_with asks for usize::MAX, deeper than any path.
MaxDepth == CASE op.does = "search" -> WALK_MAX_DEPTH [] op.does = "list" -> op.depth
              [] op.does = "facts"  -> Cardinality(Paths)
Limit    == IF op.does = "facts" THEN FACTS_MAX_ENTRIES ELSE WALK_MAX_ENTRIES

\* An entry on the stack carries what was seen of it when it was listed.
Entry(path, meta) == [path |-> path, meta |-> meta]

-----------------------------------------------------------------------------
(***************************************************************************)
(* resolve: component by component, no link followed.  facts_with looks at  *)
(* the root alone.                                                          *)
(***************************************************************************)
\* mutant: only the last component is looked at
LastAlone(path, n) == IF n = 0 THEN path ELSE <<>>
NextComponent(path, n) == IF n < Len(path) THEN SubSeq(path, 1, n + 1) ELSE <<>>

LookAt ==
  LET next == NextComponent(op.at, Len(op.entry))
      seen == Lstat(tree, next)
  IN  /\ op.pc = "resolve" /\ next # <<>>
      /\ op' = CASE seen = "absent" -> [op EXCEPT !.pc = "done", !.status = IoOut(next)]
                 [] seen = "link"   -> [op EXCEPT !.pc = "done", !.status = "SYMLINK"]
                 [] OTHER -> [op EXCEPT !.entry = next, !.meta = seen, !.cleared = @ \cup {next}]
      /\ UNCHANGED tree

Resolved ==
  LET meta == IF op.at = <<>> THEN "dir" ELSE op.meta
  IN  /\ op.pc = "resolve" /\ NextComponent(op.at, Len(op.entry)) = <<>>
      /\ CASE op.does = "read" /\ ~IsFile(meta) -> Ends("NOT_A_FILE")
           [] op.does = "read" /\ meta = "big"  -> Ends("TOO_LARGE")
           [] op.does = "read" /\ IsFile(meta) /\ meta # "big" -> op' = [op EXCEPT !.pc = "open"]
           [] op.does = "list" /\ ~IsDir(meta)  -> Ends("NOT_A_DIR")
           [] OTHER -> op' = [op EXCEPT !.pc = "walk", !.entry = <<>>,
                                        !.stack = <<Entry(op.at, meta)>>]
      /\ UNCHANGED tree

Content(path) == [path |-> path, kind |-> "f", content |-> Opened(tree, path)]
Taken(path)   == IF IsOutside(tree, path) THEN op.taken \cup {path} ELSE op.taken

\* fs.read: the file is opened by its path again.
Read ==
  /\ op.pc = "open"
  /\ CASE Opened(tree, op.at) = "absent" -> Ends(IoOut(op.at))
       [] Opened(tree, op.at) = "big"    -> Ends("TOO_LARGE")
       [] Opened(tree, op.at) = "binary" -> Ends("NOT_TEXT")
       [] Opened(tree, op.at) \in {"match", "plain"} ->
            op' = [op EXCEPT !.pc = "done", !.status = "ok", !.found = <<Content(op.at)>>,
                             !.taken = Taken(op.at)]
       [] OTHER -> Ends("IO")
  /\ UNCHANGED tree

-----------------------------------------------------------------------------
(***************************************************************************)
(* Walk::next_entry: take the next entry, and list it if it is a directory. *)
(***************************************************************************)
Pop ==
  /\ op.pc = "walk" /\ op.stack # <<>>
  /\ LET e == Last(op.stack)
         c == [op EXCEPT !.stack = Front(@), !.entry = e, !.visited = @ + 1]
     IN  op' = IF op.visited + 1 > Limit THEN [c EXCEPT !.stopped = TRUE, !.stack = <<>>]
               ELSE IF ~IsDir(e.meta) \/ Len(e.path) - Len(op.at) >= MaxDepth THEN [c EXCEPT !.pc = "visit"]
               ELSE IF Listable(tree, e.path)
               THEN [c EXCEPT !.pc = "list", !.names = NamesIn(tree, e.path), !.kids = {}]
               ELSE [c EXCEPT !.pc = "visit", !.unreadable = @ + 1]
  /\ UNCHANGED tree

\* mutant: a link is listed by what it leads to
SeenThrough(path) == Opened(tree, path)
Seen(path) == Lstat(tree, path)

AtLimit == op.visited + Len(op.stack) + Cardinality(op.kids) >= Limit

\* One entry of the directory, in any order.
Stat ==
  /\ op.pc = "list" /\ op.names # {}
  /\ \E path \in op.names :
       LET c == [op EXCEPT !.names = @ \ {path}]
           seen == Seen(path)
       IN  op' = IF op.late THEN [op EXCEPT !.pc = "done", !.status = "timeout"]
                 ELSE IF AtLimit THEN [op EXCEPT !.stopped = TRUE, !.names = {}]
                 ELSE IF seen = "absent" THEN [c EXCEPT !.unreadable = @ + 1]
                 ELSE IF seen = "link"
                 THEN [c EXCEPT !.kids = @ \cup {Entry(path, seen)}, !.symlinks = @ + 1]
                 ELSE [c EXCEPT !.kids = @ \cup {Entry(path, seen)}, !.cleared = @ \cup {path}]
  /\ UNCHANGED tree

\* mutant: the entries are taken as the directory gave them
AsGiven(kids) ==
  {s \in [1..Cardinality(kids) -> kids] : \A i, j \in DOMAIN s : i < j => s[i] # s[j]}
\* In reverse name order on the stack.
InOrder(kids) ==
  {s \in [1..Cardinality(kids) -> kids] :
     \A i, j \in DOMAIN s : i < j => ByName(s[j].path, s[i].path)}

Listing ==
  /\ op.pc = "list" /\ op.names = {}
  /\ \E listed \in InOrder(op.kids) :
       op' = [op EXCEPT !.pc = "visit", !.stack = @ \o listed, !.kids = {}]
  /\ UNCHANGED tree

-----------------------------------------------------------------------------
(***************************************************************************)
(* What each operation makes of an entry.                                   *)
(***************************************************************************)
Line(kind, content) == [path |-> op.entry.path, kind |-> kind, content |-> content]
Show(line) == op' = [op EXCEPT !.pc = "walk", !.found = Append(@, line)]
Onwards    == op' = [op EXCEPT !.pc = "walk"]

\* try_search
Search(meta) ==
  LET text == Opened(tree, op.entry.path)
  IN  CASE ~IsFile(meta) -> Onwards
        [] IsFile(meta) /\ (meta = "big" \/ text \notin {"match", "plain"}) ->
             op' = [op EXCEPT !.pc = "walk", !.skipped = @ + 1]
        [] OTHER ->
             IF text = "plain" THEN Onwards
             ELSE IF Len(op.found) = SEARCH_MAX_HITS
             THEN op' = [op EXCEPT !.pc = "walk", !.more = TRUE, !.stack = <<>>]
             ELSE op' = [op EXCEPT !.pc = "walk", !.found = Append(@, Line("f", text)),
                                   !.taken = Taken(op.entry.path)]

KindOf(meta) == CASE meta = "link" -> "l" [] IsDir(meta) -> "d" [] IsFile(meta) -> "f" [] OTHER -> "o"

\* try_list
List(meta) ==
  IF Len(op.found) = LIST_MAX_ENTRIES
  THEN op' = [op EXCEPT !.pc = "walk", !.more = TRUE, !.stack = <<>>]
  ELSE Show(Line(KindOf(meta), "none"))

\* facts_with and hash_capped: the file is looked at again, then opened.
Measure(meta) ==
  LET path == op.entry.path
      text == Opened(tree, path)
  IN  CASE ~IsFile(meta) -> Show(Line(KindOf(meta), "none"))
        [] IsFile(meta) /\ text = "big" -> Show(Line("F", meta))
        [] IsFile(meta) /\ (~IsFile(text) \/ text = "locked") -> Ends("IO")
        [] OTHER -> op' = [op EXCEPT !.pc = "walk", !.found = Append(@, Line("f", text)),
                                     !.taken = Taken(path)]

\* The deadline is looked at before every entry.
Visit ==
  /\ op.pc = "visit"
  /\ CASE op.late -> Ends("timeout")
       [] ~op.late /\ op.does = "search" -> Search(op.entry.meta)
       [] ~op.late /\ op.does # "search" /\ Len(op.entry.path) = Len(op.at) -> Onwards
       [] ~op.late /\ op.does = "list" /\ Len(op.entry.path) # Len(op.at)  -> List(op.entry.meta)
       [] OTHER -> Measure(op.entry.meta)
  /\ UNCHANGED tree

\* mutant: facts are stated whatever the walk left out
StatedAnyway == "ok"
\* What a facts walk that reached its end says of itself.
Stated == IF op.stopped \/ op.unreadable > 0 THEN "IO" ELSE "ok"

WalkEnds ==
  /\ op.pc = "walk" /\ op.stack = <<>>
  /\ Ends(IF op.does = "facts" THEN Stated ELSE "ok")
  /\ UNCHANGED tree

-----------------------------------------------------------------------------
\* Time passes, and another process works in the tree.
Late == Running /\ ~op.late /\ op' = [op EXCEPT !.late = TRUE] /\ UNCHANGED tree

Change ==
  /\ Running /\ Cardinality(op.changed) < MaxChanges
  /\ \E path \in Paths \ op.changed, node \in ChangeTo :
       /\ NodeOf(tree, path) # node
       /\ tree' = [tree EXCEPT ![path] = node]
       /\ op' = [op EXCEPT !.changed = @ \cup {path}]

WorkspaceNext ==
  \/ LookAt \/ Resolved \/ Read \/ Pop \/ Stat \/ Listing \/ Visit \/ WalkEnds \/ Late \/ Change

\* One operation on its own; Turn makes them one after the other.
Operations == {"read", "search", "list", "facts"}
WorkspaceInit ==
  /\ tree \in Trees
  /\ \E does \in Operations, at \in Paths \cup {<<>>}, depth \in 0..LIST_MAX_DEPTH :
       /\ does = "facts" => at = <<>>
       /\ op = Op(does, at, depth, tree)
WorkspaceSpec == WorkspaceInit /\ [][WorkspaceNext]_<<tree, op>>

-----------------------------------------------------------------------------
Answered == op.pc = "done" /\ op.status = "ok"

\* What nobody touched, and the directories on the way to it.
Stable(path) == ({path} \cup Ancestors(path)) \cap op.changed = {}
Below(path)  == IsStrictPrefix(op.at, path)
There(path)  == Lstat(op.base, path) # "absent" /\ ~Leaves(op.base, path)
\* Those a walk comes to: every directory on the way can be listed.
Reached(path) ==
  /\ Below(path) /\ Stable(path) /\ There(path) /\ Len(path) - Len(op.at) <= MaxDepth
  /\ \A a \in Ancestors(path) : op.base[a] = "dir"

FactsOf(node) ==
  CASE IsFile(node) -> IF node = "big" THEN <<"F", "big">> ELSE <<"f", node>>
    [] OTHER -> <<KindOf(node), "none">>

FoundAt(path) == {i \in DOMAIN op.found : op.found[i].path = path}

\* Facts that are stated are whole: every entry that stayed as it was, once,
\* with its kind and content, in one order whatever order it was listed in.
FactsAreWhole ==
  /\ \A path \in Paths : Stable(path) =>
       IF There(path) THEN \E i \in DOMAIN op.found : FoundAt(path) = {i} /\
                             <<op.found[i].kind, op.found[i].content>> = FactsOf(op.base[path])
       ELSE FoundAt(path) = {}
  /\ \A i, j \in DOMAIN op.found :
       Parent(op.found[i].path) = Parent(op.found[j].path) /\ ByName(op.found[i].path, op.found[j].path)
         => i < j

\* A search that answers has found every match that stayed, or says what it
\* left out, and shows no match where there was none.
SearchAccounts ==
  /\ \A path \in Paths : Reached(path) /\ op.base[path] = "match" =>
       FoundAt(path) # {} \/ op.more \/ op.stopped
  /\ \A path \in Paths : FoundAt(path) # {} /\ Stable(path) => op.base[path] = "match"
  /\ ~op.more /\ ~op.stopped =>
       op.skipped >= Cardinality({p \in Paths : Reached(p) /\ op.base[p] \in {"big", "binary", "locked"}})
  /\ ~op.stopped /\ ~op.more =>
       op.symlinks >= Cardinality({p \in Paths : Reached(p) /\ op.base[p] = "link"})

\* A list shows every entry that stayed, by its kind, or says there are more.
ListAccounts ==
  \A path \in Paths : Reached(path) =>
    \/ \E i \in DOMAIN op.found : FoundAt(path) = {i} /\ op.found[i].kind = KindOf(op.base[path])
    \/ op.more

(* A walk that answers accounts for what there was and nobody changed       *)
(* meanwhile: facts for every entry; a search for every match and every     *)
(* file passed over, a list for every entry, both within the depth of the   *)
(* walk and below directories that can be listed, unless they say that      *)
(* there is more (builtin.rs Walk, facts_with, try_search, try_list).       *)
WalksAccountForAll ==
  Answered => CASE op.does = "facts" -> FactsAreWhole [] op.does = "search" -> SearchAccounts
                 [] op.does = "list" -> ListAccounts   [] op.does = "read" -> TRUE

(* Nothing is read from outside the workspace, unless a component of the    *)
(* path became a link after it was looked at: the residual builtin.rs names *)
(* at its lines 18 to 24 (INV-30).                                          *)
LinksAreNotFollowed ==
  op.pc # "idle" =>
    \A path \in op.taken :
      \E link \in ({path} \cup Ancestors(path)) \cap op.changed : link \in op.cleared
=============================================================================
