SPECIFICATION Spec
CONSTANTS
  None = None
  Prefix = 4000
  Budget = 8000
  RecentTurns = 3
  Deadline = 7
  CONNECT_TIMEOUT = 1
  READ_TIMEOUT = 2
  MAX_RETRIES = 2
  BASE = 2
  CAP = 3
  MAX_BODY = 7
  Slack = 1
  MaxTime = 9
  wire_name <- MCwire_name
  Answers <- MCAnswers
  Listings <- MCListings
  Names <- MCNames
  Paths <- MCPaths
  Trees <- MCTrees
  ChangeTo = {"absent", "link", "match", "dir"}
  MaxChanges = 2
  SEARCH_MAX_HITS = 1
  LIST_MAX_ENTRIES = 2
  LIST_MAX_DEPTH = 4
  WALK_MAX_DEPTH = 2
  WALK_MAX_ENTRIES = 4
  FACTS_MAX_ENTRIES = 4
  Setups <- MCSetups
  Histories <- MCHistories
  Calls <- MCCalls
  MaxTools = 5
INVARIANTS
  TypeOK
  OneOwnerPerCapability
  AllowedIsSafe
  CallKeepsItsBounds
  NeverAPartialReply
  ContextFits
  WalksAccountForAll
  LinksAreNotFollowed
CHECK_DEADLOCK FALSE
