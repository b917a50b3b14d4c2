\* Two chats, one of which may be the superuser; one or two slots, two
\* updates, two starts, one failed call.
SPECIFICATION FairSpec
CONSTANTS
  Stmts <- MCStmts
  MaxStarts = 2
  Chat = {c1, c2}
  NoSuper = none
  Super = {none, c1}
  Handler = {h1, h2}
  Capacities = {1, 2}
  MaxUpdates = 2
  MaxFaults = 1
INVARIANTS SchemaReady NoticeOnce AdminOnlyGranted SuperuserServed
PROPERTIES ShutdownEnds UpdatesHandled
CHECK_DEADLOCK FALSE
