CONSTANTS
  h1 = h1
  h2 = h2
  n1 = n1
  n2 = n2
  NoLimit = NoLimit
  NoClient = NoClient
  Client = {h1, h2}
  Node = {n1, n2}
  Printing = {n1}
  Target <- MCTarget
  Cmd = {"cmd"}
  Re = {"re"}
  SEQNUM_MIN = 2
  SEQNUM_MAX = 4
  RetryLimit <- MCRetryLimit
  LineSize = 2
  InboxSize = 1
SPECIFICATION FairSpec
INVARIANTS
  TypeOK
  ReplyIsOwn
PROPERTIES
  ImplementsRemoteCall
  CallReturns
