SPECIFICATION Spec
CONSTANTS
  Commands <- Cmds
  ReplyOf <- Replies
  TriesOf <- Tries
  Unsolicited = {"ack"}
  QueueBound = 3
  MaxCalls = 24
  MaxFaults = 3
CHECK_DEADLOCK FALSE
INVARIANTS
  VerifiedHolds
  VerifyTolerates
PROPERTIES
  OwnReply
