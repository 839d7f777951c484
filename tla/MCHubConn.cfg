CONSTANTS
  MaxAccepts <- MCMaxAccepts
  Cap <- MCCap
  MaxRecv <- MCMaxRecv
  ClientMsgs <- MCClientMsgs

SPECIFICATION Spec

INVARIANT TypeOK
INVARIANT NoAssertAbort
INVARIANT MemberFreedSafely
INVARIANT ClosedListWellFormed
INVARIANT OnlyIncomingWaits
PROPERTY QueuedMsgSent

\* Every task may end up done, blocked on a socket nobody serves any more,
\* or asleep on an empty queue, and a fault stops the model: final states.
CHECK_DEADLOCK FALSE
