CONSTANTS
  MaxAccepts <- MCMaxAccepts
  Cap <- MCCap
  MaxRecv <- MCMaxRecv
  ClientMsgs <- MCClientMsgs

SPECIFICATION LiveClientSpec

PROPERTY LockWaitEnds

\* Every task may end up done, blocked on a socket nobody serves any more,
\* or asleep on an empty queue, and a fault stops the model: final states.
CHECK_DEADLOCK FALSE
