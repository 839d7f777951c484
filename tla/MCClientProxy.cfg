CONSTANTS
  Dim <- MCDim
  MaxMsgs <- MCMaxMsgs
  SockCap <- MCSockCap
  MaxLis <- MCMaxLis
  Null = Null
  Garbage = Garbage
  NoMsg = NoMsg
  Err = Err

SPECIFICATION Spec

INVARIANT TypeOK
PROPERTY MailboxRefined
PROPERTY Delivered
PROPERTY TunnelRefined
PROPERTY TunnelDelivers

\* Every behaviour ends: the queue's and the listener's offers are bounded,
\* and once an end closes, the proxy exits and the hub's tasks stop.
CHECK_DEADLOCK FALSE
