\* The same two connections, when the attacker may also replay the hub's
\* cleartext first message (N,PubR) into another connection.
CONSTANTS
    c1 = c1
    c2 = c2
    Conns <- MCConns
    MaxData = 2
    MaxInject = 1
    Replayable <- MCReplayAll
SYMMETRY MCSymmetry
SPECIFICATION Spec
INVARIANT NoNonceReuse
CHECK_DEADLOCK FALSE
