\* Handshake and data phase of two connections under an attacker that
\* replays recorded encrypted frames. A connection ends when both parties
\* have ended or failed, so the system stops: deadlock is not an error.
CONSTANTS
    c1 = c1
    c2 = c2
    Conns <- MCConns
    MaxData = 2
    MaxInject = 1
    Replayable <- MCReplayEncrypted
SYMMETRY MCSymmetry
SPECIFICATION Spec
INVARIANT TypeOK NoNonceReuse DataInOrderOnce HubKeyAgreement HandshakeFieldsAgree HateChallengeAnswered
CHECK_DEADLOCK FALSE
