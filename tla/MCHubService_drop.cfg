\* Two connections, each queue holding one Message, four Messages in all.
\* Every connection ends finished or stopped by a memory fault, so the
\* system stops: deadlock is not an error.
CONSTANTS
    Keys <- MCKeys
    MaxLogins = 2
    MaxPerKey = 1
    MemcmpDiff = TRUE
    UserPaths <- MCUserPaths
    Targets <- MCTargets
    Args <- MCArgs
    Dim = 2
    MaxMsgs = 4
SPECIFICATION Spec
INVARIANT NoSilentDrop
CHECK_DEADLOCK FALSE
