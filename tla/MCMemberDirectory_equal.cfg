\* Distinct client keys of different lengths, each logged in once (01 and
\* 00 00 are among them), with memcmp returning the byte difference.
CONSTANTS
    Keys <- MCMixedLengthKeys
    MaxLogins = 3
    MaxPerKey = 1
    MemcmpDiff = TRUE
SPECIFICATION Spec
INVARIANT DirectoryLive
CHECK_DEADLOCK FALSE
