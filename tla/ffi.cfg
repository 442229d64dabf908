\* Two threads of a C program; all may have ended.
CONSTANTS
    Threads = {t, u}
    Buffers = {b1, b2}
    Strings = {s1, s2, s3}
    Lens <- MCLens
    Null = Null
    Free = Free
SPECIFICATION FfiSpec
INVARIANT ErrorIsOwnLast BuffersHeldOnce FailureIsTold
CHECK_DEADLOCK FALSE
