\* All adapters.  Where the code does not cope with a failure while it
\* attaches, or with a context freed in a handler, that does not happen.
SPECIFICATION FairSpec
CONSTANTS
    Adapters = {"poll", "libevent", "libsdevent", "libuv", "libev", "ae", "redismodule",
                "ivykis", "qt", "macosx", "glib", "libhv"}
    Refusing = {}
    Unguarded = {}
INVARIANTS
    TypeOK
    NoDangling
    WatchesAsked
    TimeoutKept
PROPERTIES
    KeepsPromise
    Released
    DeadlineServed
\* A program may stop after its last connection.
CHECK_DEADLOCK FALSE
