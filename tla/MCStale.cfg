\* libhv: the read handler frees the context, as redisAsyncDisconnect may,
\* while the callback has a write to hand on.
SPECIFICATION Spec
CONSTANTS
    Adapters = {"libhv"}
    Refusing = {}
    Unguarded = {"libhv"}
PROPERTY NoStaleHandler
CHECK_DEADLOCK FALSE
