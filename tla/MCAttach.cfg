\* macosx: the socket or its run loop source cannot be made.
SPECIFICATION Spec
CONSTANTS
    Adapters = {"macosx"}
    Refusing = {"macosx"}
    Unguarded = {}
INVARIANT DataMeansAttached
CHECK_DEADLOCK FALSE
