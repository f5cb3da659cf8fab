SPECIFICATION Spec
CONSTANTS
    Hops = 2
    MaxRequeues = 1
    Callers = {"service"}
PROPERTIES
    SuccessfulChainCompletes
CHECK_DEADLOCK FALSE
