CONSTANTS
    None = None
    cycle = cycle
    message = message
    signal = signal
    Parts = {"activations"}
SPECIFICATION FairSpec
CHECK_DEADLOCK FALSE
PROPERTY EventsAndDeadlinesSettle
