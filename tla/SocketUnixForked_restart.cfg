SPECIFICATION Spec
CONSTANTS
    MaxRuns = 2
    MaxLines = 3
    MqMax = 10
    Interrupts = TRUE
\* After the last start the program is not started again.
CHECK_DEADLOCK FALSE
INVARIANT
    StartSucceeds
