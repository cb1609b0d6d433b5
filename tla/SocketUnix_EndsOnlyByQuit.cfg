SPECIFICATION Spec
CONSTANTS
    N = 3
    Config <- MCConfig
    MaxLines <- MCMaxLines
CHECK_DEADLOCK FALSE
INVARIANT EndsOnlyByQuit
