SPECIFICATION Spec
CONSTANTS
    N = 3
    Config <- MCConfig
    MaxLines <- MCMaxLines
\* Every endpoint may end; once all have, nothing is left to run.
CHECK_DEADLOCK FALSE
INVARIANTS
    TypeOK
    NoResurrection
