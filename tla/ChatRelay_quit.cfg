SPECIFICATION Spec
CONSTANTS
    mme = mme
    enb1 = enb1
    enb2 = enb2
    Tasks <- MCTasks
    Mortal <- MCMortal
    Empty = Empty
    QuitMsg = QuitMsg
    MaxTyped <- MCMaxTyped
\* The process ends when every task has returned: main's join completes.
CHECK_DEADLOCK FALSE
INVARIANTS
    TypeOK
    LineSentOnce
PROPERTY QuitEndsAllTasks
