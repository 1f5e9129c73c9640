SPECIFICATION Spec
CONSTANTS
    MaxConn = 2
    Uid = {1, 2, 3}
    Me = 1
    Wrap = 3
    MaxAsked = 3
    Asks <- Several
INVARIANTS
    TypeOK
    OneEntryPerTid
PROPERTIES
    AnswersPassedOn
    QuestionsReachClients
CHECK_DEADLOCK FALSE
VIEW
    Books
