SPECIFICATION Spec
CONSTANTS
    Node = {1, 2, 3, 4}
    Schema = 0
    Allowed = {1, 2, 3}
    Ast <- Trees
    Refused <- RefusedTrees
    Definitions <- Groups
    Inspect <- Found
    LooksUp <- NamesIn
    Tree <- Nodes
    Size <- NodeCount
    Name <- Names
INVARIANTS TypeOK AcceptedIsSound RejectedIsNotExecutable OrderFollowsReads
PROPERTY BuildEnds
CHECK_DEADLOCK FALSE
