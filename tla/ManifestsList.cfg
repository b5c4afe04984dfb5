SPECIFICATION Spec
CONSTANTS
    Lines <- SomeLines
    MaxLines = 7
CHECK_DEADLOCK FALSE
INVARIANT ListIsComplete
INVARIANT SplitKeepsDocuments
INVARIANT ListedCanBeMoved
