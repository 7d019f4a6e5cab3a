SPECIFICATION FairSpec
CONSTANTS
    Parts = {"a", "b"}
    Lists <- MCLists
INVARIANTS TypeOK ShortestUnique NoLongerThanNeeded NamesJoined AliasesLead
PROPERTIES SweepsAdvance SweepsEnd
CHECK_DEADLOCK FALSE
