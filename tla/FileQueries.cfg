\* One listing, search or patch while other programs change the tree twice.
SPECIFICATION Spec
CONSTANTS
    Nodes <- Names
    Parent <- ParentOf
    Kind <- KindOf
    Target <- TargetOf
    FileStates <- States
    InitialTrees <- Trees
    Globbed = {1, 3, 5}
    Cost <- CostOf
    Limits = {1, 2}
    MaxResults = {2, 9}
    MaxBytes = {2, 9}
    MaxFileBytes = {4, 5}
    MaxDepths = {0, 2}
    EntryLimits = {4, 9}
    Characters = {"a", "b"}
    Sources <- SourceTexts
    EditLists <- ListsOfEdits
    MaxChanges = 2
INVARIANTS PagingComplete RangesComplete SearchHonest PatchMatchesReference
CHECK_DEADLOCK FALSE
