\* Two objects, three Variables; one node that answers with a bad status.
CONSTANTS
    Root <- MCRoot
    ServerNode <- MCServerNode
    EU <- MCEU
    Hidden <- MCHidden
    Nodes <- MCNodes
    Names <- MCNames
    Sane <- MCSane
    Hash6 <- MCHash6
    Hash10 <- MCHash10
    Servers <- MCServers
    TypeDepth = 2
    MaxOperations = 3
SPECIFICATION FairSpec
INVARIANTS FoundOrReported FoundOnce OnlyFaultsFail DescribedAsServed NamesApart PinsAsFile
PROPERTIES WalkEnds
CHECK_DEADLOCK FALSE
