SPECIFICATION Spec
CONSTANTS
    Words <- MCWords
    Banged <- MCBanged
    Names <- MCNames
    Originals <- MCOriginals
    Lists <- MCLists
    GroupNames = {"g"}
    GlobalAliases <- MCGlobal
    Commands <- MCCommands
    Handlers = {h1, h2}
    Requests = 1
    UserRequests = 1
    Gone = Gone
    NoLimit = NoLimit
    Unset = Unset
INVARIANTS TypeOK TrieFollowsTables LimitHolds
PROPERTY SelfAliasOnlyBySet
SYMMETRY Symmetry
