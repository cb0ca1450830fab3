SPECIFICATION FairSpec
CONSTANTS
    ann = ann
    bob = bob
    Bad = Bad
    NoKey = NoKey
    NoProject = NoProject
    Unset = Unset
    Partly = Partly
    Users <- MCUsers
    Projects <- MCProjects
    Access <- MCAccess
    Listed <- MCListed
    Segments <- MCSegments
    Sources <- MCSources
    Environments <- MCEnvironments
    Flags <- MCFlags
    Arguments <- MCArguments
    NameLists <- MCNameLists
    Lifetimes <- MCLifetimes
    DefaultTTL = 2
    MaxTTL = 3
    Half = 8
    Heights = {0, 4, 6, 7}
INVARIANTS
    MessagesAreTrue
    JoinsWhatWasNamed
    SelectionIsShown
PROPERTIES
    LoginEnds
