CONSTANTS
    Boards <- AllBoards
SPECIFICATION FairSpec
PROPERTIES RequestsFollowed BootSettles
