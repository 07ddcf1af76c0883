SPECIFICATION Spec
CONSTANTS
    menu = menu
    users = users
    Roles <- TwoRoles
    Changing <- OnlyUsers
    Draggable <- OnlyMenu
    MaxSaves = 2
    MaxCache = 2
INVARIANTS
    TypeOK
    NoneLost
    NoneTwice
    SelectedShown
    ScreenInv
PROPERTIES
    RevokedByUser
    BoardSpec
CHECK_DEADLOCK FALSE
