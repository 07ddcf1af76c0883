SPECIFICATION FairSpec
CONSTANTS
    s1 = s1
    s2 = s2
    s3 = s3
    Sessions = {s1, s2, s3}
    Joiners <- Users
    Talkers <- OneTalker
    Leavers <- OneLeaves
    Overlapping <- Unserialised
INVARIANTS
    TypeOK
    RoomSeen
    ClosedUnlisted
    ClosedUnnamed
PROPERTIES
    PresenceSpec
    BrokenUnlisted
CHECK_DEADLOCK FALSE
