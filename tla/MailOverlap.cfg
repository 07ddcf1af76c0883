SPECIFICATION Spec
CONSTANTS
    Messages = {m1, m2}
    Workers = {w1, w2}
SYMMETRY Symmetry
INVARIANTS
    TypeOK
    AtMostOnce
    MarkInv
PROPERTIES
    NotFoundAgain
    NewMailUnread
    MailSpec
