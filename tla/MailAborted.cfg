SPECIFICATION Spec
CONSTANTS
    Messages = {m1, m2}
    Workers = {w1}
PROPERTY FinallyMarksProcessed
