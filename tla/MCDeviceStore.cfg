SPECIFICATION Spec
CONSTANTS
    a = a
    b = b
    c = c
    MACs <- ThreeMACs
    MaxScans = 2
    MaxSaves = 1
    Answers = {"FIXED"}
SYMMETRY Symmetry
INVARIANTS
    OwnersExist
PROPERTIES
    UpdateJoins
    SelectionsSurviveScans
CHECK_DEADLOCK FALSE
