SPECIFICATION BusSpec
CONSTANTS
    NumSlots = 2
    Half = 2
    Size = 2
    MaxTorn = 1
INVARIANTS
    AnswersWhereShown
