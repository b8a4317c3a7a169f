SPECIFICATION Spec
CONSTANTS
    Cases <- MCCases
    Names <- MCNames
    Keys <- MCKeys
    Values <- MCValues
    Dates <- MCDates
    MaxDepth = 2
INVARIANTS
    TypeOK
    ReadsAsWritten
    WriteReadBack
    ExpandsExactly
    ScannersAgree
