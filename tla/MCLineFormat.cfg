\* Up to three calls and two special texts.
CONSTANTS
    Texts <- TextsMC
    Common <- CommonMC
    MaxCalls = 3
    MaxSpecial = 2
SPECIFICATION Spec
INVARIANTS
    TypeOK
    LineReadsBack
CHECK_DEADLOCK FALSE
