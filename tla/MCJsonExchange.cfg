\* Answers over three alphabets; queries with up to two parameters.
CONSTANTS
    Alphabets <- AlphabetsMC
    MaxText <- MaxTextMC
    MaxExponent = 10
    Names <- NamesMC
    ParamValues <- ParamValuesMC
    Buffers <- BuffersMC
    MaxParams = 2
SPECIFICATION ExchangeSpec
INVARIANTS
    TypeOK
    ReadsTheGrammar
    StackFollowsFrames
    ParamsReadBack
    CellReadsBack
    MessageStaysInLiteral
