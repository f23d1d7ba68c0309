CHECK_DEADLOCK FALSE
CONSTANTS
    NULL = NULL
    None = None
    Unset = Unset
    Letters <- TestLetters
    Names <- TestNames
    Lines <- TestLines
    Moments <- TestMoments
    Digits <- TestDigits
    Periods <- TestPeriods
    Fields <- TestFields
    Nodes <- TestNodes
    Documents <- TestDocuments
    Questions <- TestQuestions
    Contexts <- TestContexts
    Strtol <- TestStrtol
    Enum <- TestEnum
    Translate <- TestTranslate
SPECIFICATION Spec
INVARIANTS
    OptionsAsWritten
    OperandsKept
    SumIsExact
    ReadsAsWritten
    AnswerIsWarranted
    ContextIsAPrefix
PROPERTIES
    AdditionEnds
