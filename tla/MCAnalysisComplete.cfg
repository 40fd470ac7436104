SPECIFICATION Spec
CONSTANTS
    Wallets = {1, 2, 3}
    PairAccount = 4
    BurnAccount = 5
    Nobody = 0
    TopHolders = 2
    Candidates = 2
    PageRows = 1
    EdgeLimit = 10
    GraphRows = 4
    FactSet <- MCFacts
    AnswerSet <- MCAnswers
    OptionSet <- MCOptions
INVARIANT
    CompleteIsExamined
