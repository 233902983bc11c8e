SPECIFICATION Spec
CONSTANTS
    Tries <- AllTries
    Symbols <- AllSymbols
INVARIANTS
    TypeOK
    TerminalIsSpelled
    BudgetEndsOnlyCycles
    ExportedIsFound
