SPECIFICATION Spec
CONSTANTS
    Contribs = {1}
    Amount = 2
    Receivable = {1, 2, 3}
    Handlers = {h1, h2}
    Generic = FALSE
    h1 = h1
    h2 = h2
SYMMETRY Symmetry
INVARIANTS TypeOK BooksAgree NoMoneyIsLost
PROPERTIES CancelledTakesNoMoney
