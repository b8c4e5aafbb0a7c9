SPECIFICATION Spec
CONSTANTS
    Contribs = {1}
    Amount = 1
    Receivable = {1}
    Handlers = {h1, h2}
    Generic = FALSE
    h1 = h1
    h2 = h2
PROPERTIES RefundGoesToReconciliation
