SPECIFICATION FairSpec
CONSTANTS
    Contribs = {2}
    Amount = 2
    Receivable = {1, 2}
    Handlers = {h1}
    Generic = TRUE
    h1 = h1
 
PROPERTIES  ConfirmedIsSettled
