SPECIFICATION FairSpec
CONSTANTS
    Methods = {m}
    Operations = {o}
    Transactions = {t}
    Queries = {q}
    Panicking = {t}
CHECK_DEADLOCK FALSE
PROPERTIES
    GateSpec
    
