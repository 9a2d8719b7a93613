SPECIFICATION Spec
CONSTANTS
    Conns = {c1, c2}
    Hosts = {h1}
    h1 = h1 h2 = h2 c1 = c1 c2 = c2
    NoConn = NoConn
    Half = 4
    Amounts = {0, 2}
    DefaultRedirects = 2
    DefaultRetries = 2
    OverflowChecks = FALSE
INVARIANTS RetriesDisabled
