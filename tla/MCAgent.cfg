SPECIFICATION Spec
CONSTANTS
    Conns = {c1, c2}
    Hosts = {h1, h2}
    h1 = h1 h2 = h2 c1 = c1 c2 = c2
    NoConn = NoConn
    Half = 4
    Amounts = {2, 4}
    DefaultRedirects = 2
    DefaultRetries = 2
    OverflowChecks = TRUE
INVARIANTS
    TypeOK RedirectBound RetryBound NonIdempotentOnce NoFailedPooled CookiesRestored CookiesSent
PROPERTIES RedirectsHonoured
