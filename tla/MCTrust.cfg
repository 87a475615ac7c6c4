SPECIFICATION OrderlySpec
CONSTANTS
    c1 = c1
    c2 = c2
    s1 = s1
    s2 = s2
    q1 = q1
    q2 = q2
    a1 = a1
    Certs = {c1, c2}
    Sites = {s1, s2}
    Apps = {a1}
    Requests = {q1, q2}
    CommonName <- NamesOther
    NoSite = NoSite
    NoApp = NoApp
    CertOf <- FirstCert
    SiteOf <- FirstSite
    Expired = {q1, q2}
    Forgivings <- FirstForgiven
    NoRequest = NoRequest
    NoCert = NoCert
    MaxHandle = 2
    MaxAsked = 1
INVARIANTS
    TrustIsGranted
SYMMETRY Interchangeable
CHECK_DEADLOCK FALSE
