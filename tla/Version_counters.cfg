SPECIFICATION Spec

CONSTANTS
    r1 = r1
    r2 = r2
    account = account
    payee = payee
    profile = profile
    d1 = d1
    d2 = d2
    a1 = a1
    a2 = a2
    Requests = {r1}
    Failing = {r1}
    Entities = {account, payee, profile}
    Kind <- Three
    Created = {account, profile}
    Details = {d1, d2}
    Asides = {a1, a2}
    FirstDetail = d1
    FirstAside = a1
    MaxVersions = 5
    MaxRollbacks = 1
    NoRequest = NoRequest
    NoEntity = NoEntity

INVARIANTS
    BeneficiaryNumberCounts
    ExecutedOnce
