SPECIFICATION Spec

CONSTANTS
    r1 = r1
    r2 = r2
    account = account
    payee = payee
    profile = profile
    d1 = d1
    d2 = d2
    a1 = a1
    a2 = a2
    Requests = {r1}
    Failing = {}
    Entities = {profile}
    Kind <- ProfileOnly
    Created = {profile}
    Details = {d1, d2}
    Asides = {a1, a2}
    FirstDetail = d1
    FirstAside = a1
    MaxVersions = 3
    MaxRollbacks = 0
    NoRequest = NoRequest
    NoEntity = NoEntity


PROPERTIES
    ChangesShow
