SPECIFICATION Spec
CONSTANTS
    h1 = h1
    h2 = h2
    k1 = k1
    k2 = k2
    k3 = k3
    m1 = m1
    m2 = m2
    m3 = m3
    n1 = n1
    Handler = {h1, h2}
    Key = {k1, k2, k3}
    Body <- MCBody
    Number = {n1}
    Kind <- MCKind
    To <- MCTo
    Message = {m1, m2, m3}
    Quota = 1
    MaxDays = 1
    NoRow = NoRow
    NoRequest = NoRequest
    NoAnswer = NoAnswer
SYMMETRY Symmetric
INVARIANTS OneMessagePerKey AnswersTrue RetryFindsIt QuotaOvershoot
