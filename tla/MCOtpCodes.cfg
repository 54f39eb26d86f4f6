SPECIFICATION OtpSpec
CONSTANTS
    n1 = n1
    n2 = n2
    t1 = t1
    t2 = t2
    Number = {n1, n2}
    Tab = {t1, t2}
    FirstNumbers <- BothNumbers
    HasEmail = FALSE
    MaxWrong = 1
    CodesPerHour = 2
    Validity = 0
    ResendAfter = 1
    CodeWindow = 1
    MaxTick = 0
    MaxMoves = 0
PROPERTY OwnCodeOnly
