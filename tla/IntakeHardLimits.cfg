CONSTANTS
    c1 = c1
    c2 = c2
    big = big
    Requests = {r1, r2}
    MaxKeys = 4
    Names = {n1}
    Contents = {c1, c2}
    Malformed = {}
    SizeOf <- Size
    MaxRaw = 2
    MaxFiles = 2
    MaxBytes = 3
    Nil = Nil
    MaxIntakeFaults = 0
SPECIFICATION IntakeSpec
INVARIANT
    QuotasHard
