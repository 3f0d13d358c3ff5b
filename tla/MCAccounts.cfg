SPECIFICATION Spec
CONSTANTS
    Requests = {r1, r2, r3, r4}
    Users = {u1}
    Secrets = {s1, s2}
    Code = s1
    Attempts = 2
    None = None
INVARIANTS
    TypeOK
    TruthfulAnswers
    OneSignUpWins
    TokensNeedConfirmation
SYMMETRY RequestSymmetry
