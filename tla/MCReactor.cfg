SPECIFICATION Spec
CONSTANTS
    Conns = {c1, c2}
    Fds = {f1, f2}
    None = none
    MaxRequests = 1
    MaxSends = 1
    Steady = {}
SYMMETRY Symmetry
INVARIANTS RegistriesAgree NoSilentDeath ServedUntilClosed NeverForgotten
