SPECIFICATION Spec
CONSTANTS
    Docs = {d, e}
    d = d
    e = e
    Payloads = {p, q}
    p = p
    q = q
    None = None
    Capacity = 1
    Completion = 4
    Interval = 2
    MaxAttempts = 3
    Initial = 1
    Maximum = 3
    Jitter = 1
    MaxOps = 2
INVARIANTS SuccessIsExtracted UncertainIsRemembered NoSecondDelivery PendingIsSound
PROPERTIES ImplementsStore CallsReturn
