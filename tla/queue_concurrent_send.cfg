SPECIFICATION Spec
CONSTANTS
    i1 = i1
    i2 = i2
    m1 = m1
    d1 = d1
    d2 = d2
    Instances = {i1, i2}
    Mails = {m1}
    Dests = {d1}
    MailOf <- OneDest
    MaxCrashes = 0
    MaxIoErrors = 0
SYMMETRY InstanceSymmetry
INVARIANT NoConcurrentSend
CHECK_DEADLOCK FALSE
