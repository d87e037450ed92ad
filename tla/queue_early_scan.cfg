SPECIFICATION Spec
CONSTANTS
    i1 = i1
    i2 = i2
    m1 = m1
    d1 = d1
    d2 = d2
    Instances = {i1}
    Mails = {m1}
    Dests = {d1, d2}
    MailOf <- OneMail
    MaxCrashes = 0
    MaxIoErrors = 0
SYMMETRY DestSymmetry
INVARIANT AckedAlwaysReadable
CHECK_DEADLOCK FALSE
