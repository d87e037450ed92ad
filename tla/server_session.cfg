SPECIFICATION Spec
CONSTANTS
    Scripts <- SmtpScripts
    Protocol = "Smtp"
    AlreadyTls = FALSE
    Capacity = 6
    MinFree = 2
    DataBuf = 4
    IgnoreBuf = 2
INVARIANTS TypeOK TooLongIsTooLong EnvelopeAsAcknowledged TlsStartsAfresh
PROPERTIES ImplementsDialogue
CHECK_DEADLOCK FALSE
