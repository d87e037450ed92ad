SPECIFICATION FairSpec
CONSTANTS
    Scripts <- LmtpScripts
    Protocol = "Lmtp"
    AlreadyTls = FALSE
    Capacity = 5
    MinFree = 1
    DataBuf = 5
    IgnoreBuf = 2
PROPERTIES ImplementsDialogue LinesGetHandled SilenceEndsSession
CHECK_DEADLOCK FALSE
