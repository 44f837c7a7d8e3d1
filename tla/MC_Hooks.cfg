CONSTANTS
    Process = {p, q}
    HookType <- HookEvent
    Theme = {"default", "mono"}
    Settings0 <- TheSettings
    Config0 <- TheConfig
    Operations = {"install", "uninstall", "mono"}
    Edits = {"delete", "break", "hook", "wrapper", "own"}
    MaxOps = 3
    None = None
    Garbage = Garbage
    Idle = Idle
    Session = "claude"
    Instants <- FewInstants
    Commands <- TheCommands
    Messages <- TheMessages
    Cut = {TRUE, FALSE}
SPECIFICATION HSpec
INVARIANTS TypeOK AtMostOneOurs AskedIsShown UsersPartSurvives
CHECK_DEADLOCK FALSE
