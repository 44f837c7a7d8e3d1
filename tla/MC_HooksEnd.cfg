CONSTANTS
    Process = {p}
    HookType <- HookEvent
    Theme = {"default", "mono"}
    Settings0 <- TheSettings
    Config0 <- TheConfig
    Operations = {}
    Edits = {"wrapper"}
    MaxOps = 1
    None = None
    Garbage = Garbage
    Idle = Idle
    Session = "claude"
    Instants <- FewInstants
    Commands <- TheCommands
    Messages <- TheMessages
    Cut = {FALSE}
SPECIFICATION HSpec
PROPERTIES EndedIsIdle
CHECK_DEADLOCK FALSE
