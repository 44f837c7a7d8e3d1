CONSTANTS
    Pane = {p1, p2}
    Tty = {t}
    Views <- FewViews
    Theme <- TheTheme
    quiet_hours_start = 79200
    quiet_hours_end = 25200
    quiet_hours_states = {}
    Instants <- FewInstants
    Tmux = {TRUE, FALSE}
    Window = "padded window"
    Faults = {"command", "capture", "crash"}
    MaxOps = 3
    NoLook = NoLook
    NoJob = NoJob
    NoView = NoView
SPECIFICATION Spec
INVARIANTS TypeOK LookIsRestored OneStateShown NextRenderHeals ResetClears
PROPERTIES NotifiedWhenDue
CHECK_DEADLOCK FALSE
SYMMETRY Symmetry
