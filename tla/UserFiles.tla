------------------------------ MODULE UserFiles ------------------------------
(***************************************************************************)
(* The two files of the user's that the program rewrites: Claude's         *)
(* settings.json (install_hooks and uninstall_hooks of ats-provider-claude)*)
(* and config.yaml (`ats theme apply`).  Each command reads the file,      *)
(* computes the whole new text from what it read, copies the old file to a *)
(* backup of a fixed name, renames a complete temporary file over it and   *)
(* removes the backup.  Nothing locks the file: other commands and the     *)
(* user's editor write at any time, and a command may die between any two  *)
(* steps.  A dry run stops after the read and is left out, as is the       *)
(* report of what was added, removed and unchanged, and the order and the  *)
(* layout of a file, which the rewriting does not keep.                    *)
(***************************************************************************)
EXTENDS Naturals, FiniteSets

CONSTANTS
    Process,          \* commands that may run at once
    HookType,         \* the keys of "hooks" looked at, of the eight hook_types
    Theme,            \* the names a theme may be set to
    Settings0, Config0,   \* what the user has at first, None included
    Operations, Edits,    \* the commands and edits that happen
    MaxOps,           \* bound: commands, edits and faults in one behaviour
    None, Garbage, Idle   \* no file; a file that does not parse; no command

VARIABLES
    file, bak,        \* the contents at each path and at its backup's
    process,          \* the step and the locals of each command
    ops,
    left,             \* history: the user's own part of each file, as the user last left it
    fresh,            \* history: commands that have all of their file as the user left it
    spoiled           \* history: paths another command has replaced since the user did

history == <<left, fresh, spoiled>>
vars == <<file, bak, process, ops, history>>

Path == {"settings", "config"}

\* A hook entry: ours; the user's, in Claude's nested form; or the user's with a
\* command of its own that calls `ats ingest`.
Entry == {"ours", "theirs", "wrapper"}
Entries == [Entry -> Nat]

\* extra is all the rest of the settings; mine, the user's own values in the
\* configuration, beside which the text may hold comments.
Settings == [hooks : [HookType -> Entries], extra : BOOLEAN]
Config   == [theme : Theme, mine : BOOLEAN, comments : BOOLEAN]
AnyContent == Settings \cup Config \cup {None, Garbage}
Content(at) == (IF at = "settings" THEN Settings ELSE Config) \cup {None, Garbage}

\* A theme's name stands for `ats theme apply` of it; a name that load_theme
\* refuses ends the command before it touches anything.
Operation == {"install", "uninstall"} \cup Theme

path_of(op) == IF op \in {"install", "uninstall"} THEN "settings" ELSE "config"

Command == [op : Operation, read : AnyContent, step : {"read", "backed up", "replaced"}]

ASSUME UserFilesAssumption ==
    /\ None # Garbage
    /\ {None, Garbage} \cap (Settings \cup Config) = {}
    /\ Idle \notin Command
    /\ Theme # {} /\ Theme \cap {"install", "uninstall"} = {} /\ MaxOps \in Nat
    /\ Settings0 \in Content("settings") /\ Config0 \in Content("config")
    /\ Settings0 \in Settings => \A h \in HookType : Settings0.hooks[h]["ours"] = 0
    /\ Operations \subseteq Operation
    /\ Edits \subseteq {"delete", "break", "hook", "wrapper", "own"}

-----------------------------------------------------------------------------
(* What a command computes                                                 *)

none == [e \in Entry |-> 0]
default_settings == [hooks |-> [h \in HookType |-> none], extra |-> FALSE]
default_config == [theme |-> CHOOSE name \in Theme : TRUE, mine |-> FALSE, comments |-> FALSE]

\* A file that is missing and one that does not parse are the same.
parsed(at, content) ==
    IF content \notin {None, Garbage} THEN content
    ELSE IF at = "settings" THEN default_settings ELSE default_config

\* "ats ingest" in the entry's own command.
mentions(e) == e \in {"ours", "wrapper"}

\* Only the user's wrapper is recognised.
NaiveManaged(entries) == entries["wrapper"] > 0

already_managed(entries) == \E e \in Entry : mentions(e) /\ entries[e] > 0

install_hooks(settings) ==
    [settings EXCEPT !.hooks =
        [h \in HookType |-> IF already_managed(settings.hooks[h]) THEN settings.hooks[h]
                            ELSE [settings.hooks[h] EXCEPT !["ours"] = @ + 1]]]

\* The hook types that hold an entry of ours go as a whole.
NaiveUninstall(settings) ==
    [settings EXCEPT !.hooks =
        [h \in HookType |-> IF already_managed(settings.hooks[h]) THEN none ELSE settings.hooks[h]]]

uninstall_hooks(settings) ==
    [settings EXCEPT !.hooks =
        [h \in HookType |-> [e \in Entry |-> IF mentions(e) THEN 0 ELSE settings.hooks[h][e]]]]

\* Only the theme is written, not the configuration it is part of.
NaiveComputed(op, content) ==
    LET read == parsed(path_of(op), content) IN
    CASE op = "install"   -> install_hooks(read)
      [] op = "uninstall" -> uninstall_hooks(read)
      [] OTHER            -> [theme |-> op]

\* The configuration is written anew from what was parsed: comments are lost.
computed(op, content) ==
    LET read == parsed(path_of(op), content) IN
    CASE op = "install"   -> install_hooks(read)
      [] op = "uninstall" -> uninstall_hooks(read)
      [] OTHER            -> [read EXCEPT !.theme = op, !.comments = FALSE]

\* What a content holds of the user's values: of the hooks, the entries that do
\* not call `ats ingest`.  Of a text that does not parse, whatever it may be.
UsersPart(at, content) ==
    IF content = Garbage THEN Garbage
    ELSE IF at = "config" THEN parsed(at, content).mine
    ELSE [hooks |-> [h \in HookType |-> parsed(at, content).hooks[h]["theirs"]],
          extra |-> parsed(at, content).extra]

-----------------------------------------------------------------------------
(* The steps of a command                                                  *)

Init ==
    /\ file = [at \in Path |-> IF at = "settings" THEN Settings0 ELSE Config0]
    /\ bak = [at \in Path |-> None]
    /\ process = [p \in Process |-> Idle]
    /\ ops = 0
    /\ left = [at \in Path |-> UsersPart(at, file[at])]
    /\ fresh = {} /\ spoiled = {}

Spend == ops < MaxOps /\ ops' = ops + 1
At(p, step) == process[p] # Idle /\ process[p].step = step
path(p) == path_of(process[p].op)

\* What reading the file may yield.  A configuration that is there and cannot be
\* read is the same as none; settings that cannot be read end the command.
Readable(op) == {file[path_of(op)]} \cup (IF path_of(op) = "config" THEN {None} ELSE {})

\* uninstall_hooks has nothing to do where there is no file.
Read(p, op) ==
    /\ process[p] = Idle /\ Spend
    /\ op = "uninstall" => file["settings"] # None
    /\ \E content \in Readable(op) :
          /\ process' = [process EXCEPT ![p] = [op |-> op, read |-> content, step |-> "read"]]
          /\ fresh' = IF content = file[path_of(op)] /\ content # Garbage THEN fresh \cup {p}
                      ELSE fresh
    /\ UNCHANGED <<file, bak, left, spoiled>>

\* Where there is a file to copy.  A copy that fails, or stops half-way, is ignored.
Backup(p) ==
    /\ At(p, "read")
    /\ IF file[path(p)] = None THEN UNCHANGED <<bak, ops>>
       ELSE \/ bak' = [bak EXCEPT ![path(p)] = file[path(p)]] /\ UNCHANGED ops
            \/ bak' \in {bak, [bak EXCEPT ![path(p)] = Garbage]} /\ Spend
    /\ process' = [process EXCEPT ![p].step = "backed up"]
    /\ UNCHANGED <<file, history>>

\* The temporary file, written and synced, takes the path at once.
Replace(p) ==
    /\ At(p, "backed up")
    /\ file' = [file EXCEPT ![path(p)] = computed(process[p].op, process[p].read)]
    /\ process' = [process EXCEPT ![p].step = "replaced"]
    /\ spoiled' = IF p \in fresh THEN spoiled ELSE spoiled \cup {path(p)}
    /\ UNCHANGED <<bak, ops, left, fresh>>

Cleanup(p) ==
    /\ At(p, "replaced")
    /\ bak' = [bak EXCEPT ![path(p)] = None]
    /\ process' = [process EXCEPT ![p] = Idle]
    /\ fresh' = fresh \ {p}
    /\ UNCHANGED <<file, ops, left, spoiled>>

\* The command dies, or writing, syncing, renaming or removing fails.
Abort(p) ==
    /\ process[p] # Idle /\ Spend
    /\ process' = [process EXCEPT ![p] = Idle]
    /\ fresh' = fresh \ {p}
    /\ UNCHANGED <<file, bak, left, spoiled>>

-----------------------------------------------------------------------------
(* The user's editor, or another program                                   *)

Holding(settings, e) ==
    [settings EXCEPT !.hooks = [h \in HookType |-> [settings.hooks[h] EXCEPT ![e] = 1]]]

edited(edit, at) ==
    LET content == parsed(at, file[at]) IN
    CASE edit = "delete"  -> None
      [] edit = "break"   -> Garbage
      [] edit = "hook"    -> Holding(content, "theirs")
      [] edit = "wrapper" -> Holding(content, "wrapper")
      [] OTHER            -> IF at = "settings" THEN [content EXCEPT !.extra = TRUE]
                             ELSE [content EXCEPT !.mine = TRUE, !.comments = TRUE]

UserEdit(edit, at) ==
    /\ edit \in {"hook", "wrapper"} => at = "settings"
    /\ Spend
    /\ file' = [file EXCEPT ![at] = edited(edit, at)]
    /\ left' = [left EXCEPT ![at] = UsersPart(at, edited(edit, at))]
    /\ fresh' = {p \in fresh : path(p) # at}
    /\ spoiled' = spoiled \ {at}
    /\ UNCHANGED <<bak, process>>

Next ==
    \/ \E p \in Process, op \in Operations : Read(p, op)
    \/ \E p \in Process : Backup(p) \/ Replace(p) \/ Cleanup(p) \/ Abort(p)
    \/ \E edit \in Edits, at \in Path : UserEdit(edit, at)

Spec == Init /\ [][Next]_vars

-----------------------------------------------------------------------------
(* Properties                                                              *)

Part(at) ==
    {Garbage} \cup (IF at = "config" THEN BOOLEAN ELSE [hooks : [HookType -> Nat], extra : BOOLEAN])

TypeOK ==
    /\ file \in [Path -> AnyContent] /\ \A at \in Path : file[at] \in Content(at)
    /\ bak \in [Path -> AnyContent] /\ \A at \in Path : bak[at] \in Content(at)
    /\ process \in [Process -> Command \cup {Idle}]
    /\ \A p \in Process : process[p] # Idle => process[p].read \in Content(path(p))
    /\ ops \in 0..MaxOps
    /\ left = [at \in Path |-> left[at]] /\ \A at \in Path : left[at] \in Part(at)
    /\ fresh \subseteq {p \in Process : process[p] # Idle} /\ spoiled \subseteq Path

\* However installs, removals, edits and deaths interleave, no hook type calls
\* `ats ingest` through two entries of ours: every event would be sent twice.
AtMostOneOurs ==
    file["settings"] \in Settings => \A h \in HookType : file["settings"].hooks[h]["ours"] <= 1

\* Commands that overlap may undo each other's change, and any of them may die
\* between two steps, but what the user last wrote into a file is still in it -
\* until a command replaces the file that had read it before the user wrote, or
\* had found a text that it could not parse or a configuration it could not read.
\* Comments are not part of it, nor entries of the user's that call `ats ingest`,
\* which an uninstall takes for its own.
UsersPartSurvives == \A at \in Path \ spoiled : UsersPart(at, file[at]) = left[at]
=============================================================================
