-------------------------- MODULE UserFiles_proofs --------------------------
(***************************************************************************)
(* Proofs about UserFiles for any number of commands and edits.            *)
(*                                                                         *)
(* The argument: what a command writes is computed from what it read and   *)
(* from nothing else, so it is enough that what was read was in order, and *)
(* held the user's part as the user had left it.  The file may have been   *)
(* replaced since any number of times.                                     *)
(***************************************************************************)
EXTENDS UserFiles, TLAPS

\* No hook type of this content holds more than one entry of ours.
OneOurs(content) ==
    content \in Settings => \A h \in HookType : content.hooks[h]["ours"] <= 1

OneOursRead ==
    \A p \in Process : process[p] # Idle /\ path(p) = "settings" => OneOurs(process[p].read)

FilesInv == TypeOK /\ OneOurs(file["settings"]) /\ OneOursRead

\* A file nothing has spoiled holds the user's part as the user left it, and so
\* does what a command with a fresh copy will compute from.
KeptInv ==
    /\ UsersPartSurvives
    /\ \A p \in fresh : path(p) \notin spoiled =>
          /\ process[p].read # Garbage
          /\ UsersPart(path(p), process[p].read) = left[path(p)]

-----------------------------------------------------------------------------
(* What is computed is of the right type and has at most one entry of ours *)

LEMMA ParsedIsContent ==
    ASSUME NEW at \in Path, NEW content \in Content(at)
    PROVE  /\ at = "settings" => parsed(at, content) \in Settings
           /\ at = "config" => parsed(at, content) \in Config
           /\ OneOurs(content) /\ at = "settings" => OneOurs(parsed(at, content))
<1>1. none \in Entries BY DEF none, Entries
<1>2. default_settings \in Settings BY <1>1 DEF default_settings, Settings
<1>3. default_config \in Config BY UserFilesAssumption DEF default_config, Config
<1>4. OneOurs(default_settings) BY DEF OneOurs, default_settings, none, Entry
<1> QED BY <1>2, <1>3, <1>4 DEF parsed, Content, Path

LEMMA InstallIsSound ==
    ASSUME NEW settings \in Settings
    PROVE  /\ install_hooks(settings) \in Settings
           /\ OneOurs(settings) => OneOurs(install_hooks(settings))
<1> DEFINE hooks == [h \in HookType |-> IF already_managed(settings.hooks[h]) THEN settings.hooks[h]
                                        ELSE [settings.hooks[h] EXCEPT !["ours"] = @ + 1]]
<1>1. \A h \in HookType : settings.hooks[h] \in Entries BY DEF Settings
<1>2. hooks \in [HookType -> Entries] BY <1>1 DEF Entries, Entry
<1>3. install_hooks(settings) = [settings EXCEPT !.hooks = hooks] BY DEF install_hooks
<1>4. install_hooks(settings) \in Settings BY <1>2, <1>3 DEF Settings
<1>5. ASSUME OneOurs(settings), NEW h \in HookType
      PROVE  hooks[h]["ours"] <= 1
    <2>1. CASE already_managed(settings.hooks[h]) BY <1>5, <2>1 DEF OneOurs
    <2>2. CASE ~already_managed(settings.hooks[h])
        <3>1. settings.hooks[h]["ours"] = 0
            BY <1>1, <2>2 DEF already_managed, mentions, Entries, Entry
        <3> QED BY <1>1, <2>2, <3>1 DEF Entries, Entry
    <2> QED BY <2>1, <2>2
<1>6. install_hooks(settings).hooks = hooks BY <1>3 DEF Settings
<1> HIDE DEF hooks
<1> QED BY <1>4, <1>5, <1>6 DEF OneOurs

LEMMA UninstallIsSound ==
    ASSUME NEW settings \in Settings
    PROVE  uninstall_hooks(settings) \in Settings /\ OneOurs(uninstall_hooks(settings))
<1>1. \A h \in HookType : settings.hooks[h] \in Entries BY DEF Settings
<1> QED BY <1>1 DEF uninstall_hooks, OneOurs, Settings, Entries, Entry, mentions

LEMMA UsersPartType ==
    ASSUME NEW at \in Path, NEW content \in Content(at)
    PROVE  UsersPart(at, content) \in Part(at)
<1>1. CASE at = "config"
    <2>1. content # Garbage => parsed(at, content).mine \in BOOLEAN
        BY <1>1, ParsedIsContent DEF Config
    <2> QED BY <1>1, <2>1 DEF UsersPart, Part
<1>2. CASE at = "settings"
    <2> DEFINE settings == parsed(at, content)
    <2>1. settings \in Settings BY <1>2, ParsedIsContent
    <2>2. \A h \in HookType : settings.hooks[h]["theirs"] \in Nat BY <2>1 DEF Settings, Entries, Entry
    <2>3. settings.extra \in BOOLEAN BY <2>1 DEF Settings
    <2>4. UsersPart(at, content) = IF content = Garbage THEN Garbage
              ELSE [hooks |-> [h \in HookType |-> settings.hooks[h]["theirs"]],
                    extra |-> settings.extra]
        BY <1>2 DEF UsersPart
    <2> HIDE DEF settings
    <2> QED BY <1>2, <2>2, <2>3, <2>4 DEF Part
<1> QED BY <1>1, <1>2 DEF Path

LEMMA ComputedIsSound ==
    ASSUME NEW op \in Operation, NEW content \in Content(path_of(op))
    PROVE  /\ computed(op, content) \in Content(path_of(op)) \ {None, Garbage}
           /\ OneOurs(content) /\ path_of(op) = "settings" => OneOurs(computed(op, content))
<1> DEFINE read == parsed(path_of(op), content)
<1>0. path_of(op) \in Path BY DEF path_of, Path
<1>1. CASE op = "install"
    BY <1>0, <1>1, ParsedIsContent, InstallIsSound, UserFilesAssumption
    DEF computed, path_of, Content
<1>2. CASE op = "uninstall"
    BY <1>0, <1>2, ParsedIsContent, UninstallIsSound, UserFilesAssumption
    DEF computed, path_of, Content
<1>3. CASE op \in Theme
    <2>1. path_of(op) = "config" BY <1>3, UserFilesAssumption DEF path_of
    <2>2. read \in Config BY <1>0, <2>1, ParsedIsContent
    <2>3. computed(op, content) = [read EXCEPT !.theme = op, !.comments = FALSE]
        BY <1>3, UserFilesAssumption DEF computed
    <2>4. computed(op, content) \in Config
        <3> HIDE DEF read
        <3> QED BY <1>3, <2>2, <2>3 DEF Config
    <2> QED BY <2>1, <2>4, UserFilesAssumption DEF Content
<1> QED BY <1>1, <1>2, <1>3 DEF Operation

LEMMA EditedIsSound ==
    ASSUME TypeOK, OneOurs(file["settings"]), NEW edit \in Edits, NEW at \in Path,
           edit \in {"hook", "wrapper"} => at = "settings"
    PROVE  /\ edited(edit, at) \in Content(at)
           /\ at = "settings" => OneOurs(edited(edit, at))
<1> DEFINE content == parsed(at, file[at])
<1>1. /\ at = "settings" => content \in Settings /\ OneOurs(content)
      /\ at = "config" => content \in Config
    BY ParsedIsContent DEF TypeOK, AnyContent
<1>2. ASSUME NEW e \in {"theirs", "wrapper"}, at = "settings"
      PROVE  Holding(content, e) \in Settings /\ OneOurs(Holding(content, e))
    <2>1. \A h \in HookType : content.hooks[h] \in Entries BY <1>1, <1>2 DEF Settings
    <2>2. \A h \in HookType : content.hooks[h]["ours"] <= 1 BY <1>1, <1>2 DEF OneOurs
    <2> HIDE DEF content
    <2> QED BY <1>1, <1>2, <2>1, <2>2 DEF Holding, OneOurs, Settings, Entries, Entry
<1>3. CASE edit = "delete"
    BY <1>3, UserFilesAssumption DEF edited, Content, OneOurs
<1>4. CASE edit = "break"
    BY <1>4, UserFilesAssumption DEF edited, Content, OneOurs
<1>5. CASE edit = "hook" BY <1>2, <1>5 DEF edited, Content
<1>6. CASE edit = "wrapper" BY <1>2, <1>6 DEF edited, Content
<1>7. CASE edit = "own"
    <2> HIDE DEF content
    <2>1. edited(edit, at) = IF at = "settings" THEN [content EXCEPT !.extra = TRUE]
                             ELSE [content EXCEPT !.mine = TRUE, !.comments = TRUE]
        BY <1>7 DEF edited, content
    <2> QED BY <1>1, <2>1 DEF Content, Path, Settings, Config, OneOurs
<1> QED BY <1>3, <1>4, <1>5, <1>6, <1>7, UserFilesAssumption

-----------------------------------------------------------------------------
(* The invariant                                                           *)

LEMMA InitInv == Init => FilesInv
<1> SUFFICES ASSUME Init PROVE FilesInv
    OBVIOUS
<1>1. \A at \in Path : file[at] \in Content(at) /\ file[at] \in AnyContent
    BY UserFilesAssumption DEF Init, Path, Content, AnyContent
<1>2. \A at \in Path : UsersPart(at, file[at]) \in Part(at)
    BY <1>1, UsersPartType
<1>3. TypeOK
    BY <1>1, <1>2, UserFilesAssumption DEF Init, TypeOK, AnyContent, Content
<1> QED BY <1>3, UserFilesAssumption DEF Init, FilesInv, OneOurs, OneOursRead, Path

LEMMA ReadKeeps ==
    ASSUME FilesInv, NEW p \in Process, NEW op \in Operations, Read(p, op)
    PROVE  FilesInv'
<1> USE UserFilesAssumption DEF FilesInv
<1>1. op \in Operation /\ path_of(op) \in Path BY DEF path_of, Path
<1>2. PICK content \in Readable(op) :
          /\ process' = [process EXCEPT ![p] = [op |-> op, read |-> content, step |-> "read"]]
          /\ fresh' = fresh \/ fresh' = fresh \cup {p}
    BY DEF Read
<1> DEFINE command == [op |-> op, read |-> content, step |-> "read"]
<1>3. content \in Content(path_of(op)) /\ content \in AnyContent
    BY <1>1, <1>2 DEF Readable, TypeOK, AnyContent, Content
<1>4. command \in Command BY <1>1, <1>3 DEF Command
<1>5. process' = [process EXCEPT ![p] = command] /\ process'[p] = command
    BY <1>2 DEF TypeOK, AnyContent
<1>6. ops' \in 0..MaxOps BY DEF TypeOK, AnyContent, Read, Spend
<1>7. path_of(op) = "settings" => OneOurs(command.read) BY <1>2 DEF OneOurs, Readable
<1>8. /\ command.op = op /\ command.read = content /\ command # Idle
    BY <1>4
<1> HIDE DEF command
<1>9. fresh' \subseteq {q \in Process : process'[q] # Idle}
    BY <1>2, <1>5, <1>8 DEF TypeOK, AnyContent
<1>10. UNCHANGED <<file, bak, left, spoiled>> BY DEF Read
<1>11. TypeOK' BY <1>3, <1>4, <1>5, <1>6, <1>8, <1>9, <1>10 DEF TypeOK, AnyContent, path
<1>12. OneOursRead' BY <1>5, <1>7, <1>8 DEF OneOursRead, path, TypeOK, AnyContent
<1> QED BY <1>10, <1>11, <1>12

\* Steps that leave the file and what was read as they are.
LEMMA StepKeeps ==
    ASSUME FilesInv, NEW p \in Process, Backup(p) \/ Cleanup(p) \/ Abort(p)
    PROVE  FilesInv'
<1> USE UserFilesAssumption DEF FilesInv, TypeOK, AnyContent, OneOursRead, At, path, Spend
<1>0. process[p] # Idle => process[p] \in Command /\ path(p) \in Path
    BY DEF Path, path_of
<1>1. CASE Backup(p)
    <2>1. bak' = bak \/ bak' = [bak EXCEPT ![path(p)] = file[path(p)]]
             \/ bak' = [bak EXCEPT ![path(p)] = Garbage]
        BY <1>1 DEF Backup
    <2>0. ops' = ops \/ (ops < MaxOps /\ ops' = ops + 1) BY <1>1 DEF Backup
    <2>2. ops' \in 0..MaxOps
        <3>1. MaxOps \in Nat /\ ops \in 0..MaxOps OBVIOUS
        <3> QED BY <2>0, <3>1
    <2>7. bak' \in [Path -> AnyContent] BY <1>0, <2>1 DEF AnyContent
    <2>3. \A at \in Path : bak'[at] \in Content(at) BY <1>0, <1>1, <2>1 DEF Backup, Content
    <2>4. /\ process' = [process EXCEPT ![p].step = "backed up"] /\ process[p] # Idle
          /\ UNCHANGED <<file, left, fresh, spoiled>>
        BY <1>1 DEF Backup, history
    <2>5. [process[p] EXCEPT !.step = "backed up"] \in Command BY <1>0, <2>4 DEF Command
    <2>6. \A q \in Process : process'[q] # Idle <=> process[q] # Idle
        BY <1>0, <2>4, <2>5
    <2>8. \A q \in Process : process'[q] # Idle =>
              process'[q].op = process[q].op /\ process'[q].read = process[q].read
        BY <1>0, <2>4 DEF Command
    <2> QED BY <2>2, <2>3, <2>4, <2>5, <2>6, <2>7, <2>8
<1>2. CASE Cleanup(p)
    <2>1. \A at \in Path : bak'[at] \in Content(at) BY <1>0, <1>2 DEF Cleanup, Content
    <2>2. fresh' \subseteq {q \in Process : process'[q] # Idle} BY <1>2 DEF Cleanup
    <2> QED BY <1>2, <2>1, <2>2 DEF Cleanup
<1>3. CASE Abort(p)
    <2>1. fresh' \subseteq {q \in Process : process'[q] # Idle} BY <1>3 DEF Abort
    <2> QED BY <1>3, <2>1 DEF Abort
<1> QED BY <1>1, <1>2, <1>3

LEMMA ReplaceKeeps ==
    ASSUME FilesInv, NEW p \in Process, Replace(p)
    PROVE  FilesInv'
<1> DEFINE new == computed(process[p].op, process[p].read)
<1>1. /\ process[p] \in Command /\ process[p].read \in Content(path(p))
      /\ process[p] # Idle
    BY DEF FilesInv, TypeOK, AnyContent, Replace, At
<1>2. process[p].op \in Operation /\ path(p) \in Path BY <1>1 DEF Command, path, path_of, Path
<1>3. new \in Content(path(p)) BY <1>1, <1>2, ComputedIsSound DEF path
<1>4. path(p) = "settings" => OneOurs(new)
    BY <1>1, <1>2, ComputedIsSound DEF path, FilesInv, OneOursRead
<1>5. /\ file' = [file EXCEPT ![path(p)] = new] /\ UNCHANGED <<bak, ops, left, fresh>>
      /\ spoiled' \subseteq spoiled \cup {path(p)}
    BY DEF Replace
<1>6. process' = [process EXCEPT ![p].step = "replaced"] BY DEF Replace
<1> HIDE DEF new
<1>7. [process[p] EXCEPT !.step = "replaced"] \in Command BY <1>1 DEF Command
<1>8. \A q \in Process : process'[q] # Idle =>
          process[q] # Idle /\ process'[q].op = process[q].op /\ process'[q].read = process[q].read
    BY <1>1, <1>6 DEF FilesInv, TypeOK, AnyContent, Command
<1>9. /\ file' \in [Path -> AnyContent] /\ \A at \in Path : file'[at] \in Content(at)
    BY <1>2, <1>3, <1>5 DEF FilesInv, Content, TypeOK, AnyContent
<1>10. OneOurs(file["settings"])' BY <1>2, <1>4, <1>5 DEF FilesInv, TypeOK, AnyContent, OneOurs
<1>13. fresh' \subseteq {q \in Process : process'[q] # Idle}
    BY <1>1, <1>5, <1>6, <1>7, UserFilesAssumption DEF FilesInv, TypeOK, AnyContent
<1>14. spoiled' \subseteq Path BY <1>2, <1>5 DEF FilesInv, TypeOK, AnyContent
<1>11. TypeOK' BY <1>5, <1>6, <1>7, <1>8, <1>9, <1>13, <1>14 DEF FilesInv, TypeOK, AnyContent, path
<1>12. OneOursRead' BY <1>8 DEF FilesInv, OneOursRead, path, OneOurs
<1> QED BY <1>10, <1>11, <1>12 DEF FilesInv

LEMMA EditKeeps ==
    ASSUME FilesInv, NEW edit \in Edits, NEW at \in Path, UserEdit(edit, at)
    PROVE  FilesInv'
<1> DEFINE new == edited(edit, at)
<1>1. new \in Content(at) /\ (at = "settings" => OneOurs(new))
    BY EditedIsSound DEF UserEdit, FilesInv
<1>2. /\ file' = [file EXCEPT ![at] = new] /\ UNCHANGED <<bak, process>> /\ ops' \in 0..MaxOps
      /\ left' = [left EXCEPT ![at] = UsersPart(at, new)]
      /\ fresh' \subseteq fresh /\ spoiled' \subseteq spoiled
    BY UserFilesAssumption DEF UserEdit, Spend, FilesInv, TypeOK, AnyContent
<1>7. UsersPart(at, new) \in Part(at) BY <1>1, UsersPartType
<1> HIDE DEF new
<1>3. file' \in [Path -> AnyContent] /\ \A b \in Path : file'[b] \in Content(b)
    BY <1>1, <1>2 DEF FilesInv, TypeOK, AnyContent, Content
<1>8. left' = [b \in Path |-> left'[b]] /\ \A b \in Path : left'[b] \in Part(b)
    <2>1. left = [b \in Path |-> left[b]] /\ \A b \in Path : left[b] \in Part(b)
        BY DEF FilesInv, TypeOK
    <2> QED BY <1>2, <1>7, <2>1
<1>4. TypeOK' BY <1>2, <1>3, <1>8 DEF FilesInv, TypeOK, path
<1>5. OneOurs(file["settings"])' BY <1>1, <1>2 DEF FilesInv, TypeOK, OneOurs
<1>6. OneOursRead' BY <1>2 DEF FilesInv, OneOursRead, OneOurs, path
<1> QED BY <1>4, <1>5, <1>6 DEF FilesInv

LEMMA NextKeeps == FilesInv /\ [Next]_vars => FilesInv'
<1> SUFFICES ASSUME FilesInv, [Next]_vars PROVE FilesInv' OBVIOUS
<1>1. CASE UNCHANGED vars
    BY <1>1 DEF vars, history, FilesInv, TypeOK, AnyContent, OneOurs, OneOursRead, path
<1>2. CASE Next BY <1>2, ReadKeeps, StepKeeps, ReplaceKeeps, EditKeeps DEF Next
<1> QED BY <1>1, <1>2

LEMMA InvHolds == Spec => []FilesInv
BY InitInv, NextKeeps, PTL DEF Spec

\* Every file, backup and command is well typed, for any number of commands.
THEOREM FilesTypeCorrect == Spec => []TypeOK
<1>1. FilesInv => TypeOK BY DEF FilesInv
<1> QED BY <1>1, InvHolds, PTL

\* However many installs, removals, edits and deaths interleave, no hook type
\* ever holds a second entry of ours.
THEOREM OneEntryOfOurs == Spec => []AtMostOneOurs
<1>1. FilesInv => AtMostOneOurs BY DEF FilesInv, OneOurs, AtMostOneOurs
<1> QED BY <1>1, InvHolds, PTL

-----------------------------------------------------------------------------
(* What the user wrote                                                     *)

LEMMA ComputedKeepsUsersPart ==
    ASSUME NEW op \in Operation, NEW content \in Content(path_of(op)), content # Garbage
    PROVE  UsersPart(path_of(op), computed(op, content)) = UsersPart(path_of(op), content)
<1> DEFINE at == path_of(op) read == parsed(at, content) new == computed(op, content)
<1>0. at \in Path /\ new \in Content(at) \ {None, Garbage} BY ComputedIsSound DEF path_of, Path
<1>1. parsed(at, new) = new /\ new # Garbage BY <1>0 DEF parsed
<1>2. CASE at = "settings"
    <2>1. read \in Settings BY <1>0, <1>2, ParsedIsContent
    <2>2. op \in {"install", "uninstall"} BY <1>2 DEF path_of
    <2>3. new = IF op = "install" THEN install_hooks(read) ELSE uninstall_hooks(read)
        BY <2>2 DEF computed
    <2>4. /\ install_hooks(read).extra = read.extra
          /\ \A h \in HookType : install_hooks(read).hooks[h]["theirs"] = read.hooks[h]["theirs"]
        BY <2>1 DEF install_hooks, Settings, Entries, Entry
    <2>5. /\ uninstall_hooks(read).extra = read.extra
          /\ \A h \in HookType : uninstall_hooks(read).hooks[h]["theirs"] = read.hooks[h]["theirs"]
        BY <2>1 DEF uninstall_hooks, Settings, Entries, Entry, mentions
    <2>6. /\ new.extra = read.extra
          /\ \A h \in HookType : new.hooks[h]["theirs"] = read.hooks[h]["theirs"]
        BY <2>3, <2>4, <2>5
    <2>7. UsersPart(at, new) = [hooks |-> [h \in HookType |-> new.hooks[h]["theirs"]],
                                extra |-> new.extra]
        BY <1>1, <1>2 DEF UsersPart
    <2>8. UsersPart(at, content) = [hooks |-> [h \in HookType |-> read.hooks[h]["theirs"]],
                                    extra |-> read.extra]
        BY <1>2 DEF UsersPart
    <2>9. UsersPart(at, new) = UsersPart(at, content)
        <3> HIDE DEF at, new, read
        <3> QED BY <2>6, <2>7, <2>8
    <2> QED BY <2>9
<1>3. CASE at = "config"
    <2>1. op \notin {"install", "uninstall"} BY <1>3 DEF path_of
    <2>2. read \in Config BY <1>0, <1>3, ParsedIsContent
    <2>3. new = [read EXCEPT !.theme = op, !.comments = FALSE] BY <2>1 DEF computed
    <2>4. new.mine = read.mine BY <2>2, <2>3 DEF Config
    <2> QED BY <1>1, <1>3, <2>4 DEF UsersPart
<1> QED BY <1>0, <1>2, <1>3 DEF Path

LEMMA KeptInit == Init => KeptInv
BY DEF Init, KeptInv, UsersPartSurvives

LEMMA ReadKept ==
    ASSUME FilesInv, KeptInv, NEW p \in Process, NEW op \in Operations, Read(p, op)
    PROVE  KeptInv'
<1>1. PICK content \in Readable(op) :
          /\ process' = [process EXCEPT ![p] = [op |-> op, read |-> content, step |-> "read"]]
          /\ fresh' = IF content = file[path_of(op)] /\ content # Garbage THEN fresh \cup {p}
                      ELSE fresh
    BY DEF Read
<1>2. UNCHANGED <<file, left, spoiled>> BY DEF Read
<1>3. process \in [Process -> Command \cup {Idle}] /\ fresh \subseteq {q \in Process : process[q] # Idle}
    BY DEF FilesInv, TypeOK, AnyContent
<1>4. p \notin fresh BY <1>3 DEF Read
<1>5. \A q \in fresh : process'[q] = process[q] /\ path(q)' = path(q)
    BY <1>1, <1>3, <1>4 DEF path
<1>6. process'[p].read = content /\ path(p)' = path_of(op) BY <1>1, <1>3 DEF path
<1>7. path_of(op) \in Path BY DEF path_of, Path
<1>8. ASSUME NEW q \in fresh', path(q)' \notin spoiled'
      PROVE  /\ process'[q].read # Garbage
             /\ UsersPart(path(q)', process'[q].read) = left'[path(q)']
    <2>1. CASE q \in fresh BY <1>2, <1>5, <1>8, <2>1 DEF KeptInv
    <2>2. CASE q = p /\ q \notin fresh
        <3>1. content = file[path_of(op)] /\ content # Garbage BY <1>1, <1>8, <2>2
        <3>2. UsersPart(path_of(op), content) = left[path_of(op)]
            BY <1>2, <1>6, <1>7, <1>8, <2>2, <3>1 DEF KeptInv, UsersPartSurvives
        <3> QED BY <1>2, <1>6, <2>2, <3>1, <3>2
    <2> QED BY <1>1, <1>8, <2>1, <2>2
<1>9. UsersPartSurvives' BY <1>2 DEF KeptInv, UsersPartSurvives
<1> QED BY <1>8, <1>9 DEF KeptInv

\* Steps that change neither a file nor a copy.
LEMMA StepKept ==
    ASSUME FilesInv, KeptInv, NEW p \in Process, Backup(p) \/ Cleanup(p) \/ Abort(p)
    PROVE  KeptInv'
<1>1. UNCHANGED <<file, left, spoiled>> /\ fresh' \subseteq fresh
    BY DEF Backup, Cleanup, Abort, history
<1>2. process \in [Process -> Command \cup {Idle}] /\ fresh \subseteq {q \in Process : process[q] # Idle}
    BY DEF FilesInv, TypeOK, AnyContent
<1>3. \A q \in fresh' : process'[q].read = process[q].read /\ process'[q].op = process[q].op
    <2>1. CASE Backup(p)
        <3>1. process' = [process EXCEPT ![p].step = "backed up"] BY <2>1 DEF Backup
        <3> QED BY <1>1, <1>2, <3>1 DEF Command
    <2>2. CASE Cleanup(p) \/ Abort(p)
        <3>1. process' = [process EXCEPT ![p] = Idle] /\ fresh' = fresh \ {p}
            BY <2>2 DEF Cleanup, Abort
        <3> QED BY <1>2, <3>1
    <2> QED BY <2>1, <2>2
<1>4. \A q \in fresh' : path(q)' = path(q) BY <1>3 DEF path
<1>5. UsersPartSurvives' BY <1>1 DEF KeptInv, UsersPartSurvives
<1> QED BY <1>1, <1>3, <1>4, <1>5 DEF KeptInv

LEMMA ReplaceKept ==
    ASSUME FilesInv, KeptInv, NEW p \in Process, Replace(p)
    PROVE  KeptInv'
<1> DEFINE new == computed(process[p].op, process[p].read)
<1>1. /\ process \in [Process -> Command \cup {Idle}] /\ fresh \subseteq Process
      /\ process[p] \in Command /\ process[p].read \in Content(path(p))
    BY DEF FilesInv, TypeOK, AnyContent, Replace, At
<1>2. process[p].op \in Operation /\ path(p) \in Path /\ path(p) = path_of(process[p].op)
    BY <1>1 DEF Command, path, path_of, Path
<1>3. /\ file' = [file EXCEPT ![path(p)] = new] /\ file \in [Path -> AnyContent]
      /\ UNCHANGED <<left, fresh>>
      /\ spoiled' = IF p \in fresh THEN spoiled ELSE spoiled \cup {path(p)}
    BY DEF Replace, FilesInv, TypeOK, AnyContent
<1>4. process' = [process EXCEPT ![p].step = "replaced"] BY DEF Replace
<1>5. \A q \in fresh : process'[q].read = process[q].read /\ process'[q].op = process[q].op
    BY <1>1, <1>4 DEF Command
<1>6. \A q \in fresh : path(q)' = path(q) BY <1>5 DEF path
<1>7. p \in fresh /\ path(p) \notin spoiled => UsersPart(path(p), new) = left[path(p)]
    BY <1>1, <1>2, ComputedKeepsUsersPart DEF KeptInv
<1> HIDE DEF new
<1>8. UsersPartSurvives'
    <2> SUFFICES ASSUME NEW at \in Path \ spoiled' PROVE UsersPart(at, file'[at]) = left'[at]
        BY DEF UsersPartSurvives
    <2>1. CASE at = path(p) BY <1>2, <1>3, <1>7, <2>1
    <2>2. CASE at # path(p)
        <3>1. UsersPart(at, file[at]) = left[at] BY <1>3 DEF KeptInv, UsersPartSurvives
        <3>2. file'[at] = file[at] BY <1>3, <2>2
        <3> QED BY <1>3, <3>1, <3>2
    <2> QED BY <2>1, <2>2
<1>9. \A q \in fresh' : path(q)' \notin spoiled' =>
          /\ process'[q].read # Garbage
          /\ UsersPart(path(q)', process'[q].read) = left'[path(q)']
    BY <1>3, <1>5, <1>6 DEF KeptInv
<1> QED BY <1>8, <1>9 DEF KeptInv

LEMMA EditKept ==
    ASSUME FilesInv, KeptInv, NEW edit \in Edits, NEW at \in Path, UserEdit(edit, at)
    PROVE  KeptInv'
<1> DEFINE new == edited(edit, at)
<1>1. /\ file \in [Path -> AnyContent] /\ left = [b \in Path |-> left[b]]
    BY DEF FilesInv, TypeOK, AnyContent
<1>2. /\ file' = [file EXCEPT ![at] = new] /\ left' = [left EXCEPT ![at] = UsersPart(at, new)]
      /\ fresh' = {p \in fresh : path(p) # at} /\ spoiled' = spoiled \ {at}
      /\ process' = process
    BY DEF UserEdit
<1> HIDE DEF new
<1>3. /\ file'[at] = new /\ left'[at] = UsersPart(at, new)
      /\ \A b \in Path \ {at} : file'[b] = file[b] /\ left'[b] = left[b]
    BY <1>1, <1>2
<1>4. UsersPartSurvives'
    <2> SUFFICES ASSUME NEW b \in Path \ spoiled' PROVE UsersPart(b, file'[b]) = left'[b]
        BY DEF UsersPartSurvives
    <2>1. CASE b = at BY <1>3, <2>1
    <2>2. CASE b # at BY <1>2, <1>3, <2>2 DEF KeptInv, UsersPartSurvives
    <2> QED BY <2>1, <2>2
<1>5. ASSUME NEW p \in fresh', path(p)' \notin spoiled'
      PROVE  /\ process'[p].read # Garbage
             /\ UsersPart(path(p)', process'[p].read) = left'[path(p)']
    <2>1. p \in fresh /\ path(p)' = path(p) /\ path(p) # at /\ path(p) \notin spoiled
        BY <1>2, <1>5 DEF path
    <2>2. path(p) \in Path BY DEF path, path_of, Path
    <2> QED BY <1>2, <1>3, <2>1, <2>2 DEF KeptInv
<1> QED BY <1>4, <1>5 DEF KeptInv

LEMMA NextKept == FilesInv /\ KeptInv /\ [Next]_vars => KeptInv'
<1> SUFFICES ASSUME FilesInv, KeptInv, [Next]_vars PROVE KeptInv' OBVIOUS
<1>1. CASE UNCHANGED vars
    BY <1>1 DEF vars, history, KeptInv, UsersPartSurvives, path
<1>2. CASE Next BY <1>2, ReadKept, StepKept, ReplaceKept, EditKept DEF Next
<1> QED BY <1>1, <1>2

\* What the user last wrote is still in the file, however many commands work on it
\* at once and wherever they die, until one replaces it that had read it before,
\* or had read nothing.
THEOREM UsersPartIsKept == Spec => []UsersPartSurvives
<1>1. FilesInv /\ KeptInv => UsersPartSurvives BY DEF KeptInv
<1> QED BY <1>1, InitInv, KeptInit, NextKeeps, NextKept, PTL DEF Spec
=============================================================================
